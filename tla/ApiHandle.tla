------------------------------ MODULE ApiHandle ------------------------------
(***************************************************************************)
(* The static default event loop group, host resolver and client bootstrap *)
(* of ApiHandle: created on demand under one mutex each by any thread,     *)
(* released by ~ApiHandle, and torn down by the C library when the last    *)
(* reference to each is gone.                                              *)
(*                                                                         *)
(* Creating the bootstrap calls, with its mutex held, the functions that   *)
(* fetch the other two, in an order C++ leaves open; creating the resolver *)
(* fetches the event loop group.  Each thread is therefore a stack of      *)
(* calls, and a call that waits for a mutex may hold others.               *)
(*                                                                         *)
(* The C objects are external: the bootstrap keeps a reference to the      *)
(* resolver and the group, the resolver keeps one to the group, and each   *)
(* ends asynchronously when nothing refers to it.  As the class demands,   *)
(* nothing uses the library once ~ApiHandle has begun, except for C        *)
(* objects that still wind down.                                           *)
(***************************************************************************)
EXTENDS Naturals, Sequences

CONSTANTS
    UserThreads,        \* threads that ask for a default
    NoThread,
    BlockingShutdown    \* m_shutdownBehavior is Blocking

ASSUME ApiAssumption ==
    /\ NoThread \notin UserThreads
    /\ BlockingShutdown \in BOOLEAN

Objects == {"bootstrap", "resolver", "elg"}

\* What creating an object fetches first.
Needs == [x \in Objects |->
            CASE x = "bootstrap" -> {"elg", "resolver"}
              [] x = "resolver"  -> {"elg"}
              [] x = "elg"       -> {}]

VARIABLES
    stack,     \* the GetOrCreate calls each thread is in, innermost last
    fetched,   \* what the call for an object has fetched so far
    owner,     \* owner of the mutex of each object
    static,    \* the static pointer to each object is set
    created,   \* how often each object was created
    refs,      \* who refers to each C object
    native,    \* the life of each C object
    data,      \* the ClientBootstrapCallbackData
    main       \* progress of ~ApiHandle

callVars == <<stack, fetched, owner>>
objVars == <<static, created, refs, native, data>>
vars == <<callVars, objVars, main>>

TypeOK ==
    /\ \A t \in UserThreads : stack[t] \in Seq(Objects) /\ Len(stack[t]) <= 3
    /\ fetched \in [UserThreads -> [Objects -> SUBSET Objects]]
    /\ owner \in [Objects -> UserThreads \cup {NoThread}]
    /\ \A x \in Objects, t \in UserThreads :
          owner[x] = t => \E i \in 1..Len(stack[t]) : stack[t][i] = x
    /\ static \in [Objects -> BOOLEAN]
    /\ created \in [Objects -> 0..2]
    /\ refs \in [Objects -> SUBSET {"static", "client", "bootstrap", "resolver"}]
    /\ native \in [Objects -> {"none", "alive", "gone"}]
    /\ data \in {"none", "alive", "freed"}
    /\ main \in {"running", "releaseElg", "releaseResolver", "join", "cleanUp", "done"}

Init ==
    /\ stack = [t \in UserThreads |-> <<>>]
    /\ fetched = [t \in UserThreads |-> [x \in Objects |-> {}]]
    /\ owner = [x \in Objects |-> NoThread]
    /\ static = [x \in Objects |-> FALSE]
    /\ created = [x \in Objects |-> 0]
    /\ refs = [x \in Objects |-> {}]
    /\ native = [x \in Objects |-> "none"]
    /\ data = "none"
    /\ main = "running"

-----------------------------------------------------------------------------
(* GetOrCreateStaticDefaultClientBootstrap, ...EventLoopGroup, ...HostResolver *)

Depth(t) == Len(stack[t])
InCall(t, x) == Depth(t) > 0 /\ stack[t][Depth(t)] = x

Call(t, x) ==
    /\ main = "running"
    /\ stack[t] = <<>>
    /\ stack' = [stack EXCEPT ![t] = <<x>>]
    /\ fetched' = [fetched EXCEPT ![t] = [y \in Objects |-> {}]]
    /\ UNCHANGED <<owner, objVars, main>>

LockMutex(t, x) ==
    /\ InCall(t, x)
    /\ owner[x] = NoThread
    /\ owner' = [owner EXCEPT ![x] = t]
    /\ UNCHANGED <<stack, fetched, objVars, main>>

\* An argument of the constructor, with the mutex of x held.
Fetch(t, x, y) ==
    /\ InCall(t, x)
    /\ owner[x] = t /\ ~static[x]
    /\ y \in Needs[x] \ fetched[t][x]
    /\ stack' = [stack EXCEPT ![t] = Append(@, y)]
    /\ UNCHANGED <<fetched, owner, objVars, main>>

\* Mutant of Create: the static pointer is not looked at.
CreateAgain(t, x) ==
    /\ InCall(t, x)
    /\ owner[x] = t
    /\ fetched[t][x] = Needs[x]
    /\ static' = [static EXCEPT ![x] = TRUE]
    /\ created' = [created EXCEPT ![x] = @ + 1]
    /\ native' = [native EXCEPT ![x] = "alive"]
    /\ refs' = [y \in Objects |-> IF y = x THEN {"static"}
                                  ELSE IF y \in Needs[x] THEN refs[y] \cup {x} ELSE refs[y]]
    /\ data' = IF x = "bootstrap" THEN "alive" ELSE data
    /\ UNCHANGED <<callVars, main>>

Create(t, x) ==
    /\ InCall(t, x)
    /\ owner[x] = t /\ ~static[x]
    /\ fetched[t][x] = Needs[x]
    /\ static' = [static EXCEPT ![x] = TRUE]
    /\ created' = [created EXCEPT ![x] = @ + 1]
    /\ native' = [native EXCEPT ![x] = "alive"]
    /\ refs' = [y \in Objects |-> IF y = x THEN {"static"}
                                  ELSE IF y \in Needs[x] THEN refs[y] \cup {x} ELSE refs[y]]
    /\ data' = IF x = "bootstrap" THEN "alive" ELSE data
    /\ UNCHANGED <<callVars, main>>

\* Mutant of Return: the call begins again instead of returning.
ReturnRetries(t, x) ==
    /\ InCall(t, x)
    /\ owner[x] = t /\ static[x]
    /\ owner' = [owner EXCEPT ![x] = NoThread]
    /\ stack' = stack
    /\ fetched' = IF Depth(t) > 1
                     THEN [fetched EXCEPT ![t][stack[t][Depth(t) - 1]] = @ \cup {x}]
                     ELSE fetched
    /\ UNCHANGED <<objVars, main>>

Return(t, x) ==
    /\ InCall(t, x)
    /\ owner[x] = t /\ static[x]
    /\ owner' = [owner EXCEPT ![x] = NoThread]
    /\ stack' = [stack EXCEPT ![t] = SubSeq(@, 1, Len(@) - 1)]
    /\ fetched' = IF Depth(t) > 1
                     THEN [fetched EXCEPT ![t][stack[t][Depth(t) - 1]] = @ \cup {x}]
                     ELSE fetched
    /\ UNCHANGED <<objVars, main>>

CallStep(t) ==
    \E x \in Objects :
        \/ LockMutex(t, x) \/ Create(t, x) \/ Return(t, x)
        \/ \E y \in Objects : Fetch(t, x, y)

-----------------------------------------------------------------------------
(* A client built on the default bootstrap keeps a C reference to it. *)

UseBootstrap ==
    /\ main = "running"
    /\ static["bootstrap"]
    /\ refs' = [refs EXCEPT !["bootstrap"] = @ \cup {"client"}]
    /\ UNCHANGED <<callVars, static, created, native, data, main>>

\* Its asynchronous shutdown may still be under way when ~ApiHandle runs.
ClientEnds ==
    /\ "client" \in refs["bootstrap"]
    /\ refs' = [refs EXCEPT !["bootstrap"] = @ \ {"client"}]
    /\ UNCHANGED <<callVars, static, created, native, data, main>>

-----------------------------------------------------------------------------
(* ~ApiHandle *)

ReleaseStatic(x) ==
    /\ owner[x] = NoThread
    /\ static' = [static EXCEPT ![x] = FALSE]
    /\ refs' = [refs EXCEPT ![x] = @ \ {"static"}]

ReleaseStaticDefaultClientBootstrap ==
    /\ main = "running"
    /\ \A t \in UserThreads : stack[t] = <<>>
    /\ ReleaseStatic("bootstrap")
    /\ main' = "releaseElg"
    /\ UNCHANGED <<callVars, created, native, data>>

ReleaseStaticDefaultEventLoopGroup ==
    /\ main = "releaseElg"
    /\ ReleaseStatic("elg")
    /\ main' = "releaseResolver"
    /\ UNCHANGED <<callVars, created, native, data>>

\* Mutant of ReleaseStaticDefaultHostResolver: the managed threads are not joined.
ReleaseWithoutJoin ==
    /\ main = "releaseResolver"
    /\ ReleaseStatic("resolver")
    /\ main' = "cleanUp"
    /\ UNCHANGED <<callVars, created, native, data>>

ReleaseStaticDefaultHostResolver ==
    /\ main = "releaseResolver"
    /\ ReleaseStatic("resolver")
    /\ main' = IF BlockingShutdown THEN "join" ELSE "cleanUp"
    /\ UNCHANGED <<callVars, created, native, data>>

\* aws_thread_join_all_managed waits for the threads of the loops.
JoinAllManaged ==
    /\ main = "join"
    /\ native["elg"] # "alive"
    /\ main' = "cleanUp"
    /\ UNCHANGED <<callVars, objVars>>

\* g_allocator is cleared and the C libraries are cleaned up.
CleanUp ==
    /\ main = "cleanUp"
    /\ main' = "done"
    /\ UNCHANGED <<callVars, objVars>>

DestructorStep ==
    \/ ReleaseStaticDefaultEventLoopGroup \/ ReleaseStaticDefaultHostResolver
    \/ JoinAllManaged \/ CleanUp

-----------------------------------------------------------------------------
(* The C library: an object nobody refers to ends and lets go of others. *)

\* Mutant of Ends: an object that nobody refers to does not end.
NeverEnds(x) ==
    /\ native[x] = "alive" /\ refs[x] = {}
    /\ native' = native
    /\ refs' = refs

Ends(x) ==
    /\ native[x] = "alive" /\ refs[x] = {}
    /\ native' = [native EXCEPT ![x] = "gone"]
    /\ refs' = [y \in Objects |-> refs[y] \ {x}]

\* OnShutdownComplete: sets the promise, runs the callback, deletes the data.
BootstrapShutdown ==
    /\ Ends("bootstrap")
    /\ data' = "freed"
    /\ UNCHANGED <<callVars, static, created, main>>

OtherShutdown(x) ==
    /\ Ends(x)
    /\ UNCHANGED <<callVars, static, created, data, main>>

NativeStep == BootstrapShutdown \/ OtherShutdown("resolver") \/ OtherShutdown("elg")

Finished ==
    /\ main = "done"
    /\ UNCHANGED vars

Next ==
    \/ \E t \in UserThreads : CallStep(t) \/ \E x \in Objects : Call(t, x)
    \/ UseBootstrap \/ ClientEnds
    \/ ReleaseStaticDefaultClientBootstrap
    \/ DestructorStep
    \/ NativeStep
    \/ Finished

\* A thread inside a call goes on (std::mutex is not starvation free, but few
\* threads contend and each fetches the objects once), the C objects end, the
\* destructor goes on, and clients end.
Fairness ==
    /\ \A t \in UserThreads : SF_vars(CallStep(t))
    /\ WF_vars(NativeStep)
    /\ WF_vars(DestructorStep)
    /\ WF_vars(ClientEnds)

Spec == Init /\ [][Next]_vars

FairSpec == Spec /\ Fairness

-----------------------------------------------------------------------------
(* Properties *)

\* Racing threads share one object of each kind, and a static pointer, or the
\* reference of another C object, is to a live one.
DefaultsAreShared ==
    \A x \in Objects :
        /\ created[x] <= 1
        /\ static[x] \/ refs[x] # {} => native[x] = "alive"

\* With the blocking shutdown no thread of an event loop runs any more when the
\* allocator is cleared and the C libraries are cleaned up, however the three
\* releases interleave with the objects' own shutdown, and the data of the
\* bootstrap's shutdown callback is gone.
ThreadsJoinedBeforeCleanUp ==
    BlockingShutdown /\ main \in {"cleanUp", "done"} =>
        /\ \A x \in Objects : native[x] # "alive"
        /\ data # "alive"

\* The mutexes are taken in one order, so that no two threads wait for each other and none
\* waits for the std::mutex it owns itself: a call is nested only in calls for objects that
\* need what it fetches, and a thread owns a mutex only inside the call that took it.
MutexesAreOrdered ==
    \A t \in UserThreads :
        /\ \A i, j \in 1..Depth(t) : i < j => stack[t][j] \in Needs[stack[t][i]]
        /\ \A x \in Objects : owner[x] = t => \E i \in 1..Depth(t) : stack[t][i] = x

\* Every call for a default returns.
CallsReturn == \A t \in UserThreads : stack[t] # <<>> ~> stack[t] = <<>>

\* ~ApiHandle returns once it has begun.
DestructorReturns == main # "running" ~> main = "done"

=============================================================================
