------------------------ MODULE HttpConnectionManager ------------------------
(***************************************************************************)
(* HttpClientConnectionManager: a pool of connections, its acquisitions,   *)
(* the connections it vends, and its shutdown.                             *)
(*                                                                         *)
(* The manager is shared: user threads, the callback arguments of pending  *)
(* acquisitions, the local of a setup callback in progress and every       *)
(* vended ManagedConnection own a reference.  The thread that drops the    *)
(* last one runs the destructor, which releases the C manager and blocks   *)
(* on the shutdown promise unless InitiateShutdown() was called.  With     *)
(* EnableBlockingShutdown the C manager's shutdown callback sets that      *)
(* promise through a raw pointer to the manager.                           *)
(*                                                                         *)
(* The C manager is external: it answers acquisitions, never vends more    *)
(* than max_connections, and shuts down once released, with no connection  *)
(* vended and no acquisition pending.                                      *)
(***************************************************************************)
EXTENDS Naturals, FiniteSets

CONSTANTS
    UserThreads,        \* threads of the application
    EventLoop,          \* the thread the C manager calls back on
    Acquisitions,       \* calls of AcquireConnection
    NoAcquisition,      \* no setup callback is running
    MaxConnections      \* HttpClientConnectionManagerOptions::MaxConnections

ASSUME ManagerAssumption ==
    /\ UserThreads # {} /\ EventLoop \notin UserThreads
    /\ NoAcquisition \notin Acquisitions
    /\ MaxConnections \in Nat \ {0}

Threads == UserThreads \cup {EventLoop}

VARIABLES
    blocking,        \* EnableBlockingShutdown, never changed
    waits,           \* the user waits for the future before the last release
    manager,         \* "alive", then "freed"
    owners,          \* user threads that own a reference
    acquisition,     \* where each acquisition stands
    current,         \* the acquisition whose setup callback is running
    releaseInvoked,  \* m_releaseInvoked
    promise,         \* m_shutdownPromise is set
    pc,              \* progress of each thread through the destructor
    native,          \* the C manager
    answered         \* how often each acquisition's callback was invoked

optionVars == <<blocking, waits>>
vars == <<optionVars, manager, owners, acquisition, current, releaseInvoked, promise, pc, native, answered>>

TypeOK ==
    /\ blocking \in BOOLEAN
    /\ waits \in BOOLEAN
    /\ manager \in {"alive", "freed"}
    /\ owners \in SUBSET UserThreads
    /\ acquisition \in [Acquisitions -> {"unused", "pending", "failed", "vended", "returned"}]
    /\ current \in Acquisitions \cup {NoAcquisition}
    /\ current # NoAcquisition => acquisition[current] \notin {"unused", "pending"}
    /\ releaseInvoked \in BOOLEAN
    /\ promise \in BOOLEAN
    /\ pc \in [Threads -> {"idle", "destroy", "wait"}]
    /\ native \in {"alive", "released", "shutdown"}
    /\ answered \in [Acquisitions -> 0..2]

Init ==
    /\ blocking \in BOOLEAN
    /\ waits \in BOOLEAN
    /\ manager = "alive"
    /\ owners = UserThreads
    /\ acquisition = [a \in Acquisitions |-> "unused"]
    /\ current = NoAcquisition
    /\ releaseInvoked = FALSE
    /\ promise = ~blocking
    /\ pc = [t \in Threads |-> "idle"]
    /\ native = "alive"
    /\ answered = [a \in Acquisitions |-> 0]

InState(s) == {a \in Acquisitions : acquisition[a] = s}

\* Somebody owns a reference, given the owners and the acquisitions.
Referenced(o, acq, cur) ==
    \/ o # {}
    \/ \E a \in Acquisitions : acq[a] \in {"pending", "vended"}
    \/ cur # NoAcquisition

\* The thread that drops the last reference runs the destructor.
DestroyIfLast(t, o, acq, cur) ==
    pc' = [pc EXCEPT ![t] = IF Referenced(o, acq, cur) THEN @ ELSE "destroy"]

-----------------------------------------------------------------------------
(* User threads *)

\* The arguments own a reference until the setup callback deletes them.
AcquireConnection(t, a) ==
    /\ t \in owners /\ pc[t] = "idle"
    /\ native = "alive"
    /\ acquisition[a] = "unused"
    /\ acquisition' = [acquisition EXCEPT ![a] = "pending"]
    /\ UNCHANGED <<optionVars, manager, owners, current, releaseInvoked, promise, pc, native, answered>>

\* Mutant of InitiateShutdown: the promise is set when the shutdown begins.
ShutdownAnswersEarly(t) ==
    /\ t \in owners /\ pc[t] = "idle"
    /\ ~releaseInvoked
    /\ releaseInvoked' = TRUE
    /\ promise' = TRUE
    /\ native' = "released"
    /\ UNCHANGED <<optionVars, manager, owners, acquisition, current, pc, answered>>

InitiateShutdown(t) ==
    /\ t \in owners /\ pc[t] = "idle"
    /\ ~releaseInvoked
    /\ releaseInvoked' = TRUE
    /\ native' = "released"
    /\ UNCHANGED <<optionVars, manager, owners, acquisition, current, promise, pc, answered>>

\* "If this is set, you MUST call InitiateShutdown() before releasing your last
\* reference to the connection manager."
UserMayRelease(t) ==
    blocking /\ owners = {t} =>
        /\ releaseInvoked
        /\ waits => promise

ReleaseManager(t) ==
    /\ t \in owners /\ pc[t] = "idle"
    /\ UserMayRelease(t)
    /\ owners' = owners \ {t}
    /\ DestroyIfLast(t, owners \ {t}, acquisition, current)
    /\ UNCHANGED <<optionVars, manager, acquisition, current, releaseInvoked, promise, native, answered>>

\* ~ManagedConnection gives the connection back to the C manager, then drops its
\* reference.  On the event loop this happens inside a setup callback.
ReleaseConnection(t, a) ==
    /\ pc[t] = "idle"
    /\ t = EventLoop => current # NoAcquisition
    /\ acquisition[a] = "vended"
    /\ acquisition' = [acquisition EXCEPT ![a] = "returned"]
    /\ DestroyIfLast(t, owners, [acquisition EXCEPT ![a] = "returned"], current)
    /\ UNCHANGED <<optionVars, manager, owners, current, releaseInvoked, promise, native, answered>>

-----------------------------------------------------------------------------
(* ~HttpClientConnectionManager *)

\* Mutant of DestructorRelease: the event loop waits though shutdown was initiated.
DestructorWaitsOnLoop(t) ==
    /\ pc[t] = "destroy"
    /\ (~releaseInvoked \/ t = EventLoop)
    /\ native' = "released"
    /\ pc' = [pc EXCEPT ![t] = "wait"]
    /\ UNCHANGED <<optionVars, manager, owners, acquisition, current, releaseInvoked, promise, answered>>

DestructorRelease(t) ==
    /\ pc[t] = "destroy"
    /\ ~releaseInvoked
    /\ native' = "released"
    /\ pc' = [pc EXCEPT ![t] = "wait"]
    /\ UNCHANGED <<optionVars, manager, owners, acquisition, current, releaseInvoked, promise, answered>>

DestructorEnd(t) ==
    /\ \/ pc[t] = "destroy" /\ releaseInvoked
       \/ pc[t] = "wait" /\ promise
    /\ manager' = "freed"
    /\ pc' = [pc EXCEPT ![t] = "idle"]
    /\ UNCHANGED <<optionVars, owners, acquisition, current, releaseInvoked, promise, native, answered>>

-----------------------------------------------------------------------------
(* The event loop *)

LoopIdle == current = NoAcquisition /\ pc[EventLoop] = "idle"

\* s_onConnectionSetup: the arguments are deleted, a local keeps the manager, the
\* user's callback gets the connection or the error.
SetupSucceeds(a) ==
    /\ LoopIdle
    /\ native # "shutdown"
    /\ acquisition[a] = "pending"
    /\ Cardinality(InState("vended")) < MaxConnections
    /\ acquisition' = [acquisition EXCEPT ![a] = "vended"]
    /\ answered' = [answered EXCEPT ![a] = @ + 1]
    /\ current' = a
    /\ UNCHANGED <<optionVars, manager, owners, releaseInvoked, promise, pc, native>>

SetupFails(a) ==
    /\ LoopIdle
    /\ native # "shutdown"
    /\ acquisition[a] = "pending"
    /\ acquisition' = [acquisition EXCEPT ![a] = "failed"]
    /\ answered' = [answered EXCEPT ![a] = @ + 1]
    /\ current' = a
    /\ UNCHANGED <<optionVars, manager, owners, releaseInvoked, promise, pc, native>>

\* Mutant of SetupReturns: the local reference of the callback is not dropped.
SetupLeaksReference ==
    /\ current # NoAcquisition
    /\ pc[EventLoop] = "idle"
    /\ current' = NoAcquisition
    /\ UNCHANGED <<optionVars, manager, owners, acquisition, releaseInvoked, promise, pc, native, answered>>

SetupReturns ==
    /\ current # NoAcquisition
    /\ pc[EventLoop] = "idle"
    /\ current' = NoAcquisition
    /\ DestroyIfLast(EventLoop, owners, acquisition, NoAcquisition)
    /\ UNCHANGED <<optionVars, manager, owners, acquisition, releaseInvoked, promise, native, answered>>

\* s_shutdownCompleted, registered only with EnableBlockingShutdown.
ShutdownCompletes ==
    /\ LoopIdle
    /\ native = "released"
    /\ InState("pending") \cup InState("vended") = {}
    /\ native' = "shutdown"
    /\ promise' = TRUE
    /\ UNCHANGED <<optionVars, manager, owners, acquisition, current, releaseInvoked, pc, answered>>

LoopStep ==
    \/ \E a \in Acquisitions : SetupSucceeds(a) \/ SetupFails(a)
    \/ SetupReturns
    \/ ShutdownCompletes

DestructorStep(t) == DestructorRelease(t) \/ DestructorEnd(t)

Finished ==
    /\ ~Referenced(owners, acquisition, current)
    /\ \A t \in Threads : pc[t] = "idle"
    /\ UNCHANGED vars

Next ==
    \/ \E t \in UserThreads :
        \/ InitiateShutdown(t) \/ ReleaseManager(t)
        \/ \E a \in Acquisitions : AcquireConnection(t, a)
    \/ \E t \in Threads : DestructorStep(t) \/ \E a \in Acquisitions : ReleaseConnection(t, a)
    \/ LoopStep
    \/ Finished

Spec == Init /\ [][Next]_vars

\* The event loop runs unless it is blocked in the destructor, users give back
\* the connections they hold, destructors go on.
Fairness ==
    /\ WF_vars(LoopStep)
    /\ \A t \in Threads : WF_vars(DestructorStep(t))
    /\ \A t \in UserThreads, a \in Acquisitions : WF_vars(ReleaseConnection(t, a))

FairSpec == Spec /\ Fairness

-----------------------------------------------------------------------------
(* Properties *)

\* The destructor never blocks the event loop on a promise that only the event
\* loop can set: a user who calls InitiateShutdown() as told cannot deadlock it,
\* even when a setup callback drops the last reference.
EventLoopNotBlocked ==
    pc[EventLoop] = "wait" => promise

\* The shutdown callback sets the promise through a raw pointer.  For a user who
\* waits for the future of InitiateShutdown() the manager is there until it has run.
WaitedShutdownFindsManager ==
    blocking /\ waits /\ manager = "freed" => native = "shutdown"

\* Once nobody but the pool itself refers to the manager it goes away and the C
\* manager shuts down.
AbandonedManagerShutsDown ==
    owners = {} ~> (manager = "freed" /\ native = "shutdown")

=============================================================================
