--------------------------- MODULE ServicesProofs ---------------------------
(***************************************************************************)
(* The safety properties of the static defaults, of asynchronous queries   *)
(* and of channel handlers, for any number of threads, queries and tasks.  *)
(*                                                                         *)
(* Each has its inductive invariant, shown for the component on its own;   *)
(* the last part carries the results over to Services.                     *)
(***************************************************************************)
EXTENDS Services, SequenceTheorems, TLAPS

-----------------------------------------------------------------------------
(* The static defaults                                                     *)
(*                                                                         *)
(* DefaultsAreShared is not inductive: it does not say that what a call    *)
(* has fetched is still there when the constructor uses it.  That follows  *)
(* because ~ApiHandle begins when no call is in progress, so that until    *)
(* then nothing that was created loses its static pointer.  Afterwards     *)
(* nothing is created, and each C object keeps what it was made from.      *)

ApiTypes ==
    /\ fetched \in [UserThreads -> [Objects -> SUBSET Objects]]
    /\ static \in [Objects -> BOOLEAN]
    /\ created \in [Objects -> {0, 1}]
    /\ refs \in [Objects -> SUBSET {"static", "client", "bootstrap", "resolver"}]
    /\ native \in [Objects -> {"none", "alive", "gone"}]
    /\ data \in {"none", "alive", "freed"}
    /\ main \in {"running", "releaseElg", "releaseResolver", "join", "cleanUp", "done"}

\* Until ~ApiHandle begins an object has its static pointer from its creation on, and what
\* a call has fetched was created.
RunningInv ==
    main = "running" =>
        /\ \A x \in Objects :
              /\ static[x] => created[x] = 1 /\ native[x] = "alive"
              /\ ~static[x] => created[x] = 0 /\ native[x] = "none"
        /\ \A t \in UserThreads, x \in Objects : \A y \in fetched[t][x] : static[y]

\* ~ApiHandle begins when no call is in progress, and releases the three in its order.
ReleasedInv ==
    /\ main # "running" => ~static["bootstrap"] /\ \A t \in UserThreads : stack[t] = <<>>
    /\ main \in {"releaseResolver", "join", "cleanUp", "done"} => ~static["elg"]
    /\ main \in {"join", "cleanUp", "done"} => ~static["resolver"]

\* Who refers to whom: a C object keeps what it was made from until it ends.
KeepInv ==
    /\ \A x \in Objects : "static" \in refs[x] <=> static[x]
    /\ \A x \in Objects : "client" \in refs[x] => x = "bootstrap"
    /\ \A x \in Objects : refs[x] # {} => native[x] = "alive"
    /\ \A x, y \in Objects : x \in refs[y] <=> y \in Needs[x] /\ native[x] = "alive"
    /\ data = "alive" => native["bootstrap"] = "alive"

ApiIInv == ApiTypes /\ RunningInv /\ ReleasedInv /\ KeepInv /\ ThreadsJoinedBeforeCleanUp

\* The objects a constructor needs, spelled out.
LEMMA NeedsValues ==
  /\ Needs["bootstrap"] = {"elg", "resolver"}
  /\ Needs["resolver"] = {"elg"}
  /\ Needs["elg"] = {}
BY Zenon DEF Needs, Objects

\* What an object needs, an object that needs it needs as well: the order of the mutexes.
LEMMA NeedsIsTransitive ==
  ASSUME NEW x \in Objects, NEW y \in Needs[x]
  PROVE  y \in Objects /\ y # x /\ Needs[y] \subseteq Needs[x]
BY NeedsValues, Zenon DEF Objects

\* There are no defaults before the first call.
LEMMA ApiInitIInv ==
  ASSUME Init
  PROVE  ApiIInv
<1> USE DEF Init
<1>1. ApiTypes
  BY Zenon DEF ApiTypes
<1>2. RunningInv /\ ReleasedInv /\ ThreadsJoinedBeforeCleanUp
  BY Zenon DEF RunningInv, ReleasedInv, ThreadsJoinedBeforeCleanUp, Objects
<1>3. KeepInv
  BY Zenon DEF KeepInv, Objects
<1> QED
  BY <1>1, <1>2, <1>3, Zenon DEF ApiIInv

\* Whoever is inside a call is there before ~ApiHandle begins.
LEMMA CallsWhileRunning ==
  ASSUME ApiIInv, NEW t \in UserThreads, NEW x \in Objects, InCall(t, x)
  PROVE  main = "running"
BY DEF ApiIInv, ReleasedInv, InCall, Depth

\* Every step of a call, of ~ApiHandle and of the C objects preserves ApiIInv.
LEMMA ApiNextIInv ==
  ASSUME ApiIInv, [Next]_vars
  PROVE  ApiIInv'
<1> USE DEF ApiIInv, callVars, objVars
<1>1. ASSUME NEW t \in UserThreads, NEW x \in Objects, LockMutex(t, x)
      PROVE  ApiIInv'
  <2> USE <1>1 DEF LockMutex
  <2>0. main = "running"
    BY CallsWhileRunning, Zenon
  <2>1. ApiTypes'
    BY <2>0, Zenon DEF ApiTypes, RunningInv, Objects
  <2>2. RunningInv'
    BY <2>0 DEF ApiTypes, RunningInv, KeepInv, Objects
  <2>3. ReleasedInv'
    BY <2>0, Zenon DEF ApiTypes, ReleasedInv, Objects
  <2>4. KeepInv'
    BY <2>0, NeedsValues DEF ApiTypes, RunningInv, KeepInv, Objects
  <2>5. ThreadsJoinedBeforeCleanUp'
    BY <2>0, NeedsValues, ApiAssumption, Zenon DEF ApiTypes, RunningInv, KeepInv,
       ThreadsJoinedBeforeCleanUp, Objects
  <2> QED
    BY <2>1, <2>2, <2>3, <2>4, <2>5, Zenon
<1>2. ASSUME NEW t \in UserThreads, NEW x \in Objects, Create(t, x)
      PROVE  ApiIInv'
  <2> USE <1>2 DEF Create
  <2>0. main = "running"
    BY CallsWhileRunning, Zenon
  <2>1. ApiTypes'
    <3>1. static' \in [Objects -> BOOLEAN] /\ native' \in [Objects -> {"none", "alive", "gone"}]
      BY Zenon DEF ApiTypes
    <3>2. created' \in [Objects -> {0, 1}]
      BY <2>0 DEF ApiTypes, RunningInv
    <3>3. refs' \in [Objects -> SUBSET {"static", "client", "bootstrap", "resolver"}]
      BY NeedsValues DEF ApiTypes, Objects
    <3> QED
      BY <3>1, <3>2, <3>3, Zenon DEF ApiTypes
  <2>2. RunningInv'
    BY <2>0 DEF ApiTypes, RunningInv, KeepInv, Objects
  <2>3. ReleasedInv'
    BY <2>0, Zenon DEF ApiTypes, ReleasedInv, Objects
  <2>4. KeepInv'
    BY <2>0, NeedsValues DEF ApiTypes, RunningInv, KeepInv, Objects
  <2>5. ThreadsJoinedBeforeCleanUp'
    BY <2>0, NeedsValues, ApiAssumption, Zenon DEF ApiTypes, RunningInv, KeepInv,
       ThreadsJoinedBeforeCleanUp, Objects
  <2> QED
    BY <2>1, <2>2, <2>3, <2>4, <2>5, Zenon
<1>3. ASSUME NEW t \in UserThreads, NEW x \in Objects, Return(t, x)
      PROVE  ApiIInv'
  <2> USE <1>3 DEF Return
  <2>0. main = "running"
    BY CallsWhileRunning, Zenon
  <2>1. ApiTypes'
    <3>1. CASE Depth(t) > 1
      <4> DEFINE outer == stack[t][Depth(t) - 1]
                 f == [fetched[t] EXCEPT ![outer] = @ \cup {x}]
      <4>1. fetched' = [fetched EXCEPT ![t] = f]
        BY <3>1, Zenon
      <4>2. fetched[t] \in [Objects -> SUBSET Objects]
        BY Zenon DEF ApiTypes
      <4> HIDE DEF outer
      <4>3. \A g \in [Objects -> SUBSET Objects] :
              [g EXCEPT ![outer] = @ \cup {x}] \in [Objects -> SUBSET Objects]
        BY Zenon
      <4>4. f \in [Objects -> SUBSET Objects]
        BY <4>2, <4>3, Zenon
      <4> HIDE DEF f
      <4>5. fetched' \in [UserThreads -> [Objects -> SUBSET Objects]]
        BY <4>1, <4>4, ZenonT(60) DEF ApiTypes
      <4> QED
        BY <4>5, Zenon DEF ApiTypes
    <3>2. CASE ~(Depth(t) > 1)
      BY <3>2, Zenon DEF ApiTypes
    <3> QED
      BY <3>1, <3>2, Zenon
  <2>2. RunningInv'
    BY <2>0 DEF ApiTypes, RunningInv, KeepInv, Objects
  <2>3. ReleasedInv'
    BY <2>0, Zenon DEF ApiTypes, ReleasedInv, Objects
  <2>4. KeepInv'
    BY <2>0, NeedsValues DEF ApiTypes, RunningInv, KeepInv, Objects
  <2>5. ThreadsJoinedBeforeCleanUp'
    BY <2>0, NeedsValues, ApiAssumption, Zenon DEF ApiTypes, RunningInv, KeepInv,
       ThreadsJoinedBeforeCleanUp, Objects
  <2> QED
    BY <2>1, <2>2, <2>3, <2>4, <2>5, Zenon
<1>4. ASSUME NEW t \in UserThreads, NEW x \in Objects, NEW y \in Objects, Fetch(t, x, y)
      PROVE  ApiIInv'
  <2> USE <1>4 DEF Fetch
  <2>0. main = "running"
    BY CallsWhileRunning, Zenon
  <2>1. ApiTypes'
    BY <2>0, Zenon DEF ApiTypes, RunningInv, Objects
  <2>2. RunningInv'
    BY <2>0 DEF ApiTypes, RunningInv, KeepInv, Objects
  <2>3. ReleasedInv'
    BY <2>0, Zenon DEF ApiTypes, ReleasedInv, Objects
  <2>4. KeepInv'
    BY <2>0, NeedsValues DEF ApiTypes, RunningInv, KeepInv, Objects
  <2>5. ThreadsJoinedBeforeCleanUp'
    BY <2>0, NeedsValues, ApiAssumption, Zenon DEF ApiTypes, RunningInv, KeepInv,
       ThreadsJoinedBeforeCleanUp, Objects
  <2> QED
    BY <2>1, <2>2, <2>3, <2>4, <2>5, Zenon
<1>5. ASSUME NEW t \in UserThreads, NEW x \in Objects, Call(t, x)
      PROVE  ApiIInv'
  <2> USE <1>5 DEF Call
  <2>1. ApiTypes'
    BY Zenon DEF ApiTypes, RunningInv, Objects
  <2>2. RunningInv'
    BY DEF ApiTypes, RunningInv, KeepInv, Objects
  <2>3. ReleasedInv'
    BY Zenon DEF ApiTypes, ReleasedInv, Objects
  <2>4. KeepInv'
    BY NeedsValues DEF ApiTypes, RunningInv, KeepInv, Objects
  <2>5. ThreadsJoinedBeforeCleanUp'
    BY NeedsValues, ApiAssumption, Zenon DEF ApiTypes, RunningInv, KeepInv,
       ThreadsJoinedBeforeCleanUp, Objects
  <2> QED
    BY <2>1, <2>2, <2>3, <2>4, <2>5, Zenon
<1>6. ASSUME UseBootstrap
      PROVE  ApiIInv'
  <2> USE <1>6 DEF UseBootstrap
  <2>1. ApiTypes'
    BY Zenon DEF ApiTypes, RunningInv, Objects
  <2>2. RunningInv'
    BY DEF ApiTypes, RunningInv, KeepInv, Objects
  <2>3. ReleasedInv'
    BY Zenon DEF ApiTypes, ReleasedInv, Objects
  <2>4. KeepInv'
    BY NeedsValues DEF ApiTypes, RunningInv, KeepInv, Objects
  <2>5. ThreadsJoinedBeforeCleanUp'
    BY NeedsValues, ApiAssumption, Zenon DEF ApiTypes, RunningInv, KeepInv,
       ThreadsJoinedBeforeCleanUp, Objects
  <2> QED
    BY <2>1, <2>2, <2>3, <2>4, <2>5, Zenon
<1>7. ASSUME ClientEnds
      PROVE  ApiIInv'
  <2> USE <1>7 DEF ClientEnds
  <2>1. ApiTypes'
    BY Zenon DEF ApiTypes, RunningInv, Objects
  <2>2. RunningInv'
    BY DEF ApiTypes, RunningInv, KeepInv, Objects
  <2>3. ReleasedInv'
    BY Zenon DEF ApiTypes, ReleasedInv, Objects
  <2>4. KeepInv'
    BY NeedsValues DEF ApiTypes, RunningInv, KeepInv, Objects
  <2>5. ThreadsJoinedBeforeCleanUp'
    BY NeedsValues, ApiAssumption, Zenon DEF ApiTypes, RunningInv, KeepInv,
       ThreadsJoinedBeforeCleanUp, Objects
  <2> QED
    BY <2>1, <2>2, <2>3, <2>4, <2>5, Zenon
<1>8. ASSUME ReleaseStaticDefaultClientBootstrap
      PROVE  ApiIInv'
  <2> USE <1>8 DEF ReleaseStaticDefaultClientBootstrap, ReleaseStatic
  <2>1. ApiTypes'
    BY Zenon DEF ApiTypes, RunningInv, Objects
  <2>2. RunningInv'
    BY Zenon DEF ApiTypes, RunningInv, KeepInv, Objects
  <2>3. ReleasedInv'
    BY Zenon DEF ApiTypes, ReleasedInv, Objects
  <2>4. KeepInv'
    BY NeedsValues DEF ApiTypes, RunningInv, KeepInv, Objects
  <2>5. ThreadsJoinedBeforeCleanUp'
    BY NeedsValues, ApiAssumption, Zenon DEF ApiTypes, RunningInv, KeepInv,
       ThreadsJoinedBeforeCleanUp, Objects
  <2> QED
    BY <2>1, <2>2, <2>3, <2>4, <2>5, Zenon
<1>9. ASSUME ReleaseStaticDefaultEventLoopGroup
      PROVE  ApiIInv'
  <2> USE <1>9 DEF ReleaseStaticDefaultEventLoopGroup, ReleaseStatic
  <2>1. ApiTypes'
    BY Zenon DEF ApiTypes, RunningInv, Objects
  <2>2. RunningInv'
    BY Zenon DEF ApiTypes, RunningInv, KeepInv, Objects
  <2>3. ReleasedInv'
    BY Zenon DEF ApiTypes, ReleasedInv, Objects
  <2>4. KeepInv'
    BY NeedsValues DEF ApiTypes, RunningInv, KeepInv, Objects
  <2>5. ThreadsJoinedBeforeCleanUp'
    BY NeedsValues, ApiAssumption, Zenon DEF ApiTypes, RunningInv, KeepInv,
       ThreadsJoinedBeforeCleanUp, Objects
  <2> QED
    BY <2>1, <2>2, <2>3, <2>4, <2>5, Zenon
<1>10. ASSUME ReleaseStaticDefaultHostResolver
       PROVE  ApiIInv'
  <2> USE <1>10 DEF ReleaseStaticDefaultHostResolver, ReleaseStatic
  <2>1. ApiTypes'
    BY Zenon DEF ApiTypes, RunningInv, Objects
  <2>2. RunningInv'
    BY Zenon DEF ApiTypes, RunningInv, KeepInv, Objects
  <2>3. ReleasedInv'
    BY Zenon DEF ApiTypes, ReleasedInv, Objects
  <2>4. KeepInv'
    BY NeedsValues DEF ApiTypes, RunningInv, KeepInv, Objects
  <2>5. ThreadsJoinedBeforeCleanUp'
    BY NeedsValues, ApiAssumption, Zenon DEF ApiTypes, RunningInv, KeepInv,
       ThreadsJoinedBeforeCleanUp, Objects
  <2> QED
    BY <2>1, <2>2, <2>3, <2>4, <2>5, Zenon
<1>11. ASSUME JoinAllManaged
       PROVE  ApiIInv'
  <2> USE <1>11 DEF JoinAllManaged
  <2>1. ApiTypes'
    BY Zenon DEF ApiTypes, RunningInv, Objects
  <2>2. RunningInv'
    BY Zenon DEF ApiTypes, RunningInv, KeepInv, Objects
  <2>3. ReleasedInv'
    BY Zenon DEF ApiTypes, ReleasedInv, Objects
  <2>4. KeepInv'
    BY NeedsValues DEF ApiTypes, RunningInv, KeepInv, Objects
  <2>5. ThreadsJoinedBeforeCleanUp'
    BY NeedsValues, ApiAssumption, Zenon DEF ApiTypes, RunningInv, KeepInv,
       ThreadsJoinedBeforeCleanUp, Objects
  <2> QED
    BY <2>1, <2>2, <2>3, <2>4, <2>5, Zenon
<1>12. ASSUME CleanUp
       PROVE  ApiIInv'
  <2> USE <1>12 DEF CleanUp
  <2>1. ApiTypes'
    BY Zenon DEF ApiTypes, RunningInv, Objects
  <2>2. RunningInv'
    BY Zenon DEF ApiTypes, RunningInv, KeepInv, Objects
  <2>3. ReleasedInv'
    BY Zenon DEF ApiTypes, ReleasedInv, Objects
  <2>4. KeepInv'
    BY NeedsValues DEF ApiTypes, RunningInv, KeepInv, Objects
  <2>5. ThreadsJoinedBeforeCleanUp'
    BY NeedsValues, ApiAssumption, Zenon DEF ApiTypes, RunningInv, KeepInv,
       ThreadsJoinedBeforeCleanUp, Objects
  <2> QED
    BY <2>1, <2>2, <2>3, <2>4, <2>5, Zenon
<1>13. ASSUME BootstrapShutdown
       PROVE  ApiIInv'
  <2> USE <1>13 DEF BootstrapShutdown, Ends
  <2>1. ApiTypes'
    BY Zenon DEF ApiTypes, RunningInv, Objects
  <2>2. RunningInv'
    BY Zenon DEF ApiTypes, RunningInv, KeepInv, Objects
  <2>3. ReleasedInv'
    BY Zenon DEF ApiTypes, ReleasedInv, Objects
  <2>4. KeepInv'
    BY NeedsValues DEF ApiTypes, RunningInv, KeepInv, Objects
  <2>5. ThreadsJoinedBeforeCleanUp'
    BY NeedsValues, ApiAssumption, Zenon DEF ApiTypes, RunningInv, KeepInv,
       ThreadsJoinedBeforeCleanUp, Objects
  <2> QED
    BY <2>1, <2>2, <2>3, <2>4, <2>5, Zenon
<1>14. ASSUME NEW x \in {"resolver", "elg"}, OtherShutdown(x)
       PROVE  ApiIInv'
  <2> USE <1>14 DEF OtherShutdown, Ends
  <2>1. ApiTypes'
    BY Zenon DEF ApiTypes, RunningInv, Objects
  <2>2. RunningInv'
    BY Zenon DEF ApiTypes, RunningInv, KeepInv, Objects
  <2>3. ReleasedInv'
    BY Zenon DEF ApiTypes, ReleasedInv, Objects
  <2>4. KeepInv'
    BY NeedsValues DEF ApiTypes, RunningInv, KeepInv, Objects
  <2>5. ThreadsJoinedBeforeCleanUp'
    BY NeedsValues, ApiAssumption, Zenon DEF ApiTypes, RunningInv, KeepInv,
       ThreadsJoinedBeforeCleanUp, Objects
  <2> QED
    BY <2>1, <2>2, <2>3, <2>4, <2>5, Zenon
<1>15. ASSUME UNCHANGED vars
       PROVE  ApiIInv'
  BY <1>15 DEF vars, ApiTypes, RunningInv, ReleasedInv, KeepInv, ThreadsJoinedBeforeCleanUp
<1> QED
  BY <1>1, <1>2, <1>3, <1>4, <1>5, <1>6, <1>7, <1>8, <1>9, <1>10, <1>11, <1>12, <1>13, <1>14,
     <1>15, Zenon DEF Next, CallStep, DestructorStep, NativeStep, Finished, Objects

\* A thread owns mutexes only in the order in which constructors need each other's results.
OrderIInv ==
    /\ stack \in [UserThreads -> Seq(Objects)]
    /\ owner \in [Objects -> UserThreads \cup {NoThread}]
    /\ MutexesAreOrdered

\* The indices of a sequence that was extended.
LEMMA UpToSucc ==
  ASSUME NEW n \in Nat, NEW j \in 1..(n + 1)
  PROVE  j = n + 1 \/ j \in 1..n
OBVIOUS

\* Nobody is in a call at the start.
LEMMA OrderInit ==
  ASSUME Init
  PROVE  OrderIInv
<1>1. \A t \in UserThreads : Len(stack[t]) = 0
  BY Zenon DEF Init
<1>2. \A x \in Objects : owner[x] \notin UserThreads
  BY ApiAssumption, Zenon DEF Init
<1>3. MutexesAreOrdered
  <2>1. 1..0 = {}
    OBVIOUS
  <2> QED
    BY <1>1, <1>2, <2>1, Zenon DEF MutexesAreOrdered, Depth
<1>4. /\ stack \in [UserThreads -> Seq(Objects)]
      /\ owner \in [Objects -> UserThreads \cup {NoThread}]
  BY SMTT(60) DEF Init
<1> QED
  BY <1>3, <1>4, Zenon DEF OrderIInv

\* Fetch nests a call that the outer one needs; Return gives the mutex up with its call.
LEMMA OrderStep ==
  ASSUME OrderIInv, [Next]_vars
  PROVE  OrderIInv'
<1> USE ApiAssumption DEF OrderIInv, callVars, objVars, Depth
<1>1. ASSUME NEW t \in UserThreads, NEW x \in Objects, Call(t, x)
      PROVE  OrderIInv'
  <2>1. stack' = [stack EXCEPT ![t] = <<x>>] /\ owner' = owner /\ Len(stack[t]) = 0
    BY <1>1, Zenon DEF Call
  <2>2. stack' \in [UserThreads -> Seq(Objects)]
    BY <2>1
  <2>3. ASSUME NEW u \in UserThreads
        PROVE  /\ \A i, j \in 1..Len(stack'[u]) : i < j => stack'[u][j] \in Needs[stack'[u][i]]
               /\ \A z \in Objects : owner'[z] = u =>
                    \E i \in 1..Len(stack'[u]) : stack'[u][i] = z
    <3>1. CASE u = t
      BY <2>1, <3>1 DEF MutexesAreOrdered
    <3>2. CASE u # t
      BY <2>1, <3>2 DEF MutexesAreOrdered
    <3> QED
      BY <3>1, <3>2, Zenon
  <2> QED
    BY <2>1, <2>2, <2>3, Zenon DEF MutexesAreOrdered
<1>2. ASSUME NEW t \in UserThreads, NEW x \in Objects, LockMutex(t, x)
      PROVE  OrderIInv'
  <2>1. stack' = stack /\ owner' = [owner EXCEPT ![x] = t] /\ owner[x] = NoThread
    BY <1>2, Zenon DEF LockMutex
  <2>2. Len(stack[t]) \in Nat /\ Len(stack[t]) > 0 /\ stack[t][Len(stack[t])] = x
    BY <1>2 DEF LockMutex, InCall
  <2>3. Len(stack[t]) \in 1..Len(stack[t])
    BY <2>2
  <2> QED
    BY <2>1, <2>2, <2>3 DEF MutexesAreOrdered
<1>3. ASSUME NEW t \in UserThreads, NEW x \in Objects, NEW y \in Objects, Fetch(t, x, y)
      PROVE  OrderIInv'
  <2> DEFINE n == Len(stack[t])
  <2>1. stack' = [stack EXCEPT ![t] = Append(stack[t], y)] /\ owner' = owner
    BY <1>3, Zenon DEF Fetch
  <2>2. n \in Nat /\ n > 0 /\ stack[t][n] = x /\ y \in Needs[x]
    BY <1>3 DEF Fetch, InCall
  <2>3. /\ stack'[t] \in Seq(Objects) /\ Len(stack'[t]) = n + 1
        /\ stack'[t][n + 1] = y
        /\ \A i \in 1..n : stack'[t][i] = stack[t][i]
    BY <2>1
  <2>4. \A i \in 1..n : stack[t][i] \in Objects
    OBVIOUS
  <2>5. \A i \in 1..n : y \in Needs[stack[t][i]]
    <3> SUFFICES ASSUME NEW i \in 1..n
                 PROVE  y \in Needs[stack[t][i]]
      BY Zenon
    <3>1. CASE i = n
      BY <2>2, <3>1, Zenon
    <3>2. CASE i < n
      <4>1. x \in Needs[stack[t][i]]
        BY <2>2, <3>2 DEF MutexesAreOrdered
      <4> QED
        BY <2>2, <2>4, <4>1, NeedsIsTransitive, Zenon
    <3> QED
      BY <2>2, <3>1, <3>2
  <2>6. \A i, j \in 1..Len(stack'[t]) : i < j => stack'[t][j] \in Needs[stack'[t][i]]
    <3> SUFFICES ASSUME NEW i \in 1..(n + 1), NEW j \in 1..(n + 1), i < j
                 PROVE  stack'[t][j] \in Needs[stack'[t][i]]
      BY <2>3, Zenon
    <3>1. i \in 1..n
      BY <2>2
    <3>2. CASE j = n + 1
      BY <2>3, <2>5, <3>1, <3>2, Zenon
    <3>3. CASE j \in 1..n
      BY <2>3, <3>1, <3>3, Zenon DEF MutexesAreOrdered
    <3> QED
      BY <2>2, <3>2, <3>3, UpToSucc, ZenonT(60)
  <2>7. \A z \in Objects : owner'[z] = t => \E i \in 1..Len(stack'[t]) : stack'[t][i] = z
    <3> SUFFICES ASSUME NEW z \in Objects, owner[z] = t
                 PROVE  \E i \in 1..(n + 1) : stack'[t][i] = z
      BY <2>1, <2>3, Zenon
    <3>1. PICK i \in 1..n : stack[t][i] = z
      BY Zenon DEF MutexesAreOrdered
    <3>2. i \in 1..(n + 1) /\ stack'[t][i] = z
      BY <2>2, <2>3, <3>1
    <3> QED
      BY <3>2, Zenon
  <2>8. \A u \in UserThreads : u # t => stack'[u] = stack[u]
    BY <2>1, Zenon
  <2>9. stack' \in [UserThreads -> Seq(Objects)]
    BY <2>1, <2>3, Zenon
  <2> QED
    BY <2>1, <2>6, <2>7, <2>8, <2>9 DEF MutexesAreOrdered
<1>4. ASSUME NEW t \in UserThreads, NEW x \in Objects, Return(t, x)
      PROVE  OrderIInv'
  <2> DEFINE n == Len(stack[t])
  <2>1. /\ stack' = [stack EXCEPT ![t] = SubSeq(stack[t], 1, n - 1)]
        /\ owner' = [owner EXCEPT ![x] = NoThread]
    BY <1>4, Zenon DEF Return
  <2>2. n \in Nat /\ n > 0 /\ stack[t][n] = x
    BY <1>4 DEF Return, InCall
  <2>3. /\ SubSeq(stack[t], 1, n - 1) \in Seq(Objects)
        /\ Len(SubSeq(stack[t], 1, n - 1)) = n - 1
        /\ \A i \in 1..(n - 1) : SubSeq(stack[t], 1, n - 1)[i] = stack[t][i]
    <3>1. \A i \in 1..(n - 1) : stack[t][i] \in Objects
      BY <2>2
    <3>2. 1 \in Int /\ n - 1 \in Int
      BY <2>2
    <3> HIDE DEF n
    <3>3. /\ SubSeq(stack[t], 1, n - 1) \in Seq(Objects)
          /\ Len(SubSeq(stack[t], 1, n - 1)) = IF 1 <= n - 1 THEN n - 1 - 1 + 1 ELSE 0
          /\ \A i \in 1..(n - 1 - 1 + 1) : SubSeq(stack[t], 1, n - 1)[i] = stack[t][1 + i - 1]
      BY <3>1, <3>2, SubSeqProperties
    <3>4. (IF 1 <= n - 1 THEN n - 1 - 1 + 1 ELSE 0) = n - 1 /\ n - 1 - 1 + 1 = n - 1
      BY <2>2
    <3>5. \A i \in 1..(n - 1) : 1 + i - 1 = i
      BY <2>2
    <3> QED
      BY <3>3, <3>4, <3>5, Zenon
  <2>4. /\ Len(stack'[t]) = n - 1
        /\ \A i \in 1..(n - 1) : stack'[t][i] = stack[t][i]
        /\ stack' \in [UserThreads -> Seq(Objects)]
    BY <2>1, <2>3, Zenon
  <2>5. \A i, j \in 1..Len(stack'[t]) : i < j => stack'[t][j] \in Needs[stack'[t][i]]
    <3>1. \A i \in 1..(n - 1) : i \in 1..n
      BY <2>2
    <3> QED
      BY <2>4, <3>1, Zenon DEF MutexesAreOrdered
  <2>6. \A z \in Objects : owner'[z] = t => \E i \in 1..Len(stack'[t]) : stack'[t][i] = z
    <3> SUFFICES ASSUME NEW z \in Objects, owner'[z] = t
                 PROVE  \E i \in 1..(n - 1) : stack'[t][i] = z
      BY <2>4, Zenon
    <3>1. z # x /\ owner[z] = t
      BY <2>1, Zenon
    <3>2. PICK i \in 1..n : stack[t][i] = z
      BY <3>1, Zenon DEF MutexesAreOrdered
    <3>3. i \in 1..(n - 1)
      BY <2>2, <3>1, <3>2
    <3> QED
      BY <2>4, <3>2, <3>3, Zenon
  <2>7. \A u \in UserThreads : u # t =>
           stack'[u] = stack[u] /\ \A z \in Objects : owner'[z] = u => owner[z] = u
    BY <2>1, Zenon
  <2> QED
    BY <2>1, <2>4, <2>5, <2>6, <2>7 DEF MutexesAreOrdered
<1>5. ASSUME UNCHANGED <<stack, owner>>
      PROVE  OrderIInv'
  BY <1>5 DEF MutexesAreOrdered
<1> QED
  BY <1>1, <1>2, <1>3, <1>4, <1>5, ZenonT(60)
     DEF Next, CallStep, Create, UseBootstrap, ClientEnds, ReleaseStaticDefaultClientBootstrap,
         DestructorStep, ReleaseStaticDefaultEventLoopGroup, ReleaseStaticDefaultHostResolver,
         JoinAllManaged, CleanUp, NativeStep, BootstrapShutdown, OtherShutdown, Finished, vars

\* The invariants of every behaviour of ApiHandle.
THEOREM ApiInvariance == Spec => []ApiIInv /\ []OrderIInv
<1>1. Init => ApiIInv /\ OrderIInv
  BY ApiInitIInv, OrderInit, Zenon
<1>2. ApiIInv /\ [Next]_vars => ApiIInv'
  BY ApiNextIInv, Zenon
<1>3. OrderIInv /\ [Next]_vars => OrderIInv'
  BY OrderStep, Zenon
<1> QED
  BY <1>1, <1>2, <1>3, PTL DEF Spec

\* However many threads race for the defaults, each is created once, under mutexes that are
\* taken in one order; a static pointer or the reference of a C object is to a live one; and
\* a blocking ~ApiHandle cleans up after the last event loop thread.
LEMMA ApiIsSafe ==
  ASSUME ApiIInv, OrderIInv
  PROVE  DefaultsAreShared /\ ThreadsJoinedBeforeCleanUp /\ MutexesAreOrdered
<1>1. \A n \in {0, 1} : n <= 1
  OBVIOUS
<1>2. DefaultsAreShared
  BY <1>1 DEF ApiIInv, ApiTypes, KeepInv, DefaultsAreShared
<1> QED
  BY <1>2, Zenon DEF ApiIInv, OrderIInv

-----------------------------------------------------------------------------
(* Asynchronous queries                                                    *)
(*                                                                         *)
(* The property looks at a callback only while it runs.  QueryIInv follows *)
(* what it will touch from the query on: the block of a query in flight is *)
(* there and owns the provider or the request, what a block owns is alive, *)
(* and a C object with a query in flight does not shut down.               *)

\* What has an owner, the user or a block, is alive.
QueryOwnedInv ==
    /\ qHolds => wrapper = "live"
    /\ \A r \in Requests :
        /\ "wrapper" \in argsOwn[r] => wrapper = "live"
        /\ userRequest[r] \/ "request" \in argsOwn[r] => message[r] = "live"

\* A query in flight has a block with what its callback needs.
QueryFlightInv ==
    \A r \in Requests :
        Queries!InFlight(r) =>
            /\ args[r] = "live"
            /\ kind \in Queries!ProviderKinds => "wrapper" \in argsOwn[r]
            /\ kind = "signer" => "request" \in argsOwn[r]

\* The delegate's block goes with the C provider, which outlives its queries.
QueryDelegateInv ==
    /\ kind = "delegate" /\ qNative = "live" => delegateArgs = "live"
    /\ \A r \in Requests :
        /\ phase[r] = "handler" => kind = "delegate"
        /\ kind = "delegate" /\ Queries!InFlight(r) => qNative = "live"

QueryIInv == Queries!TypeOK /\ QueryOwnedInv /\ QueryFlightInv /\ QueryDelegateInv

\* There is no wrapper and no query at the start.
LEMMA QueryInitIInv == Queries!Init => QueryIInv
<1> SUFFICES ASSUME Queries!Init
             PROVE  QueryIInv
  BY Zenon
<1> USE DEF Queries!Init, Queries!Memory, Queries!Phases
<1>1. userRequest \in [Requests -> BOOLEAN]
  BY ZenonT(60)
<1>2. Queries!TypeOK
  BY <1>1, ZenonT(60) DEF Queries!TypeOK
<1>3. QueryOwnedInv
  <2>1. \A r \in Requests : userRequest[r] <=> kind = "signer"
    BY Zenon
  <2> QED
    BY <2>1, Zenon DEF QueryOwnedInv
<1>4. QueryFlightInv /\ QueryDelegateInv
  BY Zenon DEF QueryFlightInv, QueryDelegateInv, Queries!InFlight
<1> QED
  BY <1>2, <1>3, <1>4, Zenon DEF QueryIInv

\* Creation, queries, answers, releases and the shutdown preserve QueryIInv.
LEMMA QueryNextIInv == QueryIInv /\ [Queries!Next]_Queries!vars => QueryIInv'
<1> SUFFICES ASSUME QueryIInv, [Queries!Next]_Queries!vars
             PROVE  QueryIInv'
  BY Zenon
<1> USE DEF QueryIInv, Queries!objects, Queries!requestState, Queries!Memory, Queries!Phases,
            Queries!Kinds, Queries!ProviderKinds
<1>1. ASSUME Queries!Create
      PROVE  QueryIInv'
  <2> USE <1>1 DEF Queries!Create, Queries!New, Queries!Built, Queries!Wrapped,
                   Queries!CreateImds, Queries!CreateProvider, Queries!WrapProvider,
                    Queries!CreateDelegate, Queries!CreateSigner, Queries!CreateResolver
  <2>1. Queries!TypeOK'
    BY ZenonT(60) DEF Queries!TypeOK
  <2>2. QueryOwnedInv'
    BY DEF Queries!TypeOK, QueryOwnedInv
  <2>3. QueryFlightInv'
    BY Zenon DEF Queries!TypeOK, QueryFlightInv, Queries!InFlight
  <2>4. QueryDelegateInv'
    BY Zenon DEF Queries!TypeOK, QueryDelegateInv, Queries!InFlight
  <2> QED
    BY <2>1, <2>2, <2>3, <2>4, Zenon
<1>2. ASSUME NEW r \in Requests, Queries!ImdsGet(r)
      PROVE  QueryIInv'
  <2> USE <1>2 DEF Queries!ImdsGet, Queries!Asks, Queries!Rejected, Queries!Accepted,
                   Queries!Refused
  <2>1. Queries!TypeOK'
    BY SMTT(60) DEF Queries!TypeOK
  <2>2. QueryOwnedInv'
    BY SMTT(60) DEF Queries!TypeOK, QueryOwnedInv
  <2>3. QueryFlightInv'
    BY SMTT(60) DEF Queries!TypeOK, QueryFlightInv, Queries!InFlight
  <2>4. QueryDelegateInv'
    BY DEF Queries!TypeOK, QueryDelegateInv, Queries!InFlight
  <2> QED
    BY <2>1, <2>2, <2>3, <2>4, Zenon
<1>3. ASSUME NEW r \in Requests, Queries!GetCredentials(r)
      PROVE  QueryIInv'
  <2> USE <1>3 DEF Queries!GetCredentials, Queries!Asks, Queries!Rejected, Queries!Accepted,
                   Queries!Refused
  <2>1. Queries!TypeOK'
    BY SMTT(60) DEF Queries!TypeOK
  <2>2. QueryOwnedInv'
    BY SMTT(60) DEF Queries!TypeOK, QueryOwnedInv
  <2>3. QueryFlightInv'
    BY SMTT(60) DEF Queries!TypeOK, QueryFlightInv, Queries!InFlight
  <2>4. QueryDelegateInv'
    BY DEF Queries!TypeOK, QueryDelegateInv, Queries!InFlight
  <2> QED
    BY <2>1, <2>2, <2>3, <2>4, Zenon
<1>4. ASSUME NEW r \in Requests, Queries!SignRequest(r)
      PROVE  QueryIInv'
  <2> USE <1>4 DEF Queries!SignRequest, Queries!Asks, Queries!Rejected, Queries!Accepted,
                   Queries!Refused
  <2>1. Queries!TypeOK'
    BY SMTT(60) DEF Queries!TypeOK
  <2>2. QueryOwnedInv'
    BY Zenon DEF Queries!TypeOK, QueryOwnedInv
  <2>3. QueryFlightInv'
    BY DEF Queries!TypeOK, QueryFlightInv, Queries!InFlight
  <2>4. QueryDelegateInv'
    BY DEF Queries!TypeOK, QueryDelegateInv, Queries!InFlight
  <2> QED
    BY <2>1, <2>2, <2>3, <2>4, Zenon
<1>5. ASSUME NEW r \in Requests, Queries!ResolveHost(r)
      PROVE  QueryIInv'
  <2> USE <1>5 DEF Queries!ResolveHost, Queries!Asks, Queries!Rejected, Queries!Accepted,
                   Queries!Refused
  <2>1. Queries!TypeOK'
    BY SMTT(60) DEF Queries!TypeOK
  <2>2. QueryOwnedInv'
    BY DEF Queries!TypeOK, QueryOwnedInv
  <2>3. QueryFlightInv'
    BY DEF Queries!TypeOK, QueryFlightInv, Queries!InFlight
  <2>4. QueryDelegateInv'
    BY DEF Queries!TypeOK, QueryDelegateInv, Queries!InFlight
  <2> QED
    BY <2>1, <2>2, <2>3, <2>4, Zenon
<1>6. ASSUME NEW r \in Requests, Queries!s_onDelegateGetCredentials(r)
      PROVE  QueryIInv'
  <2> USE <1>6 DEF Queries!s_onDelegateGetCredentials
  <2>1. Queries!TypeOK'
    BY Zenon DEF Queries!TypeOK
  <2>2. QueryOwnedInv'
    BY Zenon DEF Queries!TypeOK, QueryOwnedInv
  <2>3. QueryFlightInv'
    BY DEF Queries!TypeOK, QueryFlightInv, Queries!InFlight
  <2>4. QueryDelegateInv'
    BY Zenon DEF Queries!TypeOK, QueryDelegateInv, Queries!InFlight
  <2> QED
    BY <2>1, <2>2, <2>3, <2>4, Zenon
<1>7. ASSUME NEW r \in Requests, Queries!BeginCallback(r)
      PROVE  QueryIInv'
  <2> USE <1>7 DEF Queries!BeginCallback
  <2>1. Queries!TypeOK'
    BY DEF Queries!TypeOK
  <2>2. QueryOwnedInv'
    BY Zenon DEF Queries!TypeOK, QueryOwnedInv
  <2>3. QueryFlightInv'
    BY DEF Queries!TypeOK, QueryFlightInv, Queries!InFlight
  <2>4. QueryDelegateInv'
    BY Zenon DEF Queries!TypeOK, QueryDelegateInv, Queries!InFlight
  <2> QED
    BY <2>1, <2>2, <2>3, <2>4, Zenon
<1>8. ASSUME NEW r \in Requests, Queries!EndCallback(r)
      PROVE  QueryIInv'
  <2> USE <1>8 DEF Queries!EndCallback, Queries!DropWrapper, Queries!DropMessage
  <2>1. Queries!TypeOK'
    BY Zenon DEF Queries!TypeOK
  <2>2. QueryOwnedInv'
    BY SMTT(60) DEF Queries!TypeOK, QueryOwnedInv
  <2>3. QueryFlightInv'
    BY SMTT(60) DEF Queries!TypeOK, QueryFlightInv, Queries!InFlight
  <2>4. QueryDelegateInv'
    BY Zenon DEF Queries!TypeOK, QueryDelegateInv, Queries!InFlight
  <2> QED
    BY <2>1, <2>2, <2>3, <2>4, Zenon
<1>9. ASSUME Queries!Release
      PROVE  QueryIInv'
  <2> USE <1>9 DEF Queries!Release, Queries!DropWrapper
  <2>1. Queries!TypeOK'
    BY ZenonT(60) DEF Queries!TypeOK
  <2>2. QueryOwnedInv'
    BY Zenon DEF Queries!TypeOK, QueryOwnedInv
  <2>3. QueryFlightInv'
    BY Zenon DEF Queries!TypeOK, QueryFlightInv, Queries!InFlight
  <2>4. QueryDelegateInv'
    BY Zenon DEF Queries!TypeOK, QueryDelegateInv, Queries!InFlight
  <2> QED
    BY <2>1, <2>2, <2>3, <2>4, ZenonT(60)
<1>10. ASSUME NEW r \in Requests, Queries!DropRequest(r)
       PROVE  QueryIInv'
  <2> USE <1>10 DEF Queries!DropRequest, Queries!DropMessage
  <2>1. Queries!TypeOK'
    BY DEF Queries!TypeOK
  <2>2. QueryOwnedInv'
    BY DEF Queries!TypeOK, QueryOwnedInv
  <2>3. QueryFlightInv'
    BY Zenon DEF Queries!TypeOK, QueryFlightInv, Queries!InFlight
  <2>4. QueryDelegateInv'
    BY Zenon DEF Queries!TypeOK, QueryDelegateInv, Queries!InFlight
  <2> QED
    BY <2>1, <2>2, <2>3, <2>4, Zenon
<1>11. ASSUME Queries!NativeShutdown
       PROVE  QueryIInv'
  <2> USE <1>11 DEF Queries!NativeShutdown
  <2>1. Queries!TypeOK'
    BY Zenon DEF Queries!TypeOK
  <2>2. QueryOwnedInv'
    BY Zenon DEF Queries!TypeOK, QueryOwnedInv
  <2>3. QueryFlightInv'
    BY Zenon DEF Queries!TypeOK, QueryFlightInv, Queries!InFlight
  <2>4. QueryDelegateInv'
    BY Zenon DEF Queries!TypeOK, QueryDelegateInv, Queries!InFlight
  <2> QED
    BY <2>1, <2>2, <2>3, <2>4, Zenon
<1>12. ASSUME UNCHANGED Queries!vars
       PROVE  QueryIInv'
  BY <1>12 DEF Queries!vars, Queries!TypeOK, QueryOwnedInv, QueryFlightInv, QueryDelegateInv,
               Queries!InFlight
<1> QED
  BY <1>1, <1>2, <1>3, <1>4, <1>5, <1>6, <1>7, <1>8, <1>9, <1>10, <1>11, <1>12, Zenon DEF
     Queries!Next, Queries!Query, Queries!Answer
-----------------------------------------------------------------------------
(* Channel handlers                                                        *)
(*                                                                         *)
(* The object refers to itself exactly while it is seated and its slot     *)
(* exists, and every call and task is inside that time.                    *)

ChannelTypes ==
    /\ handler \in {"none", "alive", "destroyed"}
    /\ m_selfReference \in BOOLEAN
    /\ userHolds \in BOOLEAN
    /\ channel \in Channel!SlotStates \cup {"new", "seated", "destroyed"}
    /\ running \in {"none", "callback", "negotiation"} \cup Tasks
    /\ tasks \in [Tasks -> {"unused", "scheduled", "running", "deleted"}]
    /\ captured \in [Tasks -> {"raw", "shared"}]

SeatInv ==
    /\ m_selfReference <=> channel \in Channel!SlotStates \cup {"seated"}
    /\ channel = "new" => ~userHolds /\ handler = "none"
    /\ running # "none" => channel \in Channel!SlotStates
    /\ \A t \in Tasks : Channel!Pending(t) => channel \in Channel!SlotStates

ChannelIInv == ChannelTypes /\ SeatInv /\ Channel!LivesWhileReferenced

\* There is no handler before SeatForCInterop().
LEMMA ChannelInitIInv ==
  ASSUME Channel!Init
  PROVE  ChannelIInv
BY ZenonT(60) DEF Channel!Init, ChannelIInv, ChannelTypes, SeatInv, Channel!LivesWhileReferenced,
       Channel!Referenced, Channel!Pending, Channel!SlotStates

\* Every step of the application, of the channel and of a task preserves ChannelIInv.
LEMMA ChannelNextIInv ==
  ASSUME ChannelIInv, [Channel!Next]_channelVars
  PROVE  ChannelIInv'
<1> USE DEF ChannelIInv, Channel!SlotStates, Channel!Pending
<1>1. ASSUME Channel!SeatForCInterop
      PROVE  ChannelIInv'
  <2> USE <1>1 DEF Channel!SeatForCInterop
  <2>1. ChannelTypes'
    BY Zenon DEF ChannelTypes, SeatInv
  <2>2. SeatInv'
    BY Zenon DEF ChannelTypes, SeatInv
  <2>3. Channel!LivesWhileReferenced'
    BY Zenon DEF ChannelTypes, SeatInv, Channel!LivesWhileReferenced, Channel!Referenced
  <2> QED
    BY <2>1, <2>2, <2>3, Zenon
<1>2. ASSUME Channel!NoHandler
      PROVE  ChannelIInv'
  <2> USE <1>2 DEF Channel!NoHandler
  <2>1. ChannelTypes'
    BY Zenon DEF ChannelTypes, SeatInv
  <2>2. SeatInv'
    BY Zenon DEF ChannelTypes, SeatInv
  <2>3. Channel!LivesWhileReferenced'
    BY Zenon DEF ChannelTypes, SeatInv, Channel!LivesWhileReferenced, Channel!Referenced
  <2> QED
    BY <2>1, <2>2, <2>3, Zenon
<1>3. ASSUME Channel!SetHandler
      PROVE  ChannelIInv'
  <2> USE <1>3 DEF Channel!SetHandler
  <2>1. ChannelTypes'
    BY Zenon DEF ChannelTypes, SeatInv
  <2>2. SeatInv'
    BY Zenon DEF ChannelTypes, SeatInv
  <2>3. Channel!LivesWhileReferenced'
    BY Zenon DEF ChannelTypes, SeatInv, Channel!LivesWhileReferenced, Channel!Referenced
  <2> QED
    BY <2>1, <2>2, <2>3, Zenon
<1>4. ASSUME Channel!UserReleases
      PROVE  ChannelIInv'
  <2> USE <1>4 DEF Channel!UserReleases, Channel!Destruct
  <2>1. ChannelTypes'
    BY ZenonT(60) DEF ChannelTypes, SeatInv
  <2>2. SeatInv'
    BY Zenon DEF ChannelTypes, SeatInv
  <2>3. Channel!LivesWhileReferenced'
    BY Zenon DEF ChannelTypes, SeatInv, Channel!LivesWhileReferenced, Channel!Referenced
  <2> QED
    BY <2>1, <2>2, <2>3, Zenon
<1>5. ASSUME Channel!StartNegotiation
      PROVE  ChannelIInv'
  <2> USE <1>5 DEF Channel!StartNegotiation
  <2>1. ChannelTypes'
    BY Zenon DEF ChannelTypes, SeatInv
  <2>2. SeatInv'
    BY Zenon DEF ChannelTypes, SeatInv
  <2>3. Channel!LivesWhileReferenced'
    BY Zenon DEF ChannelTypes, SeatInv, Channel!LivesWhileReferenced, Channel!Referenced
  <2> QED
    BY <2>1, <2>2, <2>3, Zenon
<1>6. ASSUME Channel!Callback
      PROVE  ChannelIInv'
  <2> USE <1>6 DEF Channel!Callback
  <2>1. ChannelTypes'
    BY Zenon DEF ChannelTypes, SeatInv
  <2>2. SeatInv'
    BY Zenon DEF ChannelTypes, SeatInv
  <2>3. Channel!LivesWhileReferenced'
    BY Zenon DEF ChannelTypes, SeatInv, Channel!LivesWhileReferenced, Channel!Referenced
  <2> QED
    BY <2>1, <2>2, <2>3, Zenon
<1>7. ASSUME Channel!CallReturns
      PROVE  ChannelIInv'
  <2> USE <1>7 DEF Channel!CallReturns
  <2>1. ChannelTypes'
    BY Zenon DEF ChannelTypes, SeatInv
  <2>2. SeatInv'
    BY Zenon DEF ChannelTypes, SeatInv
  <2>3. Channel!LivesWhileReferenced'
    BY Zenon DEF ChannelTypes, SeatInv, Channel!LivesWhileReferenced, Channel!Referenced
  <2> QED
    BY <2>1, <2>2, <2>3, Zenon
<1>8. ASSUME NEW t \in Tasks, Channel!ScheduleTask(t)
      PROVE  ChannelIInv'
  <2> USE <1>8 DEF Channel!ScheduleTask, Channel!CanUse
  <2>1. ChannelTypes'
    BY Zenon DEF ChannelTypes, SeatInv
  <2>2. SeatInv'
    BY Zenon DEF ChannelTypes, SeatInv
  <2>3. Channel!LivesWhileReferenced'
    BY Zenon DEF ChannelTypes, SeatInv, Channel!LivesWhileReferenced, Channel!Referenced
  <2> QED
    BY <2>1, <2>2, <2>3, Zenon
<1>9. ASSUME NEW t \in Tasks, Channel!RunTask(t)
      PROVE  ChannelIInv'
  <2> USE <1>9 DEF Channel!RunTask
  <2>1. ChannelTypes'
    BY Zenon DEF ChannelTypes, SeatInv
  <2>2. SeatInv'
    BY Zenon DEF ChannelTypes, SeatInv
  <2>3. Channel!LivesWhileReferenced'
    BY Zenon DEF ChannelTypes, SeatInv, Channel!LivesWhileReferenced, Channel!Referenced
  <2> QED
    BY <2>1, <2>2, <2>3, Zenon
<1>10. ASSUME NEW t \in Tasks, Channel!TaskReturns(t)
       PROVE  ChannelIInv'
  <2> USE <1>10 DEF Channel!TaskReturns, Channel!Destruct
  <2>1. ChannelTypes'
    BY Zenon DEF ChannelTypes, SeatInv
  <2>2. SeatInv'
    BY Zenon DEF ChannelTypes, SeatInv
  <2>3. Channel!LivesWhileReferenced'
    BY Zenon DEF ChannelTypes, SeatInv, Channel!LivesWhileReferenced, Channel!Referenced
  <2> QED
    BY <2>1, <2>2, <2>3, Zenon
<1>11. ASSUME Channel!ShutDownChannel
       PROVE  ChannelIInv'
  <2> USE <1>11 DEF Channel!ShutDownChannel, Channel!CanUse
  <2>1. ChannelTypes'
    BY Zenon DEF ChannelTypes, SeatInv
  <2>2. SeatInv'
    BY Zenon DEF ChannelTypes, SeatInv
  <2>3. Channel!LivesWhileReferenced'
    BY Zenon DEF ChannelTypes, SeatInv, Channel!LivesWhileReferenced, Channel!Referenced
  <2> QED
    BY <2>1, <2>2, <2>3, Zenon
<1>12. ASSUME Channel!OtherShutsDown
       PROVE  ChannelIInv'
  <2> USE <1>12 DEF Channel!OtherShutsDown
  <2>1. ChannelTypes'
    BY Zenon DEF ChannelTypes, SeatInv
  <2>2. SeatInv'
    BY Zenon DEF ChannelTypes, SeatInv
  <2>3. Channel!LivesWhileReferenced'
    BY Zenon DEF ChannelTypes, SeatInv, Channel!LivesWhileReferenced, Channel!Referenced
  <2> QED
    BY <2>1, <2>2, <2>3, Zenon
<1>13. ASSUME Channel!ProcessShutdown
       PROVE  ChannelIInv'
  <2> USE <1>13 DEF Channel!ProcessShutdown
  <2>1. ChannelTypes'
    BY Zenon DEF ChannelTypes, SeatInv
  <2>2. SeatInv'
    BY Zenon DEF ChannelTypes, SeatInv
  <2>3. Channel!LivesWhileReferenced'
    BY Zenon DEF ChannelTypes, SeatInv, Channel!LivesWhileReferenced, Channel!Referenced
  <2> QED
    BY <2>1, <2>2, <2>3, Zenon
<1>14. ASSUME Channel!OnShutdownComplete
       PROVE  ChannelIInv'
  <2> USE <1>14 DEF Channel!OnShutdownComplete
  <2>1. ChannelTypes'
    BY Zenon DEF ChannelTypes, SeatInv
  <2>2. SeatInv'
    BY Zenon DEF ChannelTypes, SeatInv
  <2>3. Channel!LivesWhileReferenced'
    BY Zenon DEF ChannelTypes, SeatInv, Channel!LivesWhileReferenced, Channel!Referenced
  <2> QED
    BY <2>1, <2>2, <2>3, Zenon
<1>15. ASSUME Channel!s_Destroy
       PROVE  ChannelIInv'
  <2> USE <1>15 DEF Channel!s_Destroy, Channel!Destruct
  <2>1. ChannelTypes'
    BY Zenon DEF ChannelTypes, SeatInv
  <2>2. SeatInv'
    BY Zenon DEF ChannelTypes, SeatInv
  <2>3. Channel!LivesWhileReferenced'
    BY Zenon DEF ChannelTypes, SeatInv, Channel!LivesWhileReferenced, Channel!Referenced
  <2> QED
    BY <2>1, <2>2, <2>3, Zenon
<1>16. ASSUME UNCHANGED channelVars
       PROVE  ChannelIInv'
  BY <1>16, Zenon DEF channelVars, ChannelTypes, SeatInv, Channel!LivesWhileReferenced,
     Channel!Referenced
<1> QED
  BY <1>1, <1>2, <1>3, <1>4, <1>5, <1>6, <1>7, <1>8, <1>9, <1>10, <1>11, <1>12, <1>13, <1>14,
     <1>15, <1>16, Zenon DEF Channel!Next

\* The invariant of every behaviour of a channel handler.
THEOREM ChannelInvariance == Channel!Init /\ [][Channel!Next]_channelVars => []ChannelIInv
<1>1. Channel!Init => ChannelIInv
  BY ChannelInitIInv, Zenon
<1>2. ChannelIInv /\ [Channel!Next]_channelVars => ChannelIInv'
  BY ChannelNextIInv, Zenon
<1> QED
  BY <1>1, <1>2, PTL

-----------------------------------------------------------------------------
(* The properties of Services *)

\* A step of Services is a step of one component, and leaves the others as they are.
LEMMA ServicesStep ==
  ASSUME [ServicesNext]_servicesVars
  PROVE  /\ [Next]_vars
         /\ [Queries!Next]_Queries!vars
         /\ [Channel!Next]_channelVars
BY Zenon DEF ServicesNext, servicesVars, queryVars, channelVars, Queries!vars

\* What a behaviour of Services does to a component is a behaviour of that component.
LEMMA ServicesComponents ==
  ServicesSpec => Spec /\ Queries!Spec /\ Channel!Init /\ [][Channel!Next]_channelVars
<1>1. ServicesInit => Init /\ Queries!Init /\ Channel!Init
  BY Zenon DEF ServicesInit
<1>2. [ServicesNext]_servicesVars =>
        [Next]_vars /\ [Queries!Next]_Queries!vars /\ [Channel!Next]_channelVars
  BY ServicesStep, Zenon
<1> QED
  BY <1>1, <1>2, PTL DEF ServicesSpec, Spec, Queries!Spec

\* However many threads race for the defaults of ApiHandle, each is created once, under
\* mutexes that are taken in one order; a static pointer or the reference of a C object is
\* to a live one; and a blocking ~ApiHandle cleans up after the last event loop thread.
THEOREM DefaultsAreAlwaysSafe == ServicesSpec => []DefaultsAreSafe
<1>1. ApiIInv /\ OrderIInv => DefaultsAreSafe
  BY ApiIsSafe, Zenon DEF DefaultsAreSafe
<1> QED
  BY <1>1, ApiInvariance, ServicesComponents, PTL

\* s_onCredentialsResolved, s_http_signing_complete_fn and s_onDelegateGetCredentials find
\* the provider, the request and the handler's block, although the user may have let go
\* of the wrapper and of the request while any number of queries was in flight.
THEOREM CallbacksFindTheirSubject == ServicesSpec => []CallbackFindsItsSubject
<1>1. QueryIInv => Queries!CallbackFindsItsSubject
  BY Zenon DEF QueryIInv, QueryOwnedInv, QueryFlightInv, QueryDelegateInv, Queries!InFlight,
     Queries!CallbackFindsItsSubject
<1> QED
  BY <1>1, QueryInitIInv, QueryNextIInv, ServicesComponents, PTL
  DEF Queries!Spec, CallbackFindsItsSubject

\* The self reference that SeatForCInterop() seats and s_Destroy resets keeps the handler
\* for every call and every task of the channel, and no longer than somebody refers to it,
\* for any number of tasks and whenever the application lets go.
THEOREM HandlerAlwaysOutlivesCalls == ServicesSpec => []HandlerOutlivesCalls
<1>1. ChannelIInv => HandlerOutlivesCalls
  BY Zenon DEF ChannelIInv, ChannelTypes, SeatInv, HandlerOutlivesCalls,
     Channel!HandlerOutlivesCalls, Channel!LivesWhileReferenced, Channel!Referenced
<1> QED
  BY <1>1, ChannelInvariance, ServicesComponents, PTL

=============================================================================
