----------------------------- MODULE HttpProofs -----------------------------
(***************************************************************************)
(* The safety properties of the connection manager, for any threads, pool  *)
(* size and number of acquisitions, and of an unmanaged connection, for    *)
(* any number of streams and writes.                                       *)
(***************************************************************************)
EXTENDS Http, TLAPS

-----------------------------------------------------------------------------
(* The connection manager                                                  *)
(*                                                                         *)
(* EventLoopNotBlocked is not inductive: nothing in it says which threads  *)
(* get to the wait.  IInv does: a thread that destroys the manager found   *)
(* nobody who refers to it, the one that released last had called          *)
(* InitiateShutdown() where the shutdown blocks, and nobody can call it    *)
(* any more once the destructor has begun.                                 *)

Types ==
    /\ blocking \in BOOLEAN
    /\ promise \in BOOLEAN
    /\ releaseInvoked \in BOOLEAN
    /\ manager \in {"alive", "freed"}
    /\ owners \in SUBSET UserThreads
    /\ acquisition \in [Acquisitions -> {"unused", "pending", "failed", "vended", "returned"}]
    /\ current \in Acquisitions \cup {NoAcquisition}
    /\ pc \in [Threads -> {"idle", "destroy", "wait"}]
    /\ native \in {"alive", "released", "shutdown"}

\* The destructor runs once, on one thread, when nobody refers to the manager.
DestroyInv ==
    /\ \A t \in Threads :
        pc[t] # "idle" => manager = "alive" /\ ~Referenced(owners, acquisition, current)
    /\ \A t, u \in Threads : pc[t] # "idle" /\ pc[u] # "idle" => t = u
    /\ manager = "freed" => ~Referenced(owners, acquisition, current)

\* Who keeps to the documented use has initiated the shutdown before the last release.
ReleaseInv ==
    /\ blocking /\ owners = {} => releaseInvoked
    /\ \A t \in Threads : pc[t] = "wait" => ~releaseInvoked

\* The promise is set from the start, or by the shutdown callback.
PromiseInv ==
    /\ ~blocking => promise
    /\ blocking /\ promise => native = "shutdown"
    /\ blocking /\ native # "alive" => releaseInvoked
    /\ blocking /\ waits /\ owners = {} => promise

IInv == Types /\ DestroyInv /\ ReleaseInv /\ PromiseInv

\* The manager is destroyed by one thread at a time, and never again once it is freed.
DestroyedOnce ==
    /\ \A t, u \in Threads : pc[t] # "idle" /\ pc[u] # "idle" => t = u
    /\ manager = "freed" => \A t \in Threads : pc[t] = "idle"

\* Nobody destroys the manager when it is created.
LEMMA InitIInv == Init => IInv
BY ManagerAssumption, Zenon DEF Init, IInv, Types, DestroyInv, ReleaseInv, PromiseInv, Threads

\* Every step of a user thread, the destructor and the event loop preserves IInv.
LEMMA NextIInv == IInv /\ [Next]_vars => IInv'
<1> SUFFICES ASSUME IInv, [Next]_vars
             PROVE  IInv'
  BY Zenon
<1> USE ManagerAssumption DEF IInv, Threads, optionVars
<1>1. ASSUME NEW t \in UserThreads, NEW a \in Acquisitions, AcquireConnection(t, a)
      PROVE  IInv'
  <2> USE <1>1 DEF AcquireConnection
  <2>1. Types'
    BY Zenon DEF Types
  <2>2. DestroyInv'
    BY Zenon DEF Types, DestroyInv, Referenced
  <2>3. ReleaseInv'
    BY Zenon DEF Types, DestroyInv, ReleaseInv, Referenced
  <2>4. PromiseInv'
    BY Zenon DEF Types, DestroyInv, ReleaseInv, PromiseInv, Referenced
  <2> QED
    BY <2>1, <2>2, <2>3, <2>4, Zenon
<1>2. ASSUME NEW t \in UserThreads, InitiateShutdown(t)
      PROVE  IInv'
  <2> USE <1>2 DEF InitiateShutdown
  <2>1. Types'
    BY Zenon DEF Types
  <2>2. DestroyInv'
    BY Zenon DEF Types, DestroyInv, Referenced
  <2>3. ReleaseInv'
    BY Zenon DEF Types, DestroyInv, ReleaseInv, Referenced
  <2>4. PromiseInv'
    BY Zenon DEF Types, DestroyInv, ReleaseInv, PromiseInv, Referenced
  <2> QED
    BY <2>1, <2>2, <2>3, <2>4, Zenon
<1>3. ASSUME NEW t \in UserThreads, ReleaseManager(t)
      PROVE  IInv'
  <2> USE <1>3 DEF ReleaseManager, UserMayRelease, DestroyIfLast
  <2>1. Types'
    BY Zenon DEF Types
  <2>2. DestroyInv'
    BY Zenon DEF Types, DestroyInv, Referenced
  <2>3. ReleaseInv'
    BY DEF Types, DestroyInv, ReleaseInv, Referenced
  <2>4. PromiseInv'
    BY DEF Types, DestroyInv, ReleaseInv, PromiseInv, Referenced
  <2> QED
    BY <2>1, <2>2, <2>3, <2>4, Zenon
<1>4. ASSUME NEW t \in Threads, NEW a \in Acquisitions, ReleaseConnection(t, a)
      PROVE  IInv'
  <2> USE <1>4 DEF ReleaseConnection, DestroyIfLast
  <2>1. Types'
    BY Zenon DEF Types
  <2>2. DestroyInv'
    BY Zenon DEF Types, DestroyInv, Referenced
  <2>3. ReleaseInv'
    BY Zenon DEF Types, DestroyInv, ReleaseInv, Referenced
  <2>4. PromiseInv'
    BY Zenon DEF Types, DestroyInv, ReleaseInv, PromiseInv, Referenced
  <2> QED
    BY <2>1, <2>2, <2>3, <2>4, Zenon
<1>5. ASSUME NEW t \in Threads, DestructorRelease(t)
      PROVE  IInv'
  <2> USE <1>5 DEF DestructorRelease
  <2>1. Types'
    BY Zenon DEF Types
  <2>2. DestroyInv'
    BY Zenon DEF Types, DestroyInv, Referenced
  <2>3. ReleaseInv'
    BY Zenon DEF Types, DestroyInv, ReleaseInv, Referenced
  <2>4. PromiseInv'
    BY Zenon DEF Types, DestroyInv, ReleaseInv, PromiseInv, Referenced
  <2> QED
    BY <2>1, <2>2, <2>3, <2>4, Zenon
<1>6. ASSUME NEW t \in Threads, DestructorEnd(t)
      PROVE  IInv'
  <2> USE <1>6 DEF DestructorEnd
  <2>1. Types'
    BY Zenon DEF Types
  <2>2. DestroyInv'
    BY Zenon DEF Types, DestroyInv, Referenced
  <2>3. ReleaseInv'
    BY Zenon DEF Types, DestroyInv, ReleaseInv, Referenced
  <2>4. PromiseInv'
    BY Zenon DEF Types, DestroyInv, ReleaseInv, PromiseInv, Referenced
  <2> QED
    BY <2>1, <2>2, <2>3, <2>4, Zenon
<1>7. ASSUME NEW a \in Acquisitions, SetupSucceeds(a)
      PROVE  IInv'
  <2> USE <1>7 DEF SetupSucceeds, LoopIdle
  <2>1. Types'
    BY Zenon DEF Types
  <2>2. DestroyInv'
    BY Zenon DEF Types, DestroyInv, Referenced
  <2>3. ReleaseInv'
    BY Zenon DEF Types, DestroyInv, ReleaseInv, Referenced
  <2>4. PromiseInv'
    BY Zenon DEF Types, DestroyInv, ReleaseInv, PromiseInv, Referenced
  <2> QED
    BY <2>1, <2>2, <2>3, <2>4, Zenon
<1>8. ASSUME NEW a \in Acquisitions, SetupFails(a)
      PROVE  IInv'
  <2> USE <1>8 DEF SetupFails, LoopIdle
  <2>1. Types'
    BY Zenon DEF Types
  <2>2. DestroyInv'
    BY Zenon DEF Types, DestroyInv, Referenced
  <2>3. ReleaseInv'
    BY Zenon DEF Types, DestroyInv, ReleaseInv, Referenced
  <2>4. PromiseInv'
    BY Zenon DEF Types, DestroyInv, ReleaseInv, PromiseInv, Referenced
  <2> QED
    BY <2>1, <2>2, <2>3, <2>4, Zenon
<1>9. ASSUME SetupReturns
      PROVE  IInv'
  <2> USE <1>9 DEF SetupReturns, DestroyIfLast
  <2>1. Types'
    BY Zenon DEF Types
  <2>2. DestroyInv'
    BY Zenon DEF Types, DestroyInv, Referenced
  <2>3. ReleaseInv'
    BY Zenon DEF Types, DestroyInv, ReleaseInv, Referenced
  <2>4. PromiseInv'
    BY Zenon DEF Types, DestroyInv, ReleaseInv, PromiseInv, Referenced
  <2> QED
    BY <2>1, <2>2, <2>3, <2>4, Zenon
<1>10. ASSUME ShutdownCompletes
      PROVE  IInv'
  <2> USE <1>10 DEF ShutdownCompletes, LoopIdle
  <2>1. Types'
    BY Zenon DEF Types
  <2>2. DestroyInv'
    BY Zenon DEF Types, DestroyInv, Referenced
  <2>3. ReleaseInv'
    BY Zenon DEF Types, DestroyInv, ReleaseInv, Referenced
  <2>4. PromiseInv'
    BY Zenon DEF Types, DestroyInv, ReleaseInv, PromiseInv, Referenced
  <2> QED
    BY <2>1, <2>2, <2>3, <2>4, Zenon
<1>11. ASSUME UNCHANGED vars
       PROVE  IInv'
  BY <1>11, Zenon DEF vars, Types, DestroyInv, ReleaseInv, PromiseInv, Referenced
<1> QED
  BY <1>1, <1>2, <1>3, <1>4, <1>5, <1>6, <1>7, <1>8, <1>9, <1>10, <1>11, Zenon DEF Next,
     LoopStep, DestructorStep, Finished

\* The invariant of every behaviour of a connection manager.
THEOREM Invariance == Spec => []IInv
BY InitIInv, NextIInv, PTL DEF Spec

\* ~HttpClientConnectionManager never blocks the event loop on a promise that only the
\* event loop can set, for any number of threads and connections.
THEOREM EventLoopIsNeverBlocked == Spec => []EventLoopNotBlocked
<1>1. IInv => EventLoopNotBlocked
  BY Zenon DEF IInv, Types, DestroyInv, ReleaseInv, PromiseInv, Referenced, Threads,
     EventLoopNotBlocked
<1> QED
  BY <1>1, Invariance, PTL

\* For a user who waits for the future of InitiateShutdown(), s_shutdownCompleted has
\* run before the manager it has a raw pointer to is freed.
THEOREM WaitedShutdownAlwaysFindsManager == Spec => []WaitedShutdownFindsManager
<1>1. IInv => WaitedShutdownFindsManager
  BY Zenon DEF IInv, DestroyInv, PromiseInv, Referenced, WaitedShutdownFindsManager
<1> QED
  BY <1>1, Invariance, PTL

\* However references are dropped, by threads, connections and setup callbacks, the
\* destructor of the manager runs once.
THEOREM IsDestroyedOnce == Spec => []DestroyedOnce
<1>1. IInv => DestroyedOnce
  BY Zenon DEF IInv, DestroyInv, DestroyedOnce
<1> QED
  BY <1>1, Invariance, PTL

-----------------------------------------------------------------------------
(* Unmanaged connections                                                   *)
(*                                                                         *)
(* The inductive invariant says exactly when a stream owns itself: from    *)
(* the first half of Activate() on, while the C stream is active, and in   *)
(* the completion callback.  A write owns at most one stream, and its data *)
(* is gone when the loop is done with it.                                  *)

\* A stream owns itself from Activate() to its completion; the caller of Activate() has a
\* reference of its own.
SelfInv ==
    \A s \in Streams :
        /\ "self" \in streamRefs[s] <=>
              \/ activating[s] # "no"
              \/ stream[s] = "active"
              \/ cStream = s /\ cLoop = "complete"
        /\ activating[s] # "no" => stream[s] = "made" /\ "user" \in streamRefs[s]
        /\ stream[s] = "none" => streamRefs[s] = {}

\* The callback that runs is about a stream in the state that callback needs.
CallbackInv ==
    /\ cStream # NoStream <=> cLoop \in {"response", "complete", "written"}
    /\ cLoop = "response" => stream[cStream] = "active"
    /\ cLoop = "complete" => stream[cStream] = "complete"

\* A write owns one stream, and owns it no longer than its callback runs.
WriteInv ==
    /\ \A s \in Streams : \A w \in streamRefs[s] \cap Writes :
          \/ write[w] \in {"pending", "refused"}
          \/ write[w] = "done" /\ cLoop = "written" /\ cStream = s
    /\ \A s, u \in Streams : \A w \in Writes :
          w \in streamRefs[s] /\ w \in streamRefs[u] => s = u
    /\ \A s \in Streams : \A w, x \in streamRefs[s] \cap Writes :
          write[w] = "done" /\ write[x] = "done" => w = x

\* What the connection's owners and its data say about where it stands.
ConnectionInv ==
    /\ \A s \in Streams : s \in holders <=> streamRefs[s] # {}
    /\ connection \in {"none", "connecting"} =>
          holders = {} /\ setups = 0 /\ cLoop = "idle" /\ \A s \in Streams : stream[s] = "none"
    /\ connection # "shutdown" => shutdowns = 0
    /\ connection = "open" => holders # {}
    /\ connection \in {"connecting", "open", "closing"} => data = "alive"
    /\ cLoop \in {"setup", "shutdown"} => data = "alive"
    /\ cLoop = "setup" => connection \in {"open", "closing"}
    /\ cLoop = "shutdown" => connection = "shutdown"
    /\ "callback" \in holders => cLoop \in {"setup", "shutdown"}

UnmanagedIInv == Unmanaged!TypeOK /\ SelfInv /\ CallbackInv /\ WriteInv /\ ConnectionInv

\* Nothing exists before CreateConnection().
LEMMA UnmanagedInitIInv ==
  ASSUME Unmanaged!Init
  PROVE  UnmanagedIInv
<1> USE HttpAssumption DEF Unmanaged!Init
<1>1. Unmanaged!TypeOK
  BY DEF Unmanaged!TypeOK
<1>2. SelfInv /\ CallbackInv /\ WriteInv /\ ConnectionInv
  BY Zenon DEF SelfInv, CallbackInv, WriteInv, ConnectionInv
<1> QED
  BY <1>1, <1>2, Zenon DEF UnmanagedIInv

\* Every step of the user, of a callback and of the C connection preserves UnmanagedIInv.
LEMMA UnmanagedNextIInv ==
  ASSUME UnmanagedIInv, [Unmanaged!Next]_Unmanaged!vars
  PROVE  UnmanagedIInv'
<1> USE HttpAssumption
    DEF UnmanagedIInv, Unmanaged!connVars, Unmanaged!streamVars, Unmanaged!loopVars
<1>1. ASSUME Unmanaged!CreateConnection
      PROVE  UnmanagedIInv'
  <2> USE <1>1 DEF Unmanaged!CreateConnection
  <2>1. Unmanaged!TypeOK'
    BY Zenon DEF Unmanaged!TypeOK, SelfInv, CallbackInv, ConnectionInv
  <2>2. SelfInv'
    BY Zenon DEF Unmanaged!TypeOK, SelfInv, CallbackInv, ConnectionInv
  <2>3. CallbackInv'
    BY Zenon DEF Unmanaged!TypeOK, SelfInv, CallbackInv, ConnectionInv
  <2>4. WriteInv'
    BY Zenon DEF Unmanaged!TypeOK, SelfInv, CallbackInv, WriteInv, ConnectionInv
  <2>5. ConnectionInv'
    BY Zenon DEF Unmanaged!TypeOK, SelfInv, CallbackInv, ConnectionInv
  <2> QED
    BY <2>1, <2>2, <2>3, <2>4, <2>5, Zenon
<1>2. ASSUME Unmanaged!CreateConnectionFails
      PROVE  UnmanagedIInv'
  <2> USE <1>2 DEF Unmanaged!CreateConnectionFails
  <2>1. Unmanaged!TypeOK'
    BY Zenon DEF Unmanaged!TypeOK, SelfInv, CallbackInv, ConnectionInv
  <2>2. SelfInv'
    BY Zenon DEF Unmanaged!TypeOK, SelfInv, CallbackInv, ConnectionInv
  <2>3. CallbackInv'
    BY Zenon DEF Unmanaged!TypeOK, SelfInv, CallbackInv, ConnectionInv
  <2>4. WriteInv'
    BY Zenon DEF Unmanaged!TypeOK, SelfInv, CallbackInv, WriteInv, ConnectionInv
  <2>5. ConnectionInv'
    BY Zenon DEF Unmanaged!TypeOK, SelfInv, CallbackInv, ConnectionInv
  <2> QED
    BY <2>1, <2>2, <2>3, <2>4, <2>5, Zenon
<1>3. ASSUME Unmanaged!KeepConnection
      PROVE  UnmanagedIInv'
  <2> USE <1>3 DEF Unmanaged!KeepConnection
  <2>1. Unmanaged!TypeOK'
    BY Zenon DEF Unmanaged!TypeOK, SelfInv, CallbackInv, ConnectionInv
  <2>2. SelfInv'
    BY Zenon DEF Unmanaged!TypeOK, SelfInv, CallbackInv, ConnectionInv
  <2>3. CallbackInv'
    BY Zenon DEF Unmanaged!TypeOK, SelfInv, CallbackInv, ConnectionInv
  <2>4. WriteInv'
    BY Zenon DEF Unmanaged!TypeOK, SelfInv, CallbackInv, WriteInv, ConnectionInv
  <2>5. ConnectionInv'
    BY Zenon DEF Unmanaged!TypeOK, SelfInv, CallbackInv, ConnectionInv
  <2> QED
    BY <2>1, <2>2, <2>3, <2>4, <2>5, Zenon
<1>4. ASSUME Unmanaged!CloseConnection
      PROVE  UnmanagedIInv'
  <2> USE <1>4 DEF Unmanaged!CloseConnection
  <2>1. Unmanaged!TypeOK'
    BY Zenon DEF Unmanaged!TypeOK, SelfInv, CallbackInv, ConnectionInv
  <2>2. SelfInv'
    BY Zenon DEF Unmanaged!TypeOK, SelfInv, CallbackInv, ConnectionInv
  <2>3. CallbackInv'
    BY Zenon DEF Unmanaged!TypeOK, SelfInv, CallbackInv, ConnectionInv
  <2>4. WriteInv'
    BY DEF Unmanaged!TypeOK, SelfInv, CallbackInv, WriteInv, ConnectionInv
  <2>5. ConnectionInv'
    BY Zenon DEF Unmanaged!TypeOK, SelfInv, CallbackInv, ConnectionInv
  <2> QED
    BY <2>1, <2>2, <2>3, <2>4, <2>5, Zenon
<1>5. ASSUME Unmanaged!ReleaseConnection
      PROVE  UnmanagedIInv'
  <2> USE <1>5 DEF Unmanaged!ReleaseConnection, Unmanaged!AfterConnectionDrop
  <2>1. Unmanaged!TypeOK'
    BY Zenon DEF Unmanaged!TypeOK, SelfInv, CallbackInv, ConnectionInv
  <2>2. SelfInv'
    BY Zenon DEF Unmanaged!TypeOK, SelfInv, CallbackInv, ConnectionInv
  <2>3. CallbackInv'
    BY Zenon DEF Unmanaged!TypeOK, SelfInv, CallbackInv, ConnectionInv
  <2>4. WriteInv'
    BY DEF Unmanaged!TypeOK, SelfInv, CallbackInv, WriteInv, ConnectionInv
  <2>5. ConnectionInv'
    BY Zenon DEF Unmanaged!TypeOK, SelfInv, CallbackInv, ConnectionInv
  <2> QED
    BY <2>1, <2>2, <2>3, <2>4, <2>5, Zenon
<1>6. ASSUME NEW s \in Streams, Unmanaged!ReleaseStream(s)
      PROVE  UnmanagedIInv'
  <2> USE <1>6 DEF Unmanaged!ReleaseStream, Unmanaged!DropStreamRef,
                   Unmanaged!AfterConnectionDrop
  <2>1. Unmanaged!TypeOK'
    BY ZenonT(60) DEF Unmanaged!TypeOK, SelfInv, CallbackInv, ConnectionInv
  <2>2. SelfInv'
    BY DEF Unmanaged!TypeOK, SelfInv, CallbackInv, ConnectionInv
  <2>3. CallbackInv'
    BY Zenon DEF Unmanaged!TypeOK, SelfInv, CallbackInv, ConnectionInv
  <2>4. WriteInv'
    BY DEF Unmanaged!TypeOK, SelfInv, CallbackInv, WriteInv, ConnectionInv
  <2>5. ConnectionInv'
    BY DEF Unmanaged!TypeOK, SelfInv, CallbackInv, ConnectionInv
  <2> QED
    BY <2>1, <2>2, <2>3, <2>4, <2>5, Zenon
<1>7. ASSUME Unmanaged!SetupSucceeds
      PROVE  UnmanagedIInv'
  <2> USE <1>7 DEF Unmanaged!SetupSucceeds
  <2>1. Unmanaged!TypeOK'
    BY DEF Unmanaged!TypeOK, SelfInv, CallbackInv, ConnectionInv
  <2>2. SelfInv'
    BY Zenon DEF Unmanaged!TypeOK, SelfInv, CallbackInv, ConnectionInv
  <2>3. CallbackInv'
    BY Zenon DEF Unmanaged!TypeOK, SelfInv, CallbackInv, ConnectionInv
  <2>4. WriteInv'
    BY Zenon DEF Unmanaged!TypeOK, SelfInv, CallbackInv, WriteInv, ConnectionInv
  <2>5. ConnectionInv'
    BY Zenon DEF Unmanaged!TypeOK, SelfInv, CallbackInv, ConnectionInv
  <2> QED
    BY <2>1, <2>2, <2>3, <2>4, <2>5, Zenon
<1>8. ASSUME Unmanaged!SetupFails
      PROVE  UnmanagedIInv'
  <2> USE <1>8 DEF Unmanaged!SetupFails
  <2>1. Unmanaged!TypeOK'
    BY DEF Unmanaged!TypeOK, SelfInv, CallbackInv, ConnectionInv
  <2>2. SelfInv'
    BY Zenon DEF Unmanaged!TypeOK, SelfInv, CallbackInv, ConnectionInv
  <2>3. CallbackInv'
    BY Zenon DEF Unmanaged!TypeOK, SelfInv, CallbackInv, ConnectionInv
  <2>4. WriteInv'
    BY Zenon DEF Unmanaged!TypeOK, SelfInv, CallbackInv, WriteInv, ConnectionInv
  <2>5. ConnectionInv'
    BY Zenon DEF Unmanaged!TypeOK, SelfInv, CallbackInv, ConnectionInv
  <2> QED
    BY <2>1, <2>2, <2>3, <2>4, <2>5, Zenon
<1>9. ASSUME Unmanaged!SetupReturns
      PROVE  UnmanagedIInv'
  <2> USE <1>9 DEF Unmanaged!SetupReturns, Unmanaged!AfterConnectionDrop
  <2>1. Unmanaged!TypeOK'
    BY Zenon DEF Unmanaged!TypeOK, SelfInv, CallbackInv, ConnectionInv
  <2>2. SelfInv'
    BY Zenon DEF Unmanaged!TypeOK, SelfInv, CallbackInv, ConnectionInv
  <2>3. CallbackInv'
    BY Zenon DEF Unmanaged!TypeOK, SelfInv, CallbackInv, ConnectionInv
  <2>4. WriteInv'
    BY Zenon DEF Unmanaged!TypeOK, SelfInv, CallbackInv, WriteInv, ConnectionInv
  <2>5. ConnectionInv'
    BY Zenon DEF Unmanaged!TypeOK, SelfInv, CallbackInv, ConnectionInv
  <2> QED
    BY <2>1, <2>2, <2>3, <2>4, <2>5, Zenon
<1>10. ASSUME Unmanaged!BeginShutdown
       PROVE  UnmanagedIInv'
  <2> USE <1>10 DEF Unmanaged!BeginShutdown
  <2>1. Unmanaged!TypeOK'
    BY DEF Unmanaged!TypeOK, SelfInv, CallbackInv, ConnectionInv
  <2>2. SelfInv'
    BY Zenon DEF Unmanaged!TypeOK, SelfInv, CallbackInv, ConnectionInv
  <2>3. CallbackInv'
    BY Zenon DEF Unmanaged!TypeOK, SelfInv, CallbackInv, ConnectionInv
  <2>4. WriteInv'
    BY Zenon DEF Unmanaged!TypeOK, SelfInv, CallbackInv, WriteInv, ConnectionInv
  <2>5. ConnectionInv'
    BY Zenon DEF Unmanaged!TypeOK, SelfInv, CallbackInv, ConnectionInv
  <2> QED
    BY <2>1, <2>2, <2>3, <2>4, <2>5, Zenon
<1>11. ASSUME Unmanaged!EndShutdown
       PROVE  UnmanagedIInv'
  <2> USE <1>11 DEF Unmanaged!EndShutdown, Unmanaged!AfterConnectionDrop
  <2>1. Unmanaged!TypeOK'
    BY Zenon DEF Unmanaged!TypeOK, SelfInv, CallbackInv, ConnectionInv
  <2>2. SelfInv'
    BY Zenon DEF Unmanaged!TypeOK, SelfInv, CallbackInv, ConnectionInv
  <2>3. CallbackInv'
    BY Zenon DEF Unmanaged!TypeOK, SelfInv, CallbackInv, ConnectionInv
  <2>4. WriteInv'
    BY Zenon DEF Unmanaged!TypeOK, SelfInv, CallbackInv, WriteInv, ConnectionInv
  <2>5. ConnectionInv'
    BY Zenon DEF Unmanaged!TypeOK, SelfInv, CallbackInv, ConnectionInv
  <2> QED
    BY <2>1, <2>2, <2>3, <2>4, <2>5, Zenon
<1>12. ASSUME Unmanaged!EndResponse
       PROVE  UnmanagedIInv'
  <2> USE <1>12 DEF Unmanaged!EndResponse
  <2>1. Unmanaged!TypeOK'
    BY Zenon DEF Unmanaged!TypeOK, SelfInv, CallbackInv, ConnectionInv
  <2>2. SelfInv'
    BY Zenon DEF Unmanaged!TypeOK, SelfInv, CallbackInv, ConnectionInv
  <2>3. CallbackInv'
    BY Zenon DEF Unmanaged!TypeOK, SelfInv, CallbackInv, ConnectionInv
  <2>4. WriteInv'
    BY Zenon DEF Unmanaged!TypeOK, SelfInv, CallbackInv, WriteInv, ConnectionInv
  <2>5. ConnectionInv'
    BY Zenon DEF Unmanaged!TypeOK, SelfInv, CallbackInv, ConnectionInv
  <2> QED
    BY <2>1, <2>2, <2>3, <2>4, <2>5, Zenon
<1>13. ASSUME Unmanaged!EndComplete
       PROVE  UnmanagedIInv'
  <2> USE <1>13 DEF Unmanaged!EndComplete, Unmanaged!DropStreamRef,
                    Unmanaged!AfterConnectionDrop
  <2>1. Unmanaged!TypeOK'
    BY ZenonT(60) DEF Unmanaged!TypeOK, SelfInv, CallbackInv, ConnectionInv
  <2>2. SelfInv'
    BY DEF Unmanaged!TypeOK, SelfInv, CallbackInv, ConnectionInv
  <2>3. CallbackInv'
    BY Zenon DEF Unmanaged!TypeOK, SelfInv, CallbackInv, ConnectionInv
  <2>4. WriteInv'
    BY DEF Unmanaged!TypeOK, SelfInv, CallbackInv, WriteInv, ConnectionInv
  <2>5. ConnectionInv'
    BY DEF Unmanaged!TypeOK, SelfInv, CallbackInv, ConnectionInv
  <2> QED
    BY <2>1, <2>2, <2>3, <2>4, <2>5, Zenon
<1>14. ASSUME NEW s \in Streams, Unmanaged!BeginResponse(s)
       PROVE  UnmanagedIInv'
  <2> USE <1>14 DEF Unmanaged!BeginResponse
  <2>1. Unmanaged!TypeOK'
    BY Zenon DEF Unmanaged!TypeOK, SelfInv, CallbackInv, ConnectionInv
  <2>2. SelfInv'
    BY Zenon DEF Unmanaged!TypeOK, SelfInv, CallbackInv, ConnectionInv
  <2>3. CallbackInv'
    BY Zenon DEF Unmanaged!TypeOK, SelfInv, CallbackInv, ConnectionInv
  <2>4. WriteInv'
    BY Zenon DEF Unmanaged!TypeOK, SelfInv, CallbackInv, WriteInv, ConnectionInv
  <2>5. ConnectionInv'
    BY Zenon DEF Unmanaged!TypeOK, SelfInv, CallbackInv, ConnectionInv
  <2> QED
    BY <2>1, <2>2, <2>3, <2>4, <2>5, Zenon
<1>15. ASSUME NEW s \in Streams, Unmanaged!BeginComplete(s)
       PROVE  UnmanagedIInv'
  <2> USE <1>15 DEF Unmanaged!BeginComplete
  <2>1. Unmanaged!TypeOK'
    BY Zenon DEF Unmanaged!TypeOK, SelfInv, CallbackInv, ConnectionInv
  <2>2. SelfInv'
    BY DEF Unmanaged!TypeOK, SelfInv, CallbackInv, ConnectionInv
  <2>3. CallbackInv'
    BY DEF Unmanaged!TypeOK, SelfInv, CallbackInv, ConnectionInv
  <2>4. WriteInv'
    BY Zenon DEF Unmanaged!TypeOK, SelfInv, CallbackInv, WriteInv, ConnectionInv
  <2>5. ConnectionInv'
    BY Zenon DEF Unmanaged!TypeOK, SelfInv, CallbackInv, ConnectionInv
  <2> QED
    BY <2>1, <2>2, <2>3, <2>4, <2>5, Zenon
<1>16. ASSUME NEW s \in Streams, NEW w \in Writes, Unmanaged!WriteCompletes(s, w)
       PROVE  UnmanagedIInv'
  <2> USE <1>16 DEF Unmanaged!WriteCompletes
  <2>1. Unmanaged!TypeOK'
    BY Zenon DEF Unmanaged!TypeOK, SelfInv, CallbackInv, ConnectionInv
  <2>2. SelfInv'
    BY Zenon DEF Unmanaged!TypeOK, SelfInv, CallbackInv, ConnectionInv
  <2>3. CallbackInv'
    BY Zenon DEF Unmanaged!TypeOK, SelfInv, CallbackInv, ConnectionInv
  <2>4. WriteInv'
    BY DEF Unmanaged!TypeOK, SelfInv, CallbackInv, WriteInv, ConnectionInv
  <2>5. ConnectionInv'
    BY Zenon DEF Unmanaged!TypeOK, SelfInv, CallbackInv, ConnectionInv
  <2> QED
    BY <2>1, <2>2, <2>3, <2>4, <2>5, Zenon
<1>17. ASSUME NEW s \in Streams, NEW w \in Writes, Unmanaged!WriteDeleted(s, w)
       PROVE  UnmanagedIInv'
  <2> USE <1>17 DEF Unmanaged!WriteDeleted, Unmanaged!DropStreamRef,
                    Unmanaged!AfterConnectionDrop
  <2>1. Unmanaged!TypeOK'
    BY ZenonT(60) DEF Unmanaged!TypeOK, SelfInv, CallbackInv, ConnectionInv
  <2>2. SelfInv'
    BY DEF Unmanaged!TypeOK, SelfInv, CallbackInv, ConnectionInv
  <2>3. CallbackInv'
    BY Zenon DEF Unmanaged!TypeOK, SelfInv, CallbackInv, ConnectionInv
  <2>4. WriteInv'
    BY DEF Unmanaged!TypeOK, SelfInv, CallbackInv, WriteInv, ConnectionInv
  <2>5. ConnectionInv'
    BY DEF Unmanaged!TypeOK, SelfInv, CallbackInv, ConnectionInv
  <2> QED
    BY <2>1, <2>2, <2>3, <2>4, <2>5, Zenon
<1>18. ASSUME NEW s \in Streams, Unmanaged!NewClientStream(s)
       PROVE  UnmanagedIInv'
  <2> USE <1>18 DEF Unmanaged!NewClientStream
  <2>1. Unmanaged!TypeOK'
    BY ZenonT(60) DEF Unmanaged!TypeOK, SelfInv, CallbackInv, ConnectionInv
  <2>2. SelfInv'
    BY DEF Unmanaged!TypeOK, SelfInv, CallbackInv, ConnectionInv
  <2>3. CallbackInv'
    BY DEF Unmanaged!TypeOK, SelfInv, CallbackInv, ConnectionInv
  <2>4. WriteInv'
    BY DEF Unmanaged!TypeOK, SelfInv, CallbackInv, WriteInv, ConnectionInv
  <2>5. ConnectionInv'
    BY DEF Unmanaged!TypeOK, SelfInv, CallbackInv, ConnectionInv
  <2> QED
    BY <2>1, <2>2, <2>3, <2>4, <2>5, Zenon
<1>19. ASSUME NEW s \in Streams, Unmanaged!ActivateOwn(s)
       PROVE  UnmanagedIInv'
  <2> USE <1>19 DEF Unmanaged!ActivateOwn
  <2>1. Unmanaged!TypeOK'
    BY Zenon DEF Unmanaged!TypeOK, SelfInv, CallbackInv, ConnectionInv
  <2>2. SelfInv'
    BY DEF Unmanaged!TypeOK, SelfInv, CallbackInv, ConnectionInv
  <2>3. CallbackInv'
    BY Zenon DEF Unmanaged!TypeOK, SelfInv, CallbackInv, ConnectionInv
  <2>4. WriteInv'
    BY DEF Unmanaged!TypeOK, SelfInv, CallbackInv, WriteInv, ConnectionInv
  <2>5. ConnectionInv'
    BY DEF Unmanaged!TypeOK, SelfInv, CallbackInv, ConnectionInv
  <2> QED
    BY <2>1, <2>2, <2>3, <2>4, <2>5, Zenon
<1>20. ASSUME NEW s \in Streams, Unmanaged!ActivateAccepted(s)
       PROVE  UnmanagedIInv'
  <2> USE <1>20 DEF Unmanaged!ActivateAccepted
  <2>1. Unmanaged!TypeOK'
    BY Zenon DEF Unmanaged!TypeOK, SelfInv, CallbackInv, ConnectionInv
  <2>2. SelfInv'
    BY DEF Unmanaged!TypeOK, SelfInv, CallbackInv, ConnectionInv
  <2>3. CallbackInv'
    BY DEF Unmanaged!TypeOK, SelfInv, CallbackInv, ConnectionInv
  <2>4. WriteInv'
    BY DEF Unmanaged!TypeOK, SelfInv, CallbackInv, WriteInv, ConnectionInv
  <2>5. ConnectionInv'
    BY Zenon DEF Unmanaged!TypeOK, SelfInv, CallbackInv, ConnectionInv
  <2> QED
    BY <2>1, <2>2, <2>3, <2>4, <2>5, Zenon
<1>21. ASSUME NEW s \in Streams, Unmanaged!ActivateRefused(s)
       PROVE  UnmanagedIInv'
  <2> USE <1>21 DEF Unmanaged!ActivateRefused
  <2>1. Unmanaged!TypeOK'
    BY Zenon DEF Unmanaged!TypeOK, SelfInv, CallbackInv, ConnectionInv
  <2>2. SelfInv'
    BY DEF Unmanaged!TypeOK, SelfInv, CallbackInv, ConnectionInv
  <2>3. CallbackInv'
    BY Zenon DEF Unmanaged!TypeOK, SelfInv, CallbackInv, ConnectionInv
  <2>4. WriteInv'
    BY DEF Unmanaged!TypeOK, SelfInv, CallbackInv, WriteInv, ConnectionInv
  <2>5. ConnectionInv'
    BY Zenon DEF Unmanaged!TypeOK, SelfInv, CallbackInv, ConnectionInv
  <2> QED
    BY <2>1, <2>2, <2>3, <2>4, <2>5, Zenon
<1>22. ASSUME NEW s \in Streams, Unmanaged!ActivateDisown(s)
       PROVE  UnmanagedIInv'
  <2> USE <1>22 DEF Unmanaged!ActivateDisown, Unmanaged!DropStreamRef,
                    Unmanaged!AfterConnectionDrop
  <2>1. Unmanaged!TypeOK'
    BY DEF Unmanaged!TypeOK, SelfInv, CallbackInv, ConnectionInv
  <2>2. SelfInv'
    BY DEF Unmanaged!TypeOK, SelfInv, CallbackInv, ConnectionInv
  <2>3. CallbackInv'
    BY Zenon DEF Unmanaged!TypeOK, SelfInv, CallbackInv, ConnectionInv
  <2>4. WriteInv'
    BY DEF Unmanaged!TypeOK, SelfInv, CallbackInv, WriteInv, ConnectionInv
  <2>5. ConnectionInv'
    BY DEF Unmanaged!TypeOK, SelfInv, CallbackInv, ConnectionInv
  <2> QED
    BY <2>1, <2>2, <2>3, <2>4, <2>5, Zenon
<1>23. ASSUME NEW s \in Streams, NEW w \in Writes, Unmanaged!WriteAccepted(s, w)
       PROVE  UnmanagedIInv'
  <2> USE <1>23 DEF Unmanaged!WriteAccepted
  <2>1. Unmanaged!TypeOK'
    BY DEF Unmanaged!TypeOK, SelfInv, CallbackInv, ConnectionInv
  <2>2. SelfInv'
    BY DEF Unmanaged!TypeOK, SelfInv, CallbackInv, ConnectionInv
  <2>3. CallbackInv'
    BY Zenon DEF Unmanaged!TypeOK, SelfInv, CallbackInv, ConnectionInv
  <2>4. WriteInv'
    <3>1. \A u \in Streams : w \notin streamRefs[u]
      BY Zenon DEF WriteInv
    <3>2. \A u \in Streams : streamRefs'[u] \in {streamRefs[u], streamRefs[u] \cup {w}}
      BY Zenon DEF Unmanaged!TypeOK
    <3>3. \A u \in Streams : w \in streamRefs'[u] => u = s
      BY <3>1, Zenon DEF Unmanaged!TypeOK
    <3>4. \A x \in Writes : x # w => write'[x] = write[x]
      BY Zenon DEF Unmanaged!TypeOK
    <3>5. write'[w] \in {"pending", "refused"}
      BY Zenon DEF Unmanaged!TypeOK
    <3> QED
      BY <3>1, <3>2, <3>3, <3>4, <3>5 DEF WriteInv
  <2>5. ConnectionInv'
    BY DEF Unmanaged!TypeOK, SelfInv, CallbackInv, ConnectionInv
  <2> QED
    BY <2>1, <2>2, <2>3, <2>4, <2>5, Zenon
<1>24. ASSUME NEW s \in Streams, NEW w \in Writes, Unmanaged!WriteRefused(s, w)
       PROVE  UnmanagedIInv'
  <2> USE <1>24 DEF Unmanaged!WriteRefused
  <2>1. Unmanaged!TypeOK'
    BY DEF Unmanaged!TypeOK, SelfInv, CallbackInv, ConnectionInv
  <2>2. SelfInv'
    BY DEF Unmanaged!TypeOK, SelfInv, CallbackInv, ConnectionInv
  <2>3. CallbackInv'
    BY Zenon DEF Unmanaged!TypeOK, SelfInv, CallbackInv, ConnectionInv
  <2>4. WriteInv'
    <3>1. \A u \in Streams : w \notin streamRefs[u]
      BY Zenon DEF WriteInv
    <3>2. \A u \in Streams : streamRefs'[u] \in {streamRefs[u], streamRefs[u] \cup {w}}
      BY Zenon DEF Unmanaged!TypeOK
    <3>3. \A u \in Streams : w \in streamRefs'[u] => u = s
      BY <3>1, Zenon DEF Unmanaged!TypeOK
    <3>4. \A x \in Writes : x # w => write'[x] = write[x]
      BY Zenon DEF Unmanaged!TypeOK
    <3>5. write'[w] \in {"pending", "refused"}
      BY Zenon DEF Unmanaged!TypeOK
    <3> QED
      BY <3>1, <3>2, <3>3, <3>4, <3>5 DEF WriteInv
  <2>5. ConnectionInv'
    BY SMTT(60) DEF Unmanaged!TypeOK, SelfInv, CallbackInv, ConnectionInv
  <2> QED
    BY <2>1, <2>2, <2>3, <2>4, <2>5, Zenon
<1>25. ASSUME UNCHANGED Unmanaged!vars
       PROVE  UnmanagedIInv'
  BY <1>25 DEF Unmanaged!vars, Unmanaged!TypeOK, SelfInv, CallbackInv, WriteInv, ConnectionInv
<1> QED
  BY <1>1, <1>2, <1>3, <1>4, <1>5, <1>6, <1>7, <1>8, <1>9, <1>10, <1>11, <1>12, <1>13, <1>14, <1>15,
     <1>16, <1>17, <1>18, <1>19, <1>20, <1>21, <1>22, <1>23, <1>24, <1>25, ZenonT(60)
     DEF Unmanaged!Next, Unmanaged!UserReleases, Unmanaged!LoopStep, Unmanaged!ActivateStep,
         Unmanaged!Finished

\* The invariant of every behaviour of an unmanaged connection.
THEOREM UnmanagedInvariance == Unmanaged!Spec => []UnmanagedIInv
<1>1. Unmanaged!Init => UnmanagedIInv
  BY UnmanagedInitIInv, Zenon
<1>2. UnmanagedIInv /\ [Unmanaged!Next]_Unmanaged!vars => UnmanagedIInv'
  BY UnmanagedNextIInv, Zenon
<1> QED
  BY <1>1, <1>2, PTL DEF Unmanaged!Spec

\* For any streams and writes: no stream callback finds a null stream, because Activate()
\* seats the reference before the C stream may call back and s_onStreamComplete resets it
\* last; after that only the user, writes in flight and refused writes own the stream; and
\* the connection and its callback data are there for whoever still needs them.
THEOREM StreamsAreOwned == HttpSpec => []StreamOwnership
<1>1. HttpInit => Unmanaged!Init
  BY Zenon DEF HttpInit
<1>2. [HttpNext]_httpVars => [Unmanaged!Next]_Unmanaged!vars
  BY Zenon DEF HttpNext, httpVars, connectionVars, Unmanaged!vars, Unmanaged!connVars,
     Unmanaged!streamVars, Unmanaged!loopVars
<1>3. ASSUME UnmanagedIInv
      PROVE  StreamOwnership
  <2>1. Unmanaged!ActiveStreamOwnsItself
    BY <1>3, Zenon DEF UnmanagedIInv, SelfInv, CallbackInv, Unmanaged!ActiveStreamOwnsItself
  <2>2. Unmanaged!NothingOwnsAFinishedStream
    <3> SUFFICES ASSUME NEW s \in Streams, stream[s] = "complete", cStream # s,
                        NEW r \in streamRefs[s], r # "user"
                 PROVE  r \in Writes /\ write[r] \in {"pending", "refused"}
      BY Zenon DEF Unmanaged!NothingOwnsAFinishedStream
    <3>1. r # "self"
      BY <1>3, Zenon DEF UnmanagedIInv, SelfInv
    <3>2. r \in Writes
      BY <1>3, <3>1, Zenon DEF UnmanagedIInv, Unmanaged!TypeOK
    <3> QED
      BY <1>3, <3>2, Zenon DEF UnmanagedIInv, WriteInv
  <2>3. Unmanaged!StreamsOwnConnection
    BY <1>3, Zenon DEF UnmanagedIInv, ConnectionInv, Unmanaged!StreamsOwnConnection
  <2> QED
    BY <2>1, <2>2, <2>3, Zenon DEF StreamOwnership
<1> QED
  BY <1>1, <1>2, <1>3, UnmanagedInvariance, PTL DEF HttpSpec, Unmanaged!Spec

=============================================================================
