---------------------------- MODULE Mqtt5Proofs ----------------------------
(***************************************************************************)
(* The safety properties of the MQTT5 client and of what is built on it -  *)
(* streaming operations, request-response clients, acknowledgements - for  *)
(* any sets of threads, operations, requests and publishes.                *)
(*                                                                         *)
(* Each of the four has its inductive invariant, shown for the component   *)
(* on its own.  A behaviour of Mqtt5 is one of each component, which gives *)
(* the properties the model checker is asked for.  The client core comes   *)
(* last: Mqtt5 has its variables, the others are instances.                *)
(***************************************************************************)
EXTENDS Mqtt5, TLAPS

-----------------------------------------------------------------------------
(* Streaming operations                                                    *)
(*                                                                         *)
(* The properties do not say who keeps the impl and who may be where.      *)
(* StreamIInv does.  The handle of the C operation is there until the      *)
(* operation terminates, the StreamingOperation as long as somebody owns   *)
(* it or is in one of its functions; only the thread that dropped the last *)
(* reference is in Close(), and nobody is then in Open(); and the locks    *)
(* are what the places of the threads say.                                 *)

StreamClosing == {"close", "mark", "release", "drop"}

\* Who keeps the impl.
StreamRefInv ==
    /\ sNative = "none" => implRefs = {}
    /\ "handle" \in implRefs <=> sNative \in {"created", "active", "released"}
    /\ sHolders # {} => "operation" \in implRefs
    /\ \A t \in Stream!Threads : sPc[t] # "idle" => "operation" \in implRefs

\* One thread closes, after the last reference is gone.
StreamCloseInv ==
    /\ sHolders # {} => sNative \in {"created", "active"} /\ ~closed
    /\ \A t \in Stream!Threads :
        /\ sPc[t] = "open" => t \in sHolders
        /\ sPc[t] \in StreamClosing => sHolders = {}
        /\ sPc[t] \in {"close", "mark"} => ~closed
        /\ sPc[t] \in {"release", "drop"} => closed
        /\ sPc[t] \in {"close", "mark", "release"} => sNative \in {"created", "active"}
    /\ \A t, u \in Stream!Threads : sPc[t] \in StreamClosing /\ sPc[u] \in StreamClosing => t = u
    /\ sNative = "none" => ~closed
    /\ sNative \in {"released", "terminated"} => closed
    /\ sCloser = NoThread <=> ~closed

\* The lock is held by the threads that are where it is held.
StreamLockInv ==
    /\ readers = {t \in Stream!Threads : sPc[t] = "open"}
    /\ \A t \in Stream!Threads : writer = t <=> sPc[t] = "mark" /\ t # EventLoop
    /\ inCallback <=> sAt = "user"
    /\ writer # NoThread => ~inCallback

\* A callback belongs to an operation that has not terminated.
StreamLoopInv ==
    /\ sAt \in {"enter", "user"} => sNative \in {"active", "released"}
    /\ sPc[EventLoop] # "idle" => sAt \in {"user", "other"}

StreamIInv == Stream!TypeOK /\ StreamRefInv /\ StreamCloseInv /\ StreamLockInv /\ StreamLoopInv

\* Nothing is locked, owned or running before Create().
LEMMA StreamInitIInv ==
  ASSUME Stream!Init
  PROVE  StreamIInv
BY Mqtt5Assumption, Zenon DEF Stream!Init, StreamIInv, Stream!TypeOK, StreamRefInv, StreamCloseInv,
       StreamLockInv, StreamLoopInv, Stream!Threads, StreamClosing

\* Every step of a thread, of the event loop and of the C operation preserves StreamIInv.
LEMMA StreamNextIInv ==
  ASSUME StreamIInv, [Stream!Next]_Stream!vars
  PROVE  StreamIInv'
<1> USE Mqtt5Assumption DEF StreamIInv, Stream!Threads, Stream!refVars, Stream!lockVars,
        Stream!closeVars
<1>1. ASSUME NEW t \in StreamThreads, Stream!Create(t)
      PROVE  StreamIInv'
  <2> USE <1>1 DEF Stream!Create
  <2>1. Stream!TypeOK'
    BY Zenon DEF Stream!TypeOK, StreamCloseInv, StreamLockInv
  <2>2. StreamRefInv'
    BY Zenon DEF Stream!TypeOK, StreamRefInv, StreamCloseInv
  <2>3. StreamCloseInv'
    BY Zenon DEF Stream!TypeOK, StreamRefInv, StreamCloseInv, StreamLockInv, StreamClosing
  <2>4. StreamLockInv'
    BY DEF Stream!TypeOK, StreamRefInv, StreamCloseInv, StreamLockInv, StreamClosing
  <2>5. StreamLoopInv'
    BY Zenon DEF Stream!TypeOK, StreamRefInv, StreamCloseInv, StreamLoopInv
  <2> QED
    BY <2>1, <2>2, <2>3, <2>4, <2>5, Zenon
<1>2. ASSUME NEW t \in Stream!Threads, Stream!ShareReference(t)
      PROVE  StreamIInv'
  <2> USE <1>2 DEF Stream!ShareReference, Stream!MayCall
  <2>1. Stream!TypeOK'
    BY Zenon DEF Stream!TypeOK, StreamCloseInv, StreamLockInv
  <2>2. StreamRefInv'
    BY Zenon DEF Stream!TypeOK, StreamRefInv, StreamCloseInv
  <2>3. StreamCloseInv'
    BY Zenon DEF Stream!TypeOK, StreamRefInv, StreamCloseInv, StreamLockInv, StreamClosing
  <2>4. StreamLockInv'
    BY DEF Stream!TypeOK, StreamRefInv, StreamCloseInv, StreamLockInv, StreamClosing
  <2>5. StreamLoopInv'
    BY Zenon DEF Stream!TypeOK, StreamRefInv, StreamCloseInv, StreamLoopInv
  <2> QED
    BY <2>1, <2>2, <2>3, <2>4, <2>5, Zenon
<1>3. ASSUME NEW t \in Stream!Threads, Stream!ReleaseReference(t)
      PROVE  StreamIInv'
  <2> USE <1>3 DEF Stream!ReleaseReference, Stream!MayCall
  <2>1. Stream!TypeOK'
    BY Zenon DEF Stream!TypeOK, StreamCloseInv, StreamLockInv
  <2>2. StreamRefInv'
    BY Zenon DEF Stream!TypeOK, StreamRefInv, StreamCloseInv
  <2>3. StreamCloseInv'
    BY DEF Stream!TypeOK, StreamRefInv, StreamCloseInv, StreamLockInv, StreamClosing
  <2>4. StreamLockInv'
    BY DEF Stream!TypeOK, StreamRefInv, StreamCloseInv, StreamLockInv, StreamClosing
  <2>5. StreamLoopInv'
    BY Zenon DEF Stream!TypeOK, StreamRefInv, StreamCloseInv, StreamLoopInv
  <2> QED
    BY <2>1, <2>2, <2>3, <2>4, <2>5, Zenon
<1>4. ASSUME NEW t \in Stream!Threads, Stream!OpenLock(t)
      PROVE  StreamIInv'
  <2> USE <1>4 DEF Stream!OpenLock, Stream!MayCall
  <2>1. Stream!TypeOK'
    BY Zenon DEF Stream!TypeOK, StreamCloseInv, StreamLockInv
  <2>2. StreamRefInv'
    BY Zenon DEF Stream!TypeOK, StreamRefInv, StreamCloseInv
  <2>3. StreamCloseInv'
    BY DEF Stream!TypeOK, StreamRefInv, StreamCloseInv, StreamLockInv, StreamClosing
  <2>4. StreamLockInv'
    BY DEF Stream!TypeOK, StreamRefInv, StreamCloseInv, StreamLockInv, StreamClosing
  <2>5. StreamLoopInv'
    BY Zenon DEF Stream!TypeOK, StreamRefInv, StreamCloseInv, StreamLoopInv
  <2> QED
    BY <2>1, <2>2, <2>3, <2>4, <2>5, Zenon
<1>5. ASSUME NEW t \in Stream!Threads, Stream!OpenActivate(t)
      PROVE  StreamIInv'
  <2> USE <1>5 DEF Stream!OpenActivate
  <2>1. Stream!TypeOK'
    BY Zenon DEF Stream!TypeOK, StreamCloseInv, StreamLockInv
  <2>2. StreamRefInv'
    BY Zenon DEF Stream!TypeOK, StreamRefInv, StreamCloseInv
  <2>3. StreamCloseInv'
    BY Zenon DEF Stream!TypeOK, StreamRefInv, StreamCloseInv, StreamLockInv, StreamClosing
  <2>4. StreamLockInv'
    BY Zenon DEF Stream!TypeOK, StreamRefInv, StreamCloseInv, StreamLockInv, StreamClosing
  <2>5. StreamLoopInv'
    BY Zenon DEF Stream!TypeOK, StreamRefInv, StreamCloseInv, StreamLoopInv
  <2> QED
    BY <2>1, <2>2, <2>3, <2>4, <2>5, Zenon
<1>6. ASSUME NEW t \in Stream!Threads, Stream!CloseLock(t)
      PROVE  StreamIInv'
  <2> USE <1>6 DEF Stream!CloseLock
  <2>1. Stream!TypeOK'
    BY DEF Stream!TypeOK, StreamCloseInv, StreamLockInv
  <2>2. StreamRefInv'
    BY Zenon DEF Stream!TypeOK, StreamRefInv, StreamCloseInv
  <2>3. StreamCloseInv'
    BY DEF Stream!TypeOK, StreamRefInv, StreamCloseInv, StreamLockInv, StreamClosing
  <2>4. StreamLockInv'
    BY DEF Stream!TypeOK, StreamRefInv, StreamCloseInv, StreamLockInv, StreamClosing
  <2>5. StreamLoopInv'
    BY Zenon DEF Stream!TypeOK, StreamRefInv, StreamCloseInv, StreamLoopInv
  <2> QED
    BY <2>1, <2>2, <2>3, <2>4, <2>5, Zenon
<1>7. ASSUME NEW t \in Stream!Threads, Stream!CloseMark(t)
      PROVE  StreamIInv'
  <2> USE <1>7 DEF Stream!CloseMark
  <2>1. Stream!TypeOK'
    BY Zenon DEF Stream!TypeOK, StreamCloseInv, StreamLockInv
  <2>2. StreamRefInv'
    BY Zenon DEF Stream!TypeOK, StreamRefInv, StreamCloseInv
  <2>3. StreamCloseInv'
    BY DEF Stream!TypeOK, StreamRefInv, StreamCloseInv, StreamLockInv, StreamClosing
  <2>4. StreamLockInv'
    BY DEF Stream!TypeOK, StreamRefInv, StreamCloseInv, StreamLockInv, StreamClosing
  <2>5. StreamLoopInv'
    BY Zenon DEF Stream!TypeOK, StreamRefInv, StreamCloseInv, StreamLoopInv
  <2> QED
    BY <2>1, <2>2, <2>3, <2>4, <2>5, Zenon
<1>8. ASSUME NEW t \in Stream!Threads, Stream!CloseRelease(t)
      PROVE  StreamIInv'
  <2> USE <1>8 DEF Stream!CloseRelease
  <2>1. Stream!TypeOK'
    BY Zenon DEF Stream!TypeOK, StreamCloseInv, StreamLockInv
  <2>2. StreamRefInv'
    BY Zenon DEF Stream!TypeOK, StreamRefInv, StreamCloseInv
  <2>3. StreamCloseInv'
    BY Zenon DEF Stream!TypeOK, StreamRefInv, StreamCloseInv, StreamLockInv, StreamClosing
  <2>4. StreamLockInv'
    BY DEF Stream!TypeOK, StreamRefInv, StreamCloseInv, StreamLockInv, StreamClosing
  <2>5. StreamLoopInv'
    BY Zenon DEF Stream!TypeOK, StreamRefInv, StreamCloseInv, StreamLoopInv
  <2> QED
    BY <2>1, <2>2, <2>3, <2>4, <2>5, Zenon
<1>9. ASSUME NEW t \in Stream!Threads, Stream!DropImpl(t)
      PROVE  StreamIInv'
  <2> USE <1>9 DEF Stream!DropImpl
  <2>1. Stream!TypeOK'
    BY Zenon DEF Stream!TypeOK, StreamCloseInv, StreamLockInv
  <2>2. StreamRefInv'
    BY Zenon DEF Stream!TypeOK, StreamRefInv, StreamCloseInv, StreamClosing
  <2>3. StreamCloseInv'
    BY Zenon DEF Stream!TypeOK, StreamRefInv, StreamCloseInv, StreamLockInv, StreamClosing
  <2>4. StreamLockInv'
    BY DEF Stream!TypeOK, StreamRefInv, StreamCloseInv, StreamLockInv, StreamClosing
  <2>5. StreamLoopInv'
    BY Zenon DEF Stream!TypeOK, StreamRefInv, StreamCloseInv, StreamLoopInv
  <2> QED
    BY <2>1, <2>2, <2>3, <2>4, <2>5, Zenon
<1>10. ASSUME Stream!BeginCallback
      PROVE  StreamIInv'
  <2> USE <1>10 DEF Stream!BeginCallback, Stream!LoopIdle
  <2>1. Stream!TypeOK'
    BY Zenon DEF Stream!TypeOK, StreamCloseInv, StreamLockInv
  <2>2. StreamRefInv'
    BY Zenon DEF Stream!TypeOK, StreamRefInv, StreamCloseInv
  <2>3. StreamCloseInv'
    BY Zenon DEF Stream!TypeOK, StreamRefInv, StreamCloseInv, StreamLockInv, StreamClosing
  <2>4. StreamLockInv'
    BY DEF Stream!TypeOK, StreamRefInv, StreamCloseInv, StreamLockInv, StreamClosing
  <2>5. StreamLoopInv'
    BY Zenon DEF Stream!TypeOK, StreamRefInv, StreamCloseInv, StreamLoopInv
  <2> QED
    BY <2>1, <2>2, <2>3, <2>4, <2>5, Zenon
<1>11. ASSUME Stream!BeginOther
      PROVE  StreamIInv'
  <2> USE <1>11 DEF Stream!BeginOther, Stream!LoopIdle
  <2>1. Stream!TypeOK'
    BY Zenon DEF Stream!TypeOK, StreamCloseInv, StreamLockInv
  <2>2. StreamRefInv'
    BY Zenon DEF Stream!TypeOK, StreamRefInv, StreamCloseInv
  <2>3. StreamCloseInv'
    BY Zenon DEF Stream!TypeOK, StreamRefInv, StreamCloseInv, StreamLockInv, StreamClosing
  <2>4. StreamLockInv'
    BY Zenon DEF Stream!TypeOK, StreamRefInv, StreamCloseInv, StreamLockInv, StreamClosing
  <2>5. StreamLoopInv'
    BY Zenon DEF Stream!TypeOK, StreamRefInv, StreamCloseInv, StreamLoopInv
  <2> QED
    BY <2>1, <2>2, <2>3, <2>4, <2>5, Zenon
<1>12. ASSUME Stream!EnterCallback
      PROVE  StreamIInv'
  <2> USE <1>12 DEF Stream!EnterCallback
  <2>1. Stream!TypeOK'
    BY Zenon DEF Stream!TypeOK, StreamCloseInv, StreamLockInv
  <2>2. StreamRefInv'
    BY Zenon DEF Stream!TypeOK, StreamRefInv, StreamCloseInv
  <2>3. StreamCloseInv'
    BY Zenon DEF Stream!TypeOK, StreamRefInv, StreamCloseInv, StreamLockInv, StreamClosing
  <2>4. StreamLockInv'
    BY Zenon DEF Stream!TypeOK, StreamRefInv, StreamCloseInv, StreamLockInv, StreamClosing
  <2>5. StreamLoopInv'
    BY Zenon DEF Stream!TypeOK, StreamRefInv, StreamCloseInv, StreamLoopInv
  <2> QED
    BY <2>1, <2>2, <2>3, <2>4, <2>5, Zenon
<1>13. ASSUME Stream!LeaveCallback
      PROVE  StreamIInv'
  <2> USE <1>13 DEF Stream!LeaveCallback
  <2>1. Stream!TypeOK'
    BY ZenonT(60) DEF Stream!TypeOK, StreamCloseInv, StreamLockInv
  <2>2. StreamRefInv'
    BY Zenon DEF Stream!TypeOK, StreamRefInv, StreamCloseInv
  <2>3. StreamCloseInv'
    BY Zenon DEF Stream!TypeOK, StreamRefInv, StreamCloseInv, StreamLockInv, StreamClosing
  <2>4. StreamLockInv'
    BY DEF Stream!TypeOK, StreamRefInv, StreamCloseInv, StreamLockInv, StreamClosing
  <2>5. StreamLoopInv'
    BY Zenon DEF Stream!TypeOK, StreamRefInv, StreamCloseInv, StreamLoopInv
  <2> QED
    BY <2>1, <2>2, <2>3, <2>4, <2>5, Zenon
<1>14. ASSUME Stream!OnTerminated
      PROVE  StreamIInv'
  <2> USE <1>14 DEF Stream!OnTerminated, Stream!LoopIdle
  <2>1. Stream!TypeOK'
    BY Zenon DEF Stream!TypeOK, StreamCloseInv, StreamLockInv
  <2>2. StreamRefInv'
    BY Zenon DEF Stream!TypeOK, StreamRefInv, StreamCloseInv
  <2>3. StreamCloseInv'
    BY Zenon DEF Stream!TypeOK, StreamRefInv, StreamCloseInv, StreamLockInv, StreamClosing
  <2>4. StreamLockInv'
    BY DEF Stream!TypeOK, StreamRefInv, StreamCloseInv, StreamLockInv, StreamClosing
  <2>5. StreamLoopInv'
    BY Zenon DEF Stream!TypeOK, StreamRefInv, StreamCloseInv, StreamLoopInv
  <2> QED
    BY <2>1, <2>2, <2>3, <2>4, <2>5, Zenon
<1>15. ASSUME UNCHANGED Stream!vars
      PROVE  StreamIInv'
  BY <1>15 DEF Stream!vars, Stream!TypeOK, StreamRefInv, StreamCloseInv, StreamLockInv,
               StreamLoopInv
<1> QED
  BY <1>1, <1>2, <1>3, <1>4, <1>5, <1>6, <1>7, <1>8, <1>9, <1>10, <1>11, <1>12, <1>13, <1>14,
     <1>15, Zenon DEF Stream!Next, Stream!ThreadStep, Stream!LoopStep, Stream!Finished

\* The invariant of every behaviour of a streaming operation.
THEOREM StreamInvariance == Stream!Spec => []StreamIInv
<1>1. Stream!Init => StreamIInv
  BY StreamInitIInv, Zenon
<1>2. StreamIInv /\ [Stream!Next]_Stream!vars => StreamIInv'
  BY StreamNextIInv, Zenon
<1> QED
  BY <1>1, <1>2, PTL DEF Stream!Spec

-----------------------------------------------------------------------------
(* The callback gate *)

\* A stream that does not exist yet is an open gate with no callback inside.
LEMMA StreamGateInit ==
  ASSUME Stream!Init
  PROVE  Stream!Gate!Init
BY Zenon DEF Stream!Init, Stream!Gate!Init, Stream!InUserCode

\* EnterCallback and LeaveCallback enter and leave the gate, CloseMark closes it, from
\* the event loop or from outside, and the last of DropImpl and OnTerminated frees it.
LEMMA StreamGateStep ==
  ASSUME StreamIInv, [Stream!Next]_Stream!vars
  PROVE  [Stream!Gate!Next]_Stream!Gate!gateVars
<1> USE Mqtt5Assumption DEF Stream!Threads, StreamIInv, Stream!TypeOK, Stream!InUserCode,
        Stream!Gate!gateVars, Stream!refVars, Stream!lockVars, Stream!closeVars
<1>1. ASSUME NEW t \in StreamThreads, Stream!Create(t)
      PROVE  UNCHANGED Stream!Gate!gateVars
  BY <1>1, Zenon DEF Stream!Create, StreamCloseInv
<1>2. ASSUME NEW t \in Stream!Threads,
             Stream!ShareReference(t) \/ Stream!ReleaseReference(t) \/ Stream!OpenLock(t)
               \/ Stream!OpenActivate(t) \/ Stream!CloseLock(t) \/ Stream!CloseRelease(t)
      PROVE  UNCHANGED Stream!Gate!gateVars
  BY <1>2 DEF Stream!ShareReference, Stream!ReleaseReference, Stream!OpenLock,
              Stream!OpenActivate, Stream!CloseLock, Stream!CloseRelease
<1>3. ASSUME NEW t \in Stream!Threads, Stream!CloseMark(t)
      PROVE  Stream!Gate!Next
  <2>1. ~closed /\ closed' /\ implRefs' # {} /\ sCloser' = t /\ UNCHANGED sAt
    BY <1>3, Zenon DEF Stream!CloseMark, StreamCloseInv, StreamRefInv
  <2>2. CASE t = EventLoop
    <3>1. Stream!Gate!CloseFromCallback
      BY <2>1, <2>2, Zenon DEF Stream!Gate!CloseFromCallback
    <3> QED
      BY <3>1, Zenon DEF Stream!Gate!Next
  <2>3. CASE t # EventLoop
    <3>1. sAt # "user"
      BY <1>3, <2>3, Zenon DEF Stream!CloseMark, StreamLockInv
    <3>2. Stream!Gate!CloseFromOutside
      BY <2>1, <2>3, <3>1, Zenon DEF Stream!Gate!CloseFromOutside
    <3> QED
      BY <3>2, Zenon DEF Stream!Gate!Next
  <2> QED
    BY <2>2, <2>3, Zenon
<1>4. ASSUME NEW t \in Stream!Threads, Stream!DropImpl(t)
      PROVE  [Stream!Gate!Next]_Stream!Gate!gateVars
  <2>1. closed /\ implRefs # {} /\ UNCHANGED <<closed, sCloser, sAt>>
    BY <1>4, Zenon DEF Stream!DropImpl, StreamCloseInv, StreamRefInv
  <2>2. CASE implRefs' # {}
    BY <2>1, <2>2, Zenon
  <2>3. CASE implRefs' = {}
    <3>1. sAt # "user"
      BY <1>4, <2>3, Zenon DEF Stream!DropImpl, StreamRefInv, StreamLoopInv
    <3>2. Stream!Gate!Free
      BY <2>1, <2>3, <3>1, Zenon DEF Stream!Gate!Free
    <3> QED
      BY <3>2, Zenon DEF Stream!Gate!Next
  <2> QED
    BY <2>2, <2>3, Zenon
<1>5. ASSUME Stream!BeginCallback \/ Stream!BeginOther
      PROVE  UNCHANGED Stream!Gate!gateVars
  BY <1>5 DEF Stream!BeginCallback, Stream!BeginOther, Stream!LoopIdle
<1>6. ASSUME Stream!EnterCallback
      PROVE  [Stream!Gate!Next]_Stream!Gate!gateVars
  <2>1. CASE closed
    BY <1>6, <2>1, Zenon DEF Stream!EnterCallback
  <2>2. CASE ~closed
    <3>1. Stream!Gate!Enter
      BY <1>6, <2>2, Zenon DEF Stream!EnterCallback, Stream!Gate!Enter
    <3> QED
      BY <3>1, Zenon DEF Stream!Gate!Next
  <2> QED
    BY <2>1, <2>2, Zenon
<1>7. ASSUME Stream!LeaveCallback
      PROVE  [Stream!Gate!Next]_Stream!Gate!gateVars
  <2>1. CASE sAt = "user"
    <3>1. Stream!Gate!Leave
      BY <1>7, <2>1, Zenon DEF Stream!LeaveCallback, Stream!Gate!Leave
    <3> QED
      BY <3>1, Zenon DEF Stream!Gate!Next
  <2>2. CASE sAt = "other"
    BY <1>7, <2>2, Zenon DEF Stream!LeaveCallback
  <2> QED
    BY <1>7, <2>1, <2>2, Zenon DEF Stream!LeaveCallback
<1>8. ASSUME Stream!OnTerminated
      PROVE  [Stream!Gate!Next]_Stream!Gate!gateVars
  <2>1. closed /\ implRefs # {} /\ sAt = "none" /\ UNCHANGED <<closed, sCloser, sAt>>
    BY <1>8, Zenon DEF Stream!OnTerminated, Stream!LoopIdle, StreamCloseInv, StreamRefInv
  <2>2. CASE implRefs' # {}
    BY <2>1, <2>2, Zenon
  <2>3. CASE implRefs' = {}
    <3>1. Stream!Gate!Free
      BY <2>1, <2>3, Zenon DEF Stream!Gate!Free
    <3> QED
      BY <3>1, Zenon DEF Stream!Gate!Next
  <2> QED
    BY <2>2, <2>3, Zenon
<1>9. ASSUME UNCHANGED Stream!vars
      PROVE  UNCHANGED Stream!Gate!gateVars
  BY <1>9, Zenon DEF Stream!vars
<1> QED
  BY <1>1, <1>2, <1>3, <1>4, <1>5, <1>6, <1>7, <1>8, <1>9, ZenonT(60)
     DEF Stream!Next, Stream!ThreadStep, Stream!LoopStep, Stream!Finished


-----------------------------------------------------------------------------
(* Request-response clients                                                *)
(*                                                                         *)
(* RequestIInv adds to the properties who may be in the destructor, and    *)
(* which request the completion callback has: one thread closes, after the *)
(* last reference is gone, and a C client that was released finds m_client *)
(* cleared; the request being completed is the only one in that state.     *)

\* One thread closes the client, which then has no owner.
RequestCloseInv ==
    /\ rHolders # {} => rNative = "alive"
    /\ \A t \in Request!Threads :
        /\ rPc[t] # "idle" => rHolders = {} /\ rNative = "alive"
        /\ rPc[t] = "release" => ~rClient
    /\ \A t, u \in Request!Threads : rPc[t] # "idle" /\ rPc[u] # "idle" => t = u

\* m_client is cleared before the C client is released, and the impl lives as long as it.
RequestClientInv ==
    /\ rImpl = "none" => rNative = "none"
    /\ rImpl = "freed" => rNative \in {"none", "terminated"}
    /\ rNative # "alive" => ~rClient

\* A request that was accepted is queued, being completed, or was answered, and has its
\* data until then; a C client that terminated has completed them all.
RequestAnswerInv ==
    /\ rAt # "none" => request[rCurrent] = "completing"
    /\ \A r \in Requests :
        /\ request[r] \in {"completing", "freed"} <=> outcome[r] # "none"
        /\ request[r] = "completing" => rAt # "none" /\ rCurrent = r
        /\ request[r] \in {"queued", "completing"} <=> r \in incomplete
    /\ rNative = "terminated" => incomplete = {}

RequestIInv == Request!TypeOK /\ RequestCloseInv /\ RequestClientInv /\ RequestAnswerInv

\* Nothing exists before NewClient().
LEMMA RequestInitIInv ==
  ASSUME Request!Init
  PROVE  RequestIInv
BY ZenonT(60) DEF Request!Init, RequestIInv, Request!TypeOK, RequestCloseInv, RequestClientInv,
       RequestAnswerInv, Request!Threads

\* Every step of a thread, of a completion and of the C client preserves RequestIInv.
LEMMA RequestNextIInv ==
  ASSUME RequestIInv, [Request!Next]_Request!vars
  PROVE  RequestIInv'
<1> USE Mqtt5Assumption DEF RequestIInv, Request!Threads
<1>1. ASSUME NEW t \in RequestThreads, rImpl = "none", Request!NewClient(t)
      PROVE  RequestIInv'
  <2> USE <1>1 DEF Request!NewClient
  <2>1. Request!TypeOK'
    BY Zenon DEF Request!TypeOK
  <2>2. RequestCloseInv'
    BY Zenon DEF Request!TypeOK, RequestCloseInv, RequestClientInv
  <2>3. RequestClientInv'
    BY Zenon DEF Request!TypeOK, RequestCloseInv, RequestClientInv
  <2>4. RequestAnswerInv'
    BY Zenon DEF Request!TypeOK, RequestCloseInv, RequestClientInv, RequestAnswerInv
  <2> QED
    BY <2>1, <2>2, <2>3, <2>4, Zenon
<1>2. ASSUME Request!NewClientFails
      PROVE  RequestIInv'
  <2> USE <1>2 DEF Request!NewClientFails
  <2>1. Request!TypeOK'
    BY Zenon DEF Request!TypeOK
  <2>2. RequestCloseInv'
    BY Zenon DEF Request!TypeOK, RequestCloseInv, RequestClientInv
  <2>3. RequestClientInv'
    BY Zenon DEF Request!TypeOK, RequestCloseInv, RequestClientInv
  <2>4. RequestAnswerInv'
    BY Zenon DEF Request!TypeOK, RequestCloseInv, RequestClientInv, RequestAnswerInv
  <2> QED
    BY <2>1, <2>2, <2>3, <2>4, Zenon
<1>3. ASSUME NEW t \in Request!Threads, Request!ShareReference(t)
      PROVE  RequestIInv'
  <2> USE <1>3 DEF Request!ShareReference, Request!MayCall
  <2>1. Request!TypeOK'
    BY Zenon DEF Request!TypeOK
  <2>2. RequestCloseInv'
    BY Zenon DEF Request!TypeOK, RequestCloseInv, RequestClientInv
  <2>3. RequestClientInv'
    BY Zenon DEF Request!TypeOK, RequestCloseInv, RequestClientInv
  <2>4. RequestAnswerInv'
    BY Zenon DEF Request!TypeOK, RequestCloseInv, RequestClientInv, RequestAnswerInv
  <2> QED
    BY <2>1, <2>2, <2>3, <2>4, Zenon
<1>4. ASSUME NEW t \in Request!Threads, Request!ReleaseReference(t)
      PROVE  RequestIInv'
  <2> USE <1>4 DEF Request!ReleaseReference, Request!MayCall, Request!AfterDrop
  <2>1. Request!TypeOK'
    BY Zenon DEF Request!TypeOK
  <2>2. RequestCloseInv'
    BY Zenon DEF Request!TypeOK, RequestCloseInv, RequestClientInv
  <2>3. RequestClientInv'
    BY Zenon DEF Request!TypeOK, RequestCloseInv, RequestClientInv
  <2>4. RequestAnswerInv'
    BY Zenon DEF Request!TypeOK, RequestCloseInv, RequestClientInv, RequestAnswerInv
  <2> QED
    BY <2>1, <2>2, <2>3, <2>4, Zenon
<1>5. ASSUME NEW t \in Request!Threads, NEW r \in Requests, NEW c \in BOOLEAN,
             Request!SubmitRequest(t, r, c)
      PROVE  RequestIInv'
  <2> USE <1>5 DEF Request!SubmitRequest, Request!MayCall
  <2>1. Request!TypeOK'
    BY Zenon DEF Request!TypeOK
  <2>2. RequestCloseInv'
    BY Zenon DEF Request!TypeOK, RequestCloseInv, RequestClientInv
  <2>3. RequestClientInv'
    BY Zenon DEF Request!TypeOK, RequestCloseInv, RequestClientInv
  <2>4. RequestAnswerInv'
    BY Zenon DEF Request!TypeOK, RequestCloseInv, RequestClientInv, RequestAnswerInv
  <2> QED
    BY <2>1, <2>2, <2>3, <2>4, Zenon
<1>6. ASSUME NEW t \in Request!Threads, NEW r \in Requests, Request!SubmitRejected(t, r)
      PROVE  RequestIInv'
  <2> USE <1>6 DEF Request!SubmitRejected, Request!MayCall
  <2>1. Request!TypeOK'
    BY Zenon DEF Request!TypeOK
  <2>2. RequestCloseInv'
    BY Zenon DEF Request!TypeOK, RequestCloseInv, RequestClientInv
  <2>3. RequestClientInv'
    BY Zenon DEF Request!TypeOK, RequestCloseInv, RequestClientInv
  <2>4. RequestAnswerInv'
    BY Zenon DEF Request!TypeOK, RequestCloseInv, RequestClientInv, RequestAnswerInv
  <2> QED
    BY <2>1, <2>2, <2>3, <2>4, Zenon
<1>7. ASSUME NEW t \in Request!Threads, Request!CloseClear(t)
      PROVE  RequestIInv'
  <2> USE <1>7 DEF Request!CloseClear
  <2>1. Request!TypeOK'
    BY ZenonT(60) DEF Request!TypeOK
  <2>2. RequestCloseInv'
    BY Zenon DEF Request!TypeOK, RequestCloseInv, RequestClientInv
  <2>3. RequestClientInv'
    BY Zenon DEF Request!TypeOK, RequestCloseInv, RequestClientInv
  <2>4. RequestAnswerInv'
    BY Zenon DEF Request!TypeOK, RequestCloseInv, RequestClientInv, RequestAnswerInv
  <2> QED
    BY <2>1, <2>2, <2>3, <2>4, Zenon
<1>8. ASSUME NEW t \in Request!Threads, Request!CloseRelease(t)
      PROVE  RequestIInv'
  <2> USE <1>8 DEF Request!CloseRelease
  <2>1. Request!TypeOK'
    BY Zenon DEF Request!TypeOK
  <2>2. RequestCloseInv'
    BY Zenon DEF Request!TypeOK, RequestCloseInv, RequestClientInv
  <2>3. RequestClientInv'
    BY Zenon DEF Request!TypeOK, RequestCloseInv, RequestClientInv
  <2>4. RequestAnswerInv'
    BY Zenon DEF Request!TypeOK, RequestCloseInv, RequestClientInv, RequestAnswerInv
  <2> QED
    BY <2>1, <2>2, <2>3, <2>4, Zenon
<1>9. ASSUME NEW r \in Requests, NEW o \in {"response", "error"}, Request!CompleteRequest(r, o)
      PROVE  RequestIInv'
  <2> USE <1>9 DEF Request!CompleteRequest, Request!LoopIdle
  <2>1. Request!TypeOK'
    BY Zenon DEF Request!TypeOK
  <2>2. RequestCloseInv'
    BY Zenon DEF Request!TypeOK, RequestCloseInv, RequestClientInv
  <2>3. RequestClientInv'
    BY Zenon DEF Request!TypeOK, RequestCloseInv, RequestClientInv
  <2>4. RequestAnswerInv'
    BY Zenon DEF Request!TypeOK, RequestCloseInv, RequestClientInv, RequestAnswerInv
  <2> QED
    BY <2>1, <2>2, <2>3, <2>4, Zenon
<1>10. ASSUME Request!HandlerReturns
       PROVE  RequestIInv'
  <2> USE <1>10 DEF Request!HandlerReturns
  <2>1. Request!TypeOK'
    BY Zenon DEF Request!TypeOK
  <2>2. RequestCloseInv'
    BY Zenon DEF Request!TypeOK, RequestCloseInv, RequestClientInv
  <2>3. RequestClientInv'
    BY Zenon DEF Request!TypeOK, RequestCloseInv, RequestClientInv
  <2>4. RequestAnswerInv'
    BY Zenon DEF Request!TypeOK, RequestCloseInv, RequestClientInv, RequestAnswerInv
  <2> QED
    BY <2>1, <2>2, <2>3, <2>4, ZenonT(60)
<1>11. ASSUME Request!DeleteRequest
       PROVE  RequestIInv'
  <2> USE <1>11 DEF Request!DeleteRequest, Request!AfterDrop
  <2>1. Request!TypeOK'
    BY Zenon DEF Request!TypeOK
  <2>2. RequestCloseInv'
    BY SMTT(60) DEF Request!TypeOK, RequestCloseInv, RequestClientInv
  <2>3. RequestClientInv'
    BY Zenon DEF Request!TypeOK, RequestCloseInv, RequestClientInv
  <2>4. RequestAnswerInv'
    BY Zenon DEF Request!TypeOK, RequestCloseInv, RequestClientInv, RequestAnswerInv
  <2> QED
    BY <2>1, <2>2, <2>3, <2>4, Zenon
<1>12. ASSUME Request!OnClientTermination
       PROVE  RequestIInv'
  <2> USE <1>12 DEF Request!OnClientTermination, Request!LoopIdle
  <2>1. Request!TypeOK'
    BY Zenon DEF Request!TypeOK
  <2>2. RequestCloseInv'
    BY Zenon DEF Request!TypeOK, RequestCloseInv, RequestClientInv
  <2>3. RequestClientInv'
    BY Zenon DEF Request!TypeOK, RequestCloseInv, RequestClientInv
  <2>4. RequestAnswerInv'
    <3>1. ASSUME NEW r \in incomplete PROVE FALSE
      BY <3>1, Zenon DEF Request!TypeOK, RequestAnswerInv
    <3>2. QED
      BY <3>1, Zenon DEF RequestAnswerInv
  <2> QED
    BY <2>1, <2>2, <2>3, <2>4, ZenonT(60)
<1>13. ASSUME UNCHANGED Request!vars
       PROVE  RequestIInv'
  BY <1>13, Zenon DEF Request!vars, Request!TypeOK, RequestCloseInv, RequestClientInv,
     RequestAnswerInv
<1> QED
  BY <1>1, <1>2, <1>3, <1>4, <1>5, <1>6, <1>7, <1>8, <1>9, <1>10, <1>11, <1>12, <1>13, Zenon DEF
     Request!Next, Request!DestructorStep, Request!LoopStep, Request!Completion,
     Request!Finished

\* The invariant of every behaviour of a request-response client.
THEOREM RequestInvariance == Request!Spec => []RequestIInv
<1>1. Request!Init => RequestIInv
  BY RequestInitIInv, Zenon
<1>2. RequestIInv /\ [Request!Next]_Request!vars => RequestIInv'
  BY RequestNextIInv, Zenon
<1> QED
  BY <1>1, <1>2, PTL DEF Request!Spec
-----------------------------------------------------------------------------
(* Acknowledgements                                                        *)
(*                                                                         *)
(* The inductive invariant follows the handle: the callback that runs      *)
(* still has it in its functor, or its handler took it; only a handle that *)
(* is still in the functor is acknowledged by the callback, after which    *)
(* the publish is no longer the current one.                               *)

\* One publish is delivered at a time, to the functor that was made for it.
AckLoopInv ==
    /\ aLoop = "publish" <=> aCurrent # NoPublish
    /\ aCurrent # NoPublish => functor[aCurrent] # "unset"
    /\ \A p \in Publishes : functor[p] = "unset" => p \notin copies /\ p \notin taken

\* Where the handle is, and who may have acknowledged.
AckHandleInv ==
    \A p \in Publishes :
        /\ functor[p] = "control" <=> handle[p] # "none"
        /\ p \in taken => handle[p] \in {"user", "freed"} /\ acked[p] # "callback"
        /\ handle[p] = "none" => acked[p] = "nobody"
        /\ aCurrent = p /\ acked[p] # "nobody" => p \in taken
        /\ aCurrent = p /\ functor[p] = "control" => handle[p] = "functor" \/ p \in taken

AckIInv == Ack!TypeOK /\ AckLoopInv /\ AckHandleInv /\ Ack!NoForgottenAck

\* Nothing was received yet.
LEMMA AckInitIInv ==
  ASSUME Ack!Init
  PROVE  AckIInv
<1> USE DEF Ack!Init
<1>1. Ack!TypeOK
  BY Zenon DEF Ack!TypeOK, Ack!Answers
<1>2. AckLoopInv /\ AckHandleInv /\ Ack!NoForgottenAck
  BY Zenon DEF AckLoopInv, AckHandleInv, Ack!NoForgottenAck
<1> QED
  BY <1>1, <1>2, Zenon DEF AckIInv

\* Every step of a delivery, of a functor and of a handle preserves AckIInv.
LEMMA AckNextIInv ==
  ASSUME AckIInv, [Ack!Next]_ackVars
  PROVE  AckIInv'
<1> USE Mqtt5Assumption DEF AckIInv, Ack!Threads
<1>1. ASSUME NEW p \in Publishes, NEW f \in Ack!OfferedFunctors, Ack!BeginPublish(p, f)
      PROVE  AckIInv'
  <2> USE <1>1 DEF Ack!BeginPublish, Ack!OfferedFunctors
  <2>1. Ack!TypeOK'
    BY Zenon DEF Ack!TypeOK, Ack!Answers, AckLoopInv
  <2>2. AckLoopInv'
    BY Zenon DEF Ack!TypeOK, AckLoopInv
  <2>3. AckHandleInv'
    BY SMTT(60) DEF Ack!TypeOK, AckLoopInv, AckHandleInv
  <2>4. Ack!NoForgottenAck'
    BY DEF Ack!TypeOK, AckLoopInv, AckHandleInv, Ack!NoForgottenAck
  <2> QED
    BY <2>1, <2>2, <2>3, <2>4, Zenon
<1>2. ASSUME NEW p \in Publishes, NEW t \in Ack!Threads, Ack!AcquirePublishAcknowledgement(t, p)
      PROVE  AckIInv'
  <2> USE <1>2 DEF Ack!AcquirePublishAcknowledgement, Ack!FunctorAnswer, Ack!CanReachFunctor
  <2>1. Ack!TypeOK'
    BY Zenon DEF Ack!TypeOK, Ack!Answers, AckLoopInv
  <2>2. AckLoopInv'
    BY Zenon DEF Ack!TypeOK, AckLoopInv
  <2>3. AckHandleInv'
    BY DEF Ack!TypeOK, AckLoopInv, AckHandleInv
  <2>4. Ack!NoForgottenAck'
    BY Zenon DEF Ack!TypeOK, AckLoopInv, AckHandleInv, Ack!NoForgottenAck
  <2> QED
    BY <2>1, <2>2, <2>3, <2>4, Zenon
<1>3. ASSUME NEW p \in Publishes, Ack!KeepFunctor(p)
      PROVE  AckIInv'
  <2> USE <1>3 DEF Ack!KeepFunctor
  <2>1. Ack!TypeOK'
    BY Zenon DEF Ack!TypeOK, Ack!Answers, AckLoopInv
  <2>2. AckLoopInv'
    BY Zenon DEF Ack!TypeOK, AckLoopInv
  <2>3. AckHandleInv'
    BY Zenon DEF Ack!TypeOK, AckLoopInv, AckHandleInv
  <2>4. Ack!NoForgottenAck'
    BY Zenon DEF Ack!TypeOK, AckLoopInv, AckHandleInv, Ack!NoForgottenAck
  <2> QED
    BY <2>1, <2>2, <2>3, <2>4, Zenon
<1>4. ASSUME NEW p \in Publishes, Ack!InvokePublishAcknowledgement(p)
      PROVE  AckIInv'
  <2> USE <1>4 DEF Ack!InvokePublishAcknowledgement
  <2>1. Ack!TypeOK'
    BY Zenon DEF Ack!TypeOK, Ack!Answers, AckLoopInv
  <2>2. AckLoopInv'
    BY Zenon DEF Ack!TypeOK, AckLoopInv
  <2>3. AckHandleInv'
    BY SMTT(60) DEF Ack!TypeOK, AckLoopInv, AckHandleInv
  <2>4. Ack!NoForgottenAck'
    BY DEF Ack!TypeOK, AckLoopInv, AckHandleInv, Ack!NoForgottenAck
  <2> QED
    BY <2>1, <2>2, <2>3, <2>4, Zenon
<1>5. ASSUME NEW p \in Publishes, Ack!DropHandle(p)
      PROVE  AckIInv'
  <2> USE <1>5 DEF Ack!DropHandle
  <2>1. Ack!TypeOK'
    BY Zenon DEF Ack!TypeOK, Ack!Answers, AckLoopInv
  <2>2. AckLoopInv'
    BY Zenon DEF Ack!TypeOK, AckLoopInv
  <2>3. AckHandleInv'
    BY Zenon DEF Ack!TypeOK, AckLoopInv, AckHandleInv
  <2>4. Ack!NoForgottenAck'
    BY Zenon DEF Ack!TypeOK, AckLoopInv, AckHandleInv, Ack!NoForgottenAck
  <2> QED
    BY <2>1, <2>2, <2>3, <2>4, Zenon
<1>6. ASSUME NEW p \in Publishes, Ack!DropFunctor(p)
      PROVE  AckIInv'
  <2> USE <1>6 DEF Ack!DropFunctor
  <2>1. Ack!TypeOK'
    BY Zenon DEF Ack!TypeOK, Ack!Answers, AckLoopInv
  <2>2. AckLoopInv'
    BY Zenon DEF Ack!TypeOK, AckLoopInv
  <2>3. AckHandleInv'
    BY Zenon DEF Ack!TypeOK, AckLoopInv, AckHandleInv
  <2>4. Ack!NoForgottenAck'
    BY Zenon DEF Ack!TypeOK, AckLoopInv, AckHandleInv, Ack!NoForgottenAck
  <2> QED
    BY <2>1, <2>2, <2>3, <2>4, Zenon
<1>7. ASSUME Ack!EndPublish
      PROVE  AckIInv'
  <2> USE <1>7 DEF Ack!EndPublish
  <2>1. Ack!TypeOK'
    BY Zenon DEF Ack!TypeOK, Ack!Answers, AckLoopInv
  <2>2. AckLoopInv'
    BY Zenon DEF Ack!TypeOK, AckLoopInv
  <2>3. AckHandleInv'
    BY SMTT(60) DEF Ack!TypeOK, AckLoopInv, AckHandleInv
  <2>4. Ack!NoForgottenAck'
    BY DEF Ack!TypeOK, AckLoopInv, AckHandleInv, Ack!NoForgottenAck
  <2> QED
    BY <2>1, <2>2, <2>3, <2>4, Zenon
<1>8. ASSUME Ack!BeginOther
      PROVE  AckIInv'
  <2> USE <1>8 DEF Ack!BeginOther
  <2>1. Ack!TypeOK'
    BY Zenon DEF Ack!TypeOK, Ack!Answers, AckLoopInv
  <2>2. AckLoopInv'
    BY Zenon DEF Ack!TypeOK, AckLoopInv
  <2>3. AckHandleInv'
    BY Zenon DEF Ack!TypeOK, AckLoopInv, AckHandleInv
  <2>4. Ack!NoForgottenAck'
    BY Zenon DEF Ack!TypeOK, AckLoopInv, AckHandleInv, Ack!NoForgottenAck
  <2> QED
    BY <2>1, <2>2, <2>3, <2>4, Zenon
<1>9. ASSUME Ack!EndOther
      PROVE  AckIInv'
  <2> USE <1>9 DEF Ack!EndOther
  <2>1. Ack!TypeOK'
    BY Zenon DEF Ack!TypeOK, Ack!Answers, AckLoopInv
  <2>2. AckLoopInv'
    BY Zenon DEF Ack!TypeOK, AckLoopInv
  <2>3. AckHandleInv'
    BY Zenon DEF Ack!TypeOK, AckLoopInv, AckHandleInv
  <2>4. Ack!NoForgottenAck'
    BY Zenon DEF Ack!TypeOK, AckLoopInv, AckHandleInv, Ack!NoForgottenAck
  <2> QED
    BY <2>1, <2>2, <2>3, <2>4, Zenon
<1>10. ASSUME Ack!Close
       PROVE  AckIInv'
  <2> USE <1>10 DEF Ack!Close
  <2>1. Ack!TypeOK'
    BY ZenonT(60) DEF Ack!TypeOK, Ack!Answers, AckLoopInv
  <2>2. AckLoopInv'
    BY Zenon DEF Ack!TypeOK, AckLoopInv
  <2>3. AckHandleInv'
    BY Zenon DEF Ack!TypeOK, AckLoopInv, AckHandleInv
  <2>4. Ack!NoForgottenAck'
    BY Zenon DEF Ack!TypeOK, AckLoopInv, AckHandleInv, Ack!NoForgottenAck
  <2> QED
    BY <2>1, <2>2, <2>3, <2>4, Zenon
<1>11. ASSUME UNCHANGED ackVars
       PROVE  AckIInv'
  BY <1>11, Zenon DEF ackVars, Ack!TypeOK, AckLoopInv, AckHandleInv, Ack!NoForgottenAck
<1> QED
  BY <1>1, <1>2, <1>3, <1>4, <1>5, <1>6, <1>7, <1>8, <1>9, <1>10, <1>11, Zenon DEF Ack!Next

\* The invariant of every behaviour of the acknowledgements.
THEOREM AckInvariance == Ack!Init /\ [][Ack!Next]_ackVars => []AckIInv
<1>1. Ack!Init => AckIInv
  BY AckInitIInv, Zenon
<1>2. AckIInv /\ [Ack!Next]_ackVars => AckIInv'
  BY AckNextIInv, Zenon
<1> QED
  BY <1>1, <1>2, PTL

\* Once a handler took the handle of its publish, no copy of the functor yields it again.
LEMMA AckYieldStep ==
  ASSUME AckIInv, [Ack!Next]_ackVars, NEW p \in taken, answer' # answer, answer'.of = p
  PROVE  answer'.is # "handle"
<1>1. PICK q \in Publishes, t \in Ack!Threads : Ack!AcquirePublishAcknowledgement(t, q)
  BY ZenonT(60)
     DEF Ack!Next, ackVars, Ack!BeginPublish, Ack!KeepFunctor, Ack!EndPublish, Ack!BeginOther,
         Ack!EndOther, Ack!InvokePublishAcknowledgement, Ack!DropHandle, Ack!DropFunctor, Ack!Close
<1>2. answer'.of = q /\ answer'.is = Ack!FunctorAnswer(t, q)
  BY <1>1, Zenon DEF Ack!AcquirePublishAcknowledgement
<1>3. handle[p] # "functor"
  BY Zenon DEF AckIInv, Ack!TypeOK, AckHandleInv
<1> QED
  BY <1>2, <1>3, Zenon DEF Ack!FunctorAnswer, AckIInv, Ack!TypeOK

-----------------------------------------------------------------------------
(* The properties of Mqtt5 *)

\* A step of Mqtt5 is a step of one component, and leaves the others as they are.
LEMMA Mqtt5Step ==
  ASSUME [Mqtt5Next]_mqtt5Vars
  PROVE  /\ [Stream!Next]_Stream!vars
         /\ [Request!Next]_Request!vars
         /\ [Ack!Next]_ackVars
BY Zenon DEF Mqtt5Next, mqtt5Vars, streamVars, requestVars, ackVars, Request!vars, Stream!vars,
       Stream!refVars, Stream!lockVars, Stream!closeVars

\* What a behaviour of Mqtt5 does to a component is a behaviour of that component.
LEMMA Mqtt5Components ==
  Mqtt5Spec => Stream!Spec /\ Request!Spec /\ Ack!Init /\ [][Ack!Next]_ackVars
<1>1. Mqtt5Init => Stream!Init /\ Request!Init /\ Ack!Init
  BY Zenon DEF Mqtt5Init
<1>2. [Mqtt5Next]_mqtt5Vars =>
        [Stream!Next]_Stream!vars /\ [Request!Next]_Request!vars /\ [Ack!Next]_ackVars
  BY Mqtt5Step, Zenon
<1> QED
  BY <1>1, <1>2, PTL DEF Mqtt5Spec, Stream!Spec, Request!Spec

\* The impl of a stream is there for the C operation until it has terminated, for the
\* callback in progress and for every thread in Open() or Close(), however many there are;
\* and the fatal assert of ~MqttRequestResponseClientImpl never fails: whichever of Close()
\* and s_onClientTermination comes first, m_client is null when the impl is deleted.
THEOREM ImplAlwaysOutlivesUse == Mqtt5Spec => []ImplOutlivesUse
<1>1. StreamIInv => Stream!ImplOutlivesUse
  BY Zenon DEF StreamIInv, Stream!TypeOK, StreamRefInv, StreamLockInv, StreamLoopInv,
     Stream!ImplOutlivesUse
<1>2. RequestIInv => Request!DeletedWithoutClient
  BY Zenon DEF RequestIInv, RequestClientInv, Request!DeletedWithoutClient
<1> QED
  BY <1>1, <1>2, StreamInvariance, RequestInvariance, Mqtt5Components, PTL DEF ImplOutlivesUse

\* Leaving out the write lock on the event loop, and taking the read lock twice in a
\* callback, is safe: whoever is in Close() dropped the last reference, so that nobody
\* is in Open(), and while somebody is in Open() nobody waits to write.
THEOREM ConditionalLockIsAlwaysSafe == Mqtt5Spec => []ConditionalLockIsSafe
<1>1. ASSUME StreamIInv
      PROVE  Stream!ConditionalLockIsSafe
  <2>1. ASSUME sPc[EventLoop] \in {"mark", "release"}
        PROVE  readers = {} /\ writer = NoThread
    BY <1>1, <2>1, Zenon DEF StreamIInv, Stream!TypeOK, StreamCloseInv, StreamLockInv,
       Stream!Threads, StreamClosing
  <2>2. ASSUME EventLoop \in readers, NEW t \in StreamThreads
        PROVE  sPc[t] \notin {"close", "mark"}
    BY <1>1, <2>2, Zenon DEF StreamIInv, StreamCloseInv, StreamLockInv, Stream!Threads,
       StreamClosing
  <2> QED
    BY <2>1, <2>2, Zenon DEF Stream!ConditionalLockIsSafe
<1> QED
  BY <1>1, StreamInvariance, Mqtt5Components, PTL DEF ConditionalLockIsSafe

\* The conditional write lock, the read lock and m_closed implement the callback gate:
\* no callback begins in a closed stream, no other thread closes it under a callback,
\* and it is freed with no callback inside.
THEOREM StreamRefinement == Mqtt5Spec => StreamImplementsGate
<1>1. Stream!Init => Stream!Gate!Init
  BY StreamGateInit, Zenon
<1>2. StreamIInv /\ [Stream!Next]_Stream!vars => [Stream!Gate!Next]_Stream!Gate!gateVars
  BY StreamGateStep, Zenon
<1> QED
  BY <1>1, <1>2, StreamInvariance, Mqtt5Components, PTL
  DEF Stream!Spec, StreamImplementsGate, Stream!ImplementsGate, Stream!Gate!Spec

\* Every accepted request is answered before s_onRequestComplete deletes its data, also
\* after Close(), and a request that was refused never is; when the C client terminates
\* the data of every request, accepted or refused, has been deleted.
THEOREM RequestsAreAnswered == Mqtt5Spec => []EveryRequestAnswered
<1>1. RequestIInv => Request!EveryRequestAnswered
  BY Zenon DEF RequestIInv, Request!TypeOK, RequestAnswerInv, Request!EveryRequestAnswered
<1> QED
  BY <1>1, RequestInvariance, Mqtt5Components, PTL DEF EveryRequestAnswered

\* A QoS 1 publish whose callback is over was acknowledged, unless its handler took that
\* duty or the client was closed; and what a handler took s_publishReceivedCallback never
\* acknowledges, for any number of publishes and of threads that call kept functors.
THEOREM AcksAreNotLostOrDoubled == Mqtt5Spec => []NoAckIsLostOrDoubled
<1>1. AckIInv => Ack!TakenIsNotAutoAcked /\ Ack!NoForgottenAck
  BY Zenon DEF AckIInv, Ack!TypeOK, AckHandleInv, Ack!TakenIsNotAutoAcked
<1> QED
  BY <1>1, AckInvariance, Mqtt5Components, PTL DEF NoAckIsLostOrDoubled

\* PublishAcknowledgementFunctor moves the handle out: after the handler took it, no call of
\* any copy of the functor, on any thread, yields another for the same publish.
THEOREM HandlesAreYieldedOnce == Mqtt5Spec => HandleYieldedOnce
<1>1. ASSUME AckIInv, [Ack!Next]_ackVars
      PROVE  [\A p \in taken :
                answer' # answer /\ answer'.of = p => answer'.is # "handle"]_Ack!ackVars
  BY <1>1, AckYieldStep, Zenon
<1> QED
  BY <1>1, AckInvariance, Mqtt5Components, PTL DEF HandleYieldedOnce, Ack!HandleYieldedOnce

-----------------------------------------------------------------------------
(* The client core                                                         *)
(*                                                                         *)
(* IInv is the inductive invariant.  LockInv says who holds the recursive  *)
(* mutex and how deep, from the places of the threads and of the callback. *)
(* CloseInv ties the owners of the Mqtt5Client to the phase of its         *)
(* destruction.  CallbackInv says what the callback on the event loop is   *)
(* about.  SkipInv follows a completion handler that is not called.        *)
(* GateHolds alone is not inductive: that a user thread cannot close the   *)
(* client under a callback follows from who owns the mutex.                *)

InClose(t) == pc[t] \in {"release", "unlock"}

LockInv ==
    /\ lockOwner = NoThread <=> lockDepth = 0
    /\ InGatedUserCode => lockOwner = EventLoop
    /\ \A t \in Threads : InClose(t) => lockOwner = t
    /\ \A t \in Threads : lockOwner = t => InClose(t) \/ (t = EventLoop /\ InGatedUserCode)
    /\ lockOwner # NoThread =>
          lockDepth = IF InClose(EventLoop) /\ InGatedUserCode THEN 2 ELSE 1

CloseInv ==
    /\ \A t, u \in Threads : pc[t] # "idle" /\ pc[u] # "idle" => t = u
    /\ \A t \in Threads : pc[t] # "idle" => holders = {} /\ "m_client_core" \in coreRefs
    /\ \A t \in Threads : pc[t] \in {"close", "release"} => native = "alive"
    /\ \A t \in Threads : pc[t] \in {"unlock", "reset"} => native \in {"released", "terminated"}
    /\ holders # {} => native = "alive" /\ "m_client_core" \in coreRefs
    /\ native = "alive" => mClient
    /\ native \in {"alive", "released"} => "m_selfReference" \in coreRefs
    /\ native \in {"none", "alive"} => callbackFlag = "INVOKE" /\ closer = NoThread
    /\ native \in {"released", "terminated"} => callbackFlag = "IGNORE"

CallbackInv ==
    /\ at # "none" => native \in {"alive", "released"}
    /\ at # "none" <=> cb # "none"
    /\ at \in {"call", "cleanup"} => cb = "completion"
    /\ cb = "completion" => curOp \in Ops /\ op[curOp] = "completing"
    /\ \A o \in Ops : op[o] = "completing" => cb = "completion" /\ curOp = o
    /\ pc[EventLoop] # "idle" => at \in {"none", "user"}
    /\ \A o \in Ops : o \in holders => op[o] \in {"queued", "completing"}
    /\ native = "terminated" => \A o \in Ops : op[o] \notin {"queued", "completing"}

SkipInv ==
    /\ SkippedOnlyAfterClose
    /\ at = "cleanup" /\ curOp \in handler \ called => callbackFlag = "IGNORE"
    /\ at = "user" /\ cb = "completion" => curOp \in called

IInv ==
    /\ TypeOK
    /\ LockInv
    /\ CloseInv
    /\ CallbackInv
    /\ SkipInv
    /\ GateHolds

USE ThreadsAssumption, OpsAssumption
    DEF Threads, InClose, InGatedUserCode, Gated, GateHolds, SkippedOnlyAfterClose,
        coreVars, lockVars, opVars, cbVars, nativeVars

-----------------------------------------------------------------------------
(* The inductive invariant *)

\* Nobody has created the client yet.
LEMMA InitIInv == Init => IInv
<1> SUFFICES ASSUME Init PROVE IInv
  BY Zenon
<1>1. TypeOK
  <2>1. mClient \in BOOLEAN /\ desired \in BOOLEAN
    BY Zenon DEF Init
  <2>2. holders \subseteq Threads \cup Ops /\ handler \in SUBSET Ops /\ called \in SUBSET Ops
    BY Zenon DEF Init
  <2>3. pc \in [Threads -> PcValues] /\ op \in [Ops -> OpValues]
    BY Zenon DEF Init, PcValues, OpValues
  <2> QED BY <2>1, <2>2, <2>3 DEF Init, TypeOK, CallbackFlag, CbKinds, CbPlaces, ConnValues
<1>2. LockInv
  BY Zenon DEF Init, LockInv
<1>3. CloseInv
  BY Zenon DEF Init, CloseInv
<1>4. CallbackInv
  BY Zenon DEF Init, CallbackInv
<1>5. SkipInv /\ GateHolds
  BY Zenon DEF Init, SkipInv
<1> QED BY <1>1, <1>2, <1>3, <1>4, <1>5, Zenon DEF IInv

\* NewMqtt5Client: the only owner is the creator, and both references to the core exist.
LEMMA NewMqtt5ClientStep ==
    ASSUME IInv, NEW t \in UserThreads, NewMqtt5Client(t)
    PROVE  IInv'
<1>1. TypeOK'
  BY DEF IInv, TypeOK, NewMqtt5Client, CallbackFlag, PcValues, OpValues, CbKinds, CbPlaces,
         ConnValues
<1>2. LockInv'
  BY Zenon DEF IInv, TypeOK, LockInv, NewMqtt5Client
<1>3. CloseInv'
  BY Zenon DEF IInv, TypeOK, CloseInv, NewMqtt5Client, PcValues
<1>4. CallbackInv'
  BY Zenon DEF IInv, TypeOK, CallbackInv, NewMqtt5Client
<1>5. SkipInv'
  BY Zenon DEF IInv, TypeOK, SkipInv, NewMqtt5Client
<1>6. GateHolds'
  BY Zenon DEF IInv, TypeOK, GateHolds, NewMqtt5Client
<1> QED BY <1>1, <1>2, <1>3, <1>4, <1>5, <1>6, Zenon DEF IInv

\* ShareReference: a copy is made from a reference, so the client is not being destroyed.
LEMMA ShareReferenceStep ==
    ASSUME IInv, NEW t \in Threads, NEW u \in UserThreads, ShareReference(t, u)
    PROVE  IInv'
<1>1. TypeOK'
  BY DEF IInv, TypeOK, ShareReference, MayCall, CallbackFlag, PcValues, OpValues, CbKinds,
         CbPlaces, ConnValues
<1>2. LockInv'
  BY Zenon DEF IInv, TypeOK, LockInv, ShareReference, MayCall
<1>3. CloseInv'
  BY Zenon DEF IInv, TypeOK, CloseInv, ShareReference, MayCall
<1>4. CallbackInv'
  BY DEF IInv, TypeOK, CallbackInv, ShareReference, MayCall
<1>5. SkipInv'
  BY Zenon DEF IInv, TypeOK, SkipInv, ShareReference, MayCall
<1>6. GateHolds'
  BY Zenon DEF IInv, TypeOK, GateHolds, ShareReference, MayCall
<1> QED BY <1>1, <1>2, <1>3, <1>4, <1>5, <1>6, Zenon DEF IInv

\* PromoteReference: a weak_ptr is promoted only while somebody owns the client.
LEMMA PromoteReferenceStep ==
    ASSUME IInv, PromoteReference
    PROVE  IInv'
<1>1. TypeOK'
  BY DEF IInv, TypeOK, PromoteReference, MayCall, CallbackFlag, PcValues, OpValues, CbKinds,
         CbPlaces, ConnValues
<1>2. LockInv'
  BY Zenon DEF IInv, TypeOK, LockInv, PromoteReference, MayCall
<1>3. CloseInv'
  BY Zenon DEF IInv, TypeOK, CloseInv, PromoteReference, MayCall
<1>4. CallbackInv'
  BY Zenon DEF IInv, TypeOK, CallbackInv, PromoteReference, MayCall
<1>5. SkipInv'
  BY Zenon DEF IInv, TypeOK, SkipInv, PromoteReference, MayCall
<1>6. GateHolds'
  BY Zenon DEF IInv, TypeOK, GateHolds, PromoteReference, MayCall
<1> QED BY <1>1, <1>2, <1>3, <1>4, <1>5, <1>6, Zenon DEF IInv

\* ReleaseReference: the last release begins the destructor, which nobody else runs.
LEMMA ReleaseReferenceStep ==
    ASSUME IInv, NEW t \in Threads, ReleaseReference(t)
    PROVE  IInv'
<1>1. TypeOK'
  BY DEF IInv, TypeOK, ReleaseReference, MayCall, AfterDrop, CallbackFlag, PcValues, OpValues,
         CbKinds, CbPlaces, ConnValues
<1>2. LockInv'
  BY Zenon DEF IInv, TypeOK, LockInv, ReleaseReference, MayCall, AfterDrop
<1>3. CloseInv'
  BY Zenon DEF IInv, TypeOK, CloseInv, ReleaseReference, MayCall, AfterDrop
<1>4. CallbackInv'
  BY Zenon DEF IInv, TypeOK, CallbackInv, ReleaseReference, MayCall, AfterDrop
<1>5. SkipInv'
  BY Zenon DEF IInv, TypeOK, SkipInv, ReleaseReference, MayCall, AfterDrop
<1>6. GateHolds'
  BY Zenon DEF IInv, TypeOK, GateHolds, ReleaseReference, MayCall, AfterDrop
<1> QED BY <1>1, <1>2, <1>3, <1>4, <1>5, <1>6, Zenon DEF IInv

\* StartOrStop touches the C client only.
LEMMA StartOrStopStep ==
    ASSUME IInv, NEW t \in Threads, StartOrStop(t)
    PROVE  IInv'
<1>1. TypeOK'
  BY DEF IInv, TypeOK, StartOrStop, MayCall, CallbackFlag, PcValues, OpValues, CbKinds,
         CbPlaces, ConnValues
<1>2. LockInv'
  BY Zenon DEF IInv, TypeOK, LockInv, StartOrStop, MayCall
<1>3. CloseInv'
  BY Zenon DEF IInv, TypeOK, CloseInv, StartOrStop, MayCall
<1>4. CallbackInv'
  BY Zenon DEF IInv, TypeOK, CallbackInv, StartOrStop, MayCall
<1>5. SkipInv'
  BY Zenon DEF IInv, TypeOK, SkipInv, StartOrStop, MayCall
<1>6. GateHolds'
  BY Zenon DEF IInv, TypeOK, GateHolds, StartOrStop, MayCall
<1> QED BY <1>1, <1>2, <1>3, <1>4, <1>5, <1>6, Zenon DEF IInv

\* SubmitAccepted: a captured reference belongs to a queued operation.
LEMMA SubmitAcceptedStep ==
    ASSUME IInv, NEW t \in Threads, NEW o \in Ops, NEW h \in BOOLEAN, NEW c \in BOOLEAN,
           SubmitAccepted(t, o, h, c)
    PROVE  IInv'
<1>1. TypeOK'
  BY DEF IInv, TypeOK, SubmitAccepted, MayCall, CallbackFlag, PcValues, OpValues, CbKinds,
         CbPlaces, ConnValues
<1>2. LockInv'
  BY Zenon DEF IInv, TypeOK, LockInv, SubmitAccepted, MayCall
<1>3. CloseInv'
  BY Zenon DEF IInv, TypeOK, CloseInv, SubmitAccepted, MayCall
<1>4. CallbackInv'
  BY DEF IInv, TypeOK, CloseInv, CallbackInv, SubmitAccepted, MayCall
<1>5. SkipInv'
  BY Zenon DEF IInv, TypeOK, CallbackInv, SkipInv, SubmitAccepted, MayCall
<1>6. GateHolds'
  BY Zenon DEF IInv, TypeOK, GateHolds, SubmitAccepted, MayCall
<1> QED BY <1>1, <1>2, <1>3, <1>4, <1>5, <1>6, Zenon DEF IInv

\* SubmitRejected: the callback data of a refused operation is deleted at once.
LEMMA SubmitRejectedStep ==
    ASSUME IInv, NEW t \in Threads, NEW o \in Ops, SubmitRejected(t, o)
    PROVE  IInv'
<1>1. TypeOK'
  BY DEF IInv, TypeOK, SubmitRejected, MayCall, CallbackFlag, PcValues, OpValues, CbKinds,
         CbPlaces, ConnValues
<1>2. LockInv'
  BY Zenon DEF IInv, TypeOK, LockInv, SubmitRejected, MayCall
<1>3. CloseInv'
  BY Zenon DEF IInv, TypeOK, CloseInv, SubmitRejected, MayCall
<1>4. CallbackInv'
  BY Zenon DEF IInv, TypeOK, CallbackInv, SubmitRejected, MayCall
<1>5. SkipInv'
  BY Zenon DEF IInv, TypeOK, SkipInv, SubmitRejected, MayCall
<1>6. GateHolds'
  BY Zenon DEF IInv, TypeOK, GateHolds, SubmitRejected, MayCall
<1> QED BY <1>1, <1>2, <1>3, <1>4, <1>5, <1>6, Zenon DEF IInv

\* CloseLock: the event loop may re-enter the mutex, a user thread finds it free.
LEMMA CloseLockStep ==
    ASSUME IInv, NEW t \in Threads, CloseLock(t)
    PROVE  IInv'
<1>1. TypeOK'
  BY DEF IInv, TypeOK, LockInv, CloseLock, CallbackFlag, PcValues, OpValues, CbKinds, CbPlaces,
         ConnValues
<1>2. LockInv'
  BY DEF IInv, TypeOK, LockInv, CloseLock
<1>3. CloseInv'
  BY Zenon DEF IInv, TypeOK, CloseInv, CloseLock
<1>4. CallbackInv'
  BY Zenon DEF IInv, TypeOK, CallbackInv, CloseLock
<1>5. SkipInv'
  BY Zenon DEF IInv, TypeOK, SkipInv, CloseLock
<1>6. GateHolds'
  BY Zenon DEF IInv, TypeOK, GateHolds, CloseLock
<1> QED BY <1>1, <1>2, <1>3, <1>4, <1>5, <1>6, Zenon DEF IInv

\* CloseRelease: the thread that revokes the callbacks owns the mutex, so a callback
\* that runs is its own.
LEMMA CloseReleaseStep ==
    ASSUME IInv, NEW t \in Threads, CloseRelease(t)
    PROVE  IInv'
<1>1. TypeOK'
  BY DEF IInv, TypeOK, CloseRelease, CallbackFlag, PcValues, OpValues, CbKinds, CbPlaces,
         ConnValues
<1>2. LockInv'
  BY Zenon DEF IInv, TypeOK, LockInv, CloseRelease
<1>3. CloseInv'
  BY DEF IInv, TypeOK, CloseInv, CloseRelease
<1>4. CallbackInv'
  BY Zenon DEF IInv, TypeOK, CallbackInv, CloseRelease
<1>5. SkipInv'
  BY Zenon DEF IInv, TypeOK, SkipInv, CloseRelease
<1>6. GateHolds'
  BY Zenon DEF IInv, TypeOK, LockInv, CloseRelease
<1> QED BY <1>1, <1>2, <1>3, <1>4, <1>5, <1>6, Zenon DEF IInv

\* CloseUnlock undoes one level of the mutex.
LEMMA CloseUnlockStep ==
    ASSUME IInv, NEW t \in Threads, CloseUnlock(t)
    PROVE  IInv'
<1>1. lockDepth \in {1, 2}
  BY Zenon DEF IInv, TypeOK, LockInv, CloseUnlock
<1>2. TypeOK'
  <2>1. mClient' \in BOOLEAN
    BY Zenon DEF CloseUnlock
  <2>2. lockDepth' \in 0..2 /\ lockOwner' \in Threads \cup {NoThread}
    BY <1>1 DEF IInv, TypeOK, CloseUnlock
  <2>3. pc' \in [Threads -> PcValues]
    BY Zenon DEF IInv, TypeOK, CloseUnlock, PcValues
  <2> QED BY <2>1, <2>2, <2>3, Zenon DEF IInv, TypeOK, CloseUnlock
<1>3. LockInv'
  BY <1>1
     DEF IInv, TypeOK, LockInv, CloseUnlock
<1>4. CloseInv'
  BY Zenon DEF IInv, TypeOK, CloseInv, CloseUnlock
<1>5. CallbackInv'
  BY Zenon DEF IInv, TypeOK, CallbackInv, CloseUnlock
<1>6. SkipInv'
  BY Zenon DEF IInv, TypeOK, SkipInv, CloseUnlock
<1>7. GateHolds'
  BY Zenon DEF IInv, TypeOK, GateHolds, CloseUnlock
<1> QED BY <1>2, <1>3, <1>4, <1>5, <1>6, <1>7, Zenon DEF IInv

\* ResetCore drops m_client_core; m_selfReference remains until the C client terminates.
LEMMA ResetCoreStep ==
    ASSUME IInv, NEW t \in Threads, ResetCore(t)
    PROVE  IInv'
<1>1. TypeOK'
  BY DEF IInv, TypeOK, ResetCore, CallbackFlag, PcValues, OpValues, CbKinds, CbPlaces,
         ConnValues
<1>2. LockInv'
  BY Zenon DEF IInv, TypeOK, LockInv, ResetCore
<1>3. CloseInv'
  BY Zenon DEF IInv, TypeOK, CloseInv, ResetCore
<1>4. CallbackInv'
  BY Zenon DEF IInv, TypeOK, CallbackInv, ResetCore
<1>5. SkipInv'
  BY Zenon DEF IInv, TypeOK, SkipInv, ResetCore
<1>6. GateHolds'
  BY Zenon DEF IInv, TypeOK, GateHolds, ResetCore
<1> QED BY <1>1, <1>2, <1>3, <1>4, <1>5, <1>6, Zenon DEF IInv

\* LifecycleEvent begins a callback.
LEMMA LifecycleEventStep ==
    ASSUME IInv, LifecycleEvent
    PROVE  IInv'
<1>1. TypeOK'
  BY DEF IInv, TypeOK, LifecycleEvent, EnterCallback, LoopIdle, AttemptingConnect,
         ConnectionSuccess, ConnectionFailure, Disconnection, Stopped, CallbackFlag, PcValues,
         OpValues, CbKinds, CbPlaces, ConnValues
<1>2. LockInv'
  BY Zenon DEF IInv, TypeOK, LockInv, LifecycleEvent, EnterCallback, LoopIdle,
     AttemptingConnect, ConnectionSuccess, ConnectionFailure, Disconnection, Stopped
<1>3. CloseInv'
  BY Zenon DEF IInv, TypeOK, CloseInv, LifecycleEvent, EnterCallback, LoopIdle,
     AttemptingConnect, ConnectionSuccess, ConnectionFailure, Disconnection, Stopped
<1>4. CallbackInv'
  BY Zenon DEF IInv, TypeOK, CallbackInv, LifecycleEvent, EnterCallback, LoopIdle,
     AttemptingConnect, ConnectionSuccess, ConnectionFailure, Disconnection, Stopped
<1>5. SkipInv'
  BY Zenon DEF IInv, TypeOK, SkipInv, LifecycleEvent, EnterCallback, LoopIdle,
     AttemptingConnect, ConnectionSuccess, ConnectionFailure, Disconnection, Stopped
<1>6. GateHolds'
  BY Zenon DEF IInv, TypeOK, GateHolds, LifecycleEvent, EnterCallback, LoopIdle,
     AttemptingConnect, ConnectionSuccess, ConnectionFailure, Disconnection, Stopped
<1> QED BY <1>1, <1>2, <1>3, <1>4, <1>5, <1>6, Zenon DEF IInv

\* PublishReceived begins a callback.
LEMMA PublishReceivedStep ==
    ASSUME IInv, PublishReceived
    PROVE  IInv'
<1>1. TypeOK'
  BY DEF IInv, TypeOK, PublishReceived, EnterCallback, LoopIdle, CallbackFlag, PcValues,
         OpValues, CbKinds, CbPlaces, ConnValues
<1>2. LockInv'
  BY Zenon DEF IInv, TypeOK, LockInv, PublishReceived, EnterCallback, LoopIdle
<1>3. CloseInv'
  BY Zenon DEF IInv, TypeOK, CloseInv, PublishReceived, EnterCallback, LoopIdle
<1>4. CallbackInv'
  BY Zenon DEF IInv, TypeOK, CallbackInv, PublishReceived, EnterCallback, LoopIdle
<1>5. SkipInv'
  BY Zenon DEF IInv, TypeOK, SkipInv, PublishReceived, EnterCallback, LoopIdle
<1>6. GateHolds'
  BY Zenon DEF IInv, TypeOK, GateHolds, PublishReceived, EnterCallback, LoopIdle
<1> QED BY <1>1, <1>2, <1>3, <1>4, <1>5, <1>6, Zenon DEF IInv

\* WebsocketHandshake begins a callback.
LEMMA WebsocketHandshakeStep ==
    ASSUME IInv, WebsocketHandshake
    PROVE  IInv'
<1>1. TypeOK'
  BY DEF IInv, TypeOK, WebsocketHandshake, EnterCallback, LoopIdle, CallbackFlag, PcValues,
         OpValues, CbKinds, CbPlaces, ConnValues
<1>2. LockInv'
  BY Zenon DEF IInv, TypeOK, LockInv, WebsocketHandshake, EnterCallback, LoopIdle
<1>3. CloseInv'
  BY Zenon DEF IInv, TypeOK, CloseInv, WebsocketHandshake, EnterCallback, LoopIdle
<1>4. CallbackInv'
  BY Zenon DEF IInv, TypeOK, CallbackInv, WebsocketHandshake, EnterCallback, LoopIdle
<1>5. SkipInv'
  BY Zenon DEF IInv, TypeOK, SkipInv, WebsocketHandshake, EnterCallback, LoopIdle
<1>6. GateHolds'
  BY Zenon DEF IInv, TypeOK, GateHolds, WebsocketHandshake, EnterCallback, LoopIdle
<1> QED BY <1>1, <1>2, <1>3, <1>4, <1>5, <1>6, Zenon DEF IInv

\* OperationCompletes begins the callback of one operation.
LEMMA OperationCompletesStep ==
    ASSUME IInv, NEW o \in Ops, OperationCompletes(o)
    PROVE  IInv'
<1>1. TypeOK'
  BY DEF IInv, TypeOK, OperationCompletes, EnterCallback, LoopIdle, CallbackFlag, PcValues,
         OpValues, CbKinds, CbPlaces, ConnValues
<1>2. LockInv'
  BY Zenon DEF IInv, TypeOK, LockInv, OperationCompletes, EnterCallback, LoopIdle
<1>3. CloseInv'
  BY Zenon DEF IInv, TypeOK, CloseInv, OperationCompletes, EnterCallback, LoopIdle
<1>4. CallbackInv'
  BY Zenon DEF IInv, TypeOK, CallbackInv, OperationCompletes, EnterCallback, LoopIdle
<1>5. SkipInv'
  BY Zenon DEF IInv, TypeOK, SkipInv, OperationCompletes, EnterCallback, LoopIdle
<1>6. GateHolds'
  BY Zenon DEF IInv, TypeOK, GateHolds, OperationCompletes, EnterCallback, LoopIdle
<1> QED BY <1>1, <1>2, <1>3, <1>4, <1>5, <1>6, Zenon DEF IInv

\* GateEnter: a callback runs user code with the mutex and an open flag.
LEMMA GateEnterStep ==
    ASSUME IInv, GateEnter
    PROVE  IInv'
<1>1. TypeOK'
  BY DEF IInv, TypeOK, GateEnter, CallbackFlag, PcValues, OpValues, CbKinds, CbPlaces,
         ConnValues
<1>2. LockInv'
  BY DEF IInv, TypeOK, LockInv, GateEnter
<1>3. CloseInv'
  BY Zenon DEF IInv, TypeOK, CloseInv, GateEnter
<1>4. CallbackInv'
  BY Zenon DEF IInv, TypeOK, CallbackInv, GateEnter
<1>5. SkipInv'
  BY Zenon DEF IInv, TypeOK, SkipInv, GateEnter
<1>6. GateHolds'
  BY Zenon DEF IInv, TypeOK, GateHolds, GateEnter
<1> QED BY <1>1, <1>2, <1>3, <1>4, <1>5, <1>6, Zenon DEF IInv

\* GateRevoked: a closed client runs no user code.
LEMMA GateRevokedStep ==
    ASSUME IInv, GateRevoked
    PROVE  IInv'
<1>1. TypeOK'
  BY Zenon DEF IInv, TypeOK, GateRevoked, CallbackFlag, PcValues, OpValues, CbKinds, CbPlaces,
     ConnValues
<1>2. LockInv'
  BY Zenon DEF IInv, TypeOK, LockInv, GateRevoked
<1>3. CloseInv'
  BY Zenon DEF IInv, TypeOK, CloseInv, GateRevoked
<1>4. CallbackInv'
  BY Zenon DEF IInv, TypeOK, CallbackInv, GateRevoked
<1>5. SkipInv'
  BY Zenon DEF IInv, TypeOK, SkipInv, GateRevoked
<1>6. GateHolds'
  BY Zenon DEF IInv, TypeOK, GateHolds, GateRevoked
<1> QED BY <1>1, <1>2, <1>3, <1>4, <1>5, <1>6, Zenon DEF IInv

\* GateLeave: a callback that returns has no destructor in progress on its thread.
LEMMA GateLeaveStep ==
    ASSUME IInv, GateLeave
    PROVE  IInv'
<1>1. TypeOK'
  BY DEF IInv, TypeOK, GateLeave, CallbackMayReturn, CallbackFlag, PcValues, OpValues, CbKinds,
         CbPlaces, ConnValues
<1>2. LockInv'
  BY Zenon DEF IInv, TypeOK, LockInv, GateLeave, CallbackMayReturn
<1>3. CloseInv'
  BY Zenon DEF IInv, TypeOK, CloseInv, GateLeave, CallbackMayReturn
<1>4. CallbackInv'
  BY Zenon DEF IInv, TypeOK, CallbackInv, GateLeave, CallbackMayReturn
<1>5. SkipInv'
  BY Zenon DEF IInv, TypeOK, SkipInv, GateLeave, CallbackMayReturn
<1>6. GateHolds'
  BY Zenon DEF IInv, TypeOK, GateHolds, GateLeave, CallbackMayReturn
<1> QED BY <1>1, <1>2, <1>3, <1>4, <1>5, <1>6, Zenon DEF IInv

\* CompletionCheck skips the handler only if there is none or the flag says so.
LEMMA CompletionCheckStep ==
    ASSUME IInv, CompletionCheck
    PROVE  IInv'
<1>1. TypeOK'
  BY DEF IInv, TypeOK, CompletionCheck, CallbackFlag, PcValues, OpValues, CbKinds, CbPlaces,
         ConnValues
<1>2. LockInv'
  BY Zenon DEF IInv, TypeOK, LockInv, CompletionCheck
<1>3. CloseInv'
  BY Zenon DEF IInv, TypeOK, CloseInv, CompletionCheck
<1>4. CallbackInv'
  BY Zenon DEF IInv, TypeOK, CallbackInv, CompletionCheck
<1>5. SkipInv'
  BY Zenon DEF IInv, TypeOK, LockInv, SkipInv, CompletionCheck, CallbackFlag
<1>6. GateHolds'
  BY Zenon DEF IInv, TypeOK, CallbackInv, CompletionCheck
<1> QED BY <1>1, <1>2, <1>3, <1>4, <1>5, <1>6, Zenon DEF IInv

\* CompletionCall runs user code without the mutex.
LEMMA CompletionCallStep ==
    ASSUME IInv, CompletionCall
    PROVE  IInv'
<1>1. TypeOK'
  BY DEF IInv, TypeOK, CallbackInv, CompletionCall, CallbackFlag, PcValues, OpValues, CbKinds,
         CbPlaces, ConnValues
<1>2. LockInv'
  BY Zenon DEF IInv, TypeOK, LockInv, CallbackInv, CompletionCall
<1>3. CloseInv'
  BY Zenon DEF IInv, TypeOK, CloseInv, CompletionCall
<1>4. CallbackInv'
  BY Zenon DEF IInv, TypeOK, CallbackInv, CompletionCall
<1>5. SkipInv'
  BY Zenon DEF IInv, TypeOK, CallbackInv, SkipInv, CompletionCall
<1>6. GateHolds'
  BY Zenon DEF IInv, TypeOK, CallbackInv, CompletionCall
<1> QED BY <1>1, <1>2, <1>3, <1>4, <1>5, <1>6, Zenon DEF IInv

\* CompletionReturn goes on to delete the callback data.
LEMMA CompletionReturnStep ==
    ASSUME IInv, CompletionReturn
    PROVE  IInv'
<1>1. TypeOK'
  BY DEF IInv, TypeOK, CompletionReturn, CallbackMayReturn, CallbackFlag, PcValues, OpValues,
         CbKinds, CbPlaces, ConnValues
<1>2. LockInv'
  BY Zenon DEF IInv, TypeOK, LockInv, CompletionReturn, CallbackMayReturn
<1>3. CloseInv'
  BY Zenon DEF IInv, TypeOK, CloseInv, CompletionReturn, CallbackMayReturn
<1>4. CallbackInv'
  BY Zenon DEF IInv, TypeOK, CallbackInv, CompletionReturn, CallbackMayReturn
<1>5. SkipInv'
  BY Zenon DEF IInv, TypeOK, SkipInv, CompletionReturn, CallbackMayReturn
<1>6. GateHolds'
  BY Zenon DEF IInv, TypeOK, GateHolds, CompletionReturn, CallbackMayReturn
<1> QED BY <1>1, <1>2, <1>3, <1>4, <1>5, <1>6, Zenon DEF IInv

\* CompletionCleanup may drop the last reference and begin the destructor.
LEMMA CompletionCleanupStep ==
    ASSUME IInv, CompletionCleanup
    PROVE  IInv'
<1>1. TypeOK'
  BY ZenonT(60) DEF IInv, TypeOK, CloseInv, CompletionCleanup, AfterDrop, CallbackFlag, PcValues,
         OpValues, CbKinds, CbPlaces, ConnValues
<1>2. LockInv'
  BY Zenon DEF IInv, TypeOK, LockInv, CloseInv, CompletionCleanup, AfterDrop
<1>3. CloseInv'
  BY Zenon DEF IInv, TypeOK, CloseInv, CompletionCleanup, AfterDrop
<1>4. CallbackInv'
  BY Zenon DEF IInv, TypeOK, CallbackInv, CompletionCleanup, AfterDrop
<1>5. SkipInv'
  BY Zenon DEF IInv, TypeOK, SkipInv, CompletionCleanup, AfterDrop
<1>6. GateHolds'
  BY Zenon DEF IInv, TypeOK, GateHolds, CompletionCleanup, AfterDrop
<1> QED BY <1>1, <1>2, <1>3, <1>4, <1>5, <1>6, Zenon DEF IInv

\* ClientTermination drops m_selfReference when no callback can follow.
LEMMA ClientTerminationStep ==
    ASSUME IInv, ClientTermination
    PROVE  IInv'
<1>1. TypeOK'
  BY DEF IInv, TypeOK, ClientTermination, LoopIdle, CallbackFlag, PcValues, OpValues, CbKinds,
         CbPlaces, ConnValues
<1>2. LockInv'
  BY Zenon DEF IInv, TypeOK, LockInv, ClientTermination, LoopIdle
<1>3. CloseInv'
  BY Zenon DEF IInv, TypeOK, CloseInv, ClientTermination, LoopIdle
<1>4. CallbackInv'
  BY Zenon DEF IInv, TypeOK, CallbackInv, ClientTermination, LoopIdle
<1>5. SkipInv'
  BY Zenon DEF IInv, TypeOK, SkipInv, ClientTermination, LoopIdle
<1>6. GateHolds'
  BY Zenon DEF IInv, TypeOK, GateHolds, ClientTermination, LoopIdle
<1> QED BY <1>1, <1>2, <1>3, <1>4, <1>5, <1>6, Zenon DEF IInv

\* InterceptComplete touches the C client only.
LEMMA InterceptCompleteStep ==
    ASSUME IInv, InterceptComplete
    PROVE  IInv'
<1>1. TypeOK'
  BY DEF IInv, TypeOK, InterceptComplete, CallbackFlag, PcValues, OpValues, CbKinds, CbPlaces,
         ConnValues
<1>2. LockInv'
  BY Zenon DEF IInv, TypeOK, LockInv, InterceptComplete
<1>3. CloseInv'
  BY Zenon DEF IInv, TypeOK, CloseInv, InterceptComplete
<1>4. CallbackInv'
  BY Zenon DEF IInv, TypeOK, CallbackInv, InterceptComplete
<1>5. SkipInv'
  BY Zenon DEF IInv, TypeOK, SkipInv, InterceptComplete
<1>6. GateHolds'
  BY Zenon DEF IInv, TypeOK, GateHolds, InterceptComplete
<1> QED BY <1>1, <1>2, <1>3, <1>4, <1>5, <1>6, Zenon DEF IInv

\* A step that changes nothing.
LEMMA StutterStep ==
    ASSUME IInv, UNCHANGED vars
    PROVE  IInv'
<1>1. TypeOK'
  BY DEF IInv, TypeOK, vars, CallbackFlag, PcValues, OpValues, CbKinds, CbPlaces, ConnValues
<1>2. LockInv'
  BY Zenon DEF IInv, TypeOK, LockInv, vars
<1>3. CloseInv'
  BY Zenon DEF IInv, TypeOK, CloseInv, vars
<1>4. CallbackInv'
  BY Zenon DEF IInv, TypeOK, CallbackInv, vars
<1>5. SkipInv'
  BY Zenon DEF IInv, TypeOK, SkipInv, vars
<1>6. GateHolds'
  BY Zenon DEF IInv, TypeOK, GateHolds, vars
<1> QED BY <1>1, <1>2, <1>3, <1>4, <1>5, <1>6, Zenon DEF IInv

\* Every step of the client preserves the inductive invariant.
LEMMA NextIInv == IInv /\ [Next]_vars => IInv'
<1> SUFFICES ASSUME IInv, [Next]_vars PROVE IInv'
  BY Zenon
<1>1. CASE \E t \in UserThreads : NewMqtt5Client(t)
  BY <1>1, NewMqtt5ClientStep, Zenon
<1>2. CASE \E t \in Threads : UserStep(t)
  <2>1. PICK t \in Threads : UserStep(t)
    BY <1>2, Zenon
  <2>2. CASE ReleaseReference(t) \/ StartOrStop(t) \/ \E u \in UserThreads : ShareReference(t, u)
    BY <2>2, ReleaseReferenceStep, StartOrStopStep, ShareReferenceStep, Zenon
  <2>3. CASE \E o \in Ops : SubmitRejected(t, o)
    BY <2>3, SubmitRejectedStep, Zenon
  <2>4. CASE \E o \in Ops : \E h, c \in BOOLEAN : SubmitAccepted(t, o, h, c)
    BY <2>4, SubmitAcceptedStep
  <2> QED BY <2>1, <2>2, <2>3, <2>4, Zenon DEF UserStep
<1>3. CASE \E t \in Threads : DestructorStep(t)
  BY <1>3, CloseLockStep, CloseReleaseStep, CloseUnlockStep, ResetCoreStep, Zenon DEF
     DestructorStep
<1>4. CASE LoopStep
  <2>1. CASE LifecycleEvent \/ PublishReceived \/ WebsocketHandshake \/ \E o \in Ops : OperationCompletes(o)
    BY <2>1, LifecycleEventStep, PublishReceivedStep, WebsocketHandshakeStep,
       OperationCompletesStep, Zenon
  <2>2. CASE GateEnter \/ GateRevoked \/ GateLeave
    BY <2>2, GateEnterStep, GateRevokedStep, GateLeaveStep, Zenon
  <2>3. CASE CompletionCheck \/ CompletionCall \/ CompletionReturn \/ CompletionCleanup
    BY <2>3, CompletionCheckStep, CompletionCallStep, CompletionReturnStep,
       CompletionCleanupStep, Zenon
  <2>4. CASE ClientTermination
    BY <2>4, ClientTerminationStep, Zenon
  <2> QED BY <1>4, <2>1, <2>2, <2>3, <2>4, Zenon DEF LoopStep
<1>5. CASE PromoteReference \/ InterceptComplete
  BY <1>5, PromoteReferenceStep, InterceptCompleteStep, Zenon
<1>6. CASE Finished \/ UNCHANGED vars
  BY <1>6, StutterStep, Zenon DEF Finished
<1> QED BY <1>1, <1>2, <1>3, <1>4, <1>5, <1>6, Zenon DEF Next

\* The inductive invariant holds in every state the client reaches.
THEOREM Invariance == Spec => []IInv
BY InitIInv, NextIInv, PTL DEF Spec

-----------------------------------------------------------------------------
(* What follows from it *)

\* Every variable of the client keeps its type; in particular the recursive mutex is
\* never entered more than twice.
THEOREM TypeCorrect == Spec => []TypeOK
<1>1. IInv => TypeOK
  BY Zenon DEF IInv
<1> QED BY <1>1, Invariance, PTL

\* Mqtt5ClientCore::Close waits for the callback in progress: once a user thread has
\* closed the client, no lifecycle, publish or handshake callback runs user code.
THEOREM GateCorrect == Spec => []GateHolds
<1>1. IInv => GateHolds
  BY Zenon DEF IInv
<1> QED BY <1>1, Invariance, PTL

\* m_selfReference and m_client_core keep the core alive for everyone who may still
\* follow a raw pointer to it.
THEOREM CoreNeverDangles == Spec => []NoDanglingCore
<1>1. IInv => NoDanglingCore
  <2> SUFFICES ASSUME IInv PROVE NoDanglingCore
    BY Zenon
  <2>1. native \in {"alive", "released"} => CoreAlive
    BY Zenon DEF IInv, CloseInv, CoreAlive
  <2>2. at # "none" => CoreAlive
    BY <2>1, Zenon DEF IInv, CallbackInv
  <2>3. (\E t \in Threads : pc[t] # "idle") => CoreAlive
    BY Zenon DEF IInv, CloseInv, CoreAlive
  <2>4. lockOwner # NoThread => at # "none" \/ \E t \in Threads : pc[t] # "idle"
    BY Zenon DEF IInv, TypeOK, LockInv
  <2> QED BY <2>1, <2>2, <2>3, <2>4, Zenon DEF NoDanglingCore
<1> QED BY <1>1, Invariance, PTL

\* No callback data of an operation, and no owner of the handle, outlives the core.
THEOREM DataNeverOutlivesCore == Spec => []NoDataOutlivesCore
<1>1. IInv => NoDataOutlivesCore
  BY Zenon DEF IInv, TypeOK, CloseInv, CallbackInv, NoDataOutlivesCore, CoreAlive
<1> QED BY <1>1, Invariance, PTL

\* Subscribe and Unsubscribe never see a null m_client, though they do not check it.
THEOREM OwnersSeeClient == Spec => []OwnerSeesClient
<1>1. IInv => OwnerSeesClient
  BY Zenon DEF IInv, CloseInv, OwnerSeesClient
<1> QED BY <1>1, Invariance, PTL

\* A completion handler is skipped only after Close(), and never invoked for an
\* operation the C client refused.
THEOREM SkippedAfterClose == Spec => []SkippedOnlyAfterClose
<1>1. IInv => SkippedOnlyAfterClose
  BY Zenon DEF IInv, SkipInv
<1> QED BY <1>1, Invariance, PTL

\* The user code of a completion never runs with m_callback_lock held by its callback.
THEOREM CompletionsRunUnlocked == Spec => []CompletionRunsUnlocked
<1>1. IInv => CompletionRunsUnlocked
  BY Zenon DEF IInv, LockInv, CompletionRunsUnlocked
<1> QED BY <1>1, Invariance, PTL

-----------------------------------------------------------------------------
(* The client implements the callback gate *)

\* Before the client is created the gate is open, nobody is inside, nobody closed it.
LEMMA GateInit == Init => Gate!Init
BY Zenon DEF Init, Gate!Init

\* Entering and leaving a gated callback are Enter and Leave, setting the flag under
\* the mutex is a close, dropping the last reference to the core is Free, and every
\* other step leaves the gate alone.
LEMMA GateStep == IInv /\ [Next]_vars => [Gate!Next]_Gate!gateVars
<1> SUFFICES ASSUME IInv, [Next]_vars PROVE [Gate!Next]_Gate!gateVars
  BY Zenon
<1> DEFINE Same == UNCHANGED <<callbackFlag, coreRefs, closer, cb, at>>
<1>0. Same => UNCHANGED Gate!gateVars
  BY Zenon DEF Gate!gateVars, CoreAlive
<1>1. CASE \E t \in UserThreads : NewMqtt5Client(t)
  BY <1>1, Zenon DEF NewMqtt5Client, IInv, CloseInv, Gate!gateVars, CoreAlive
<1>2. CASE \E t \in Threads : UserStep(t)
  BY <1>0, <1>2 DEF UserStep, ReleaseReference, AfterDrop, StartOrStop, ShareReference,
                    SubmitRejected, SubmitAccepted
<1>3. CASE \E t \in Threads : CloseLock(t) \/ CloseUnlock(t)
  BY <1>0, <1>3, Zenon DEF CloseLock, CloseUnlock
<1>4. ASSUME NEW t \in Threads, CloseRelease(t) PROVE Gate!Next
  <2>1. callbackFlag = "INVOKE" /\ callbackFlag' = "IGNORE" /\ closer' = t /\ CoreAlive'
    BY <1>4, Zenon DEF CloseRelease, IInv, CloseInv, CoreAlive
  <2>2. closer = NoThread /\ UNCHANGED InGatedUserCode
    BY <1>4, Zenon DEF CloseRelease, IInv, CloseInv
  <2>3. CASE t = EventLoop
    BY <2>1, <2>2, <2>3, Zenon DEF Gate!Next, Gate!CloseFromCallback
  <2>4. CASE t # EventLoop
    <3>1. ~InGatedUserCode
      BY <1>4, <2>4, Zenon DEF CloseRelease, IInv, LockInv
    <3> QED BY <2>1, <2>2, <2>4, <3>1, Zenon DEF Gate!Next, Gate!CloseFromOutside
  <2> QED BY <2>3, <2>4, Zenon
<1>5. ASSUME NEW t \in Threads, ResetCore(t) PROVE Gate!Next \/ UNCHANGED Gate!gateVars
  <2>1. CoreAlive /\ UNCHANGED <<callbackFlag, closer, cb, at>>
    BY <1>5, Zenon DEF ResetCore, IInv, CloseInv, CoreAlive
  <2>2. ~CoreAlive' => ~InGatedUserCode
    BY <1>5, SMTT(60) DEF ResetCore, IInv, CloseInv, CallbackInv, CoreAlive
  <2> QED BY <2>1, <2>2, Zenon DEF Gate!Next, Gate!Free, Gate!gateVars
<1>6. CASE LifecycleEvent \/ PublishReceived \/ WebsocketHandshake
           \/ (\E o \in Ops : OperationCompletes(o)) \/ GateRevoked
  BY <1>6, Zenon DEF LifecycleEvent, PublishReceived, WebsocketHandshake, OperationCompletes,
     GateRevoked, EnterCallback, LoopIdle, Gate!gateVars, CoreAlive
<1>7. CASE GateEnter
  BY <1>7, Zenon DEF GateEnter, Gate!Next, Gate!Enter, CoreAlive
<1>8. CASE GateLeave
  BY <1>8, Zenon DEF GateLeave, Gate!Next, Gate!Leave, CoreAlive
<1>9. CASE CompletionCheck \/ CompletionCall \/ CompletionReturn \/ CompletionCleanup
  BY <1>9, Zenon DEF CompletionCheck, CompletionCall, CompletionReturn, CompletionCleanup, IInv,
     CallbackInv, Gate!gateVars, CoreAlive
<1>10. CASE ClientTermination
  <2>1. callbackFlag = "IGNORE" /\ CoreAlive /\ ~InGatedUserCode
    BY <1>10, Zenon DEF ClientTermination, LoopIdle, IInv, CloseInv, CoreAlive
  <2>2. UNCHANGED <<callbackFlag, closer, cb, at>>
    BY <1>10, Zenon DEF ClientTermination
  <2> QED BY <2>1, <2>2, Zenon DEF Gate!Next, Gate!Free, Gate!gateVars
<1>11. CASE PromoteReference \/ InterceptComplete
  BY <1>0, <1>11, Zenon DEF PromoteReference, InterceptComplete
<1>12. CASE Finished \/ UNCHANGED vars
  BY <1>0, <1>12, Zenon DEF Finished, vars
<1> QED BY <1>1, <1>2, <1>3, <1>4, <1>5, <1>6, <1>7, <1>8, <1>9, <1>10, <1>11, <1>12
        DEF Next, DestructorStep, LoopStep

\* The mutex, the flag and the two references to the core implement the callback gate.
THEOREM Refinement == Spec => ImplementsGate
BY GateInit, GateStep, Invariance, PTL DEF Spec, ImplementsGate, Gate!Spec


=============================================================================

