----------------------- MODULE MqttConnectionCoreProofs -----------------------
(***************************************************************************)
(* The safety properties of an MQTT 3.1.1 connection, for any threads,     *)
(* operations and handlers, with and without websockets.                   *)
(*                                                                         *)
(* MqttIInv says why the properties hold without a lock.  Whoever owns the *)
(* connection, a callback that promoted the weak_ptr included, keeps every *)
(* thread out of ~MqttConnection; the core is kept by m_connectionCore for *)
(* the thread in ~MqttConnection, and by m_self until the C connection has *)
(* terminated, which is not before its last callback and operation.        *)
(***************************************************************************)
EXTENDS MqttConnectionCore, TLAPS

\* Who keeps the core, and who may destroy the connection.
OwnerInv ==
    /\ connectionRefs # {} => cConnection = "alive" /\ \A t \in MqttThreads : mqttPc[t] = "idle"
    /\ \A t \in MqttThreads :
        /\ mqttPc[t] \in {"disconnect", "release"} => cConnection = "alive"
        /\ mqttPc[t] = "reset" => cConnection \in {"released", "terminated"}
        /\ mqttPc[t] # "idle" => "m_connectionCore" \in coreRefs
    /\ \A t, u \in MqttThreads : mqttPc[t] # "idle" /\ mqttPc[u] # "idle" => t = u
    /\ cConnection = "alive" => "m_connectionCore" \in coreRefs
    /\ "m_self" \in coreRefs <=> cConnection \in {"alive", "released"}
    /\ cConnection = "none" => coreRefs = {}

\* What the callback that runs is about.
MqttCallbackInv ==
    /\ at # "none" => cConnection \in {"alive", "released"}
    /\ at \in {"user", "drop"} => MqttLoop \in connectionRefs
    /\ at = "cleanup" => cb = "completion"
    /\ cb = "publish" => curOp \in Ops /\ subData[curOp] = "live" /\ op[curOp] = "freed"
    /\ cb = "completion" => curOp \in Ops /\ op[curOp] = "completing"

\* The data of operations and subscriptions goes before the C connection does.
DataInv ==
    /\ \A o \in Ops : op[o] = "completing" => cb = "completion" /\ curOp = o
    /\ cConnection \in {"none", "terminated"} =>
        \A o \in Ops : op[o] \notin {"queued", "completing"} /\ subData[o] # "live"

\* The core and the C connection have the one handler for all messages.
AnyInv ==
    /\ anyLive \subseteq {onAny}
    /\ cConnection \in {"none", "alive", "released"} =>
        cAny = onAny /\ {cAny} \ {NoHandler} \subseteq anyLive
    /\ coreRefs = {} => anyLive = {}

MqttIInv == MqttTypeOK /\ OwnerInv /\ MqttCallbackInv /\ DataInv /\ AnyInv

-----------------------------------------------------------------------------
(* The invariant is inductive *)

\* Nothing exists before s_CreateMqttConnection.
LEMMA MqttInitIInv == MqttInit => MqttIInv
BY ConnectionAssumption, Zenon DEF MqttInit, MqttIInv, MqttTypeOK, OwnerInv, MqttCallbackInv, DataInv, AnyInv,
   MqttThreads

\* Every step of a thread, a destructor, a callback and the C connection preserves MqttIInv.
LEMMA MqttNextIInv == MqttIInv /\ [MqttNext]_mqttVars => MqttIInv'
<1> SUFFICES ASSUME MqttIInv, [MqttNext]_mqttVars
             PROVE  MqttIInv'
  BY Zenon
<1> USE ConnectionAssumption
    DEF MqttIInv, MqttThreads, coreVars, opVars, anyVars, cbVars, nativeVars
<1>1. ASSUME NEW t \in MqttUsers, CreateMqttConnection(t)
      PROVE  MqttIInv'
  <2> USE <1>1 DEF CreateMqttConnection, NewCoreRefs
  <2>1. MqttTypeOK'
    BY Zenon DEF MqttTypeOK, MqttCallbackInv
  <2>2. OwnerInv'
    BY Zenon DEF MqttTypeOK, OwnerInv, MqttCallbackInv
  <2>3. MqttCallbackInv'
    BY Zenon DEF MqttTypeOK, OwnerInv, MqttCallbackInv, DataInv
  <2>4. DataInv'
    BY Zenon DEF MqttTypeOK, OwnerInv, MqttCallbackInv, DataInv
  <2>5. AnyInv'
    BY Zenon DEF MqttTypeOK, OwnerInv, AnyInv
  <2> QED
    BY <2>1, <2>2, <2>3, <2>4, <2>5, Zenon
<1>2. ASSUME NEW t \in MqttThreads, NEW u \in MqttUsers, ShareReference(t, u)
      PROVE  MqttIInv'
  <2> USE <1>2 DEF ShareReference, Owns
  <2>1. MqttTypeOK'
    BY DEF MqttTypeOK, MqttCallbackInv
  <2>2. OwnerInv'
    BY Zenon DEF MqttTypeOK, OwnerInv, MqttCallbackInv
  <2>3. MqttCallbackInv'
    BY Zenon DEF MqttTypeOK, OwnerInv, MqttCallbackInv, DataInv
  <2>4. DataInv'
    BY Zenon DEF MqttTypeOK, OwnerInv, MqttCallbackInv, DataInv
  <2>5. AnyInv'
    BY Zenon DEF MqttTypeOK, OwnerInv, AnyInv
  <2> QED
    BY <2>1, <2>2, <2>3, <2>4, <2>5, Zenon
<1>3. ASSUME NEW t \in MqttThreads, ReleaseReference(t)
      PROVE  MqttIInv'
  <2> USE <1>3 DEF ReleaseReference, Owns, AfterDrop
  <2>1. MqttTypeOK'
    BY DEF MqttTypeOK, MqttCallbackInv
  <2>2. OwnerInv'
    BY DEF MqttTypeOK, OwnerInv, MqttCallbackInv
  <2>3. MqttCallbackInv'
    BY Zenon DEF MqttTypeOK, OwnerInv, MqttCallbackInv, DataInv
  <2>4. DataInv'
    BY Zenon DEF MqttTypeOK, OwnerInv, MqttCallbackInv, DataInv
  <2>5. AnyInv'
    BY Zenon DEF MqttTypeOK, OwnerInv, AnyInv
  <2> QED
    BY <2>1, <2>2, <2>3, <2>4, <2>5, Zenon
<1>4. ASSUME NEW t \in MqttThreads, Connect(t)
      PROVE  MqttIInv'
  <2> USE <1>4 DEF Connect, Owns
  <2>1. MqttTypeOK'
    BY DEF MqttTypeOK, MqttCallbackInv
  <2>2. OwnerInv'
    BY Zenon DEF MqttTypeOK, OwnerInv, MqttCallbackInv
  <2>3. MqttCallbackInv'
    BY Zenon DEF MqttTypeOK, OwnerInv, MqttCallbackInv, DataInv
  <2>4. DataInv'
    BY Zenon DEF MqttTypeOK, OwnerInv, MqttCallbackInv, DataInv
  <2>5. AnyInv'
    BY Zenon DEF MqttTypeOK, OwnerInv, AnyInv
  <2> QED
    BY <2>1, <2>2, <2>3, <2>4, <2>5, Zenon
<1>5. ASSUME NEW t \in MqttThreads, Disconnect(t)
      PROVE  MqttIInv'
  <2> USE <1>5 DEF Disconnect, Owns
  <2>1. MqttTypeOK'
    BY DEF MqttTypeOK, MqttCallbackInv
  <2>2. OwnerInv'
    BY Zenon DEF MqttTypeOK, OwnerInv, MqttCallbackInv
  <2>3. MqttCallbackInv'
    BY Zenon DEF MqttTypeOK, OwnerInv, MqttCallbackInv, DataInv
  <2>4. DataInv'
    BY Zenon DEF MqttTypeOK, OwnerInv, MqttCallbackInv, DataInv
  <2>5. AnyInv'
    BY Zenon DEF MqttTypeOK, OwnerInv, AnyInv
  <2> QED
    BY <2>1, <2>2, <2>3, <2>4, <2>5, Zenon
<1>6. ASSUME NEW t \in MqttThreads, NEW h \in Handlers, SetOnMessageHandler(t, h)
      PROVE  MqttIInv'
  <2> USE <1>6 DEF SetOnMessageHandler, Owns
  <2>1. MqttTypeOK'
    BY DEF MqttTypeOK, MqttCallbackInv
  <2>2. OwnerInv'
    BY Zenon DEF MqttTypeOK, OwnerInv, MqttCallbackInv
  <2>3. MqttCallbackInv'
    BY Zenon DEF MqttTypeOK, OwnerInv, MqttCallbackInv, DataInv
  <2>4. DataInv'
    BY Zenon DEF MqttTypeOK, OwnerInv, MqttCallbackInv, DataInv
  <2>5. AnyInv'
    BY Zenon DEF MqttTypeOK, OwnerInv, AnyInv
  <2> QED
    BY <2>1, <2>2, <2>3, <2>4, <2>5, Zenon
<1>7. ASSUME NEW t \in MqttThreads, NEW o \in Ops, NEW s \in BOOLEAN, NEW w \in BOOLEAN,
             NEW c \in BOOLEAN, SubmitAccepted(t, o, s, w, c)
      PROVE  MqttIInv'
  <2> USE <1>7 DEF SubmitAccepted, Owns
  <2>1. MqttTypeOK'
    BY DEF MqttTypeOK, MqttCallbackInv
  <2>2. OwnerInv'
    BY Zenon DEF MqttTypeOK, OwnerInv, MqttCallbackInv
  <2>3. MqttCallbackInv'
    BY DEF MqttTypeOK, OwnerInv, MqttCallbackInv, DataInv
  <2>4. DataInv'
    BY DEF MqttTypeOK, OwnerInv, MqttCallbackInv, DataInv
  <2>5. AnyInv'
    BY Zenon DEF MqttTypeOK, OwnerInv, AnyInv
  <2> QED
    BY <2>1, <2>2, <2>3, <2>4, <2>5, Zenon
<1>8. ASSUME NEW t \in MqttThreads, NEW o \in Ops, SubmitRejected(t, o)
      PROVE  MqttIInv'
  <2> USE <1>8 DEF SubmitRejected, Owns
  <2>1. MqttTypeOK'
    BY DEF MqttTypeOK, MqttCallbackInv
  <2>2. OwnerInv'
    BY Zenon DEF MqttTypeOK, OwnerInv, MqttCallbackInv
  <2>3. MqttCallbackInv'
    BY DEF MqttTypeOK, OwnerInv, MqttCallbackInv, DataInv
  <2>4. DataInv'
    BY DEF MqttTypeOK, OwnerInv, MqttCallbackInv, DataInv
  <2>5. AnyInv'
    BY Zenon DEF MqttTypeOK, OwnerInv, AnyInv
  <2> QED
    BY <2>1, <2>2, <2>3, <2>4, <2>5, Zenon
<1>9. ASSUME NEW t \in MqttThreads, DestroyDisconnect(t)
      PROVE  MqttIInv'
  <2> USE <1>9 DEF DestroyDisconnect
  <2>1. MqttTypeOK'
    BY DEF MqttTypeOK, MqttCallbackInv
  <2>2. OwnerInv'
    BY DEF MqttTypeOK, OwnerInv, MqttCallbackInv
  <2>3. MqttCallbackInv'
    BY Zenon DEF MqttTypeOK, OwnerInv, MqttCallbackInv, DataInv
  <2>4. DataInv'
    BY Zenon DEF MqttTypeOK, OwnerInv, MqttCallbackInv, DataInv
  <2>5. AnyInv'
    BY Zenon DEF MqttTypeOK, OwnerInv, AnyInv
  <2> QED
    BY <2>1, <2>2, <2>3, <2>4, <2>5, Zenon
<1>10. ASSUME NEW t \in MqttThreads, DestroyRelease(t)
       PROVE  MqttIInv'
  <2> USE <1>10 DEF DestroyRelease
  <2>1. MqttTypeOK'
    BY DEF MqttTypeOK, MqttCallbackInv
  <2>2. OwnerInv'
    BY DEF MqttTypeOK, OwnerInv, MqttCallbackInv
  <2>3. MqttCallbackInv'
    BY Zenon DEF MqttTypeOK, OwnerInv, MqttCallbackInv, DataInv
  <2>4. DataInv'
    BY Zenon DEF MqttTypeOK, OwnerInv, MqttCallbackInv, DataInv
  <2>5. AnyInv'
    BY Zenon DEF MqttTypeOK, OwnerInv, AnyInv
  <2> QED
    BY <2>1, <2>2, <2>3, <2>4, <2>5, Zenon
<1>11. ASSUME NEW t \in MqttThreads, ResetCore(t)
       PROVE  MqttIInv'
  <2> USE <1>11 DEF ResetCore, DropCore
  <2>1. MqttTypeOK'
    BY DEF MqttTypeOK, MqttCallbackInv
  <2>2. OwnerInv'
    BY Zenon DEF MqttTypeOK, OwnerInv, MqttCallbackInv
  <2>3. MqttCallbackInv'
    BY Zenon DEF MqttTypeOK, OwnerInv, MqttCallbackInv, DataInv
  <2>4. DataInv'
    BY Zenon DEF MqttTypeOK, OwnerInv, MqttCallbackInv, DataInv
  <2>5. AnyInv'
    <3>1. CASE coreRefs = {"m_connectionCore"}
      <4>1. anyLive' = {}
        BY <3>1, Zenon DEF AnyInv
      <4>2. cConnection' = "terminated"
        BY <3>1, Zenon DEF MqttTypeOK, OwnerInv
      <4> QED
        BY <4>1, <4>2, Zenon DEF AnyInv
    <3>2. CASE coreRefs # {"m_connectionCore"}
      <4>1. coreRefs' # {} /\ anyLive' = anyLive
        BY <3>2, Zenon DEF OwnerInv
      <4> QED
        BY <4>1, Zenon DEF AnyInv
    <3> QED
      BY <3>1, <3>2, Zenon
  <2> QED
    BY <2>1, <2>2, <2>3, <2>4, <2>5, Zenon
<1>12. ASSUME ConnectionEvent
       PROVE  MqttIInv'
  <2> USE <1>12 DEF ConnectionEvent, EnterCallback, MqttLoopIdle
  <2>1. MqttTypeOK'
    BY Zenon DEF MqttTypeOK, MqttCallbackInv
  <2>2. OwnerInv'
    BY DEF MqttTypeOK, OwnerInv, MqttCallbackInv
  <2>3. MqttCallbackInv'
    BY Zenon DEF MqttTypeOK, OwnerInv, MqttCallbackInv, DataInv
  <2>4. DataInv'
    BY Zenon DEF MqttTypeOK, OwnerInv, MqttCallbackInv, DataInv
  <2>5. AnyInv'
    BY Zenon DEF MqttTypeOK, OwnerInv, AnyInv
  <2> QED
    BY <2>1, <2>2, <2>3, <2>4, <2>5, Zenon
<1>13. ASSUME WebsocketHandshake
       PROVE  MqttIInv'
  <2> USE <1>13 DEF WebsocketHandshake, EnterCallback, MqttLoopIdle
  <2>1. MqttTypeOK'
    BY Zenon DEF MqttTypeOK, MqttCallbackInv
  <2>2. OwnerInv'
    BY Zenon DEF MqttTypeOK, OwnerInv, MqttCallbackInv
  <2>3. MqttCallbackInv'
    BY Zenon DEF MqttTypeOK, OwnerInv, MqttCallbackInv, DataInv
  <2>4. DataInv'
    BY Zenon DEF MqttTypeOK, OwnerInv, MqttCallbackInv, DataInv
  <2>5. AnyInv'
    BY Zenon DEF MqttTypeOK, OwnerInv, AnyInv
  <2> QED
    BY <2>1, <2>2, <2>3, <2>4, <2>5, Zenon
<1>14. ASSUME InterceptComplete
       PROVE  MqttIInv'
  <2> USE <1>14 DEF InterceptComplete
  <2>1. MqttTypeOK'
    BY DEF MqttTypeOK, MqttCallbackInv
  <2>2. OwnerInv'
    BY Zenon DEF MqttTypeOK, OwnerInv, MqttCallbackInv
  <2>3. MqttCallbackInv'
    BY Zenon DEF MqttTypeOK, OwnerInv, MqttCallbackInv, DataInv
  <2>4. DataInv'
    BY Zenon DEF MqttTypeOK, OwnerInv, MqttCallbackInv, DataInv
  <2>5. AnyInv'
    BY Zenon DEF MqttTypeOK, OwnerInv, AnyInv
  <2> QED
    BY <2>1, <2>2, <2>3, <2>4, <2>5, Zenon
<1>15. ASSUME PublishToAny
       PROVE  MqttIInv'
  <2> USE <1>15 DEF PublishToAny, EnterCallback, MqttLoopIdle
  <2>1. MqttTypeOK'
    BY Zenon DEF MqttTypeOK, MqttCallbackInv
  <2>2. OwnerInv'
    BY Zenon DEF MqttTypeOK, OwnerInv, MqttCallbackInv
  <2>3. MqttCallbackInv'
    BY Zenon DEF MqttTypeOK, OwnerInv, MqttCallbackInv, DataInv
  <2>4. DataInv'
    BY Zenon DEF MqttTypeOK, OwnerInv, MqttCallbackInv, DataInv
  <2>5. AnyInv'
    BY Zenon DEF MqttTypeOK, OwnerInv, AnyInv
  <2> QED
    BY <2>1, <2>2, <2>3, <2>4, <2>5, Zenon
<1>16. ASSUME NEW o \in Ops, PublishToSubscription(o)
       PROVE  MqttIInv'
  <2> USE <1>16 DEF PublishToSubscription, EnterCallback, MqttLoopIdle
  <2>1. MqttTypeOK'
    BY Zenon DEF MqttTypeOK, MqttCallbackInv
  <2>2. OwnerInv'
    BY DEF MqttTypeOK, OwnerInv, MqttCallbackInv
  <2>3. MqttCallbackInv'
    BY Zenon DEF MqttTypeOK, OwnerInv, MqttCallbackInv, DataInv
  <2>4. DataInv'
    BY DEF MqttTypeOK, OwnerInv, MqttCallbackInv, DataInv
  <2>5. AnyInv'
    BY Zenon DEF MqttTypeOK, OwnerInv, AnyInv
  <2> QED
    BY <2>1, <2>2, <2>3, <2>4, <2>5, Zenon
<1>17. ASSUME NEW o \in Ops, OperationCompletes(o)
       PROVE  MqttIInv'
  <2> USE <1>17 DEF OperationCompletes, EnterCallback, MqttLoopIdle
  <2>1. MqttTypeOK'
    BY Zenon DEF MqttTypeOK, MqttCallbackInv
  <2>2. OwnerInv'
    BY DEF MqttTypeOK, OwnerInv, MqttCallbackInv
  <2>3. MqttCallbackInv'
    BY DEF MqttTypeOK, OwnerInv, MqttCallbackInv, DataInv
  <2>4. DataInv'
    BY DEF MqttTypeOK, OwnerInv, MqttCallbackInv, DataInv
  <2>5. AnyInv'
    BY Zenon DEF MqttTypeOK, OwnerInv, AnyInv
  <2> QED
    BY <2>1, <2>2, <2>3, <2>4, <2>5, Zenon
<1>18. ASSUME NEW o \in Ops, CleanUpOnPublishData(o)
       PROVE  MqttIInv'
  <2> USE <1>18 DEF CleanUpOnPublishData, MqttLoopIdle
  <2>1. MqttTypeOK'
    BY DEF MqttTypeOK, MqttCallbackInv
  <2>2. OwnerInv'
    BY DEF MqttTypeOK, OwnerInv, MqttCallbackInv
  <2>3. MqttCallbackInv'
    BY Zenon DEF MqttTypeOK, OwnerInv, MqttCallbackInv, DataInv
  <2>4. DataInv'
    BY Zenon DEF MqttTypeOK, OwnerInv, MqttCallbackInv, DataInv
  <2>5. AnyInv'
    BY Zenon DEF MqttTypeOK, OwnerInv, AnyInv
  <2> QED
    BY <2>1, <2>2, <2>3, <2>4, <2>5, Zenon
<1>19. ASSUME ConnectionTermination
       PROVE  MqttIInv'
  <2> USE <1>19 DEF ConnectionTermination, MqttLoopIdle, DropCore
  <2>1. MqttTypeOK'
    BY Zenon DEF MqttTypeOK, MqttCallbackInv
  <2>2. OwnerInv'
    BY Zenon DEF MqttTypeOK, OwnerInv, MqttCallbackInv
  <2>3. MqttCallbackInv'
    BY Zenon DEF MqttTypeOK, OwnerInv, MqttCallbackInv, DataInv
  <2>4. DataInv'
    BY Zenon DEF MqttTypeOK, OwnerInv, MqttCallbackInv, DataInv
  <2>5. AnyInv'
    <3>1. CASE coreRefs = {"m_self"}
      <4>1. anyLive' = {}
        BY <3>1, Zenon DEF AnyInv
      <4>2. cConnection' = "terminated"
        BY <3>1, Zenon DEF MqttTypeOK, OwnerInv
      <4> QED
        BY <4>1, <4>2, Zenon DEF AnyInv
    <3>2. CASE coreRefs # {"m_self"}
      <4>1. coreRefs' # {} /\ anyLive' = anyLive
        BY <3>2, Zenon DEF OwnerInv
      <4> QED
        BY <4>1, Zenon DEF AnyInv
    <3> QED
      BY <3>1, <3>2, Zenon
  <2> QED
    BY <2>1, <2>2, <2>3, <2>4, <2>5, Zenon
<1>20. ASSUME ObtainConnection
       PROVE  MqttIInv'
  <2> USE <1>20 DEF ObtainConnection, WantsConnection
  <2>1. MqttTypeOK'
    BY Zenon DEF MqttTypeOK, MqttCallbackInv
  <2>2. OwnerInv'
    BY Zenon DEF MqttTypeOK, OwnerInv, MqttCallbackInv
  <2>3. MqttCallbackInv'
    BY Zenon DEF MqttTypeOK, OwnerInv, MqttCallbackInv, DataInv
  <2>4. DataInv'
    BY Zenon DEF MqttTypeOK, OwnerInv, MqttCallbackInv, DataInv
  <2>5. AnyInv'
    BY Zenon DEF MqttTypeOK, OwnerInv, AnyInv
  <2> QED
    BY <2>1, <2>2, <2>3, <2>4, <2>5, Zenon
<1>21. ASSUME ConnectionGone
       PROVE  MqttIInv'
  <2> USE <1>21 DEF ConnectionGone, WantsConnection, AfterUserCode
  <2>1. MqttTypeOK'
    BY Zenon DEF MqttTypeOK, MqttCallbackInv
  <2>2. OwnerInv'
    BY Zenon DEF MqttTypeOK, OwnerInv, MqttCallbackInv
  <2>3. MqttCallbackInv'
    BY Zenon DEF MqttTypeOK, OwnerInv, MqttCallbackInv, DataInv
  <2>4. DataInv'
    BY Zenon DEF MqttTypeOK, OwnerInv, MqttCallbackInv, DataInv
  <2>5. AnyInv'
    BY Zenon DEF MqttTypeOK, OwnerInv, AnyInv
  <2> QED
    BY <2>1, <2>2, <2>3, <2>4, <2>5, Zenon
<1>22. ASSUME UserCodeReturns
       PROVE  MqttIInv'
  <2> USE <1>22 DEF UserCodeReturns
  <2>1. MqttTypeOK'
    BY DEF MqttTypeOK, MqttCallbackInv
  <2>2. OwnerInv'
    BY Zenon DEF MqttTypeOK, OwnerInv, MqttCallbackInv
  <2>3. MqttCallbackInv'
    BY Zenon DEF MqttTypeOK, OwnerInv, MqttCallbackInv, DataInv
  <2>4. DataInv'
    BY Zenon DEF MqttTypeOK, OwnerInv, MqttCallbackInv, DataInv
  <2>5. AnyInv'
    BY Zenon DEF MqttTypeOK, OwnerInv, AnyInv
  <2> QED
    BY <2>1, <2>2, <2>3, <2>4, <2>5, Zenon
<1>23. ASSUME DropConnection
       PROVE  MqttIInv'
  <2> USE <1>23 DEF DropConnection, AfterDrop, AfterUserCode
  <2>1. MqttTypeOK'
    BY DEF MqttTypeOK, MqttCallbackInv
  <2>2. OwnerInv'
    BY Zenon DEF MqttTypeOK, OwnerInv, MqttCallbackInv
  <2>3. MqttCallbackInv'
    BY Zenon DEF MqttTypeOK, OwnerInv, MqttCallbackInv, DataInv
  <2>4. DataInv'
    BY Zenon DEF MqttTypeOK, OwnerInv, MqttCallbackInv, DataInv
  <2>5. AnyInv'
    BY Zenon DEF MqttTypeOK, OwnerInv, AnyInv
  <2> QED
    BY <2>1, <2>2, <2>3, <2>4, <2>5, Zenon
<1>24. ASSUME DeleteData
       PROVE  MqttIInv'
  <2> USE <1>24 DEF DeleteData, AfterDrop
  <2>1. MqttTypeOK'
    BY Zenon DEF MqttTypeOK, MqttCallbackInv
  <2>2. OwnerInv'
    BY DEF MqttTypeOK, OwnerInv, MqttCallbackInv
  <2>3. MqttCallbackInv'
    BY Zenon DEF MqttTypeOK, OwnerInv, MqttCallbackInv, DataInv
  <2>4. DataInv'
    BY DEF MqttTypeOK, OwnerInv, MqttCallbackInv, DataInv
  <2>5. AnyInv'
    BY Zenon DEF MqttTypeOK, OwnerInv, AnyInv
  <2> QED
    BY <2>1, <2>2, <2>3, <2>4, <2>5, Zenon
<1>25. ASSUME UNCHANGED mqttVars
       PROVE  MqttIInv'
  BY <1>25 DEF mqttVars, MqttTypeOK, OwnerInv, MqttCallbackInv, DataInv, AnyInv
<1> QED
  BY <1>1, <1>2, <1>3, <1>4, <1>5, <1>6, <1>7, <1>8, <1>9, <1>10, <1>11, <1>12, <1>13,
     <1>14, <1>15, <1>16, <1>17, <1>18, <1>19, <1>20, <1>21, <1>22, <1>23, <1>24, <1>25
  DEF MqttNext, UserStep, DestroyStep, MqttLoopStep, MqttFinished

\* The invariant of every behaviour of a connection.
THEOREM MqttInvariance == MqttSpec => []MqttIInv
BY MqttInitIInv, MqttNextIInv, PTL DEF MqttSpec

-----------------------------------------------------------------------------
(* What follows from it *)

\* A callback finds the core, the connection it promoted, and the data of its handler,
\* whichever thread drops which reference meanwhile.
THEOREM CallbacksAlwaysFindConnection == MqttSpec => []CallbacksFindConnection
<1>1. ASSUME MqttIInv
      PROVE  CallbacksFindConnection
  <2>1. NothingDangles
    BY <1>1, Zenon DEF MqttIInv, OwnerInv, MqttCallbackInv, AnyInv, NothingDangles, CoreAlive
  <2>2. ConnectionOutlivesUserCode
    BY <1>1, Zenon DEF MqttIInv, OwnerInv, MqttCallbackInv, ConnectionOutlivesUserCode
  <2> QED
    BY <2>1, <2>2, Zenon DEF CallbacksFindConnection
<1> QED
  BY <1>1, MqttInvariance, PTL

\* Data of operations, subscriptions and handlers is deleted before the core is gone.
THEOREM NothingEverLeaks == MqttSpec => []NothingLeaks
<1>1. MqttIInv => NothingLeaks
  BY Zenon DEF MqttIInv, MqttTypeOK, OwnerInv, DataInv, AnyInv, NothingLeaks, CoreAlive
<1> QED
  BY <1>1, MqttInvariance, PTL

===============================================================================
