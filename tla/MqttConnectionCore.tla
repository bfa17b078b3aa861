-------------------------- MODULE MqttConnectionCore --------------------------
(***************************************************************************)
(* The lifetime and the callback discipline of an MQTT 3.1.1 connection:   *)
(* MqttConnection, the handle the user shares, and MqttConnectionCore, the *)
(* object the C connection calls back into.                                *)
(*                                                                         *)
(* No lock is involved.  The core knows the handle by a weak_ptr; every    *)
(* callback promotes it (obtainConnectionInstance) and skips the user's    *)
(* code when that fails.  A callback that promoted it may therefore be the *)
(* one that releases the last reference and runs ~MqttConnection, on the   *)
(* event loop.  The core owns itself (m_self) until the C connection has   *)
(* terminated.                                                             *)
(*                                                                         *)
(* The C connection is external and modelled from how the C++ code uses    *)
(* it; the handler for all publishes can be replaced only while it is      *)
(* disconnected.  User threads do not call the setters concurrently.       *)
(***************************************************************************)
EXTENDS FiniteSets, Naturals

CONSTANTS
    MqttUsers,     \* threads of the application
    MqttLoop,      \* the thread the C connection calls back on
    Ops,           \* publish, subscribe and unsubscribe operations
    NoOp,
    Handlers,      \* PubCallbackData made by SetOnMessageHandler
    NoHandler,
    UseWebsocket   \* Connect was told to set the websocket interceptor

ASSUME ConnectionAssumption ==
    /\ MqttLoop \notin MqttUsers
    /\ NoOp \notin Ops
    /\ NoHandler \notin Handlers
    /\ Ops \cap (MqttUsers \cup {MqttLoop}) = {}
    /\ UseWebsocket \in BOOLEAN

MqttThreads == MqttUsers \cup {MqttLoop}

VARIABLES
    connectionRefs, \* owners of a shared_ptr<MqttConnection>: threads and captures
    coreRefs,       \* the shared_ptrs to the core: m_connectionCore and m_self
    mqttPc,         \* progress of each thread through ~MqttConnection
    op,             \* fate of the completion data of each operation
    hasHandler,     \* operations that were given a completion handler
    called,         \* operations whose handler was invoked
    subData,        \* the PubCallbackData of each subscription
    anyLive,        \* PubCallbackData of SetOnMessageHandler that are allocated
    onAny,          \* m_onAnyCbData
    cAny,           \* the data the C connection has for its on-any handler
    cb,             \* the callback that runs on the event loop
    at,             \* how far it has got
    curOp,          \* the operation or subscription it is about
    cConnection,    \* the C connection: its lifetime
    conn            \* the C connection: its state

coreVars == <<connectionRefs, coreRefs, mqttPc>>
opVars == <<op, hasHandler, called, subData>>
anyVars == <<anyLive, onAny, cAny>>
cbVars == <<cb, at, curOp>>
nativeVars == <<cConnection, conn>>
mqttVars == <<coreVars, opVars, anyVars, cbVars, nativeVars>>

MqttTypeOK ==
    /\ connectionRefs \subseteq MqttThreads \cup Ops
    /\ coreRefs \subseteq {"m_connectionCore", "m_self"}
    /\ mqttPc \in [MqttThreads -> {"idle", "disconnect", "release", "reset"}]
    /\ op \in [Ops -> {"unused", "rejected", "queued", "completing", "freed"}]
    /\ hasHandler \subseteq Ops /\ called \subseteq Ops
    /\ subData \in [Ops -> {"none", "live", "freed"}]
    /\ anyLive \subseteq Handlers
    /\ onAny \in Handlers \cup {NoHandler}
    /\ cAny \in Handlers \cup {NoHandler}
    /\ cb \in {"none", "event", "handshake", "publish", "publishAny", "completion"}
    /\ at \in {"none", "enter", "user", "drop", "cleanup"}
    /\ at = "none" <=> cb = "none"
    /\ curOp \in Ops \cup {NoOp}
    /\ cConnection \in {"none", "alive", "released", "terminated"}
    /\ conn \in {"disconnected", "connecting", "transform", "signing", "upgraded",
                 "dropped", "connected", "disconnecting"}

MqttInit ==
    /\ connectionRefs = {} /\ coreRefs = {}
    /\ mqttPc = [t \in MqttThreads |-> "idle"]
    /\ op = [o \in Ops |-> "unused"]
    /\ hasHandler = {} /\ called = {}
    /\ subData = [o \in Ops |-> "none"]
    /\ anyLive = {} /\ onAny = NoHandler /\ cAny = NoHandler
    /\ cb = "none" /\ at = "none" /\ curOp = NoOp
    /\ cConnection = "none" /\ conn = "disconnected"

-----------------------------------------------------------------------------
(* User code.  On the event loop it runs only inside a callback. *)

Owns(t) ==
    /\ t \in connectionRefs
    /\ mqttPc[t] = "idle"
    /\ t = MqttLoop => at = "user"

\* Mutant of NewCoreRefs: the core does not own itself.
NewCoreRefsWithoutSelf == {"m_connectionCore"}

\* The core is made to own itself until its C connection has terminated.
NewCoreRefs == {"m_connectionCore", "m_self"}

\* s_CreateMqttConnection; when a part of it fails nobody sees the objects.
CreateMqttConnection(t) ==
    /\ cConnection = "none"
    /\ cConnection' = "alive"
    /\ coreRefs' = NewCoreRefs
    /\ connectionRefs' = {t}
    /\ UNCHANGED <<mqttPc, opVars, anyVars, cbVars, conn>>

ShareReference(t, u) ==
    /\ Owns(t) /\ u \notin connectionRefs
    /\ connectionRefs' = connectionRefs \cup {u}
    /\ UNCHANGED <<coreRefs, mqttPc, opVars, anyVars, cbVars, nativeVars>>

\* The last reference runs ~MqttConnection, that is Destroy(), on this thread.
AfterDrop(t, h) ==
    /\ connectionRefs' = connectionRefs \ {h}
    /\ mqttPc' = [mqttPc EXCEPT ![t] = IF connectionRefs = {h} THEN "disconnect" ELSE @]

ReleaseReference(t) ==
    /\ t # MqttLoop /\ Owns(t)
    /\ AfterDrop(t, t)
    /\ UNCHANGED <<coreRefs, opVars, anyVars, cbVars, nativeVars>>

\* Refused by the C connection unless it is disconnected.
Connect(t) ==
    /\ Owns(t)
    /\ conn = "disconnected"
    /\ conn' = "connecting"
    /\ UNCHANGED <<coreVars, opVars, anyVars, cbVars, cConnection>>

Disconnect(t) ==
    /\ Owns(t)
    /\ conn = "connected"
    /\ conn' = "disconnecting"
    /\ UNCHANGED <<coreVars, opVars, anyVars, cbVars, cConnection>>

\* The previous data is deleted once the C connection has the new one.
SetOnMessageHandler(t, h) ==
    /\ Owns(t)
    /\ h \notin anyLive
    /\ conn = "disconnected" /\ cb # "publishAny"
    /\ cAny' = h
    /\ anyLive' = (anyLive \ {onAny}) \cup {h}
    /\ onAny' = h
    /\ UNCHANGED <<coreVars, opVars, cbVars, nativeVars>>

\* Publish, both Subscribes and Unsubscribe: completion data, and for a
\* subscription the data of its message handlers, all deleted if refused.
SubmitAccepted(t, o, subscribes, withHandler, captures) ==
    /\ Owns(t)
    /\ op[o] = "unused"
    /\ captures => withHandler
    /\ op' = [op EXCEPT ![o] = "queued"]
    /\ subData' = [subData EXCEPT ![o] = IF subscribes THEN "live" ELSE @]
    /\ hasHandler' = IF withHandler THEN hasHandler \cup {o} ELSE hasHandler
    /\ connectionRefs' = IF captures THEN connectionRefs \cup {o} ELSE connectionRefs
    /\ UNCHANGED <<coreRefs, mqttPc, called, anyVars, cbVars, nativeVars>>

SubmitRejected(t, o) ==
    /\ Owns(t)
    /\ op[o] = "unused"
    /\ op' = [op EXCEPT ![o] = "rejected"]
    /\ UNCHANGED <<coreVars, hasHandler, called, subData, anyVars, cbVars, nativeVars>>

UserStep(t) ==
    \/ ReleaseReference(t) \/ Connect(t) \/ Disconnect(t)
    \/ \E u \in MqttUsers : ShareReference(t, u)
    \/ \E h \in Handlers : SetOnMessageHandler(t, h)
    \/ \E o \in Ops :
        \/ SubmitRejected(t, o)
        \/ \E s, w, c \in BOOLEAN : SubmitAccepted(t, o, s, w, c)

-----------------------------------------------------------------------------
(* ~MqttConnection: Destroy(), then the reference to the core. *)

DestroyDisconnect(t) ==
    /\ mqttPc[t] = "disconnect"
    /\ conn' = IF conn = "connected" THEN "disconnecting" ELSE conn
    /\ mqttPc' = [mqttPc EXCEPT ![t] = "release"]
    /\ UNCHANGED <<connectionRefs, coreRefs, opVars, anyVars, cbVars, cConnection>>

DestroyRelease(t) ==
    /\ mqttPc[t] = "release"
    /\ cConnection' = "released"
    /\ mqttPc' = [mqttPc EXCEPT ![t] = "reset"]
    /\ UNCHANGED <<connectionRefs, coreRefs, opVars, anyVars, cbVars, conn>>

\* Mutant of DropCore: the destructor of the core does not delete the data.
CoreKeepsHandler(ref) ==
    /\ coreRefs' = coreRefs \ {ref}
    /\ anyLive' = anyLive

\* ~MqttConnectionCore deletes the data of the handler for all publishes.
DropCore(ref) ==
    /\ coreRefs' = coreRefs \ {ref}
    /\ anyLive' = IF coreRefs = {ref} THEN anyLive \ {onAny} ELSE anyLive

ResetCore(t) ==
    /\ mqttPc[t] = "reset"
    /\ DropCore("m_connectionCore")
    /\ mqttPc' = [mqttPc EXCEPT ![t] = "idle"]
    /\ UNCHANGED <<connectionRefs, opVars, onAny, cAny, cbVars, nativeVars>>

DestroyStep(t) == DestroyDisconnect(t) \/ DestroyRelease(t) \/ ResetCore(t)

-----------------------------------------------------------------------------
(* The C connection on the event loop: what makes it call back. *)

MqttLoopIdle == at = "none" /\ mqttPc[MqttLoop] = "idle"

EnterCallback(kind) ==
    /\ MqttLoopIdle
    /\ cConnection \in {"alive", "released"}
    /\ cb' = kind
    /\ at' = "enter"

\* Completed and Success, Completed and Failure, Interrupted, Resumed, Disconnect
\* and Closed.  A released connection does not connect again.
ConnectionEvent ==
    /\ EnterCallback("event")
    /\ \/ /\ cConnection = "alive" /\ conn = IF UseWebsocket THEN "upgraded" ELSE "connecting"
          /\ conn' = "connected"
       \/ conn \in {"connecting", "upgraded", "disconnecting"} /\ conn' = "disconnected"
       \/ conn = "connected" /\ cConnection = "alive" /\ conn' = "connecting"
       \/ conn = "connected" /\ cConnection = "released" /\ conn' = "disconnected"
    /\ UNCHANGED <<coreVars, opVars, anyVars, curOp, cConnection>>

WebsocketHandshake ==
    /\ EnterCallback("handshake")
    /\ UseWebsocket /\ conn = "connecting"
    /\ conn' = "transform"
    /\ UNCHANGED <<coreVars, opVars, anyVars, curOp, cConnection>>

\* The user invokes onComplete, from any thread and possibly after the release.
InterceptComplete ==
    /\ conn = "signing"
    /\ conn' = "upgraded"
    /\ UNCHANGED <<coreVars, opVars, anyVars, cbVars, cConnection>>

PublishToAny ==
    /\ EnterCallback("publishAny")
    /\ conn \in {"connected", "disconnecting"} /\ cAny # NoHandler
    /\ UNCHANGED <<coreVars, opVars, anyVars, curOp, nativeVars>>

PublishToSubscription(o) ==
    /\ EnterCallback("publish")
    /\ conn \in {"connected", "disconnecting"}
    /\ subData[o] = "live" /\ op[o] = "freed"
    /\ curOp' = o
    /\ UNCHANGED <<coreVars, opVars, anyVars, nativeVars>>

OperationCompletes(o) ==
    /\ EnterCallback("completion")
    /\ op[o] = "queued"
    /\ op' = [op EXCEPT ![o] = "completing"]
    /\ curOp' = o
    /\ UNCHANGED <<coreVars, hasHandler, called, subData, anyVars, nativeVars>>

\* s_cleanUpOnPublishData, when a subscription ends or with the connection.
CleanUpOnPublishData(o) ==
    /\ MqttLoopIdle
    /\ subData[o] = "live" /\ op[o] = "freed"
    /\ cConnection \in {"alive", "released"}
    /\ subData' = [subData EXCEPT ![o] = "freed"]
    /\ UNCHANGED <<coreVars, op, hasHandler, called, anyVars, cbVars, nativeVars>>

\* Mutant of ConnectionTermination: the self reference is never reset.
TerminationKeepsSelf ==
    /\ MqttLoopIdle
    /\ cConnection = "released"
    /\ conn = "disconnected"
    /\ \A o \in Ops : op[o] # "queued" /\ subData[o] # "live"
    /\ cConnection' = "terminated"
    /\ UNCHANGED <<coreVars, opVars, anyVars, cbVars, conn>>

\* s_onConnectionTermination, the last callback of the C connection.
ConnectionTermination ==
    /\ MqttLoopIdle
    /\ cConnection = "released"
    /\ conn = "disconnected"
    /\ \A o \in Ops : op[o] # "queued" /\ subData[o] # "live"
    /\ cConnection' = "terminated"
    /\ DropCore("m_self")
    /\ UNCHANGED <<connectionRefs, mqttPc, opVars, onAny, cAny, cbVars, conn>>

-----------------------------------------------------------------------------
(* The shape every callback shares. *)

\* Without a handler a completion does not even promote the weak_ptr.
WantsConnection == cb = "completion" => curOp \in hasHandler

AfterUserCode == IF cb = "completion" THEN "cleanup" ELSE "none"

\* Mutant of ObtainConnection: the weak_ptr is tested and not promoted.
ObtainDoesNotOwn ==
    /\ at = "enter" /\ WantsConnection
    /\ connectionRefs # {}
    /\ connectionRefs' = connectionRefs
    /\ at' = "user"
    /\ called' = IF cb = "completion" THEN called \cup {curOp} ELSE called
    /\ conn' = IF cb = "handshake" THEN "signing" ELSE conn
    /\ UNCHANGED <<coreRefs, mqttPc, op, hasHandler, subData, anyVars, cb, curOp, cConnection>>

\* obtainConnectionInstance succeeds: the callback owns the connection.
ObtainConnection ==
    /\ at = "enter" /\ WantsConnection
    /\ connectionRefs # {}
    /\ connectionRefs' = connectionRefs \cup {MqttLoop}
    /\ at' = "user"
    /\ called' = IF cb = "completion" THEN called \cup {curOp} ELSE called
    /\ conn' = IF cb = "handshake" THEN "signing" ELSE conn
    /\ UNCHANGED <<coreRefs, mqttPc, op, hasHandler, subData, anyVars, cb, curOp, cConnection>>

\* It fails: the user's code is skipped, a handshake is never completed.
ConnectionGone ==
    /\ at = "enter"
    /\ WantsConnection => connectionRefs = {}
    /\ at' = AfterUserCode
    /\ cb' = IF cb = "completion" THEN cb ELSE "none"
    /\ curOp' = IF cb = "completion" THEN curOp ELSE NoOp
    /\ conn' = IF cb = "handshake" THEN "dropped" ELSE conn
    /\ UNCHANGED <<coreVars, opVars, anyVars, cConnection>>

UserCodeReturns ==
    /\ at = "user"
    /\ at' = "drop"
    /\ UNCHANGED <<coreVars, opVars, anyVars, cb, curOp, nativeVars>>

\* The promoted reference goes; ~MqttConnection may run here.
DropConnection ==
    /\ at = "drop"
    /\ AfterDrop(MqttLoop, MqttLoop)
    /\ at' = AfterUserCode
    /\ cb' = IF cb = "completion" THEN cb ELSE "none"
    /\ curOp' = IF cb = "completion" THEN curOp ELSE NoOp
    /\ UNCHANGED <<coreRefs, opVars, anyVars, nativeVars>>

\* Deleting the data destroys the handler and a reference it captured.
DeleteData ==
    /\ at = "cleanup" /\ mqttPc[MqttLoop] = "idle"
    /\ op' = [op EXCEPT ![curOp] = "freed"]
    /\ AfterDrop(MqttLoop, curOp)
    /\ at' = "none" /\ cb' = "none" /\ curOp' = NoOp
    /\ UNCHANGED <<coreRefs, hasHandler, called, subData, anyVars, nativeVars>>

MqttLoopStep ==
    \/ ConnectionEvent \/ WebsocketHandshake \/ PublishToAny
    \/ \E o \in Ops :
        PublishToSubscription(o) \/ OperationCompletes(o) \/ CleanUpOnPublishData(o)
    \/ ObtainConnection \/ ConnectionGone \/ UserCodeReturns \/ DropConnection \/ DeleteData
    \/ ConnectionTermination

MqttFinished ==
    /\ cConnection \in {"released", "terminated"}
    /\ cConnection = "released" => conn = "dropped"
    /\ MqttLoopIdle
    /\ \A t \in MqttThreads : mqttPc[t] = "idle"
    /\ UNCHANGED mqttVars

MqttNext ==
    \/ \E t \in MqttUsers : CreateMqttConnection(t)
    \/ \E t \in MqttThreads : UserStep(t) \/ DestroyStep(t)
    \/ MqttLoopStep
    \/ InterceptComplete
    \/ MqttFinished

\* The event loop keeps running, destructors go on, handshakes the user was given
\* are completed, and a released C connection disconnects however many publishes
\* arrive: the tasks of an event loop run in the order of their submission.
MqttFairness ==
    /\ WF_mqttVars(MqttLoopStep)
    /\ SF_mqttVars(cConnection = "released" /\ ConnectionEvent)
    /\ \A o \in Ops : SF_mqttVars(cConnection = "released" /\ OperationCompletes(o))
    /\ WF_mqttVars(InterceptComplete)
    /\ \A t \in MqttThreads : WF_mqttVars(DestroyStep(t))

MqttSpec == MqttInit /\ [][MqttNext]_mqttVars

-----------------------------------------------------------------------------
(* Properties *)

CoreAlive == coreRefs # {}

\* "we ensured that the MqttConnection object will be alive for the duration of the
\* callback execution": while user code runs no thread has begun to destroy it.
ConnectionOutlivesUserCode ==
    at \in {"user", "drop"} =>
        MqttLoop \in connectionRefs /\ cConnection = "alive" /\ \A t \in MqttThreads : mqttPc[t] = "idle"

\* Every pointer somebody may still follow is valid: to the core, for the C
\* connection until it has terminated, for the callback that runs and for
\* ~MqttConnection after the release that may already have terminated the C
\* connection; to the data of a message handler, for as long as the C connection
\* may call back with it.
NothingDangles ==
    /\ \/ cConnection \in {"alive", "released"}
       \/ at # "none"
       \/ \E t \in MqttThreads : mqttPc[t] # "idle"
       => CoreAlive
    /\ cConnection \in {"alive", "released"} => cAny = onAny /\ {cAny} \ {NoHandler} \subseteq anyLive
    /\ cb = "publish" => subData[curOp] = "live"

\* A callback finds the core, the connection it promoted, and the data of its handler.
CallbacksFindConnection == NothingDangles /\ ConnectionOutlivesUserCode

\* Nothing the connection allocated outlives the core, and data that was replaced
\* is gone: one allocation for the handler of all messages at most.
NothingLeaks ==
    /\ anyLive \subseteq {onAny}
    /\ cConnection # "none" /\ ~CoreAlive =>
        /\ anyLive = {}
        /\ \A o \in Ops : op[o] \notin {"queued", "completing"} /\ subData[o] # "live"

\* A released connection terminates and the core is freed, unless a websocket
\* handshake found the connection gone, which leaves it waiting for ever.
ReleasedConnectionIsFreed ==
    cConnection = "released" ~> (~CoreAlive \/ conn = "dropped")

=============================================================================
