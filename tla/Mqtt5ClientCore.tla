--------------------------- MODULE Mqtt5ClientCore ---------------------------
(***************************************************************************)
(* The lifetime and the callback discipline of an MQTT5 client:            *)
(* Mqtt5Client, the handle the user shares between threads, and            *)
(* Mqtt5ClientCore, the object the C client calls back into.               *)
(*                                                                         *)
(* User threads create, share and release references to the Mqtt5Client    *)
(* and submit operations through it.  The C client runs every callback on  *)
(* one event-loop thread.  Releasing the last reference runs the           *)
(* destructor, hence Close(), on whichever thread holds it: a user thread, *)
(* or the event loop inside a callback or while deleting the data of an    *)
(* operation whose handler had captured the reference.                     *)
(*                                                                         *)
(* Lifecycle, publish-received and websocket-handshake callbacks run the   *)
(* user's code with m_callback_lock held.  Operation completions check the *)
(* flag under the lock and drop the lock before they run the user's code.  *)
(*                                                                         *)
(* The C client (connection states, queueing, termination) is external and *)
(* modelled from how the C++ code uses it.  What a publish-received        *)
(* callback does about acknowledgements is in PublishAcknowledgement.      *)
(***************************************************************************)
EXTENDS Naturals

CONSTANTS
    UserThreads,   \* threads of the application
    EventLoop,     \* the thread the C client runs its callbacks on
    NoThread,      \* nobody owns the lock, or nobody has closed the client
    Ops,           \* publish, subscribe and unsubscribe operations
    NoOp,          \* no completion is being delivered
    UseWebsocket   \* a websocket handshake transform is configured

ASSUME ThreadsAssumption ==
    /\ EventLoop \notin UserThreads
    /\ NoThread \notin UserThreads \cup {EventLoop}

ASSUME OpsAssumption ==
    /\ NoOp \notin Ops
    /\ Ops \cap (UserThreads \cup {EventLoop}) = {}

ASSUME WebsocketAssumption == UseWebsocket \in BOOLEAN

Threads == UserThreads \cup {EventLoop}

VARIABLES
    holders,       \* owners of a shared_ptr<Mqtt5Client>: threads and captures
    coreRefs,      \* the shared_ptrs to the core: m_client_core, m_selfReference
    callbackFlag,  \* m_callbackFlag
    mClient,       \* m_client is not null
    lockOwner,     \* owner of the recursive mutex m_callback_lock
    lockDepth,     \* how many times the owner has locked it
    pc,            \* progress of each thread through ~Mqtt5Client
    op,            \* fate of the callback data of each operation
    handler,       \* operations submitted with a completion handler
    called,        \* operations whose completion handler was invoked
    cb,            \* kind of the callback on the event loop
    at,            \* progress of that callback
    curOp,         \* the operation it completes
    closer,        \* the thread that ran Close()
    native,        \* the C client: its lifetime
    conn,          \* the C client: its connection
    desired        \* the C client was asked to be connected

coreVars == <<holders, coreRefs, callbackFlag, mClient, closer>>
lockVars == <<lockOwner, lockDepth>>
opVars == <<op, handler, called>>
cbVars == <<cb, at, curOp>>
nativeVars == <<native, conn, desired>>
vars == <<coreVars, lockVars, pc, opVars, cbVars, nativeVars>>

-----------------------------------------------------------------------------
(* Types *)

CallbackFlag == {"INVOKE", "IGNORE"}
PcValues == {"idle", "close", "release", "unlock", "reset"}
OpValues == {"unused", "rejected", "queued", "completing", "freed"}
CbKinds == {"none", "lifecycle", "publish", "handshake", "completion"}
CbPlaces == {"none", "enter", "call", "user", "cleanup"}
ConnValues == {"stopped", "connecting", "transform", "signing", "upgraded",
               "dropped", "connected", "disconnected"}

TypeOK ==
    /\ holders \subseteq Threads \cup Ops
    /\ coreRefs \subseteq {"m_client_core", "m_selfReference"}
    /\ callbackFlag \in CallbackFlag
    /\ mClient \in BOOLEAN
    /\ lockOwner \in Threads \cup {NoThread}
    /\ lockDepth \in 0..2
    /\ pc \in [Threads -> PcValues]
    /\ op \in [Ops -> OpValues]
    /\ handler \in SUBSET Ops
    /\ called \in SUBSET Ops
    /\ cb \in CbKinds
    /\ at \in CbPlaces
    /\ curOp \in Ops \cup {NoOp}
    /\ closer \in Threads \cup {NoThread}
    /\ native \in {"none", "alive", "released", "terminated"}
    /\ conn \in ConnValues
    /\ desired \in BOOLEAN

Init ==
    /\ holders = {}
    /\ coreRefs = {}
    /\ callbackFlag = "INVOKE"
    /\ mClient = FALSE
    /\ lockOwner = NoThread
    /\ lockDepth = 0
    /\ pc = [t \in Threads |-> "idle"]
    /\ op = [o \in Ops |-> "unused"]
    /\ handler = {}
    /\ called = {}
    /\ cb = "none"
    /\ at = "none"
    /\ curOp = NoOp
    /\ closer = NoThread
    /\ native = "none"
    /\ conn = "stopped"
    /\ desired = FALSE

-----------------------------------------------------------------------------
(* User code.  On the event loop it runs only inside a callback. *)

MayCall(t) ==
    /\ pc[t] = "idle"
    /\ t = EventLoop => at = "user"

\* Mutant of NewMqtt5Client: the core does not own itself.
NewWithoutSelfReference(t) ==
    /\ native = "none"
    /\ native' = "alive"
    /\ mClient' = TRUE
    /\ coreRefs' = {"m_client_core"}
    /\ holders' = {t}
    /\ UNCHANGED <<callbackFlag, closer, lockVars, pc, opVars, cbVars, conn, desired>>

\* Mqtt5Client::NewMqtt5Client when aws_mqtt5_client_new succeeds.  When it
\* fails both objects are deleted before anyone else can see them.
NewMqtt5Client(t) ==
    /\ native = "none"
    /\ native' = "alive"
    /\ mClient' = TRUE
    /\ coreRefs' = {"m_client_core", "m_selfReference"}
    /\ holders' = {t}
    /\ UNCHANGED <<callbackFlag, closer, lockVars, pc, opVars, cbVars, conn, desired>>

\* A copy of the shared_ptr for another thread.
ShareReference(t, u) ==
    /\ MayCall(t)
    /\ t \in holders
    /\ u \notin holders
    /\ holders' = holders \cup {u}
    /\ UNCHANGED <<coreRefs, callbackFlag, mClient, closer, lockVars, pc, opVars, cbVars, nativeVars>>

\* A callback that knows the client by a weak_ptr owns it for as long as it runs.
PromoteReference ==
    /\ MayCall(EventLoop)
    /\ holders # {}
    /\ EventLoop \notin holders
    /\ holders' = holders \cup {EventLoop}
    /\ UNCHANGED <<coreRefs, callbackFlag, mClient, closer, lockVars, pc, opVars, cbVars, nativeVars>>

\* Releasing the last reference starts ~Mqtt5Client on this thread.
AfterDrop(t, h) ==
    /\ holders' = holders \ {h}
    /\ pc' = [pc EXCEPT ![t] = IF holders = {h} THEN "close" ELSE @]

ReleaseReference(t) ==
    /\ MayCall(t)
    /\ t \in holders
    /\ AfterDrop(t, t)
    /\ UNCHANGED <<coreRefs, callbackFlag, mClient, closer, lockVars, opVars, cbVars, nativeVars>>

StartOrStop(t) ==
    /\ MayCall(t)
    /\ t \in holders
    /\ desired' = ~desired
    /\ UNCHANGED <<coreVars, lockVars, pc, opVars, cbVars, native, conn>>

\* Publish, Subscribe and Unsubscribe share one shape: allocate the callback
\* data, hand it to the C client, delete it at once if the C client refuses.
\* The handler may be empty, and may have captured the Mqtt5Client.
SubmitAccepted(t, o, hasHandler, captures) ==
    /\ MayCall(t)
    /\ t \in holders
    /\ op[o] = "unused"
    /\ captures => hasHandler
    /\ op' = [op EXCEPT ![o] = "queued"]
    /\ handler' = IF hasHandler THEN handler \cup {o} ELSE handler
    /\ holders' = IF captures THEN holders \cup {o} ELSE holders
    /\ UNCHANGED <<coreRefs, callbackFlag, mClient, closer, lockVars, pc, called, cbVars, nativeVars>>

SubmitRejected(t, o) ==
    /\ MayCall(t)
    /\ t \in holders
    /\ op[o] = "unused"
    /\ op' = [op EXCEPT ![o] = "rejected"]
    /\ UNCHANGED <<coreVars, lockVars, pc, handler, called, cbVars, nativeVars>>

UserStep(t) ==
    \/ ReleaseReference(t)
    \/ StartOrStop(t)
    \/ \E u \in UserThreads : ShareReference(t, u)
    \/ \E o \in Ops :
        \/ SubmitRejected(t, o)
        \/ \E hasHandler, captures \in BOOLEAN : SubmitAccepted(t, o, hasHandler, captures)

-----------------------------------------------------------------------------
(* ~Mqtt5Client: Close() under the recursive lock, then the core reference. *)

\* Mutant of CloseLock: Close() does not wait for the lock.
CloseDoesNotWait(t) ==
    /\ pc[t] = "close"
    /\ lockOwner' = t
    /\ lockDepth' = lockDepth + 1
    /\ pc' = [pc EXCEPT ![t] = "release"]
    /\ UNCHANGED <<coreVars, opVars, cbVars, nativeVars>>

CloseLock(t) ==
    /\ pc[t] = "close"
    /\ lockOwner \in {NoThread, t}
    /\ lockOwner' = t
    /\ lockDepth' = lockDepth + 1
    /\ pc' = [pc EXCEPT ![t] = "release"]
    /\ UNCHANGED <<coreVars, opVars, cbVars, nativeVars>>

\* From here the C client may terminate at any time, before m_client is reset.
CloseRelease(t) ==
    /\ pc[t] = "release"
    /\ callbackFlag' = "IGNORE"
    /\ closer' = t
    /\ native' = "released"
    /\ pc' = [pc EXCEPT ![t] = "unlock"]
    /\ UNCHANGED <<holders, coreRefs, mClient, lockVars, opVars, cbVars, conn, desired>>

CloseUnlock(t) ==
    /\ pc[t] = "unlock"
    /\ mClient' = FALSE
    /\ lockDepth' = lockDepth - 1
    /\ lockOwner' = IF lockDepth = 1 THEN NoThread ELSE lockOwner
    /\ pc' = [pc EXCEPT ![t] = "reset"]
    /\ UNCHANGED <<holders, coreRefs, callbackFlag, closer, opVars, cbVars, nativeVars>>

ResetCore(t) ==
    /\ pc[t] = "reset"
    /\ coreRefs' = coreRefs \ {"m_client_core"}
    /\ pc' = [pc EXCEPT ![t] = "idle"]
    /\ UNCHANGED <<holders, callbackFlag, mClient, closer, lockVars, opVars, cbVars, nativeVars>>

DestructorStep(t) == CloseLock(t) \/ CloseRelease(t) \/ CloseUnlock(t) \/ ResetCore(t)

-----------------------------------------------------------------------------
(* The C client on the event loop: what makes it call back. *)

LoopIdle == at = "none" /\ pc[EventLoop] = "idle"

EnterCallback(kind) ==
    /\ LoopIdle
    /\ native \in {"alive", "released"}
    /\ cb' = kind
    /\ at' = "enter"

AttemptingConnect ==
    /\ native = "alive" /\ desired
    /\ conn \in {"stopped", "disconnected"}
    /\ conn' = "connecting"

ConnectionSuccess ==
    /\ native = "alive"
    /\ conn = IF UseWebsocket THEN "upgraded" ELSE "connecting"
    /\ conn' = "connected"

ConnectionFailure ==
    /\ conn \in {"connecting", "upgraded"}
    /\ conn' = "disconnected"

Disconnection ==
    /\ conn = "connected"
    /\ conn' = "disconnected"

Stopped ==
    /\ conn = "disconnected"
    /\ ~desired \/ native = "released"
    /\ conn' = "stopped"

LifecycleEvent ==
    /\ EnterCallback("lifecycle")
    /\ AttemptingConnect \/ ConnectionSuccess \/ ConnectionFailure \/ Disconnection \/ Stopped
    /\ UNCHANGED <<coreVars, lockVars, pc, opVars, curOp, native, desired>>

PublishReceived ==
    /\ EnterCallback("publish")
    /\ conn = "connected"
    /\ UNCHANGED <<coreVars, lockVars, pc, opVars, curOp, nativeVars>>

WebsocketHandshake ==
    /\ EnterCallback("handshake")
    /\ UseWebsocket
    /\ conn = "connecting"
    /\ conn' = "transform"
    /\ UNCHANGED <<coreVars, lockVars, pc, opVars, curOp, native, desired>>

\* The user invokes onComplete, from any thread and possibly after Close().
InterceptComplete ==
    /\ conn = "signing"
    /\ conn' = "upgraded"
    /\ UNCHANGED <<coreVars, lockVars, pc, opVars, cbVars, native, desired>>

OperationCompletes(o) ==
    /\ EnterCallback("completion")
    /\ op[o] = "queued"
    /\ op' = [op EXCEPT ![o] = "completing"]
    /\ curOp' = o
    /\ UNCHANGED <<coreVars, lockVars, pc, handler, called, nativeVars>>

\* Mutant of ClientTermination: the self reference is never reset.
TerminationKeepsSelfReference ==
    /\ LoopIdle
    /\ native = "released"
    /\ conn \in {"stopped", "disconnected"}
    /\ \A o \in Ops : op[o] # "queued"
    /\ native' = "terminated"
    /\ coreRefs' = coreRefs
    /\ UNCHANGED <<holders, callbackFlag, mClient, closer, lockVars, pc, opVars, cbVars, conn, desired>>

\* The termination handler is the last thing the C client calls: nothing is
\* queued and no connection, nor attempt at one, is left.
ClientTermination ==
    /\ LoopIdle
    /\ native = "released"
    /\ conn \in {"stopped", "disconnected"}
    /\ \A o \in Ops : op[o] # "queued"
    /\ native' = "terminated"
    /\ coreRefs' = coreRefs \ {"m_selfReference"}
    /\ UNCHANGED <<holders, callbackFlag, mClient, closer, lockVars, pc, opVars, cbVars, conn, desired>>

-----------------------------------------------------------------------------
(* Callbacks that keep m_callback_lock while the user's code runs:         *)
(* s_lifeCycleEventCallback, s_publishReceivedCallback and                 *)
(* s_onWebsocketHandshake.                                                 *)

Gated == {"lifecycle", "publish", "handshake"}

CallbackMayReturn == pc[EventLoop] = "idle" /\ EventLoop \notin holders

GateEnter ==
    /\ at = "enter"
    /\ cb \in Gated
    /\ lockOwner = NoThread
    /\ callbackFlag = "INVOKE"
    /\ lockOwner' = EventLoop
    /\ lockDepth' = 1
    /\ at' = "user"
    /\ conn' = IF cb = "handshake" THEN "signing" ELSE conn
    /\ UNCHANGED <<coreVars, pc, opVars, cb, curOp, native, desired>>

\* A revoked handshake returns without ever invoking complete_fn.
GateRevoked ==
    /\ at = "enter"
    /\ cb \in Gated
    /\ lockOwner = NoThread
    /\ callbackFlag = "IGNORE"
    /\ at' = "none"
    /\ cb' = "none"
    /\ conn' = IF cb = "handshake" THEN "dropped" ELSE conn
    /\ UNCHANGED <<coreVars, lockVars, pc, opVars, curOp, native, desired>>

GateLeave ==
    /\ at = "user"
    /\ cb \in Gated
    /\ CallbackMayReturn
    /\ lockDepth' = 0
    /\ lockOwner' = NoThread
    /\ at' = "none"
    /\ cb' = "none"
    /\ UNCHANGED <<coreVars, pc, opVars, curOp, nativeVars>>

-----------------------------------------------------------------------------
(* Completions: s_publishCompletionCallback, s_subscribeCompletionCallback *)
(* and s_unsubscribeCompletionCallback.                                    *)

\* Mutant of CompletionCheck: without a handler the callback returns before it deletes its data.
CompletionLeaks ==
    /\ at = "enter"
    /\ cb = "completion"
    /\ \/ /\ curOp \notin handler
          /\ at' = "none" /\ cb' = "none"
       \/ /\ curOp \in handler
          /\ lockOwner = NoThread
          /\ cb' = cb
          /\ at' = IF callbackFlag = "INVOKE" THEN "call" ELSE "cleanup"
    /\ UNCHANGED <<coreVars, lockVars, pc, opVars, curOp, nativeVars>>

\* Mutant of CompletionCheck: a busy lock is taken for a closed client.
CompletionTriesLock ==
    /\ at = "enter"
    /\ cb = "completion"
    /\ \/ /\ curOp \notin handler
          /\ at' = "cleanup"
       \/ /\ curOp \in handler
          /\ at' = IF callbackFlag = "INVOKE" /\ lockOwner = NoThread THEN "call" ELSE "cleanup"
    /\ UNCHANGED <<coreVars, lockVars, pc, opVars, cb, curOp, nativeVars>>

CompletionCheck ==
    /\ at = "enter"
    /\ cb = "completion"
    /\ \/ /\ curOp \notin handler
          /\ at' = "cleanup"
       \/ /\ curOp \in handler
          /\ lockOwner = NoThread
          /\ at' = IF callbackFlag = "INVOKE" THEN "call" ELSE "cleanup"
    /\ UNCHANGED <<coreVars, lockVars, pc, opVars, cb, curOp, nativeVars>>

CompletionCall ==
    /\ at = "call"
    /\ at' = "user"
    /\ called' = called \cup {curOp}
    /\ UNCHANGED <<coreVars, lockVars, pc, op, handler, cb, curOp, nativeVars>>

CompletionReturn ==
    /\ at = "user"
    /\ cb = "completion"
    /\ CallbackMayReturn
    /\ at' = "cleanup"
    /\ UNCHANGED <<coreVars, lockVars, pc, opVars, cb, curOp, nativeVars>>

\* Deleting the callback data destroys the handler, and with it a captured
\* reference: the client may be destroyed here.
CompletionCleanup ==
    /\ at = "cleanup"
    /\ op' = [op EXCEPT ![curOp] = "freed"]
    /\ AfterDrop(EventLoop, curOp)
    /\ at' = "none"
    /\ cb' = "none"
    /\ curOp' = NoOp
    /\ UNCHANGED <<coreRefs, callbackFlag, mClient, closer, lockVars, handler, called, nativeVars>>

-----------------------------------------------------------------------------

LoopStep ==
    \/ LifecycleEvent \/ PublishReceived \/ WebsocketHandshake
    \/ \E o \in Ops : OperationCompletes(o)
    \/ GateEnter \/ GateRevoked \/ GateLeave
    \/ CompletionCheck \/ CompletionCall \/ CompletionReturn \/ CompletionCleanup
    \/ ClientTermination

\* Nothing is left to do.  A dropped handshake leaves the C client waiting for
\* its transform for ever.
Finished ==
    /\ native \in {"released", "terminated"}
    /\ native = "released" => conn = "dropped"
    /\ LoopIdle
    /\ \A t \in Threads : pc[t] = "idle"
    /\ \A o \in Ops : op[o] # "queued"
    /\ UNCHANGED vars

Next ==
    \/ \E t \in UserThreads : NewMqtt5Client(t)
    \/ \E t \in Threads : UserStep(t) \/ DestructorStep(t)
    \/ PromoteReference
    \/ LoopStep
    \/ InterceptComplete
    \/ Finished

\* The event loop keeps running, user callbacks drop their reference and return,
\* a destructor that has begun goes on, and the user completes the handshakes
\* they were given.  A released C client winds its connection down: that is a
\* task on the event loop's queue, so a flow of publishes cannot starve it.
Fairness ==
    /\ WF_vars(LoopStep)
    /\ SF_vars(native = "released" /\ LifecycleEvent)
    /\ WF_vars(ReleaseReference(EventLoop))
    /\ WF_vars(InterceptComplete)
    /\ \A t \in Threads : WF_vars(DestructorStep(t))

Spec == Init /\ [][Next]_vars

FairSpec == Spec /\ Fairness

-----------------------------------------------------------------------------
(* Properties *)

InGatedUserCode == at = "user" /\ cb \in Gated

CoreAlive == coreRefs # {}

\* Close() on one thread waits for the lifecycle, publish and handshake callbacks
\* in progress on another: once a user thread has closed the client no such
\* callback runs, and one that runs in a closed client closed it itself.
GateHolds ==
    InGatedUserCode => callbackFlag = "INVOKE" \/ closer = EventLoop

\* Every pointer to the core that somebody may still follow is valid: the C
\* client's user data until its termination handler has run, the callback in
\* progress, the locked mutex, and Close() resetting m_client after the release
\* that may already have terminated the C client.
NoDanglingCore ==
    \/ native \in {"alive", "released"}
    \/ at # "none"
    \/ lockOwner # NoThread
    \/ \E t \in Threads : pc[t] # "idle"
    => CoreAlive

\* Callback data holds a raw pointer to the core, so none may outlive it.
NoDataOutlivesCore ==
    native # "none" /\ ~CoreAlive =>
        /\ \A o \in Ops : op[o] \notin {"queued", "completing"}
        /\ holders = {}

\* Subscribe and Unsubscribe hand m_client to the C client without a null check:
\* it is never null while somebody owns the Mqtt5Client they call it on.
OwnerSeesClient ==
    holders # {} => mClient /\ native = "alive" /\ callbackFlag = "INVOKE"

\* The only reason a completion handler is skipped for an operation the C client
\* accepted is that the client was closed, and a handler is never invoked for an
\* operation that was refused.
SkippedOnlyAfterClose ==
    \A o \in Ops :
        /\ op[o] = "freed" /\ o \in handler /\ o \notin called => callbackFlag = "IGNORE"
        /\ o \in called => op[o] \in {"completing", "freed"}

\* A completion's user code runs without the lock: it can never be what another
\* thread's Close() waits for.
CompletionRunsUnlocked ==
    at = "user" /\ cb = "completion" =>
        \/ lockOwner # EventLoop
        \/ pc[EventLoop] \in {"release", "unlock"}

\* Once released the C client terminates and the core is freed, unless a websocket
\* handshake was revoked, which leaves the C client waiting for its transform.
ReleasedClientIsFreed ==
    native = "released" ~> (~CoreAlive \/ conn = "dropped")

Gate == INSTANCE CallbackGate WITH
    gate <- IF callbackFlag = "INVOKE" THEN "open" ELSE IF CoreAlive THEN "closed" ELSE "freed",
    inside <- InGatedUserCode,
    closer <- IF closer = NoThread THEN "nobody"
              ELSE IF closer = EventLoop THEN "callback" ELSE "foreign"

\* The lock, the flag and the two references to the core together implement the
\* callback gate for the callbacks that run under the lock.
ImplementsGate == Gate!Spec

=============================================================================
