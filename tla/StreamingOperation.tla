------------------------- MODULE StreamingOperation -------------------------
(***************************************************************************)
(* A streaming operation of the MQTT request-response client.              *)
(*                                                                         *)
(* The user owns a StreamingOperation, the C operation owns a heap handle; *)
(* both share the StreamingOperationImpl.  Callbacks and Open() run under  *)
(* a read lock.  Destroying the StreamingOperation runs Close(), which     *)
(* takes the write lock only when it is not on the event-loop thread: on   *)
(* that thread it is probably inside a callback, whose read lock cannot be *)
(* upgraded.                                                               *)
(*                                                                         *)
(* The C operation is external: it calls back after activation, and its    *)
(* termination callback is a later task of the event loop.                 *)
(***************************************************************************)
EXTENDS Naturals

CONSTANTS
    UserThreads,  \* threads of the application
    EventLoop,    \* m_protocolLoop's thread
    NoThread      \* nobody holds the write lock, or nobody has closed the stream

Threads == UserThreads \cup {EventLoop}

VARIABLES
    holders,   \* owners of the shared_ptr<IStreamingOperation>
    implRefs,  \* owners of the impl: the StreamingOperation and the C handle
    readers,   \* threads that hold m_lock for reading, outside a callback
    inCallback,\* the event loop holds m_lock for reading, in a callback
    writer,    \* thread that holds m_lock for writing
    closed,    \* m_closed
    mStream,   \* m_stream is not null
    pc,        \* progress of each thread through Open() or the destructor
    at,        \* progress of the callback on the event loop
    closer,    \* the thread that ran Close()
    native     \* the C operation

refVars == <<holders, implRefs>>
lockVars == <<readers, inCallback, writer>>
closeVars == <<closed, mStream, closer>>
vars == <<refVars, lockVars, closeVars, pc, at, native>>

TypeOK ==
    /\ holders \in SUBSET Threads
    /\ implRefs \in SUBSET {"operation", "handle"}
    /\ readers \in SUBSET Threads
    /\ inCallback \in BOOLEAN
    /\ writer \in Threads \cup {NoThread}
    /\ writer # NoThread => readers = {} /\ ~inCallback
    /\ closed \in BOOLEAN
    /\ mStream \in BOOLEAN
    /\ pc \in [Threads -> {"idle", "open", "close", "mark", "release", "drop"}]
    /\ at \in {"none", "enter", "user", "other"}
    /\ closer \in Threads \cup {NoThread}
    /\ native \in {"none", "created", "active", "released", "terminated"}

Init ==
    /\ holders = {}
    /\ implRefs = {}
    /\ readers = {}
    /\ inCallback = FALSE
    /\ writer = NoThread
    /\ closed = FALSE
    /\ mStream = FALSE
    /\ pc = [t \in Threads |-> "idle"]
    /\ at = "none"
    /\ closer = NoThread
    /\ native = "none"

-----------------------------------------------------------------------------
(* User code *)

MayCall(t) ==
    /\ pc[t] = "idle"
    /\ t = EventLoop => at \in {"user", "other"}

\* Create succeeds.  The handle is seated after the C operation exists; nothing
\* can call back before Open().
Create(t) ==
    /\ native = "none"
    /\ native' = "created"
    /\ mStream' = TRUE
    /\ implRefs' = {"operation", "handle"}
    /\ holders' = {t}
    /\ UNCHANGED <<lockVars, closed, closer, pc, at>>

\* A callback that promotes a weak_ptr owns the stream for as long as it runs.
ShareReference(t) ==
    /\ MayCall(t)
    /\ holders # {}
    /\ t \notin holders
    /\ holders' = holders \cup {t}
    /\ UNCHANGED <<implRefs, lockVars, closeVars, pc, at, native>>

\* Mutant of ReleaseReference: a callback closes the stream though others own it.
LoopReleaseCloses(t) ==
    /\ MayCall(t)
    /\ t \in holders
    /\ holders' = holders \ {t}
    /\ pc' = [pc EXCEPT ![t] = IF holders = {t} \/ t = EventLoop THEN "close" ELSE @]
    /\ UNCHANGED <<implRefs, lockVars, closeVars, at, native>>

\* Releasing the last reference starts ~StreamingOperation on this thread.
ReleaseReference(t) ==
    /\ MayCall(t)
    /\ t \in holders
    /\ holders' = holders \ {t}
    /\ pc' = [pc EXCEPT ![t] = IF holders = {t} THEN "close" ELSE @]
    /\ UNCHANGED <<implRefs, lockVars, closeVars, at, native>>

OpenLock(t) ==
    /\ MayCall(t)
    /\ t \in holders
    /\ writer = NoThread
    /\ readers' = readers \cup {t}
    /\ pc' = [pc EXCEPT ![t] = "open"]
    /\ UNCHANGED <<refVars, inCallback, writer, closeVars, at, native>>

OpenActivate(t) ==
    /\ pc[t] = "open"
    /\ native' = IF ~closed /\ native = "created" THEN "active" ELSE native
    /\ readers' = readers \ {t}
    /\ pc' = [pc EXCEPT ![t] = "idle"]
    /\ UNCHANGED <<refVars, inCallback, writer, closeVars, at>>

-----------------------------------------------------------------------------
(* ~StreamingOperation *)

\* StreamWriteLock: no lock is taken on the event-loop thread.
CloseLock(t) ==
    /\ pc[t] = "close"
    /\ IF t = EventLoop
       THEN UNCHANGED writer
       ELSE /\ writer = NoThread /\ readers = {} /\ ~inCallback
            /\ writer' = t
    /\ pc' = [pc EXCEPT ![t] = "mark"]
    /\ UNCHANGED <<refVars, readers, inCallback, closeVars, at, native>>

CloseMark(t) ==
    /\ pc[t] = "mark"
    /\ closed' = TRUE
    /\ mStream' = FALSE
    /\ closer' = t
    /\ writer' = IF writer = t THEN NoThread ELSE writer
    /\ pc' = [pc EXCEPT ![t] = "release"]
    /\ UNCHANGED <<refVars, readers, inCallback, at, native>>

CloseRelease(t) ==
    /\ pc[t] = "release"
    /\ native' = "released"
    /\ pc' = [pc EXCEPT ![t] = "drop"]
    /\ UNCHANGED <<refVars, lockVars, closeVars, at>>

\* Mutant of DropImpl: the impl is freed without regard to the C handle.
DropFreesImpl(t) ==
    /\ pc[t] = "drop"
    /\ implRefs' = {}
    /\ pc' = [pc EXCEPT ![t] = "idle"]
    /\ UNCHANGED <<holders, lockVars, closeVars, at, native>>

\* The member m_impl of the StreamingOperation is destroyed.
DropImpl(t) ==
    /\ pc[t] = "drop"
    /\ implRefs' = implRefs \ {"operation"}
    /\ pc' = [pc EXCEPT ![t] = "idle"]
    /\ UNCHANGED <<holders, lockVars, closeVars, at, native>>

ThreadStep(t) ==
    OpenActivate(t) \/ CloseLock(t) \/ CloseMark(t) \/ CloseRelease(t) \/ DropImpl(t)

-----------------------------------------------------------------------------
(* OnSubscriptionStatusCallback, OnIncomingPublishCallback and             *)
(* OnTerminatedCallback on the event loop                                  *)

LoopIdle == at = "none" /\ pc[EventLoop] = "idle"

BeginCallback ==
    /\ LoopIdle
    /\ native \in {"active", "released"}
    /\ at' = "enter"
    /\ UNCHANGED <<refVars, lockVars, closeVars, pc, native>>

\* Mutant of EnterCallback: m_closed is not looked at.
EnterIgnoresClosed ==
    /\ at = "enter"
    /\ writer = NoThread
    /\ inCallback' = TRUE
    /\ at' = "user"
    /\ UNCHANGED <<refVars, readers, writer, closeVars, pc, native>>

\* Take the read lock and look at m_closed; a closed stream runs no user code.
EnterCallback ==
    /\ at = "enter"
    /\ writer = NoThread
    /\ inCallback' = ~closed
    /\ at' = IF closed THEN "none" ELSE "user"
    /\ UNCHANGED <<refVars, readers, writer, closeVars, pc, native>>

\* A callback of something else on the same event loop, which may own the stream.
BeginOther ==
    /\ LoopIdle
    /\ holders # {}
    /\ at' = "other"
    /\ UNCHANGED <<refVars, lockVars, closeVars, pc, native>>

LeaveCallback ==
    /\ at \in {"user", "other"}
    /\ pc[EventLoop] = "idle"
    /\ EventLoop \notin holders
    /\ inCallback' = FALSE
    /\ at' = "none"
    /\ UNCHANGED <<refVars, readers, writer, closeVars, pc, native>>

\* Mutant of OnTerminated: the C handle is not deleted.
TerminatedKeepsHandle ==
    /\ LoopIdle
    /\ native = "released"
    /\ native' = "terminated"
    /\ implRefs' = implRefs
    /\ UNCHANGED <<holders, lockVars, closeVars, pc, at>>

OnTerminated ==
    /\ LoopIdle
    /\ native = "released"
    /\ native' = "terminated"
    /\ implRefs' = implRefs \ {"handle"}
    /\ UNCHANGED <<holders, lockVars, closeVars, pc, at>>

LoopStep == BeginCallback \/ BeginOther \/ EnterCallback \/ LeaveCallback \/ OnTerminated

Finished ==
    /\ native = "terminated"
    /\ \A t \in Threads : pc[t] = "idle"
    /\ UNCHANGED vars

Next ==
    \/ \E t \in UserThreads : Create(t)
    \/ \E t \in Threads : ShareReference(t) \/ ReleaseReference(t) \/ OpenLock(t) \/ ThreadStep(t)
    \/ LoopStep
    \/ Finished

Spec == Init /\ [][Next]_vars

\* The event loop runs its tasks in order, so the termination task of a released
\* operation is not starved by later callbacks; callbacks drop their reference
\* and return; a thread inside Open() or the destructor goes on.
Fairness ==
    /\ WF_vars(LoopStep)
    /\ SF_vars(OnTerminated)
    /\ WF_vars(ReleaseReference(EventLoop))
    /\ \A t \in Threads : WF_vars(ThreadStep(t))

FairSpec == Spec /\ Fairness

-----------------------------------------------------------------------------
(* Properties *)

InUserCode == at = "user"

\* The impl is there for everybody who still follows a pointer to it: the C
\* operation until it has terminated, the callback in progress (its read lock is
\* released after the user's code), Open() and Close().
ImplOutlivesUse ==
    \/ native \in {"created", "active", "released"}
    \/ at \in {"enter", "user"}
    \/ readers # {} \/ writer # NoThread
    \/ \E t \in Threads : pc[t] # "idle"
    => implRefs # {}

\* Close() leaves the lock out on the event-loop thread, and Open() inside a
\* callback takes the read lock a second time.  Neither does harm: no other thread
\* is then between taking m_lock and releasing it, and none waits to write, so a
\* lock that prefers writers cannot deadlock there.
ConditionalLockIsSafe ==
    /\ pc[EventLoop] \in {"mark", "release"} => readers = {} /\ writer = NoThread
    /\ inCallback /\ EventLoop \in readers =>
        \A t \in UserThreads : pc[t] \notin {"close", "mark"}

\* A closed stream is torn down: the impl is freed.
ClosedStreamIsFreed == closed ~> (implRefs = {})

Gate == INSTANCE CallbackGate WITH
    gate <- IF ~closed THEN "open" ELSE IF implRefs # {} THEN "closed" ELSE "freed",
    inside <- InUserCode,
    closer <- IF closer = NoThread THEN "nobody"
              ELSE IF closer = EventLoop THEN "callback" ELSE "foreign"

\* The conditional write lock, the read lock and m_closed implement the gate.
ImplementsGate == Gate!Spec

=============================================================================
