--------------------------- MODULE ChannelHandler ---------------------------
(***************************************************************************)
(* A ChannelHandler written in C++ and seated in a channel of the C        *)
(* library, as a TLS handler supplied by the application is.  The C struct *)
(* that the channel calls is a member of the C++ object, which is kept     *)
(* alive by a shared_ptr to itself until the channel destroys its handler. *)
(* The channel, its event loop and its two-way shutdown are external: they *)
(* do what the documentation of ChannelHandler.h relies on.                *)
(***************************************************************************)
EXTENDS Naturals

CONSTANT Tasks          \* TaskWrapper objects

VARIABLES
    handler,            \* the C++ object: "none", "alive" or "destroyed"
    m_selfReference,    \* the object's reference to itself
    userHolds,          \* whether the application kept a shared_ptr of its own
    channel,            \* how far the channel, and its shutdown, has come
    shutdownRequested,  \* aws_channel_shutdown was called
    running,            \* the call the channel's event loop is in
    negotiation,        \* whether the C library asked for the negotiation
    tasks, captured     \* state of each task, and what its function captured

handlerVars == <<handler, m_selfReference, userHolds, channel, shutdownRequested, running,
                 negotiation, tasks, captured>>

Init ==
    /\ handler = "none"
    /\ m_selfReference = FALSE
    /\ userHolds = FALSE
    /\ channel = "new"
    /\ shutdownRequested = FALSE
    /\ running = "none"
    /\ negotiation = FALSE
    /\ tasks = [t \in Tasks |-> "unused"]
    /\ captured = [t \in Tasks |-> "raw"]

\* Where the slot of the handler exists, and where the handler still takes part.
SlotStates == {"open", "read", "readDone", "write", "shut"}

Pending(t) == tasks[t] \in {"scheduled", "running"}

Referenced ==
    \/ userHolds
    \/ m_selfReference
    \/ \E t \in Tasks : Pending(t) /\ captured[t] = "shared"

\* The object dies with its last reference.
Destruct == handler' = IF Referenced' THEN handler ELSE "destroyed"

\* Mutant of SeatForCInterop: the object does not refer to itself.
SeatWithoutSelfReference ==
    /\ channel = "new"
    /\ m_selfReference' = FALSE
    /\ handler' = "alive"
    /\ userHolds' = TRUE
    /\ channel' = "seated"
    /\ UNCHANGED <<shutdownRequested, running, negotiation, tasks, captured>>

\* s_NewClientTlsHandler: without a callback, or when it returns nothing, there is no
\* handler; otherwise SeatForCInterop() makes the object refer to itself.
SeatForCInterop ==
    /\ channel = "new"
    /\ m_selfReference' = TRUE
    /\ handler' = "alive"
    /\ userHolds' \in BOOLEAN
    /\ channel' = "seated"
    /\ UNCHANGED <<shutdownRequested, running, negotiation, tasks, captured>>

NoHandler ==
    /\ channel = "new"
    /\ channel' = "destroyed"
    /\ UNCHANGED <<handler, m_selfReference, userHolds, shutdownRequested, running, negotiation,
                   tasks, captured>>

\* aws_channel_slot_set_handler
SetHandler ==
    /\ channel = "seated"
    /\ channel' = "open"
    /\ UNCHANGED <<handler, m_selfReference, userHolds, shutdownRequested, running, negotiation,
                   tasks, captured>>

\* The application drops its shared_ptr, on any thread and at any time.
UserReleases ==
    /\ userHolds
    /\ userHolds' = FALSE
    /\ UNCHANGED <<m_selfReference, channel, shutdownRequested, running, negotiation, tasks, captured>>
    /\ Destruct

\* Code that may use the handler: what the channel called, or a holder on another thread.
\* Both go through GetSlot(), which nothing clears when the channel has gone.
CanUse == channel \in SlotStates /\ (running # "none" \/ userHolds)

\* ScheduleTask(), with a function that captured this or a copy of the caller's shared_ptr.
ScheduleTask(t) ==
    /\ CanUse
    /\ tasks[t] = "unused"
    /\ tasks' = [tasks EXCEPT ![t] = "scheduled"]
    /\ \E how \in {"raw", "shared"} :
        /\ how = "shared" => userHolds
        /\ captured' = [captured EXCEPT ![t] = how]
    /\ UNCHANGED <<handler, m_selfReference, userHolds, channel, shutdownRequested, running, negotiation>>

\* s_ClientTlsHandlerStartNegotiation: at once on the channel's thread, otherwise as a task.
StartNegotiation ==
    /\ channel = "open" /\ negotiation = FALSE
    /\ negotiation' = TRUE
    /\ \/ /\ running = "none"
          /\ running' = "negotiation"
          /\ UNCHANGED <<tasks, captured>>
       \/ \E t \in Tasks :
            /\ tasks[t] = "unused"
            /\ tasks' = [tasks EXCEPT ![t] = "scheduled"]
            /\ captured' = [captured EXCEPT ![t] = "raw"]
            /\ UNCHANGED running
    /\ UNCHANGED <<handler, m_selfReference, userHolds, channel, shutdownRequested>>

\* s_ProcessReadMessage and the other entries of s_vtable that only call the object.
Callback ==
    /\ channel \in SlotStates \ {"shut"} /\ running = "none"
    /\ running' = "callback"
    /\ UNCHANGED <<handler, m_selfReference, userHolds, channel, shutdownRequested, negotiation,
                   tasks, captured>>

\* A call of the vtable, or StartNegotiation(), returns.
CallReturns ==
    /\ running \in {"callback", "negotiation"}
    /\ running' = "none"
    /\ UNCHANGED <<handler, m_selfReference, userHolds, channel, shutdownRequested, negotiation,
                   tasks, captured>>

\* s_ChannelTaskCallback, with status RunReady, or Canceled once the channel is shut: it
\* calls the function, and deletes the wrapper and what the function captured.
RunTask(t) ==
    /\ running = "none" /\ tasks[t] = "scheduled"
    /\ running' = t
    /\ tasks' = [tasks EXCEPT ![t] = "running"]
    /\ UNCHANGED <<handler, m_selfReference, userHolds, channel, shutdownRequested, negotiation, captured>>

TaskReturns(t) ==
    /\ tasks[t] = "running"
    /\ running' = "none"
    /\ tasks' = [tasks EXCEPT ![t] = "deleted"]
    /\ captured' = [captured EXCEPT ![t] = "raw"]
    /\ UNCHANGED <<m_selfReference, userHolds, channel, shutdownRequested, negotiation>>
    /\ Destruct

ShutDownChannel ==
    /\ CanUse
    /\ shutdownRequested' = TRUE
    /\ UNCHANGED <<handler, m_selfReference, userHolds, channel, running, negotiation, tasks, captured>>

\* The channel is shut down by someone else: its peer, its owner, another handler.
OtherShutsDown ==
    /\ channel \in SlotStates
    /\ shutdownRequested' = TRUE
    /\ UNCHANGED <<handler, m_selfReference, userHolds, channel, running, negotiation, tasks, captured>>

\* s_ProcessShutdown, once for reading and then once for writing.
ProcessShutdown ==
    /\ shutdownRequested /\ running = "none"
    /\ \/ channel = "open" /\ channel' = "read"
       \/ channel = "readDone" /\ channel' = "write"
    /\ running' = "callback"
    /\ UNCHANGED <<handler, m_selfReference, userHolds, shutdownRequested, negotiation, tasks, captured>>

\* The handler says that it has shut down in a direction, as it must: in ProcessShutdown()
\* or in a later step on the channel's thread.
OnShutdownComplete ==
    /\ \/ channel = "read" /\ channel' = "readDone"
       \/ channel = "write" /\ channel' = "shut"
    /\ UNCHANGED <<handler, m_selfReference, userHolds, shutdownRequested, running, negotiation,
                   tasks, captured>>

\* Mutant of s_Destroy: the self reference is not reset.
DestroyKeepsSelfReference ==
    /\ channel = "shut" /\ running = "none"
    /\ \A t \in Tasks : ~Pending(t)
    /\ channel' = "destroyed"
    /\ m_selfReference' = m_selfReference
    /\ UNCHANGED <<userHolds, shutdownRequested, running, negotiation, tasks, captured>>
    /\ Destruct

\* s_Destroy, from the channel's own destruction, when it has run or canceled every task.
s_Destroy ==
    /\ channel = "shut" /\ running = "none"
    /\ \A t \in Tasks : ~Pending(t)
    /\ channel' = "destroyed"
    /\ m_selfReference' = FALSE
    /\ UNCHANGED <<userHolds, shutdownRequested, running, negotiation, tasks, captured>>
    /\ Destruct

Next ==
    \/ SeatForCInterop \/ NoHandler \/ SetHandler
    \/ UserReleases
    \/ StartNegotiation
    \/ Callback \/ CallReturns
    \/ \E t \in Tasks : ScheduleTask(t) \/ RunTask(t) \/ TaskReturns(t)
    \/ ShutDownChannel \/ OtherShutsDown
    \/ ProcessShutdown \/ OnShutdownComplete
    \/ s_Destroy

\* The event loop runs tasks and finishes a shutdown that was asked for, also when there
\* are other calls to make; calls return; and the handler completes its shutdown.
Fairness ==
    /\ WF_handlerVars(SetHandler)
    /\ WF_handlerVars(CallReturns)
    /\ WF_handlerVars(OnShutdownComplete)
    /\ SF_handlerVars(ProcessShutdown)
    /\ SF_handlerVars(s_Destroy)
    /\ \A t \in Tasks : SF_handlerVars(RunTask(t)) /\ WF_handlerVars(TaskReturns(t))

Spec == Init /\ [][Next]_handlerVars /\ Fairness

-----------------------------------------------------------------------------
(* Properties *)

\* Whenever the application drops its reference, the object is there for every call that
\* the channel has in progress or can still make, and for every task that was scheduled,
\* the one included that holds only a raw pointer (s_ClientTlsHandlerStartNegotiation).
HandlerOutlivesCalls ==
    (channel \in SlotStates \cup {"seated"} \/ running # "none" \/ \E t \in Tasks : Pending(t))
        => handler = "alive"

\* The object lives exactly while somebody refers to it: the application, the object itself
\* on behalf of the channel, or a task with a copy of the shared_ptr.
LivesWhileReferenced == handler = "alive" <=> Referenced

\* Every task that was scheduled is run, or run as canceled, and its wrapper deleted; and
\* the reference of the handler to itself does not leak it: once the channel is asked to
\* shut down and the application has let go, the handler is destroyed.
ChannelHandlerIsFreed ==
    /\ \A t \in Tasks : tasks[t] = "scheduled" ~> tasks[t] = "deleted"
    /\ shutdownRequested /\ ~userHolds ~> handler = "destroyed"

=============================================================================
