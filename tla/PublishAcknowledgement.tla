----------------------- MODULE PublishAcknowledgement -----------------------
(***************************************************************************)
(* Who sends the acknowledgement of a received publish.                    *)
(*                                                                         *)
(* s_publishReceivedCallback acquires control of the acknowledgement of a  *)
(* QoS 1 publish before it runs the user's handler and wraps the control   *)
(* in a functor the handler may call.  The first call moves the handle out *)
(* to the user, who then owns the acknowledgement.  If the handle is still *)
(* in the functor when the handler returns, the callback acknowledges by   *)
(* itself.  The functor is a std::function: the user may keep a copy of it *)
(* and call it later, from any thread.                                     *)
(*                                                                         *)
(* Mqtt5ClientCore models the locking and the lifetime around this.  Here  *)
(* the client is only open or closed; everything on the event loop happens *)
(* inside one callback at a time.                                          *)
(***************************************************************************)
EXTENDS Naturals

CONSTANTS
    UserThreads,  \* threads of the application
    EventLoop,    \* the thread callbacks run on
    Publishes,    \* publishes received from the broker
    NoPublish     \* no publish is being delivered

Threads == UserThreads \cup {EventLoop}

VARIABLES
    mClient,    \* m_client is not null
    loop,       \* what the event loop runs: "idle", "publish" or an "other" callback
    current,    \* the publish being delivered
    functor,    \* acquirePublishAcknowledgement of each publish
    handle,     \* where the PublishAcknowledgementHandle of each publish is
    copies,     \* functors of which the user kept a copy
    taken,      \* publishes whose handle the user took inside their callback
    acked,      \* who invoked the acknowledgement the C client accepted
    answer      \* the last answer of a functor: for which publish, when, what

ackVars == <<mClient, loop, current, functor, handle, copies, taken, acked, answer>>

Answers == {"none", "handle", "nullptr", "bad_function_call"}

TypeOK ==
    /\ mClient \in BOOLEAN
    /\ loop \in {"idle", "publish", "other"}
    /\ current \in Publishes \cup {NoPublish}
    /\ functor \in [Publishes -> {"unset", "empty", "noop", "control"}]
    /\ handle \in [Publishes -> {"none", "functor", "user", "freed"}]
    /\ copies \in SUBSET Publishes
    /\ taken \in SUBSET Publishes
    /\ acked \in [Publishes -> {"nobody", "callback", "user"}]
    /\ answer \in [of : Publishes \cup {NoPublish}, during : BOOLEAN, is : Answers]

Init ==
    /\ mClient = TRUE
    /\ loop = "idle"
    /\ current = NoPublish
    /\ functor = [p \in Publishes |-> "unset"]
    /\ handle = [p \in Publishes |-> "none"]
    /\ copies = {}
    /\ taken = {}
    /\ acked = [p \in Publishes |-> "nobody"]
    /\ answer = [of |-> NoPublish, during |-> FALSE, is |-> "none"]

-----------------------------------------------------------------------------

\* The functor the callback offers: QoS 0 leaves the std::function empty, QoS 1
\* sets a no-op when the C client gives no control and a real one otherwise.
OfferedFunctors == {"empty", "noop", "control"}

BeginPublish(p, f) ==
    /\ loop = "idle"
    /\ mClient
    /\ functor[p] = "unset"
    /\ loop' = "publish"
    /\ current' = p
    /\ functor' = [functor EXCEPT ![p] = f]
    /\ handle' = [handle EXCEPT ![p] = IF f = "control" THEN "functor" ELSE "none"]
    /\ UNCHANGED <<mClient, copies, taken, acked, answer>>

KeepFunctor(p) ==
    /\ loop = "publish" /\ current = p
    /\ copies' = copies \cup {p}
    /\ UNCHANGED <<mClient, loop, current, functor, handle, taken, acked, answer>>

\* Mutant of FunctorAnswer: the functor does not remember that the handle was moved out.
FunctorAnswersAgain(t, p) ==
    CASE functor[p] = "empty" -> "bad_function_call"
      [] functor[p] = "noop" -> "nullptr"
      [] OTHER -> IF t = EventLoop THEN "handle" ELSE "nullptr"

\* PublishAcknowledgementFunctor: refuse another thread, else move the handle out.
FunctorAnswer(t, p) ==
    CASE functor[p] = "empty" -> "bad_function_call"
      [] functor[p] = "noop" -> "nullptr"
      [] OTHER -> IF t = EventLoop /\ handle[p] = "functor" THEN "handle" ELSE "nullptr"

CanReachFunctor(t, p) ==
    \/ t = EventLoop /\ loop = "publish" /\ current = p
    \/ p \in copies /\ (t = EventLoop => loop # "idle")

AcquirePublishAcknowledgement(t, p) ==
    LET during == t = EventLoop /\ loop = "publish" /\ current = p
        is == FunctorAnswer(t, p)
    IN /\ CanReachFunctor(t, p)
       /\ answer' = [of |-> p, during |-> during, is |-> is]
       /\ handle' = IF is = "handle" THEN [handle EXCEPT ![p] = "user"] ELSE handle
       /\ taken' = IF is = "handle" /\ during THEN taken \cup {p} ELSE taken
       /\ UNCHANGED <<mClient, loop, current, functor, copies, acked>>

\* Mutant of EndPublish: the callback acknowledges whether or not the handle was taken.
EndPublishAlwaysAcks ==
    /\ loop = "publish"
    /\ loop' = "idle"
    /\ current' = NoPublish
    /\ acked' = IF functor[current] = "control" /\ mClient
                THEN [acked EXCEPT ![current] = "callback"]
                ELSE acked
    /\ handle' = IF handle[current] = "functor" /\ current \notin copies
                 THEN [handle EXCEPT ![current] = "freed"]
                 ELSE handle
    /\ UNCHANGED <<mClient, functor, copies, taken, answer>>

\* After the handler: acknowledge if the functor still has the handle and the
\* handler did not close the client.  The functor goes with its last copy.
EndPublish ==
    /\ loop = "publish"
    /\ loop' = "idle"
    /\ current' = NoPublish
    /\ acked' = IF handle[current] = "functor" /\ mClient
                THEN [acked EXCEPT ![current] = "callback"]
                ELSE acked
    /\ handle' = IF handle[current] = "functor" /\ current \notin copies
                 THEN [handle EXCEPT ![current] = "freed"]
                 ELSE handle
    /\ UNCHANGED <<mClient, functor, copies, taken, answer>>

\* Any other callback on the event loop, where a kept functor can be called.
BeginOther ==
    /\ loop = "idle"
    /\ mClient
    /\ loop' = "other"
    /\ UNCHANGED <<mClient, current, functor, handle, copies, taken, acked, answer>>

EndOther ==
    /\ loop = "other"
    /\ loop' = "idle"
    /\ UNCHANGED <<mClient, current, functor, handle, copies, taken, acked, answer>>

\* InvokePublishAcknowledgement: the C client accepts a control once.
InvokePublishAcknowledgement(p) ==
    /\ handle[p] = "user"
    /\ mClient
    /\ acked' = [acked EXCEPT ![p] = IF @ = "nobody" THEN "user" ELSE @]
    /\ UNCHANGED <<mClient, loop, current, functor, handle, copies, taken, answer>>

DropHandle(p) ==
    /\ handle[p] = "user"
    /\ handle' = [handle EXCEPT ![p] = "freed"]
    /\ UNCHANGED <<mClient, loop, current, functor, copies, taken, acked, answer>>

\* Destroying the last copy of a functor frees a handle it still has.
DropFunctor(p) ==
    /\ p \in copies
    /\ copies' = copies \ {p}
    /\ handle' = IF handle[p] = "functor" /\ current # p
                 THEN [handle EXCEPT ![p] = "freed"]
                 ELSE handle
    /\ UNCHANGED <<mClient, loop, current, functor, taken, acked, answer>>

\* Close() runs on another thread between callbacks, or inside one.
Close ==
    /\ mClient
    /\ mClient' = FALSE
    /\ UNCHANGED <<loop, current, functor, handle, copies, taken, acked, answer>>

Next ==
    \/ \E p \in Publishes :
        \/ \E f \in OfferedFunctors : BeginPublish(p, f)
        \/ \E t \in Threads : AcquirePublishAcknowledgement(t, p)
        \/ KeepFunctor(p) \/ InvokePublishAcknowledgement(p) \/ DropHandle(p) \/ DropFunctor(p)
    \/ EndPublish \/ BeginOther \/ EndOther \/ Close

Spec == Init /\ [][Next]_ackVars

-----------------------------------------------------------------------------
(* Properties *)

\* A handler that took the handle owns the acknowledgement: the callback never
\* acknowledges that publish by itself.
TakenIsNotAutoAcked ==
    \A p \in taken : acked[p] # "callback"

\* No QoS 1 publish is forgotten: once its callback is over it is acknowledged,
\* or the user took the duty inside the callback, or the client was closed.
NoForgottenAck ==
    \A p \in Publishes :
        functor[p] = "control" /\ current # p =>
            acked[p] # "nobody" \/ p \in taken \/ ~mClient

\* The functor moves the handle out: once the handler took it, no later call of any
\* copy of the functor, on any thread, yields a second handle for that publish.
HandleYieldedOnce ==
    [][\A p \in taken :
        answer' # answer /\ answer'.of = p => answer'.is # "handle"]_ackVars

\* "Calling it after the callback returns will return nullptr."
AcquireAfterCallbackIsNull ==
    answer.is = "handle" => answer.during

=============================================================================
