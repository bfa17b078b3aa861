------------------------ MODULE RequestResponseClient ------------------------
(***************************************************************************)
(* The MQTT request-response client: MqttRequestResponseClient, the user's *)
(* handle, and MqttRequestResponseClientImpl, the user data of the C       *)
(* client, deleted by the C client's termination callback.  Requests carry *)
(* an IncompleteRequest on the heap that their completion deletes.  Unlike *)
(* the MQTT5 client there is no gate: handlers of accepted requests run    *)
(* even after the client was closed.                                       *)
(*                                                                         *)
(* The C client is external: it completes every request it accepted, by a  *)
(* response, by its operation timeout or because the client goes away, and *)
(* terminates once released and drained.                                   *)
(***************************************************************************)
EXTENDS Naturals

CONSTANTS
    UserThreads,  \* threads of the application
    EventLoop,    \* the thread completions run on
    Requests,     \* requests that may be submitted
    NoRequest     \* no completion is in progress

Threads == UserThreads \cup {EventLoop}

VARIABLES
    holders,     \* owners of the shared_ptr<IMqttRequestResponseClient>
    impl,        \* the MqttRequestResponseClientImpl
    mClient,     \* its m_client is not null
    pc,          \* progress of each thread through ~MqttRequestResponseClient
    request,     \* fate of each request
    outcome,     \* what the result handler of each request was given
    incomplete,  \* the requests with an IncompleteRequest on the heap
    at,          \* progress of s_onRequestComplete
    current,     \* the request it completes
    native       \* the C client

vars == <<holders, impl, mClient, pc, request, outcome, incomplete, at, current, native>>

TypeOK ==
    /\ holders \in SUBSET (Threads \cup Requests)
    /\ impl \in {"none", "alive", "freed"}
    /\ mClient \in BOOLEAN
    /\ pc \in [Threads -> {"idle", "close", "release"}]
    /\ request \in [Requests -> {"unused", "rejected", "queued", "completing", "freed"}]
    /\ outcome \in [Requests -> {"none", "response", "error"}]
    /\ incomplete \in SUBSET Requests
    /\ at \in {"none", "user", "cleanup"}
    /\ current \in Requests \cup {NoRequest}
    /\ at = "none" <=> current = NoRequest
    /\ native \in {"none", "alive", "released", "terminated"}

Init ==
    /\ holders = {}
    /\ impl = "none"
    /\ mClient = FALSE
    /\ pc = [t \in Threads |-> "idle"]
    /\ request = [r \in Requests |-> "unused"]
    /\ outcome = [r \in Requests |-> "none"]
    /\ incomplete = {}
    /\ at = "none"
    /\ current = NoRequest
    /\ native = "none"

-----------------------------------------------------------------------------

MayCall(t) ==
    /\ pc[t] = "idle"
    /\ t = EventLoop => at = "user"

\* NewClientFrom5 and NewClientFrom311 when the C client is created.  When it is
\* not, the impl is deleted with m_client still null.
NewClient(t) ==
    /\ native = "none"
    /\ native' = "alive"
    /\ impl' = "alive"
    /\ mClient' = TRUE
    /\ holders' = {t}
    /\ UNCHANGED <<pc, request, outcome, incomplete, at, current>>

NewClientFails ==
    /\ impl = "none"
    /\ impl' = "freed"
    /\ UNCHANGED <<holders, mClient, pc, request, outcome, incomplete, at, current, native>>

ShareReference(t) ==
    /\ MayCall(t)
    /\ holders # {}
    /\ t \notin holders
    /\ holders' = holders \cup {t}
    /\ UNCHANGED <<impl, mClient, pc, request, outcome, incomplete, at, current, native>>

\* Dropping the last reference starts the destructor on this thread.
AfterDrop(t, h) ==
    /\ holders' = holders \ {h}
    /\ pc' = [pc EXCEPT ![t] = IF holders = {h} THEN "close" ELSE @]

ReleaseReference(t) ==
    /\ MayCall(t)
    /\ t \in holders
    /\ AfterDrop(t, t)
    /\ UNCHANGED <<impl, mClient, request, outcome, incomplete, at, current, native>>

\* SubmitRequest; the result handler may capture the client.
SubmitRequest(t, r, captures) ==
    /\ MayCall(t)
    /\ t \in holders
    /\ request[r] = "unused"
    /\ request' = [request EXCEPT ![r] = "queued"]
    /\ incomplete' = incomplete \cup {r}
    /\ holders' = IF captures THEN holders \cup {r} ELSE holders
    /\ UNCHANGED <<impl, mClient, pc, outcome, at, current, native>>

\* Mutant of SubmitRejected: the request is not deleted when it is refused.
RejectionKeepsRequest(t, r) ==
    /\ MayCall(t)
    /\ t \in holders
    /\ request[r] = "unused"
    /\ request' = [request EXCEPT ![r] = "rejected"]
    /\ incomplete' = incomplete \cup {r}
    /\ UNCHANGED <<holders, impl, mClient, pc, outcome, at, current, native>>

\* The C client refuses: the request, and with it the handler, is deleted at once.
SubmitRejected(t, r) ==
    /\ MayCall(t)
    /\ t \in holders
    /\ request[r] = "unused"
    /\ request' = [request EXCEPT ![r] = "rejected"]
    /\ UNCHANGED <<holders, impl, mClient, pc, outcome, incomplete, at, current, native>>

\* Mutant of CloseClear: m_client is not cleared before the release.
CloseKeepsClient(t) ==
    /\ pc[t] = "close"
    /\ mClient' = mClient
    /\ pc' = [pc EXCEPT ![t] = "release"]
    /\ UNCHANGED <<holders, impl, request, outcome, incomplete, at, current, native>>

\* Close(): m_client is cleared first, because the release may delete the impl.
CloseClear(t) ==
    /\ pc[t] = "close"
    /\ mClient' = FALSE
    /\ pc' = [pc EXCEPT ![t] = "release"]
    /\ UNCHANGED <<holders, impl, request, outcome, incomplete, at, current, native>>

CloseRelease(t) ==
    /\ pc[t] = "release"
    /\ native' = "released"
    /\ pc' = [pc EXCEPT ![t] = "idle"]
    /\ UNCHANGED <<holders, impl, mClient, request, outcome, incomplete, at, current>>

DestructorStep(t) == CloseClear(t) \/ CloseRelease(t)

-----------------------------------------------------------------------------
(* s_onRequestComplete and s_onClientTermination *)

LoopIdle == at = "none" /\ pc[EventLoop] = "idle"

\* Mutant of CompleteRequest: the handler is skipped once the client was closed.
ClosedSkipsHandler(r, o) ==
    /\ LoopIdle
    /\ request[r] = "queued"
    /\ request' = [request EXCEPT ![r] = "completing"]
    /\ outcome' = [outcome EXCEPT ![r] = IF mClient THEN o ELSE @]
    /\ at' = "user"
    /\ current' = r
    /\ UNCHANGED <<holders, impl, mClient, pc, incomplete, native>>

CompleteRequest(r, o) ==
    /\ LoopIdle
    /\ request[r] = "queued"
    /\ request' = [request EXCEPT ![r] = "completing"]
    /\ outcome' = [outcome EXCEPT ![r] = o]
    /\ at' = "user"
    /\ current' = r
    /\ UNCHANGED <<holders, impl, mClient, pc, incomplete, native>>

HandlerReturns ==
    /\ at = "user"
    /\ pc[EventLoop] = "idle"
    /\ EventLoop \notin holders
    /\ at' = "cleanup"
    /\ UNCHANGED <<holders, impl, mClient, pc, request, outcome, incomplete, current, native>>

\* Deleting the request destroys its handler and a reference it captured.
DeleteRequest ==
    /\ at = "cleanup"
    /\ request' = [request EXCEPT ![current] = "freed"]
    /\ incomplete' = incomplete \ {current}
    /\ AfterDrop(EventLoop, current)
    /\ at' = "none"
    /\ current' = NoRequest
    /\ UNCHANGED <<impl, mClient, outcome, native>>

\* Mutant of OnClientTermination: the impl is not deleted.
TerminationKeepsImpl ==
    /\ LoopIdle
    /\ native = "released"
    /\ \A r \in Requests : request[r] # "queued"
    /\ native' = "terminated"
    /\ impl' = impl
    /\ UNCHANGED <<holders, mClient, pc, request, outcome, incomplete, at, current>>

OnClientTermination ==
    /\ LoopIdle
    /\ native = "released"
    /\ \A r \in Requests : request[r] # "queued"
    /\ native' = "terminated"
    /\ impl' = "freed"
    /\ UNCHANGED <<holders, mClient, pc, request, outcome, incomplete, at, current>>

Completion == \E r \in Requests, o \in {"response", "error"} : CompleteRequest(r, o)

LoopStep == Completion \/ HandlerReturns \/ DeleteRequest \/ OnClientTermination

Finished ==
    /\ impl = "freed" \/ native = "terminated"
    /\ \A t \in Threads : pc[t] = "idle"
    /\ UNCHANGED vars

Next ==
    \/ \E t \in UserThreads : impl = "none" /\ NewClient(t)
    \/ NewClientFails
    \/ \E t \in Threads :
        \/ ShareReference(t) \/ ReleaseReference(t) \/ DestructorStep(t)
        \/ \E r \in Requests : SubmitRejected(t, r) \/ \E c \in BOOLEAN : SubmitRequest(t, r, c)
    \/ LoopStep
    \/ Finished

Spec == Init /\ [][Next]_vars

\* The event loop runs, the operation timeout bounds every accepted request,
\* handlers drop their reference and return (they do not promote and release for
\* ever), destructors go on.
Fairness ==
    /\ WF_vars(LoopStep)
    /\ SF_vars(HandlerReturns)
    /\ WF_vars(ReleaseReference(EventLoop))
    /\ \A t \in Threads : WF_vars(DestructorStep(t))

FairSpec == Spec /\ Fairness

-----------------------------------------------------------------------------
(* Properties *)

\* The fatal assert of ~MqttRequestResponseClientImpl: m_client was cleared before
\* the impl was deleted, whichever thread got there first.
DeletedWithoutClient == impl = "freed" => ~mClient

\* A result handler is given exactly what its request ended with: one answer for
\* every accepted request before its data is deleted, none for a refused one.  The C
\* client finds the data of every request it has yet to complete, and no data is left,
\* of accepted or of refused requests, when it has terminated.
EveryRequestAnswered ==
    /\ \A r \in Requests :
        /\ request[r] = "freed" => outcome[r] # "none"
        /\ request[r] \in {"unused", "rejected", "queued"} => outcome[r] = "none"
        /\ request[r] \in {"queued", "completing"} <=> r \in incomplete
    /\ native = "terminated" => incomplete = {}

\* A closed client is torn down.
ClosedClientIsFreed ==
    (\E t \in Threads : pc[t] = "close") ~> (impl = "freed")

=============================================================================
