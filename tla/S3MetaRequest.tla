---------------------------- MODULE S3MetaRequest ----------------------------
(***************************************************************************)
(* S3 clients together with one meta request made on one of them: the      *)
(* S3MetaRequest wrapper handed to the user, the S3MetaRequestCallbackData *)
(* the C request calls back with, and the writes made through the wrapper. *)
(*                                                                         *)
(* The callback data owns a reference to the wrapper, the wrapper owns a   *)
(* reference to the C request, and the shutdown callback deletes the       *)
(* callback data.  The C request is external: it works on its own, reports *)
(* its finish once, completes the writes it was given, and reports its     *)
(* shutdown after the C client has let go of it; a C client shuts down     *)
(* after its requests.                                                     *)
(*                                                                         *)
(* The repository says of the shutdown only that it comes "after the CRT   *)
(* has fully torn down the meta request" (include/aws/crt/s3/S3.h:731).    *)
(* Read as it stands, it waits for the reference the wrapper owns as well: *)
(* ShutdownAwaitsWrapper.  Where that is FALSE it may wait or not, which   *)
(* allows every behaviour of the other reading and more.                   *)
(***************************************************************************)
EXTENDS S3Client

CONSTANTS
    Writes,                \* calls of S3MetaRequest::Write
    ShutdownAwaitsWrapper  \* does the wrapper's reference always put it off?

ASSUME MetaRequestAssumption == ShutdownAwaitsWrapper \in BOOLEAN

VARIABLES
    madeBy,        \* the client the request was made on
    wrapperRefs,   \* owners of the wrapper: MakeMetaRequest, the user, the data
    callbackData,  \* the S3MetaRequestCallbackData
    requestRefs,   \* owners of the C request: the wrapper and the C client
    handle,        \* the wrapper's m_metaRequest
    request,       \* what the C request does
    loop,          \* the callback that is running
    finishes,      \* how often the finish callback ran
    shutdowns,     \* how often the shutdown callback ran
    write          \* the promise of each write

refVars == <<madeBy, wrapperRefs, callbackData, requestRefs, handle>>
requestVars == <<refVars, request, loop, finishes, shutdowns, write>>
systemVars == <<vars, requestVars>>

SystemTypeOK ==
    /\ TypeOK
    /\ madeBy \in Clients \cup {NoClient}
    /\ wrapperRefs \in SUBSET {"maker", "user", "data"}
    /\ request = "none" => wrapperRefs = {}
    /\ callbackData \in {"none", "alive", "freed"}
    /\ requestRefs \in SUBSET {"wrapper", "client"}
    /\ handle \in {"null", "request", "released"}
    /\ request \in {"none", "running", "cancelled", "failed", "finished", "shutdown"}
    /\ loop \in {"idle", "data", "finish", "shutdown"}
    /\ finishes \in 0..1 /\ shutdowns \in 0..1
    /\ write \in [Writes -> {"unused", "pending", "done"}]

SystemInit ==
    /\ Init
    /\ madeBy = NoClient
    /\ wrapperRefs = {}
    /\ callbackData = "none"
    /\ requestRefs = {}
    /\ handle = "null"
    /\ request = "none"
    /\ loop = "idle"
    /\ finishes = 0 /\ shutdowns = 0
    /\ write = [w \in Writes |-> "unused"]

-----------------------------------------------------------------------------
(* S3Client::MakeMetaRequest *)

\* The C request may start and call back before the wrapper learns its handle.
MakeMetaRequest(c) ==
    /\ client[c] = "alive"
    /\ callbackData = "none"
    /\ madeBy' = c
    /\ callbackData' = "alive"
    /\ wrapperRefs' = {"maker", "data"}
    /\ requestRefs' = {"wrapper", "client"}
    /\ request' = "running"
    /\ UNCHANGED <<vars, handle, loop, finishes, shutdowns, write>>

\* aws_s3_client_make_meta_request refuses: data and wrapper go at once.
MakeMetaRequestFails(c) ==
    /\ client[c] = "alive"
    /\ callbackData = "none"
    /\ callbackData' = "freed"
    /\ UNCHANGED <<vars, madeBy, wrapperRefs, requestRefs, handle, request, loop, finishes, shutdowns, write>>

\* Mutant of SetUnderlyingHandle: the wrapper is returned without its handle.
HandleNotSet ==
    /\ "maker" \in wrapperRefs
    /\ handle' = handle
    /\ wrapperRefs' = (wrapperRefs \ {"maker"}) \cup {"user"}
    /\ UNCHANGED <<vars, madeBy, callbackData, requestRefs, request, loop, finishes, shutdowns, write>>

SetUnderlyingHandle ==
    /\ "maker" \in wrapperRefs
    /\ handle' = "request"
    /\ wrapperRefs' = (wrapperRefs \ {"maker"}) \cup {"user"}
    /\ UNCHANGED <<vars, madeBy, callbackData, requestRefs, request, loop, finishes, shutdowns, write>>

-----------------------------------------------------------------------------
(* The user's wrapper *)

Cancel ==
    /\ "user" \in wrapperRefs
    /\ request = "running"
    /\ request' = "cancelled"
    /\ UNCHANGED <<vars, refVars, loop, finishes, shutdowns, write>>

\* One write at a time, as the documentation demands.
Write(w) ==
    /\ "user" \in wrapperRefs
    /\ \A v \in Writes : write[v] # "pending"
    /\ write[w] = "unused"
    /\ write' = [write EXCEPT ![w] = "pending"]
    /\ UNCHANGED <<vars, refVars, request, loop, finishes, shutdowns>>

\* ~S3MetaRequest releases the C request with the last reference to the wrapper.
AfterWrapperDrop(left) ==
    /\ wrapperRefs' = left
    /\ handle' = IF left = {} /\ handle = "request" THEN "released" ELSE handle
    /\ requestRefs' = IF left = {} THEN requestRefs \ {"wrapper"} ELSE requestRefs

UserReleases ==
    /\ "user" \in wrapperRefs
    /\ AfterWrapperDrop(wrapperRefs \ {"user"})
    /\ UNCHANGED <<vars, madeBy, callbackData, request, loop, finishes, shutdowns, write>>

-----------------------------------------------------------------------------
(* Callbacks of the C request *)

\* OnWriteComplete sets the promise and deletes the write data.
WriteCompletes(w) ==
    /\ write[w] = "pending"
    /\ write' = [write EXCEPT ![w] = "done"]
    /\ UNCHANGED <<vars, refVars, request, loop, finishes, shutdowns>>

\* s_onHeaders, s_onBody, s_onBodyEx, s_onProgress.
BeginData ==
    /\ loop = "idle" /\ request = "running"
    /\ loop' = "data"
    /\ UNCHANGED <<vars, refVars, request, finishes, shutdowns, write>>

\* A callback that returns false makes the request fail.
EndData ==
    /\ loop = "data"
    /\ loop' = "idle"
    /\ \/ request' = request
       \/ request = "running" /\ request' = "failed"
    /\ UNCHANGED <<vars, refVars, finishes, shutdowns, write>>

BeginFinish ==
    /\ loop = "idle" /\ request \in {"running", "cancelled", "failed"}
    /\ request' = "finished"
    /\ finishes' = finishes + 1
    /\ loop' = "finish"
    /\ UNCHANGED <<vars, refVars, shutdowns, write>>

\* Mutant of EndFinish: the data is deleted after the finish.
FinishDeletesData ==
    /\ loop = "finish"
    /\ loop' = "idle"
    /\ callbackData' = "freed"
    /\ UNCHANGED <<vars, madeBy, wrapperRefs, requestRefs, handle, request, finishes, shutdowns, write>>

EndFinish ==
    /\ loop = "finish"
    /\ loop' = "idle"
    /\ UNCHANGED <<vars, refVars, request, finishes, shutdowns, write>>

\* The C client drops its own reference after the finish.
ClientReleases ==
    /\ loop = "idle" /\ request = "finished"
    /\ "client" \in requestRefs
    /\ \A w \in Writes : write[w] # "pending"
    /\ requestRefs' = requestRefs \ {"client"}
    /\ UNCHANGED <<vars, madeBy, wrapperRefs, callbackData, handle, request, loop, finishes, shutdowns, write>>

\* s_onShutdown: the user's callback, then the data and its wrapper reference.
BeginShutdown ==
    /\ loop = "idle" /\ request = "finished"
    /\ "client" \notin requestRefs
    /\ ShutdownAwaitsWrapper => requestRefs = {}
    /\ request' = "shutdown"
    /\ shutdowns' = shutdowns + 1
    /\ loop' = "shutdown"
    /\ UNCHANGED <<vars, refVars, finishes, write>>

EndShutdown ==
    /\ loop = "shutdown"
    /\ callbackData' = "freed"
    /\ AfterWrapperDrop(wrapperRefs \ {"data"})
    /\ loop' = "idle"
    /\ UNCHANGED <<vars, madeBy, request, finishes, shutdowns, write>>

\* The C client outlives the requests made on it.
ShutdownAfterRequests(c) ==
    /\ madeBy = c => callbackData = "freed"
    /\ OnClientShutdown(c)
    /\ UNCHANGED requestVars

-----------------------------------------------------------------------------

CallbackStep ==
    \/ BeginData \/ EndData \/ BeginFinish \/ EndFinish
    \/ ClientReleases \/ BeginShutdown \/ EndShutdown

ConfigStep ==
    /\ \/ \E b \in BOOLEAN : SetClientShutdownCallback(b) \/ SetRetryStrategy(b)
       \/ \E c \in Clients : PrepareConfig(c) \/ NewSucceeds(c) \/ NewFails(c) \/ ReleaseClient(c)
    /\ UNCHANGED requestVars

SystemFinished ==
    /\ loop = "idle" /\ wrapperRefs \subseteq {"data"}
    /\ request \in {"none", "finished", "shutdown"}
    /\ \A c \in Clients : client[c] \in {"failed", "released", "shutdown"}
    /\ UNCHANGED systemVars

SystemNext ==
    \/ ConfigStep
    \/ \E c \in Clients :
        MakeMetaRequest(c) \/ MakeMetaRequestFails(c) \/ ShutdownAfterRequests(c)
    \/ SetUnderlyingHandle \/ Cancel \/ UserReleases
    \/ \E w \in Writes : Write(w) \/ WriteCompletes(w)
    \/ CallbackStep
    \/ SystemFinished

SystemSpec == SystemInit /\ [][SystemNext]_systemVars

\* Data callbacks do not go on for ever and the request finishes, the C client
\* lets go of it and shuts down, MakeMetaRequest and the constructor return, and
\* the user drops the wrapper.
SystemFairness ==
    /\ WF_systemVars(CallbackStep)
    /\ SF_systemVars(BeginFinish)
    /\ SF_systemVars(ClientReleases)
    /\ WF_systemVars(SetUnderlyingHandle)
    /\ WF_systemVars(UserReleases)
    /\ \A w \in Writes : WF_systemVars(WriteCompletes(w))
    /\ \A c \in Clients : WF_systemVars(ShutdownAfterRequests(c))

FairSystemSpec == SystemSpec /\ SystemFairness

-----------------------------------------------------------------------------
(* Properties *)

\* The callback data is there for every callback the C request may still make,
\* whatever the user does with the wrapper and the client.
DataOutlivesCallbacks ==
    request \in {"running", "cancelled", "failed", "finished"} \/ loop # "idle" => callbackData = "alive"

\* Somebody who may use the wrapper finds the handle of the request it was made
\* for, and the reference it owns is released once, with the wrapper.
WrapperOwnsRequest ==
    /\ "user" \in wrapperRefs => handle = "request" /\ "wrapper" \in requestRefs
    /\ callbackData = "alive" => "data" \in wrapperRefs
    /\ wrapperRefs = {} => "wrapper" \notin requestRefs

\* What the C library calls back with is there: the data of a meta request and of a
\* client's shutdown, and behind a wrapper the request it owns.
S3CallbacksFindData == DataOutlivesCallbacks /\ WrapperOwnsRequest /\ ShutdownDataIsLive

\* After S3MetaRequest::Cancel "the finish and shutdown callbacks will still fire to
\* signal final teardown" (include/aws/crt/s3/S3.h:1272), once the user lets go.
CancelledRequestShutsDown ==
    request = "cancelled" ~> finishes = 1 /\ shutdowns = 1

=============================================================================
