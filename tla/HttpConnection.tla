--------------------------- MODULE HttpConnection ---------------------------
(***************************************************************************)
(* An unmanaged HttpClientConnection and the streams made on it.           *)
(*                                                                         *)
(* CreateConnection allocates a ConnectionCallbackData that the setup      *)
(* callback deletes on failure and the shutdown callback deletes           *)
(* otherwise; it knows the connection object only by a weak_ptr.  Every    *)
(* stream owns a reference to the connection.  From Activate() until the   *)
(* completion callback a stream owns itself through its callback data, so  *)
(* the user may let go of it meanwhile; a write in flight owns it too.     *)
(*                                                                         *)
(* The C connection is external: it completes its active streams before it *)
(* reports its shutdown, which follows its last release, a close, or the   *)
(* peer.  User code runs on any thread, callbacks on one event loop.       *)
(***************************************************************************)
EXTENDS Naturals

CONSTANTS
    Streams,   \* streams the user may make
    Writes,    \* calls of WriteData
    NoStream   \* no stream callback is running

VARIABLES
    data,        \* the ConnectionCallbackData
    holders,     \* owners of the HttpClientConnection: user, callback, streams
    connection,  \* the C connection
    setups,      \* how often the setup callback told the user
    shutdowns,   \* how often the shutdown callback told the user
    streamRefs,  \* owners of each HttpClientStream: user, self, writes
    stream,      \* each C stream
    activating,  \* progress of Activate() on each stream
    write,       \* fate of each OnWriteUserData
    loop,        \* the callback the event loop runs
    current      \* and the stream it is about

connVars == <<data, holders, connection, setups, shutdowns>>
streamVars == <<streamRefs, stream, activating, write>>
loopVars == <<loop, current>>
vars == <<connVars, streamVars, loopVars>>

TypeOK ==
    /\ data \in {"none", "alive", "freed"}
    /\ holders \in SUBSET ({"user", "callback"} \cup Streams)
    /\ connection \in {"none", "connecting", "open", "closing", "shutdown"}
    /\ setups \in 0..1 /\ shutdowns \in 0..1
    /\ streamRefs \in [Streams -> SUBSET ({"user", "self"} \cup Writes)]
    /\ stream \in [Streams -> {"none", "made", "active", "complete"}]
    /\ activating \in [Streams -> {"no", "owned", "refused"}]
    /\ write \in [Writes -> {"unused", "pending", "refused", "done"}]
    /\ loop \in {"idle", "setup", "shutdown", "response", "complete", "written"}
    /\ current \in Streams \cup {NoStream}

Init ==
    /\ data = "none"
    /\ holders = {}
    /\ connection = "none"
    /\ setups = 0 /\ shutdowns = 0
    /\ streamRefs = [s \in Streams |-> {}]
    /\ stream = [s \in Streams |-> "none"]
    /\ activating = [s \in Streams |-> "no"]
    /\ write = [w \in Writes |-> "unused"]
    /\ loop = "idle"
    /\ current = NoStream

-----------------------------------------------------------------------------
(* Reference counts *)

\* ~UnmanagedConnection releases the C connection, which then shuts down.
AfterConnectionDrop(left) ==
    /\ holders' = left
    /\ connection' = IF left = {} /\ connection = "open" THEN "closing" ELSE connection

\* ~HttpStream drops the stream's reference to its connection.
DropStreamRef(s, r) ==
    /\ streamRefs' = [streamRefs EXCEPT ![s] = @ \ {r}]
    /\ AfterConnectionDrop(IF streamRefs[s] = {r} THEN holders \ {s} ELSE holders)

-----------------------------------------------------------------------------
(* The connection *)

CreateConnection ==
    /\ connection = "none"
    /\ data' = "alive"
    /\ connection' = "connecting"
    /\ UNCHANGED <<holders, setups, shutdowns, streamVars, loopVars>>

\* aws_http_client_connect refuses: the data is deleted, no callback follows.
CreateConnectionFails ==
    /\ connection = "none"
    /\ data' = "freed"
    /\ connection' = "shutdown"
    /\ UNCHANGED <<holders, setups, shutdowns, streamVars, loopVars>>

\* s_onClientConnectionSetup hands the only reference to the user's callback.
SetupSucceeds ==
    /\ loop = "idle" /\ connection = "connecting"
    /\ connection' = "open"
    /\ holders' = {"callback"}
    /\ setups' = setups + 1
    /\ loop' = "setup"
    /\ UNCHANGED <<data, shutdowns, streamVars, current>>

SetupFails ==
    /\ loop = "idle" /\ connection = "connecting"
    /\ connection' = "shutdown"
    /\ setups' = setups + 1
    /\ data' = "freed"
    /\ UNCHANGED <<holders, shutdowns, streamVars, loopVars>>

KeepConnection ==
    /\ loop = "setup"
    /\ "user" \notin holders
    /\ holders' = holders \cup {"user"}
    /\ UNCHANGED <<data, connection, setups, shutdowns, streamVars, loopVars>>

SetupReturns ==
    /\ loop = "setup"
    /\ AfterConnectionDrop(holders \ {"callback"})
    /\ loop' = "idle"
    /\ UNCHANGED <<data, setups, shutdowns, streamVars, current>>

ReleaseConnection ==
    /\ "user" \in holders
    /\ AfterConnectionDrop(holders \ {"user"})
    /\ UNCHANGED <<data, setups, shutdowns, streamVars, loopVars>>

\* Close() by the user, or the peer went away.
CloseConnection ==
    /\ connection = "open"
    /\ connection' = "closing"
    /\ UNCHANGED <<data, holders, setups, shutdowns, streamVars, loopVars>>

\* s_onClientConnectionShutdown: tell the user if the weak_ptr can be promoted.
BeginShutdown ==
    /\ loop = "idle" /\ connection = "closing"
    /\ \A s \in Streams : stream[s] # "active"
    /\ connection' = "shutdown"
    /\ loop' = "shutdown"
    /\ holders' = IF holders # {} THEN holders \cup {"callback"} ELSE holders
    /\ shutdowns' = IF holders # {} THEN shutdowns + 1 ELSE shutdowns
    /\ UNCHANGED <<data, setups, streamVars, current>>

\* Mutant of EndShutdown: the shutdown does not delete the data.
ShutdownKeepsData ==
    /\ loop = "shutdown"
    /\ AfterConnectionDrop(holders \ {"callback"})
    /\ data' = data
    /\ loop' = "idle"
    /\ UNCHANGED <<setups, shutdowns, streamVars, current>>

\* The promoted reference goes out of scope before the data is deleted.
EndShutdown ==
    /\ loop = "shutdown"
    /\ AfterConnectionDrop(holders \ {"callback"})
    /\ data' = "freed"
    /\ loop' = "idle"
    /\ UNCHANGED <<setups, shutdowns, streamVars, current>>

-----------------------------------------------------------------------------
(* Streams *)

NewClientStream(s) ==
    /\ "user" \in holders
    /\ connection = "open"
    /\ stream[s] = "none"
    /\ stream' = [stream EXCEPT ![s] = "made"]
    /\ streamRefs' = [streamRefs EXCEPT ![s] = {"user"}]
    /\ holders' = holders \cup {s}
    /\ UNCHANGED <<data, connection, setups, shutdowns, activating, write, loopVars>>

\* Activate() seats the self reference before the C stream may call back.
ActivateOwn(s) ==
    /\ "user" \in streamRefs[s]
    /\ stream[s] = "made" /\ activating[s] = "no"
    /\ activating' = [activating EXCEPT ![s] = "owned"]
    /\ streamRefs' = [streamRefs EXCEPT ![s] = @ \cup {"self"}]
    /\ UNCHANGED <<connVars, stream, write, loopVars>>

ActivateAccepted(s) ==
    /\ activating[s] = "owned"
    /\ connection = "open"
    /\ stream' = [stream EXCEPT ![s] = "active"]
    /\ activating' = [activating EXCEPT ![s] = "no"]
    /\ UNCHANGED <<connVars, streamRefs, write, loopVars>>

ActivateRefused(s) ==
    /\ activating[s] = "owned"
    /\ activating' = [activating EXCEPT ![s] = "refused"]
    /\ UNCHANGED <<connVars, streamRefs, stream, write, loopVars>>

ActivateDisown(s) ==
    /\ activating[s] = "refused"
    /\ activating' = [activating EXCEPT ![s] = "no"]
    /\ DropStreamRef(s, "self")
    /\ UNCHANGED <<data, setups, shutdowns, stream, write, loopVars>>

\* Not while Activate() runs on the same reference.
ReleaseStream(s) ==
    /\ "user" \in streamRefs[s]
    /\ activating[s] = "no"
    /\ DropStreamRef(s, "user")
    /\ UNCHANGED <<data, setups, shutdowns, stream, activating, write, loopVars>>

\* s_onIncomingHeaders, s_onIncomingHeaderBlockDone, s_onIncomingBody.
BeginResponse(s) ==
    /\ loop = "idle" /\ stream[s] = "active"
    /\ loop' = "response"
    /\ current' = s
    /\ UNCHANGED <<connVars, streamVars>>

EndResponse ==
    /\ loop = "response"
    /\ loop' = "idle"
    /\ current' = NoStream
    /\ UNCHANGED <<connVars, streamVars>>

\* s_onStreamComplete: the user's callback, then the self reference.  All writes
\* have completed by then.
BeginComplete(s) ==
    /\ loop = "idle" /\ stream[s] = "active"
    /\ \A w \in Writes : write[w] = "pending" => w \notin streamRefs[s]
    /\ stream' = [stream EXCEPT ![s] = "complete"]
    /\ loop' = "complete"
    /\ current' = s
    /\ UNCHANGED <<connVars, streamRefs, activating, write>>

\* Mutant of EndComplete: the completion does not reset the self reference.
CompleteKeepsSelf ==
    /\ loop = "complete"
    /\ loop' = "idle"
    /\ current' = NoStream
    /\ UNCHANGED <<connVars, streamRefs, stream, activating, write>>

EndComplete ==
    /\ loop = "complete"
    /\ DropStreamRef(current, "self")
    /\ loop' = "idle"
    /\ current' = NoStream
    /\ UNCHANGED <<data, setups, shutdowns, stream, activating, write>>

-----------------------------------------------------------------------------
(* WriteData: a heap copy of the callback data owns the stream *)

WriteAccepted(s, w) ==
    /\ "user" \in streamRefs[s]
    /\ stream[s] = "active" /\ loop # "complete"
    /\ write[w] = "unused"
    /\ write' = [write EXCEPT ![w] = "pending"]
    /\ streamRefs' = [streamRefs EXCEPT ![s] = @ \cup {w}]
    /\ UNCHANGED <<connVars, stream, activating, loopVars>>

\* The error is returned and the heap copy is left behind.  It owns the stream if
\* the callback data did at that moment.
WriteRefused(s, w) ==
    /\ "user" \in streamRefs[s]
    /\ stream[s] \in {"active", "complete"}
    /\ write[w] = "unused"
    /\ write' = [write EXCEPT ![w] = "refused"]
    /\ streamRefs' = [streamRefs EXCEPT ![s] = IF "self" \in @ THEN @ \cup {w} ELSE @]
    /\ UNCHANGED <<connVars, stream, activating, loopVars>>

WriteCompletes(s, w) ==
    /\ loop = "idle"
    /\ write[w] = "pending" /\ w \in streamRefs[s]
    /\ write' = [write EXCEPT ![w] = "done"]
    /\ loop' = "written"
    /\ current' = s
    /\ UNCHANGED <<connVars, streamRefs, stream, activating>>

WriteDeleted(s, w) ==
    /\ loop = "written" /\ current = s
    /\ write[w] = "done" /\ w \in streamRefs[s]
    /\ DropStreamRef(s, w)
    /\ loop' = "idle"
    /\ current' = NoStream
    /\ UNCHANGED <<data, setups, shutdowns, stream, activating, write>>

-----------------------------------------------------------------------------

UserReleases ==
    ReleaseConnection \/ \E s \in Streams : ReleaseStream(s)

ActivateStep(s) == ActivateAccepted(s) \/ ActivateRefused(s) \/ ActivateDisown(s)

LoopStep ==
    \/ SetupSucceeds \/ SetupFails \/ SetupReturns
    \/ BeginShutdown \/ EndShutdown
    \/ EndResponse \/ EndComplete
    \/ \E s \in Streams :
        \/ BeginResponse(s) \/ BeginComplete(s)
        \/ \E w \in Writes : WriteCompletes(s, w) \/ WriteDeleted(s, w)

Finished ==
    /\ connection = "shutdown" /\ loop = "idle" /\ holders \cap {"user"} = {}
    /\ \A s \in Streams : "user" \notin streamRefs[s]
    /\ UNCHANGED vars

Next ==
    \/ CreateConnection \/ CreateConnectionFails \/ KeepConnection \/ CloseConnection
    \/ UserReleases \/ LoopStep
    \/ \E s \in Streams :
        \/ NewClientStream(s) \/ ActivateOwn(s) \/ ActivateStep(s)
        \/ \E w \in Writes : WriteAccepted(s, w) \/ WriteRefused(s, w)
    \/ Finished

Spec == Init /\ [][Next]_vars

\* The loop runs; a response ends, so writes and streams complete; Activate() goes
\* on; the user lets go of the connection and of the streams.
Fairness ==
    /\ WF_vars(LoopStep)
    /\ \A s \in Streams :
        /\ SF_vars(\E w \in Writes : WriteCompletes(s, w))
        /\ SF_vars(BeginComplete(s))
        /\ WF_vars(ActivateStep(s))
        /\ SF_vars(ReleaseStream(s))
    /\ WF_vars(ReleaseConnection)

FairSpec == Spec /\ Fairness

-----------------------------------------------------------------------------
(* Properties *)

\* While the C stream may call back, or a callback runs, the stream's callback
\* data refers to the stream: no callback dereferences a null stream.
ActiveStreamOwnsItself ==
    \A s \in Streams :
        stream[s] = "active" \/ (current = s /\ loop \in {"response", "complete"})
            => "self" \in streamRefs[s]

\* "The internal reference count ensures the resources will not be freed until the
\* stream is completed", and afterwards nothing but the user, a pending write or a
\* write that was refused owns the stream.
NothingOwnsAFinishedStream ==
    \A s \in Streams :
        stream[s] = "complete" /\ current # s =>
            \A r \in streamRefs[s] : r = "user" \/ (r \in Writes /\ write[r] \in {"pending", "refused"})

\* Whoever has a stream has its connection: ~HttpStream is what drops the stream's
\* reference, so the C connection is released only when no stream is left.  The
\* ConnectionCallbackData is there for as long as the C connection may call back.
StreamsOwnConnection ==
    /\ \A s \in Streams : streamRefs[s] # {} => s \in holders
    /\ connection = "open" => holders # {}
    /\ connection \in {"connecting", "open", "closing"} \/ loop \in {"setup", "shutdown"}
          => data = "alive"

\* Every connection that was made is torn down when the user lets go, unless the
\* data of a refused write was left behind: it owns its stream, and so the
\* connection, for ever.
EverythingIsFreed ==
    data = "alive" ~>
        \/ data = "freed" /\ holders = {}
        \/ \E w \in Writes : write[w] = "refused"

=============================================================================
