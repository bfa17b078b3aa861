-------------------------------- MODULE Http --------------------------------
(***************************************************************************)
(* The two ways to own an HTTP connection: through a connection manager,   *)
(* and unmanaged.  A behaviour is about one of them, the other stays as it *)
(* was created.                                                            *)
(***************************************************************************)
EXTENDS HttpConnectionManager

CONSTANTS
    Streams,   \* streams made on the unmanaged connection
    NoStream,
    Writes     \* calls of WriteData on them

ASSUME HttpAssumption ==
    /\ NoStream \notin Streams
    /\ {"user", "callback"} \cap Streams = {}
    /\ {"user", "self"} \cap Writes = {}

VARIABLES
    subject,
    data, holders, connection, setups, shutdowns,
    streamRefs, stream, activating, write, cLoop, cStream

connectionVars == <<data, holders, connection, setups, shutdowns,
                    streamRefs, stream, activating, write, cLoop, cStream>>

Unmanaged == INSTANCE HttpConnection WITH loop <- cLoop, current <- cStream

HttpInit ==
    /\ subject \in {"managed", "unmanaged"}
    /\ Init
    /\ Unmanaged!Init
    /\ subject = "unmanaged" => ~blocking /\ ~waits

HttpNext ==
    \/ subject = "managed" /\ Next /\ UNCHANGED <<subject, connectionVars>>
    \/ subject = "unmanaged" /\ Unmanaged!Next /\ UNCHANGED <<subject, vars>>

httpVars == <<subject, vars, connectionVars>>

HttpSpec == HttpInit /\ [][HttpNext]_httpVars

\* The subject that is not chosen stays in its initial state, where no action with
\* a fairness condition is enabled.
FairHttpSpec == HttpSpec /\ Fairness /\ Unmanaged!Fairness

\* The properties of the unmanaged connection, explained in its module: a stream owns
\* itself while it may call back, nothing but the user and writes owns it afterwards, and
\* the connection is there for its streams and its data for its callbacks.
StreamOwnership ==
    /\ Unmanaged!ActiveStreamOwnsItself
    /\ Unmanaged!NothingOwnsAFinishedStream
    /\ Unmanaged!StreamsOwnConnection

\* A connection manager that nobody refers to shuts down, and an unmanaged connection is
\* freed when the user lets go, unless a write was refused.
HttpIsFreed == AbandonedManagerShutsDown /\ Unmanaged!EverythingIsFreed

=============================================================================
