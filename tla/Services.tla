------------------------------ MODULE Services ------------------------------
(***************************************************************************)
(* Objects that the application shares with the C library's event loops.   *)
(* A behaviour is about one of them, chosen at the start; the others stay  *)
(* as they were created.                                                   *)
(*   api      the static defaults of ApiHandle;                            *)
(*   query    queries through a credentials provider, an IMDS client, a    *)
(*            signer or a host resolver;                                   *)
(*   handler  a channel handler of the application and its tasks.          *)
(***************************************************************************)
EXTENDS ApiHandle

CONSTANTS
    Requests,  \* queries
    Tasks      \* TaskWrapper objects

VARIABLES
    subject,
    kind, qHolds, wrapper, qNative, nativeHeld, delegateArgs, phase, args, argsOwn,
    userRequest, message, reported,
    handler, m_selfReference, userHolds, channel, shutdownRequested, running, negotiation,
    tasks, captured

queryVars == <<kind, qHolds, wrapper, qNative, nativeHeld, delegateArgs, phase, args, argsOwn,
               userRequest, message, reported>>
channelVars == <<handler, m_selfReference, userHolds, channel, shutdownRequested, running,
                 negotiation, tasks, captured>>

Queries == INSTANCE AsyncQuery WITH userHolds <- qHolds, native <- qNative

Channel == INSTANCE ChannelHandler

ServicesInit ==
    /\ subject \in {"api", "query", "handler"}
    /\ Init /\ Queries!Init /\ Channel!Init
    /\ subject # "query" => kind = "imds"

\* The last disjunct: a query or a handler may be the last thing the application does.
ServicesNext ==
    \/ subject = "api" /\ Next /\ UNCHANGED <<subject, queryVars, channelVars>>
    \/ subject = "query" /\ Queries!Next /\ UNCHANGED <<subject, vars, channelVars>>
    \/ subject = "handler" /\ Channel!Next /\ UNCHANGED <<subject, vars, queryVars>>
    \/ subject # "api" /\ UNCHANGED <<subject, vars, queryVars, channelVars>>

servicesVars == <<subject, vars, queryVars, channelVars>>

ServicesSpec == ServicesInit /\ [][ServicesNext]_servicesVars

\* A subject that is not chosen stays in its initial state, where no action with a
\* fairness condition is enabled.
FairServicesSpec == ServicesSpec /\ Fairness /\ Queries!Fairness /\ Channel!Fairness

-----------------------------------------------------------------------------
(* The properties of the components, explained in their modules.             *)

\* The static defaults are created once, live while they are referred to, and no event
\* loop outlives a blocking ~ApiHandle; their mutexes are taken in one order.
DefaultsAreSafe == DefaultsAreShared /\ ThreadsJoinedBeforeCleanUp /\ MutexesAreOrdered

\* Calls for a default return although they nest and lock, and so does ~ApiHandle.
ApiCallsReturn == CallsReturn /\ DestructorReturns

\* A static callback finds the provider, request or delegate it is about.
CallbackFindsItsSubject == Queries!CallbackFindsItsSubject

\* A query that was accepted is answered once, and a released wrapper is freed, unless
\* GetCredentials() was refused.
QueriesComplete == Queries!AcceptedIsAnswered /\ Queries!ReleasedIsFreed

\* A channel handler is there for every call and task, whoever lets go of it, and exactly
\* as long as somebody refers to it.
HandlerOutlivesCalls == Channel!HandlerOutlivesCalls /\ Channel!LivesWhileReferenced

\* Scheduled tasks run, and a handler whose channel shuts down does not leak.
ChannelHandlerIsFreed == Channel!ChannelHandlerIsFreed

=============================================================================
