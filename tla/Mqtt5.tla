------------------------------- MODULE Mqtt5 -------------------------------
(***************************************************************************)
(* The MQTT5 client and what is built on it.  A behaviour is about one     *)
(* subject, chosen at the start; the others stay as they were created.     *)
(*   client           the client core and its operations;                  *)
(*   stream           a streaming operation;                               *)
(*   request          the requests of a request-response client;           *)
(*   acknowledgement  publishes, received and acknowledged.                *)
(***************************************************************************)
EXTENDS Mqtt5ClientCore

CONSTANTS
    StreamThreads,   \* application threads that use the streaming operation
    RequestThreads,  \* application threads that use the request-response client
    AckThreads,      \* application threads that acknowledge publishes
    Requests, NoRequest,
    Publishes, NoPublish

ASSUME Mqtt5Assumption ==
    /\ NoThread \notin StreamThreads \cup {EventLoop}
    /\ NoRequest \notin Requests
    /\ NoPublish \notin Publishes

VARIABLES
    subject,
    sHolders, implRefs, readers, inCallback, writer, closed, mStream, sPc, sAt, sCloser, sNative,
    rHolders, rImpl, rClient, rPc, request, outcome, incomplete, rAt, rCurrent, rNative,
    aClient, aLoop, aCurrent, functor, handle, copies, taken, acked, answer

streamVars == <<sHolders, implRefs, readers, inCallback, writer, closed, mStream, sPc, sAt,
                sCloser, sNative>>
requestVars == <<rHolders, rImpl, rClient, rPc, request, outcome, incomplete, rAt, rCurrent,
                 rNative>>
ackVars == <<aClient, aLoop, aCurrent, functor, handle, copies, taken, acked, answer>>

Stream == INSTANCE StreamingOperation WITH
    UserThreads <- StreamThreads, holders <- sHolders, pc <- sPc, at <- sAt, closer <- sCloser,
    native <- sNative

Request == INSTANCE RequestResponseClient WITH
    UserThreads <- RequestThreads,
    holders <- rHolders, impl <- rImpl, mClient <- rClient, pc <- rPc,
    at <- rAt, current <- rCurrent, native <- rNative

Ack == INSTANCE PublishAcknowledgement WITH
    UserThreads <- AckThreads, mClient <- aClient, loop <- aLoop, current <- aCurrent

Mqtt5Init ==
    /\ subject \in {"client", "stream", "request", "acknowledgement"}
    /\ Init /\ Stream!Init /\ Request!Init /\ Ack!Init

\* The last disjunct: no more publishes are received and the user does nothing.
Mqtt5Next ==
    \/ subject = "client" /\ Next /\ UNCHANGED <<subject, streamVars, requestVars, ackVars>>
    \/ subject = "stream" /\ Stream!Next /\ UNCHANGED <<subject, vars, requestVars, ackVars>>
    \/ subject = "request" /\ Request!Next /\ UNCHANGED <<subject, vars, streamVars, ackVars>>
    \/ subject = "acknowledgement" /\ Ack!Next /\ UNCHANGED <<subject, vars, streamVars, requestVars>>
    \/ subject = "acknowledgement" /\ UNCHANGED <<subject, vars, streamVars, requestVars, ackVars>>

mqtt5Vars == <<subject, vars, streamVars, requestVars, ackVars>>

Mqtt5Spec == Mqtt5Init /\ [][Mqtt5Next]_mqtt5Vars

\* A subject that is not chosen stays in its initial state, where no action with a
\* fairness condition is enabled.
FairMqtt5Spec == Mqtt5Spec /\ Fairness /\ Stream!Fairness /\ Request!Fairness

-----------------------------------------------------------------------------
(* The properties of the instances, explained in their modules.              *)

\* The implementation of a stream, and of a request-response client, outlives its use.
ImplOutlivesUse == Stream!ImplOutlivesUse /\ Request!DeletedWithoutClient

\* Skipping the lock inside a callback is safe: nobody closes the stream meanwhile.
ConditionalLockIsSafe == Stream!ConditionalLockIsSafe

\* Every request that was submitted is answered, once, and none of their data is left.
EveryRequestAnswered == Request!EveryRequestAnswered

\* A publish is acknowledged by the client or by the handle the user took, never by both.
NoAckIsLostOrDoubled == Ack!TakenIsNotAutoAcked /\ Ack!NoForgottenAck

\* A stream and a request-response client that were closed are freed.
ClosedIsFreed == Stream!ClosedStreamIsFreed /\ Request!ClosedClientIsFreed

\* A streaming operation calls back as its gate allows: never after Close() has returned.
StreamImplementsGate == Stream!ImplementsGate

\* The functor of a publish yields its handle once.
HandleYieldedOnce == Ack!HandleYieldedOnce

=============================================================================
