------------------------------- MODULE S3Client -------------------------------
(***************************************************************************)
(* S3 clients built one after the other from one S3ClientConfig.           *)
(*                                                                         *)
(* The constructor takes the config by const reference and writes into the *)
(* C struct behind it: the default bootstrap, the retry strategy, the      *)
(* network interface names and the shutdown callback with a bundle made    *)
(* for this client.  It clears some of these fields before it returns.     *)
(* The C client (external) copies the shutdown callback and its data, and  *)
(* invokes it once, some time after the client was released.               *)
(***************************************************************************)
EXTENDS Naturals

CONSTANTS
    Clients,              \* constructions of an S3Client
    NoClient,
    CallbackMayBeCleared  \* may the user call SetClientShutdownCallback(nullptr)?

ASSUME S3ClientAssumption ==
    /\ NoClient \notin Clients
    /\ CallbackMayBeCleared \in BOOLEAN

VARIABLES
    callbackSet,  \* config.m_clientShutdownCallback
    retrySet,     \* config.m_retryStrategyType or its factory asks for a strategy
    raw,          \* the C struct: pointers into what a construction made
    making,       \* the construction that runs
    client,       \* life of each client
    bundle,       \* S3ClientShutdownCallbackData made by each construction
    told,         \* the bundle each C client was given
    frees         \* how often each bundle was freed

vars == <<callbackSet, retrySet, raw, making, client, bundle, told, frees>>

\* A construction's bundle is named after the client it was made for.
Pointers == Clients \cup {NoClient}

MaxFrees == 2

TypeOK ==
    /\ callbackSet \in BOOLEAN /\ retrySet \in BOOLEAN
    /\ raw \in [bootstrap : BOOLEAN, retry : Pointers, shutdown : Pointers]
    /\ making \in Pointers
    /\ client \in [Clients -> {"none", "making", "failed", "alive", "released", "shutdown"}]
    /\ bundle \in [Clients -> {"none", "alive", "freed"}]
    /\ \A c \in Clients : raw.shutdown = c => bundle[c] # "none"
    /\ told \in [Clients -> Pointers]
    /\ frees \in [Clients -> 0..MaxFrees]

Init ==
    /\ callbackSet = FALSE /\ retrySet = FALSE
    /\ raw = [bootstrap |-> FALSE, retry |-> NoClient, shutdown |-> NoClient]
    /\ making = NoClient
    /\ client = [c \in Clients |-> "none"]
    /\ bundle = [c \in Clients |-> "none"]
    /\ told = [c \in Clients |-> NoClient]
    /\ frees = [c \in Clients |-> 0]

-----------------------------------------------------------------------------
(* The user's config *)

SetClientShutdownCallback(b) ==
    /\ making = NoClient
    /\ b \/ CallbackMayBeCleared
    /\ callbackSet' = b
    /\ UNCHANGED <<retrySet, raw, making, client, bundle, told, frees>>

SetRetryStrategy(b) ==
    /\ making = NoClient
    /\ retrySet' = b
    /\ UNCHANGED <<callbackSet, raw, making, client, bundle, told, frees>>

-----------------------------------------------------------------------------
(* S3Client::S3Client *)

\* Everything up to aws_s3_client_new.
PrepareConfig(c) ==
    /\ making = NoClient
    /\ client[c] = "none"
    /\ making' = c
    /\ client' = [client EXCEPT ![c] = "making"]
    /\ raw' = [bootstrap |-> TRUE,
               retry     |-> IF retrySet THEN c ELSE raw.retry,
               shutdown  |-> IF callbackSet THEN c ELSE raw.shutdown]
    /\ bundle' = IF callbackSet THEN [bundle EXCEPT ![c] = "alive"] ELSE bundle
    /\ UNCHANGED <<callbackSet, retrySet, told, frees>>

Freed(b) ==
    /\ bundle' = [bundle EXCEPT ![b] = "freed"]
    /\ frees' = [frees EXCEPT ![b] = @ + 1]

NewSucceeds(c) ==
    /\ making = c
    /\ client' = [client EXCEPT ![c] = "alive"]
    /\ told' = [told EXCEPT ![c] = raw.shutdown]
    /\ raw' = [raw EXCEPT !.retry = NoClient]
    /\ making' = NoClient
    /\ UNCHANGED <<callbackSet, retrySet, bundle, frees>>

\* The construction frees its own bundle; the C struct still points at it.
NewFails(c) ==
    /\ making = c
    /\ client' = [client EXCEPT ![c] = "failed"]
    /\ raw' = [raw EXCEPT !.retry = NoClient]
    /\ making' = NoClient
    /\ IF callbackSet THEN Freed(c) ELSE UNCHANGED <<bundle, frees>>
    /\ UNCHANGED <<callbackSet, retrySet, told>>

-----------------------------------------------------------------------------
(* The end of a client *)

\* Mutant of ReleaseClient: the destructor frees the bundle.
ReleaseFreesBundle(c) ==
    /\ client[c] = "alive"
    /\ client' = [client EXCEPT ![c] = "released"]
    /\ bundle' = [bundle EXCEPT ![c] = "freed"]
    /\ UNCHANGED <<callbackSet, retrySet, raw, making, told, frees>>

\* ~S3Client: aws_s3_client_release only starts the teardown.
ReleaseClient(c) ==
    /\ client[c] = "alive"
    /\ client' = [client EXCEPT ![c] = "released"]
    /\ UNCHANGED <<callbackSet, retrySet, raw, making, bundle, told, frees>>

\* s_onClientShutdown, when the C client was given a callback.
OnClientShutdown(c) ==
    /\ client[c] = "released"
    /\ client' = [client EXCEPT ![c] = "shutdown"]
    /\ IF told[c] # NoClient /\ frees[told[c]] < MaxFrees
          THEN Freed(told[c])
          ELSE UNCHANGED <<bundle, frees>>
    /\ UNCHANGED <<callbackSet, retrySet, raw, making, told>>

Finished ==
    /\ \A c \in Clients : client[c] \in {"failed", "shutdown"}
    /\ UNCHANGED vars

Next ==
    \/ \E b \in BOOLEAN : SetClientShutdownCallback(b) \/ SetRetryStrategy(b)
    \/ \E c \in Clients :
          \/ PrepareConfig(c) \/ NewSucceeds(c) \/ NewFails(c)
          \/ ReleaseClient(c) \/ OnClientShutdown(c)
    \/ Finished

\* A constructor returns, and the C client shuts down once it was released.
Fairness ==
    \A c \in Clients :
        /\ WF_vars(NewSucceeds(c) \/ NewFails(c))
        /\ WF_vars(OnClientShutdown(c))

Spec == Init /\ [][Next]_vars

FairSpec == Spec /\ Fairness

-----------------------------------------------------------------------------
(* Properties *)

\* A client that has not shut down yet will call back with a bundle that is still
\* allocated, and with one that was made for it: no two clients share one.
ShutdownDataIsLive ==
    \A c \in Clients :
        client[c] \in {"alive", "released"} /\ told[c] # NoClient
            => told[c] = c /\ bundle[c] = "alive"

\* "the callback bundle is heap-allocated and self-frees in the trampoline": a
\* bundle is freed once, by the shutdown of the one client it was made for.
BundleFreedOnce ==
    \A c \in Clients : frees[c] <= 1

=============================================================================
