----------------------------- MODULE AsyncQuery -----------------------------
(***************************************************************************)
(* The one-shot asynchronous queries of the library: ImdsClient::Get...,    *)
(* CredentialsProvider::GetCredentials (over any native provider, and over  *)
(* the delegate that calls a user's handler), Sigv4HttpRequestSigner::      *)
(* SignRequest and DefaultHostResolver::ResolveHost.                        *)
(*                                                                          *)
(* Each allocates an argument block, hands it to the C library as user data *)
(* and returns; the C library answers once, from an event-loop thread or    *)
(* from inside the call, and the static callback frees the block.  What     *)
(* differs is what the block owns and what is done when the C library       *)
(* refuses the query outright.  A behaviour is about one wrapper object of  *)
(* one kind, its native object and the queries made through it.             *)
(***************************************************************************)
EXTENDS Naturals

CONSTANT Requests

ProviderKinds == {"provider", "delegate"}
Kinds == ProviderKinds \cup {"imds", "signer", "resolver"}

VARIABLES
    kind,          \* which class the wrapper is of
    userHolds,     \* the user still has the wrapper (object or shared_ptr)
    wrapper,       \* the C++ object: "none", "live", "dead"
    native,        \* its C object: "none", "live", "gone"
    nativeHeld,    \* the wrapper's reference on the C object is not released
    delegateArgs,  \* DelegateCredentialsProviderCallbackArgs
    phase,         \* per request: where its query stands
    args,          \* per request: its argument block
    argsOwn,       \* per request: the shared_ptrs its block holds
    userRequest,   \* per request: the user holds the HttpRequest to sign
    message,       \* per request: the HttpRequest
    reported       \* per request: what the call returned

vars == <<kind, userHolds, wrapper, native, nativeHeld, delegateArgs, phase,
          args, argsOwn, userRequest, message, reported>>

objects == <<kind, native, delegateArgs>>

Memory == {"none", "live", "freed"}
Phases == {"idle", "rejected", "refused", "flight", "handler", "callback", "done"}

\* Every variable stays in its domain.
TypeOK ==
    /\ kind \in Kinds
    /\ userHolds \in BOOLEAN
    /\ wrapper \in {"none", "live", "dead"}
    /\ native \in {"none", "live", "gone"}
    /\ nativeHeld \in BOOLEAN
    /\ delegateArgs \in Memory
    /\ phase \in [Requests -> Phases]
    /\ args \in [Requests -> Memory]
    /\ argsOwn \in [Requests -> SUBSET {"wrapper", "request"}]
    /\ userRequest \in [Requests -> BOOLEAN]
    /\ message \in [Requests -> Memory]
    /\ reported \in [Requests -> {"none", "success", "failure"}]

Init ==
    /\ kind \in Kinds
    /\ userHolds = FALSE
    /\ wrapper = "none"
    /\ native = "none"
    /\ nativeHeld = FALSE
    /\ delegateArgs = "none"
    /\ phase = [r \in Requests |-> "idle"]
    /\ args = [r \in Requests |-> "none"]
    /\ argsOwn = [r \in Requests |-> {}]
    /\ userRequest = [r \in Requests |-> kind = "signer"]
    /\ message = [r \in Requests |-> IF kind = "signer" THEN "live" ELSE "none"]
    /\ reported = [r \in Requests |-> "none"]

-----------------------------------------------------------------------------
(* Construction.  The C constructor may fail.                               *)

\* A wrapper that exists, over the C object if that was made.
Built(made) ==
    /\ wrapper' = "live"
    /\ userHolds' = TRUE
    /\ native' = IF made THEN "live" ELSE "none"
    /\ nativeHeld' = made

\* s_CreateWrappedProvider: no wrapper around a null C provider.
Wrapped(made) ==
    IF made THEN Built(TRUE) ELSE UNCHANGED <<wrapper, userHolds, native, nativeHeld>>

requestState == <<phase, args, argsOwn, userRequest, message, reported>>

New(k) ==
    /\ kind = k
    /\ wrapper = "none" /\ phase = [r \in Requests |-> "idle"]
    /\ UNCHANGED <<kind, requestState>>

CreateImds ==
    /\ New("imds")
    /\ \E made \in BOOLEAN : Built(made)
    /\ UNCHANGED delegateArgs

\* Every factory but the delegate's: static, profile, IMDS, chain, STS, Cognito ...
CreateProvider ==
    /\ New("provider")
    /\ \E made \in BOOLEAN : Wrapped(made)
    /\ UNCHANGED delegateArgs

\* The public constructor wraps whatever pointer it is given, null included.
WrapProvider ==
    /\ New("provider")
    /\ \E made \in BOOLEAN : Built(made)
    /\ UNCHANGED delegateArgs

\* The handler's block is made before the C provider, and kept if that fails.
CreateDelegate ==
    /\ New("delegate")
    /\ delegateArgs = "none"
    /\ \E made \in BOOLEAN : Wrapped(made)
    /\ delegateArgs' = "live"

CreateSigner ==
    /\ New("signer")
    /\ wrapper' = "live" /\ userHolds' = TRUE
    /\ UNCHANGED <<native, nativeHeld, delegateArgs>>

CreateResolver ==
    /\ New("resolver")
    /\ \E made \in BOOLEAN : Built(made)
    /\ UNCHANGED delegateArgs

-----------------------------------------------------------------------------
(* The queries.  Each runs on a user thread that holds the wrapper.         *)

Asks(r, k) ==
    /\ kind \in k
    /\ userHolds
    /\ phase[r] = "idle"
    /\ UNCHANGED <<userHolds, wrapper, nativeHeld, userRequest, message, objects>>

\* An early return: no argument block was made.
Rejected(r) ==
    /\ phase' = [phase EXCEPT ![r] = "rejected"]
    /\ reported' = [reported EXCEPT ![r] = "failure"]
    /\ UNCHANGED <<args, argsOwn>>

\* The C library takes the query; its callback will come.
Accepted(r, own) ==
    /\ phase' = [phase EXCEPT ![r] = "flight"]
    /\ args' = [args EXCEPT ![r] = "live"]
    /\ argsOwn' = [argsOwn EXCEPT ![r] = own]
    /\ reported' = [reported EXCEPT ![r] = "success"]

\* The C library returns an error: no callback will come.
Refused(r, own, mem, result) ==
    /\ phase' = [phase EXCEPT ![r] = "refused"]
    /\ args' = [args EXCEPT ![r] = mem]
    /\ argsOwn' = [argsOwn EXCEPT ![r] = own]
    /\ reported' = [reported EXCEPT ![r] = result]

\* The twenty-three ImdsClient::Get... calls; the block owns nothing.
ImdsGet(r) ==
    /\ Asks(r, {"imds"})
    /\ native = "live"
    /\ \/ Rejected(r)
       \/ Accepted(r, {})
       \/ Refused(r, {}, "live", "failure")

\* Mutant of GetCredentials: the block does not keep the provider.
GetCredentialsDoesNotOwn(r) ==
    /\ Asks(r, ProviderKinds)
    /\ \/ Rejected(r)
       \/ native = "live" /\ Accepted(r, {})
       \/ native = "live" /\ Refused(r, {"wrapper"}, "live", "success")

\* The C library's return code is ignored.
GetCredentials(r) ==
    /\ Asks(r, ProviderKinds)
    /\ \/ Rejected(r)
       \/ native = "live" /\ Accepted(r, {"wrapper"})
       \/ native = "live" /\ Refused(r, {"wrapper"}, "live", "success")

\* Rejected for a configuration of the wrong type or without credentials.
SignRequest(r) ==
    /\ Asks(r, {"signer"})
    /\ userRequest[r]
    /\ \/ Rejected(r)
       \/ Accepted(r, {"request"})
       \/ Refused(r, {"request"}, "live", "failure")

\* The only query that takes its block back when it is refused.
ResolveHost(r) ==
    /\ Asks(r, {"resolver"})
    /\ native = "live"
    /\ \/ Rejected(r)
       \/ Accepted(r, {})
       \/ Refused(r, {}, "freed", "failure")

-----------------------------------------------------------------------------
(* The C library answers.                                                   *)

\* The C provider calls the delegate, which runs the user's handler.
s_onDelegateGetCredentials(r) ==
    /\ kind = "delegate"
    /\ phase[r] = "flight"
    /\ phase' = [phase EXCEPT ![r] = "handler"]
    /\ UNCHANGED <<userHolds, wrapper, nativeHeld, args, argsOwn, userRequest,
                   message, reported, objects>>

\* The static callback unpacks the block and is in the user's callback.
BeginCallback(r) ==
    /\ phase[r] = IF kind = "delegate" THEN "handler" ELSE "flight"
    /\ phase' = [phase EXCEPT ![r] = "callback"]
    /\ UNCHANGED <<userHolds, wrapper, nativeHeld, args, argsOwn, userRequest,
                   message, reported, objects>>

\* Mutant of DropWrapper: the destructor does not release the C object.
DestructorKeepsNative(held) ==
    LET dies == wrapper = "live" /\ ~held IN
    /\ wrapper' = IF dies THEN "dead" ELSE wrapper
    /\ nativeHeld' = nativeHeld

\* The wrapper's destructor runs when nobody holds it, and lets go of the C
\* object.
DropWrapper(held) ==
    LET dies == wrapper = "live" /\ ~held IN
    /\ wrapper' = IF dies THEN "dead" ELSE wrapper
    /\ nativeHeld' = (nativeHeld /\ ~dies)

DropMessage(r, held) ==
    message' = [message EXCEPT ![r] = IF @ = "live" /\ ~held THEN "freed" ELSE @]

\* Mutant of EndCallback: the callback does not delete its block.
EndKeepsBlock(r) ==
    /\ phase[r] = "callback"
    /\ phase' = [phase EXCEPT ![r] = "done"]
    /\ args' = [args EXCEPT ![r] = @]
    /\ argsOwn' = [argsOwn EXCEPT ![r] = {}]
    /\ DropWrapper(userHolds \/ \E q \in Requests \ {r} : "wrapper" \in argsOwn[q])
    /\ DropMessage(r, userRequest[r])
    /\ UNCHANGED <<userHolds, userRequest, reported, objects>>

\* The user's callback is over: the block is deleted, with what it owned.
EndCallback(r) ==
    /\ phase[r] = "callback"
    /\ phase' = [phase EXCEPT ![r] = "done"]
    /\ args' = [args EXCEPT ![r] = "freed"]
    /\ argsOwn' = [argsOwn EXCEPT ![r] = {}]
    /\ DropWrapper(userHolds \/ \E q \in Requests \ {r} : "wrapper" \in argsOwn[q])
    /\ DropMessage(r, userRequest[r])
    /\ UNCHANGED <<userHolds, userRequest, reported, objects>>

\* The user lets go of the wrapper, at any time, inside a callback as well.
Release ==
    /\ userHolds
    /\ userHolds' = FALSE
    /\ DropWrapper(\E q \in Requests : "wrapper" \in argsOwn[q])
    /\ UNCHANGED <<requestState, objects>>

\* The user lets go of a request that may still be being signed.
DropRequest(r) ==
    /\ userRequest[r]
    /\ userRequest' = [userRequest EXCEPT ![r] = FALSE]
    /\ DropMessage(r, "request" \in argsOwn[r])
    /\ UNCHANGED <<userHolds, wrapper, nativeHeld, phase, args, argsOwn, reported,
                   objects>>

\* A query the C library is still working on.
InFlight(r) == phase[r] \in {"flight", "handler", "callback"}

\* The last reference on the C object is gone, the queries' own included: it
\* shuts down, and tells a delegate so, whose block is freed.
NativeShutdown ==
    /\ native = "live" /\ ~nativeHeld
    /\ \A r \in Requests : ~InFlight(r)
    /\ native' = "gone"
    /\ delegateArgs' = IF kind = "delegate" THEN "freed" ELSE delegateArgs
    /\ UNCHANGED <<kind, userHolds, wrapper, nativeHeld, requestState>>

-----------------------------------------------------------------------------
Create ==
    \/ CreateImds \/ CreateProvider \/ WrapProvider \/ CreateDelegate
    \/ CreateSigner \/ CreateResolver

Query(r) == ImdsGet(r) \/ GetCredentials(r) \/ SignRequest(r) \/ ResolveHost(r)

Answer(r) == s_onDelegateGetCredentials(r) \/ BeginCallback(r) \/ EndCallback(r)

Next ==
    \/ Create
    \/ \E r \in Requests : Query(r) \/ Answer(r) \/ DropRequest(r)
    \/ Release
    \/ NativeShutdown

Spec == Init /\ [][Next]_vars

\* The C library answers what it accepted, the user's callbacks return, and a
\* C object without references shuts down.
Fairness ==
    /\ \A r \in Requests : WF_vars(Answer(r))
    /\ WF_vars(NativeShutdown)

FairSpec == Spec /\ Fairness

-----------------------------------------------------------------------------
(* Properties.                                                              *)

\* What a static callback touches is alive while it runs, even when the user
\* let go of it after making the query: the provider whose allocator frees the
\* block (s_onCredentialsResolved), the request that the signature is applied to
\* (s_http_signing_complete_fn), and the delegate's block with the user's handler
\* (s_onDelegateGetCredentials).
CallbackFindsItsSubject ==
    \A r \in Requests :
        /\ phase[r] = "handler" => native = "live" /\ delegateArgs = "live"
        /\ phase[r] = "callback" =>
            /\ args[r] = "live"
            /\ kind \in ProviderKinds => wrapper = "live"
            /\ kind = "signer" => message[r] = "live"

\* A query the C library accepted ends with the user's callback run once and the
\* block freed, whether or not the wrapper was released meanwhile.
AcceptedIsAnswered ==
    \A r \in Requests : phase[r] = "flight" ~> (phase[r] = "done" /\ args[r] = "freed")

\* After the user releases the wrapper it is destroyed and the C object and the
\* delegate's block go too: a query in flight keeps its provider alive, but only
\* until it is answered.  A refused GetCredentials is the exception: the block
\* that GetCredentials leaves behind owns the provider for good.
ReleasedIsFreed ==
    (wrapper = "live" /\ ~userHolds) ~>
        \/ wrapper = "dead" /\ native # "live" /\ (native = "gone" => delegateArgs # "live")
        \/ kind \in ProviderKinds /\ \E r \in Requests : phase[r] = "refused"

=============================================================================
