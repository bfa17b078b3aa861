------------------------------ MODULE Transfers ------------------------------
(***************************************************************************)
(* S3 clients with a meta request, and the objects that data of a transfer *)
(* goes through.  A behaviour is about one subject, chosen at the start;   *)
(* the others stay as they were created.                                   *)
(*   s3      clients built from one config, and a meta request;            *)
(*   stream  an input stream, which the C library reads a body from;       *)
(*   crypto  hashes, HMACs or ciphers, fed piece by piece.                 *)
(***************************************************************************)
EXTENDS S3MetaRequest, Integers

CONSTANTS
    Subjects,  \* what a behaviour may be about
    Length, Capacity, MaxCalls,
    CryptoObjects, Handles, MaxUpdates, Null, Gone

VARIABLES
    subject,
    pos, eofbit, failbit, badbit, wanted, lastError, call,
    kind, byo, cHandle, m_good, m_lastError, native, fed, accepted, digest, result, temporary

streamVars == <<pos, eofbit, failbit, badbit, wanted, lastError, call>>
cryptoVars == <<kind, byo, cHandle, m_good, m_lastError, native, fed, accepted, digest, result,
                temporary>>

Stream == INSTANCE InputStream

Cryptography == INSTANCE Crypto WITH Objects <- CryptoObjects, handle <- cHandle

\* Null and Gone are not C objects, and no object has their names.
ASSUME TransfersAssumption ==
    /\ Length \in Nat /\ Capacity \in Nat /\ MaxCalls \in Nat
    /\ Null # Gone /\ {Null, Gone} \cap (Handles \cup CryptoObjects) = {}
    /\ MaxUpdates \in Nat

TransfersInit ==
    /\ subject \in Subjects
    /\ SystemInit /\ Stream!Init /\ Cryptography!Init
    /\ subject # "stream" => lastError = "none"
    /\ subject # "crypto" => kind = "cipher"

\* The last disjunct: a read or a digest may be the last thing the application does.
TransfersNext ==
    \/ subject = "s3" /\ SystemNext /\ UNCHANGED <<subject, streamVars, cryptoVars>>
    \/ subject = "stream" /\ Stream!Next /\ UNCHANGED <<subject, systemVars, cryptoVars>>
    \/ subject = "crypto" /\ Cryptography!Next /\ UNCHANGED <<subject, systemVars, streamVars>>
    \/ subject \in {"stream", "crypto"} /\ UNCHANGED <<subject, systemVars, streamVars, cryptoVars>>

transfersVars == <<subject, systemVars, streamVars, cryptoVars>>

TransfersSpec == TransfersInit /\ [][TransfersNext]_transfersVars

-----------------------------------------------------------------------------
(* The properties of the components, explained in their modules.             *)

\* Reads continue where the caller is, and a failure leaves an error of its own.
ReadsContinue == Stream!ReadsContinue

\* C objects of hashes, HMACs and ciphers have one owner, digests cover the updates that
\* were accepted, and a cipher that refuses a call says why.
CryptoIsSound == Cryptography!DigestsAreSound /\ Cryptography!CipherFailuresExplained

=============================================================================
