-------------------------- MODULE TransfersProofs --------------------------
(***************************************************************************)
(* What Transfers promises, for any clients, writes and objects, a stream  *)
(* of any length and both readings of the shutdown of a meta request.  The *)
(* properties of S3 are those of users who do not clear the shutdown       *)
(* callback of a config that they build from again.  For those who do,     *)
(* BundleFreedOnce is violated.                                            *)
(*                                                                         *)
(* IInv says which construction the config points at: with the callback    *)
(* never cleared, a pointer that an earlier construction left is always    *)
(* overwritten before the C library reads it.                              *)
(*                                                                         *)
(* StreamIInv: a stream whose end was reached has nothing left to deliver. *)
(*                                                                         *)
(* CryptoIInv: no two objects have the same C object, a C object in use    *)
(* has an owner, a good HMAC has one that takes input, and each was fed    *)
(* what its owner accepted.                                                *)
(***************************************************************************)
EXTENDS Transfers, TLAPS

-----------------------------------------------------------------------------
(* S3 clients and a meta request *)

\* What the config and each client know of a bundle.
BundleInv ==
    /\ \A c \in Clients : client[c] = "making" <=> making = c
    /\ raw.shutdown # NoClient => callbackSet
    /\ making # NoClient /\ callbackSet => raw.shutdown = making /\ bundle[making] = "alive"
    /\ \A c \in Clients :
        /\ client[c] \notin {"failed", "shutdown"} => frees[c] = 0
        /\ frees[c] \in {0, 1}
        /\ client[c] \in {"none", "making", "failed"} => told[c] = NoClient
        /\ told[c] \in {c, NoClient}
        /\ client[c] \in {"alive", "released"} /\ told[c] = c => bundle[c] = "alive"

\* Which callbacks the C request has made, and the data that is there for the rest.
CallbackInv ==
    /\ callbackData = "none" => request = "none"
    /\ request = "none" => wrapperRefs = {} /\ requestRefs = {} /\ loop = "idle"
    /\ request \in {"running", "cancelled", "failed", "finished"} => callbackData = "alive"
    /\ loop = "data" => request \in {"running", "cancelled", "failed"}
    /\ loop = "finish" => request = "finished"
    /\ loop = "shutdown" => request = "shutdown" /\ callbackData = "alive"
    /\ request \in {"none", "running", "cancelled", "failed"} => finishes = 0
    /\ request # "shutdown" => shutdowns = 0

\* Who keeps the wrapper, and the wrapper its request.
WrapperInv ==
    /\ callbackData = "alive" => "data" \in wrapperRefs
    /\ "user" \in wrapperRefs => handle = "request"
    /\ wrapperRefs # {} <=> "wrapper" \in requestRefs

IInv == SystemTypeOK /\ BundleInv /\ CallbackInv /\ WrapperInv

-----------------------------------------------------------------------------
(* An input stream *)

Calls == {"none", "read", "broken", "seek", "length", "userRead", "userSeek"}

\* Where the caller is: a stream that holds is there, and one at its end has nothing
\* left to deliver.
StreamIInv ==
    /\ pos \in 0 .. Length /\ wanted \in -1 .. Length
    /\ eofbit \in BOOLEAN /\ failbit \in BOOLEAN /\ badbit \in BOOLEAN
    /\ call \in [op : Calls, ok : BOOLEAN, bytes : Int, due : Int, count : Nat]
    /\ eofbit => wanted = Length
    /\ Stream!ReadsContinue

-----------------------------------------------------------------------------
(* Hashes, HMACs and ciphers *)

CryptoTypeOK ==
    /\ kind \in {"hash", "hmac", "cipher"}
    /\ cHandle \in [CryptoObjects -> Handles \cup {Null, Gone}]
    /\ m_good \in [CryptoObjects -> BOOLEAN]
    /\ m_lastError \in [CryptoObjects -> {"none", "library", "INVALID_STATE"}]
    /\ native \in [Handles -> {"unused", "ready", "error", "finalized", "destroyed"}]
    /\ fed \in [Handles -> Nat]
    /\ accepted \in [CryptoObjects -> Nat]
    /\ digest \in [covers : Nat, accepted : Nat]
    /\ result \in [object : CryptoObjects \cup {Null}, ok : BOOLEAN]
    /\ temporary \in Handles \cup {Null, Gone}

Unowned == {"unused", "destroyed"}

\* A C object has an owner while it is in use, and never two.
OwnerInv ==
    /\ \A o \in CryptoObjects : cHandle[o] \in Handles => native[cHandle[o]] \notin Unowned
    /\ temporary \in Handles => native[temporary] \notin Unowned
    /\ \A o, p \in CryptoObjects : cHandle[o] \in Handles /\ cHandle[o] = cHandle[p] => o = p
    /\ \A o \in CryptoObjects : cHandle[o] \in Handles => cHandle[o] # temporary
    /\ \A n \in Handles :
        native[n] \notin Unowned => temporary = n \/ \E o \in CryptoObjects : cHandle[o] = n

\* A good HMAC has a C object that takes input.
GoodInv ==
    kind = "hmac" =>
        \A o \in CryptoObjects : m_good[o] => cHandle[o] \in Handles /\ native[cHandle[o]] = "ready"

\* What an object accepted is what its C object was fed.
FedInv ==
    /\ \A o \in CryptoObjects : cHandle[o] \in Handles => fed[cHandle[o]] = accepted[o]
    /\ \A n \in Handles : native[n] = "unused" => fed[n] = 0
    /\ digest.covers = digest.accepted

CryptoIInv ==
    /\ CryptoTypeOK /\ OwnerInv /\ GoodInv /\ FedInv
    /\ Cryptography!CipherFailuresExplained

-----------------------------------------------------------------------------
(* IInv is inductive *)

\* No client, request or bundle exists at the start.
LEMMA InitIInv == SystemInit => IInv
<1> SUFFICES ASSUME SystemInit
             PROVE  IInv
  BY Zenon
<1> USE S3ClientAssumption DEF SystemInit, Init
<1>1. TypeOK
  <2>1. frees \in [Clients -> 0..MaxFrees]
    BY DEF MaxFrees
  <2>2. client \in [Clients -> {"none", "making", "failed", "alive", "released", "shutdown"}]
    BY Zenon
  <2>3. bundle \in [Clients -> {"none", "alive", "freed"}]
    BY Zenon
  <2>4. raw \in [bootstrap : BOOLEAN, retry : Pointers, shutdown : Pointers]
    BY Zenon DEF Pointers
  <2>5. callbackSet \in BOOLEAN /\ retrySet \in BOOLEAN
    BY ZenonT(60)
  <2>6. /\ making \in Pointers
        /\ \A c \in Clients : raw.shutdown = c => bundle[c] # "none"
        /\ told \in [Clients -> Pointers]
    BY Zenon DEF Pointers
  <2> QED
    BY <2>1, <2>2, <2>3, <2>4, <2>5, <2>6, Zenon DEF TypeOK
<1>2. SystemTypeOK
  BY <1>1 DEF SystemTypeOK
<1>3. BundleInv
  BY Zenon DEF BundleInv
<1>4. CallbackInv /\ WrapperInv
  BY Zenon DEF CallbackInv, WrapperInv
<1> QED
  BY <1>2, <1>3, <1>4, Zenon DEF IInv

\* Steps of the user, the constructor, the C client and the C request preserve IInv.
LEMMA NextIInv ==
  ASSUME ~CallbackMayBeCleared, IInv, [SystemNext]_systemVars
  PROVE  IInv'
<1> USE S3ClientAssumption DEF IInv, refVars
<1>1. ASSUME NEW b \in BOOLEAN, SetClientShutdownCallback(b), UNCHANGED requestVars
      PROVE  IInv'
  <2> USE <1>1 DEF SetClientShutdownCallback, requestVars
  <2>1. SystemTypeOK'
    BY DEF SystemTypeOK, TypeOK, Pointers, MaxFrees, BundleInv
  <2>2. BundleInv'
    BY Zenon DEF SystemTypeOK, TypeOK, Pointers, MaxFrees, BundleInv
  <2>3. CallbackInv' /\ WrapperInv'
    BY Zenon DEF CallbackInv, WrapperInv
  <2> QED
    BY <2>1, <2>2, <2>3, Zenon
<1>2. ASSUME NEW b \in BOOLEAN, SetRetryStrategy(b), UNCHANGED requestVars
      PROVE  IInv'
  <2> USE <1>2 DEF SetRetryStrategy, requestVars
  <2>1. SystemTypeOK'
    BY DEF SystemTypeOK, TypeOK, Pointers, MaxFrees, BundleInv
  <2>2. BundleInv'
    BY Zenon DEF SystemTypeOK, TypeOK, Pointers, MaxFrees, BundleInv
  <2>3. CallbackInv' /\ WrapperInv'
    BY Zenon DEF CallbackInv, WrapperInv
  <2> QED
    BY <2>1, <2>2, <2>3, Zenon
<1>3. ASSUME NEW c \in Clients, PrepareConfig(c), UNCHANGED requestVars
      PROVE  IInv'
  <2> USE <1>3 DEF PrepareConfig, requestVars
  <2>1. SystemTypeOK'
    BY DEF SystemTypeOK, TypeOK, Pointers, MaxFrees, BundleInv
  <2>2. BundleInv'
    BY DEF SystemTypeOK, TypeOK, Pointers, MaxFrees, BundleInv
  <2>3. CallbackInv' /\ WrapperInv'
    BY Zenon DEF CallbackInv, WrapperInv
  <2> QED
    BY <2>1, <2>2, <2>3, Zenon
<1>4. ASSUME NEW c \in Clients, NewSucceeds(c), UNCHANGED requestVars
      PROVE  IInv'
  <2> USE <1>4 DEF NewSucceeds, requestVars
  <2>1. SystemTypeOK'
    BY DEF SystemTypeOK, TypeOK, Pointers, MaxFrees, BundleInv
  <2>2. BundleInv'
    BY DEF SystemTypeOK, TypeOK, Pointers, MaxFrees, BundleInv
  <2>3. CallbackInv' /\ WrapperInv'
    BY Zenon DEF CallbackInv, WrapperInv
  <2> QED
    BY <2>1, <2>2, <2>3, Zenon
<1>5. ASSUME NEW c \in Clients, NewFails(c), UNCHANGED requestVars
      PROVE  IInv'
  <2> USE <1>5 DEF NewFails, Freed, requestVars
  <2>1. SystemTypeOK'
    BY DEF SystemTypeOK, TypeOK, Pointers, MaxFrees, BundleInv
  <2>2. BundleInv'
    BY DEF SystemTypeOK, TypeOK, Pointers, MaxFrees, BundleInv
  <2>3. CallbackInv' /\ WrapperInv'
    BY Zenon DEF CallbackInv, WrapperInv
  <2> QED
    BY <2>1, <2>2, <2>3, Zenon
<1>6. ASSUME NEW c \in Clients, ReleaseClient(c), UNCHANGED requestVars
      PROVE  IInv'
  <2> USE <1>6 DEF ReleaseClient, requestVars
  <2>1. SystemTypeOK'
    BY DEF SystemTypeOK, TypeOK, Pointers, MaxFrees, BundleInv
  <2>2. BundleInv'
    BY DEF SystemTypeOK, TypeOK, Pointers, MaxFrees, BundleInv
  <2>3. CallbackInv' /\ WrapperInv'
    BY Zenon DEF CallbackInv, WrapperInv
  <2> QED
    BY <2>1, <2>2, <2>3, Zenon
<1>7. ASSUME NEW c \in Clients, ShutdownAfterRequests(c)
      PROVE  IInv'
  <2> USE <1>7 DEF ShutdownAfterRequests, OnClientShutdown, Freed, requestVars
  <2>1. SystemTypeOK'
    BY DEF SystemTypeOK, TypeOK, Pointers, MaxFrees, BundleInv
  <2>2. BundleInv'
    BY DEF SystemTypeOK, TypeOK, Pointers, MaxFrees, BundleInv
  <2>3. CallbackInv' /\ WrapperInv'
    BY Zenon DEF CallbackInv, WrapperInv
  <2> QED
    BY <2>1, <2>2, <2>3, Zenon
<1>8. ASSUME NEW c \in Clients, MakeMetaRequest(c)
      PROVE  IInv'
  <2> USE <1>8 DEF MakeMetaRequest
  <2>1. SystemTypeOK'
    BY DEF SystemTypeOK, TypeOK, Pointers, MaxFrees, CallbackInv, vars
  <2>2. BundleInv'
    BY Zenon DEF BundleInv, vars
  <2>3. CallbackInv' /\ WrapperInv'
    BY Zenon DEF SystemTypeOK, CallbackInv, WrapperInv
  <2> QED
    BY <2>1, <2>2, <2>3, Zenon
<1>9. ASSUME NEW c \in Clients, MakeMetaRequestFails(c)
      PROVE  IInv'
  <2> USE <1>9 DEF MakeMetaRequestFails
  <2>1. SystemTypeOK'
    BY DEF SystemTypeOK, TypeOK, Pointers, MaxFrees, CallbackInv, vars
  <2>2. BundleInv'
    BY Zenon DEF BundleInv, vars
  <2>3. CallbackInv' /\ WrapperInv'
    BY Zenon DEF SystemTypeOK, CallbackInv, WrapperInv
  <2> QED
    BY <2>1, <2>2, <2>3, Zenon
<1>10. ASSUME SetUnderlyingHandle
       PROVE  IInv'
  <2> USE <1>10 DEF SetUnderlyingHandle
  <2>1. SystemTypeOK'
    BY SMTT(60) DEF SystemTypeOK, TypeOK, Pointers, MaxFrees, CallbackInv, vars
  <2>2. BundleInv'
    BY Zenon DEF BundleInv, vars
  <2>3. CallbackInv' /\ WrapperInv'
    BY Zenon DEF SystemTypeOK, CallbackInv, WrapperInv
  <2> QED
    BY <2>1, <2>2, <2>3, Zenon
<1>11. ASSUME Cancel
       PROVE  IInv'
  <2> USE <1>11 DEF Cancel
  <2>1. SystemTypeOK'
    BY SMTT(60) DEF SystemTypeOK, TypeOK, Pointers, MaxFrees, CallbackInv, vars
  <2>2. BundleInv'
    BY Zenon DEF BundleInv, vars
  <2>3. CallbackInv' /\ WrapperInv'
    BY Zenon DEF SystemTypeOK, CallbackInv, WrapperInv
  <2> QED
    BY <2>1, <2>2, <2>3, Zenon
<1>12. ASSUME UserReleases
       PROVE  IInv'
  <2> USE <1>12 DEF UserReleases, AfterWrapperDrop
  <2>1. SystemTypeOK'
    BY SMTT(60) DEF SystemTypeOK, TypeOK, Pointers, MaxFrees, CallbackInv, vars
  <2>2. BundleInv'
    BY Zenon DEF BundleInv, vars
  <2>3. CallbackInv' /\ WrapperInv'
    BY ZenonT(60) DEF SystemTypeOK, CallbackInv, WrapperInv
  <2> QED
    BY <2>1, <2>2, <2>3, Zenon
<1>13. ASSUME NEW w \in Writes, Write(w)
       PROVE  IInv'
  <2> USE <1>13 DEF Write
  <2>1. SystemTypeOK'
    BY DEF SystemTypeOK, TypeOK, Pointers, MaxFrees, CallbackInv, vars
  <2>2. BundleInv'
    BY Zenon DEF BundleInv, vars
  <2>3. CallbackInv' /\ WrapperInv'
    BY Zenon DEF SystemTypeOK, CallbackInv, WrapperInv
  <2> QED
    BY <2>1, <2>2, <2>3, Zenon
<1>14. ASSUME NEW w \in Writes, WriteCompletes(w)
       PROVE  IInv'
  <2> USE <1>14 DEF WriteCompletes
  <2>1. SystemTypeOK'
    BY SMTT(60) DEF SystemTypeOK, TypeOK, Pointers, MaxFrees, CallbackInv, vars
  <2>2. BundleInv'
    BY Zenon DEF BundleInv, vars
  <2>3. CallbackInv' /\ WrapperInv'
    BY Zenon DEF SystemTypeOK, CallbackInv, WrapperInv
  <2> QED
    BY <2>1, <2>2, <2>3, Zenon
<1>15. ASSUME BeginData
       PROVE  IInv'
  <2> USE <1>15 DEF BeginData
  <2>1. SystemTypeOK'
    BY SMTT(60) DEF SystemTypeOK, TypeOK, Pointers, MaxFrees, CallbackInv, vars
  <2>2. BundleInv'
    BY Zenon DEF BundleInv, vars
  <2>3. CallbackInv' /\ WrapperInv'
    BY Zenon DEF SystemTypeOK, CallbackInv, WrapperInv
  <2> QED
    BY <2>1, <2>2, <2>3, Zenon
<1>16. ASSUME EndData
       PROVE  IInv'
  <2> USE <1>16 DEF EndData
  <2>1. SystemTypeOK'
    BY SMTT(60) DEF SystemTypeOK, TypeOK, Pointers, MaxFrees, CallbackInv, vars
  <2>2. BundleInv'
    BY Zenon DEF BundleInv, vars
  <2>3. CallbackInv' /\ WrapperInv'
    BY Zenon DEF SystemTypeOK, CallbackInv, WrapperInv
  <2> QED
    BY <2>1, <2>2, <2>3, Zenon
<1>17. ASSUME BeginFinish
       PROVE  IInv'
  <2> USE <1>17 DEF BeginFinish
  <2>1. SystemTypeOK'
    BY SMTT(60) DEF SystemTypeOK, TypeOK, Pointers, MaxFrees, CallbackInv, vars
  <2>2. BundleInv'
    BY Zenon DEF BundleInv, vars
  <2>3. CallbackInv' /\ WrapperInv'
    BY Zenon DEF SystemTypeOK, CallbackInv, WrapperInv
  <2> QED
    BY <2>1, <2>2, <2>3, Zenon
<1>18. ASSUME EndFinish
       PROVE  IInv'
  <2> USE <1>18 DEF EndFinish
  <2>1. SystemTypeOK'
    BY SMTT(60) DEF SystemTypeOK, TypeOK, Pointers, MaxFrees, CallbackInv, vars
  <2>2. BundleInv'
    BY Zenon DEF BundleInv, vars
  <2>3. CallbackInv' /\ WrapperInv'
    BY Zenon DEF SystemTypeOK, CallbackInv, WrapperInv
  <2> QED
    BY <2>1, <2>2, <2>3, Zenon
<1>19. ASSUME ClientReleases
       PROVE  IInv'
  <2> USE <1>19 DEF ClientReleases
  <2>1. SystemTypeOK'
    BY SMTT(60) DEF SystemTypeOK, TypeOK, Pointers, MaxFrees, CallbackInv, vars
  <2>2. BundleInv'
    BY Zenon DEF BundleInv, vars
  <2>3. CallbackInv' /\ WrapperInv'
    BY Zenon DEF SystemTypeOK, CallbackInv, WrapperInv
  <2> QED
    BY <2>1, <2>2, <2>3, Zenon
<1>20. ASSUME BeginShutdown
       PROVE  IInv'
  <2> USE <1>20 DEF BeginShutdown
  <2>1. SystemTypeOK'
    BY SMTT(60) DEF SystemTypeOK, TypeOK, Pointers, MaxFrees, CallbackInv, vars
  <2>2. BundleInv'
    BY Zenon DEF BundleInv, vars
  <2>3. CallbackInv' /\ WrapperInv'
    BY Zenon DEF SystemTypeOK, CallbackInv, WrapperInv
  <2> QED
    BY <2>1, <2>2, <2>3, Zenon
<1>21. ASSUME EndShutdown
       PROVE  IInv'
  <2> USE <1>21 DEF EndShutdown, AfterWrapperDrop
  <2>1. SystemTypeOK'
    BY SMTT(60) DEF SystemTypeOK, TypeOK, Pointers, MaxFrees, CallbackInv, vars
  <2>2. BundleInv'
    BY Zenon DEF BundleInv, vars
  <2>3. CallbackInv' /\ WrapperInv'
    BY Zenon DEF SystemTypeOK, CallbackInv, WrapperInv
  <2> QED
    BY <2>1, <2>2, <2>3, Zenon
<1>22. ASSUME UNCHANGED systemVars
       PROVE  IInv'
  BY <1>22 DEF systemVars, vars, requestVars, SystemTypeOK, TypeOK, Pointers, BundleInv,
                CallbackInv, WrapperInv
<1> QED
  BY <1>1, <1>2, <1>3, <1>4, <1>5, <1>6, <1>7, <1>8, <1>9, <1>10, <1>11, <1>12, <1>13, <1>14,
     <1>15, <1>16, <1>17, <1>18, <1>19, <1>20, <1>21, <1>22, Zenon DEF SystemNext, ConfigStep,
     CallbackStep, SystemFinished

-----------------------------------------------------------------------------
(* StreamIInv is an invariant *)

\* A new stream is good and at its beginning.
LEMMA StreamInit == Stream!Init => StreamIInv
<1> SUFFICES ASSUME Stream!Init
             PROVE  StreamIInv
  BY Zenon
<1>1. pos \in 0 .. Length /\ wanted \in -1 .. Length
  BY TransfersAssumption DEF Stream!Init
<1>2. eofbit \in BOOLEAN /\ failbit \in BOOLEAN /\ badbit \in BOOLEAN /\ ~eofbit
  BY Zenon DEF Stream!Init
<1>3. /\ call \in [op : Calls, ok : BOOLEAN, bytes : Int, due : Int, count : Nat]
      /\ call.op = "none" /\ call.ok
  BY DEF Stream!Init, Calls
<1>4. Stream!ReadsContinue
  BY <1>3, Zenon DEF Stream!Init, Stream!ReadsContinue
<1> QED
  BY <1>1, <1>2, <1>3, <1>4, Zenon DEF StreamIInv

\* A read: on a good stream the caller is at the position; on one that is not, the read
\* succeeds only at the end, where nothing is due.
LEMMA StreamRead ==
  ASSUME StreamIInv, NEW room \in 0 .. Capacity, Stream!Read(room)
  PROVE  StreamIInv'
<1> DEFINE bytes == IF Stream!Good THEN Stream!Least(room, Length - pos) ELSE 0
           short == Stream!Good /\ bytes < room
           eof == eofbit \/ short
           ok == bytes > 0 \/ eof \/ (Stream!Good /\ ~short)
           due == Stream!Least(room, Length - wanted)
<1> USE TransfersAssumption
<1>1. Stream!Good => pos = wanted
  BY Zenon DEF StreamIInv, Stream!Good, Stream!ReadsContinue, Stream!Holds
<1>2. bytes \in Int /\ due \in Int /\ ok \in BOOLEAN
  BY DEF StreamIInv, Stream!Least
<1>3. /\ pos' = pos + bytes /\ wanted' = wanted + bytes
      /\ eofbit' = eof /\ failbit' = (~Stream!Good \/ short) /\ badbit' = badbit
      /\ Stream!Returns("read", ok, bytes, due, "none", "STREAM_READ_FAILED")
  BY Zenon DEF Stream!Read
<1>4. /\ call' \in [op : Calls, ok : BOOLEAN, bytes : Int, due : Int, count : Nat]
      /\ call'.ok = ok /\ call'.bytes = bytes /\ call'.due = due
      /\ ~ok => lastError' = "STREAM_READ_FAILED"
  BY <1>2, <1>3 DEF Stream!Returns, StreamIInv, Calls
<1>5. CASE Stream!Good
  <2>1. /\ bytes \in 0 .. Length - pos /\ bytes <= room
        /\ short => bytes = Length - pos
        /\ due = bytes
    BY <1>1, <1>5 DEF StreamIInv, Stream!Least
  <2>2. pos' \in 0 .. Length /\ wanted' = pos' /\ (eofbit' => wanted' = Length)
    BY <1>1, <1>3, <1>5, <2>1 DEF StreamIInv, Stream!Good
  <2>3. eofbit' \in BOOLEAN /\ failbit' \in BOOLEAN /\ badbit' \in BOOLEAN
    BY <1>3, Zenon DEF StreamIInv
  <2> HIDE DEF bytes, due, ok, eof, short
  <2>4. Stream!ReadsContinue'
    BY <1>4, <2>1, <2>2, Zenon DEF Stream!ReadsContinue
  <2> QED
    BY <1>4, <2>2, <2>3, <2>4 DEF StreamIInv
<1>6. CASE ~Stream!Good
  <2>1. bytes = 0 /\ ~short /\ (ok => eofbit)
    BY <1>6
  <2>2. ok => due = 0
    BY <2>1 DEF StreamIInv, Stream!Least
  <2>5. eofbit' \in BOOLEAN /\ failbit' \in BOOLEAN /\ (eof => eofbit)
    BY <1>3, <2>1, Zenon
  <2> HIDE DEF bytes, due, ok, eof, short
  <2>3. pos' = pos /\ wanted' = wanted
    BY <1>3, <2>1 DEF StreamIInv
  <2>6. failbit' /\ (eofbit' => eofbit)
    BY <1>3, <1>6, <2>5, Zenon
  <2>4. Stream!ReadsContinue'
    BY <1>4, <2>1, <2>2, <2>6, Zenon DEF Stream!ReadsContinue, Stream!Holds
  <2> QED
    BY <1>3, <1>4, <2>3, <2>4, <2>5, <2>6, Zenon DEF StreamIInv
<1> QED
  BY <1>5, <1>6, Zenon

\* A device that fails leaves a stream that does not hold.
LEMMA StreamDeviceFails ==
  ASSUME StreamIInv, NEW room \in 0 .. Capacity, Stream!DeviceFails(room)
  PROVE  StreamIInv'
<1> USE TransfersAssumption
<1>1. pos = wanted /\ ~eofbit
  BY Zenon DEF Stream!DeviceFails, StreamIInv, Stream!Good, Stream!ReadsContinue, Stream!Holds
<1>2. PICK bytes \in {0, Stream!Least(room, Length - pos)} :
        /\ pos' = pos + bytes
        /\ wanted' = wanted + bytes
        /\ Stream!Returns("broken", bytes > 0, bytes, bytes, "none", "STREAM_READ_FAILED")
  BY Zenon DEF Stream!DeviceFails
<1>3. bytes \in 0 .. Length - pos
  BY DEF StreamIInv, Stream!Least
<1>4. pos' \in 0 .. Length /\ wanted' \in -1 .. Length
  BY <1>1, <1>2, <1>3 DEF StreamIInv
<1>5. /\ call' \in [op : Calls, ok : BOOLEAN, bytes : Int, due : Int, count : Nat]
      /\ call'.op = "broken" /\ (~call'.ok => lastError' = "STREAM_READ_FAILED")
  <2> DEFINE ok == bytes > 0
  <2>1. ok \in BOOLEAN /\ bytes \in Int
    BY <1>3 DEF StreamIInv
  <2>2. Stream!Returns("broken", ok, bytes, bytes, "none", "STREAM_READ_FAILED")
    BY <1>2, Zenon
  <2> HIDE DEF ok
  <2> QED
    BY <2>1, <2>2 DEF Stream!Returns, StreamIInv, Calls
<1>6. badbit' = TRUE /\ eofbit' = eofbit /\ failbit' = failbit
  BY Zenon DEF Stream!DeviceFails
<1>7. Stream!ReadsContinue'
  BY <1>5, <1>6, Zenon DEF Stream!ReadsContinue, Stream!Holds
<1> QED
  BY <1>1, <1>4, <1>5, <1>6, <1>7, Zenon DEF StreamIInv

\* A seek clears all bits: it leads where the caller wants, or to a failed stream.
LEMMA StreamSeek ==
  ASSUME StreamIInv, NEW offset \in Int, NEW basis \in {"begin", "end"},
         Stream!Seek(offset, basis)
  PROVE  StreamIInv'
<1> USE TransfersAssumption
<1>1. Stream!Returns("seek", TRUE, 0, 0, "none", "STREAM_SEEK_FAILED")
  BY ZenonT(60) DEF Stream!Seek
<1>2. /\ call' \in [op : Calls, ok : BOOLEAN, bytes : Int, due : Int, count : Nat]
      /\ call'.op = "seek" /\ call'.ok
  BY <1>1 DEF Stream!Returns, StreamIInv, Calls
<1>3. /\ pos' \in 0 .. Length /\ wanted' \in -1 .. Length
      /\ ~failbit' => pos' = wanted'
  <2> DEFINE target == IF basis = "end" THEN Length + offset ELSE offset
  <2>1. /\ pos' = IF target \in 0 .. Length THEN target ELSE pos
        /\ wanted' = IF target \in 0 .. Length THEN target ELSE -1
        /\ failbit' <=> target \notin 0 .. Length
    BY Zenon DEF Stream!Seek
  <2>2. target \in Int
    OBVIOUS
  <2> HIDE DEF target
  <2> QED
    BY <2>1, <2>2 DEF StreamIInv
<1>4. failbit' \in BOOLEAN /\ eofbit' = FALSE /\ badbit' = FALSE
  BY Zenon DEF Stream!Seek
<1>5. Stream!ReadsContinue'
  BY <1>2, <1>3, Zenon DEF Stream!ReadsContinue, Stream!Holds
<1> QED
  BY <1>2, <1>3, <1>4, <1>5, Zenon DEF StreamIInv

\* The length is asked for without moving; a stream at its end fails from then on.
LEMMA StreamGetLength ==
  ASSUME StreamIInv, Stream!GetLength
  PROVE  StreamIInv'
<1>1. Stream!Returns("length", Stream!Good, 0, 0, "none", "STREAM_READ_FAILED")
  BY Zenon DEF Stream!GetLength
<1>2. Stream!Good \in BOOLEAN
  BY ZenonT(60) DEF Stream!Good
<1>3. /\ call' \in [op : Calls, ok : BOOLEAN, bytes : Int, due : Int, count : Nat]
      /\ call'.op = "length" /\ (~call'.ok => lastError' = "STREAM_READ_FAILED")
  BY <1>1, <1>2 DEF Stream!Returns, StreamIInv, Calls
<1>4. failbit' \in BOOLEAN /\ eofbit' = FALSE /\ UNCHANGED <<pos, badbit, wanted>>
  BY Zenon DEF Stream!GetLength
<1>5. ~failbit' => Stream!Good
  BY Zenon DEF Stream!GetLength
<1>6. Stream!ReadsContinue'
  BY <1>3, <1>4, <1>5, Zenon DEF StreamIInv, Stream!ReadsContinue, Stream!Holds, Stream!Good
<1> QED
  BY <1>3, <1>4, <1>6, Zenon DEF StreamIInv

\* Every call preserves StreamIInv.
LEMMA StreamNext == StreamIInv /\ [Stream!Next]_(Stream!streamVars) => StreamIInv'
<1> SUFFICES ASSUME StreamIInv, [Stream!Next]_(Stream!streamVars)
             PROVE  StreamIInv'
  BY Zenon
<1>1. ASSUME NEW op \in {"userRead", "userSeek"}, Stream!UserImplFails(op)
      PROVE  StreamIInv'
  <2>1. PICK error \in {"none", "user"} :
            Stream!Returns(op, FALSE, 0, 0, error,
                IF op = "userRead" THEN "STREAM_READ_FAILED" ELSE "STREAM_SEEK_FAILED")
    BY <1>1, ZenonT(60) DEF Stream!UserImplFails
  <2>2. /\ call' \in [op : Calls, ok : BOOLEAN, bytes : Int, due : Int, count : Nat]
        /\ call'.op = op /\ lastError' \notin {"none", "stale"}
    BY <2>1 DEF Stream!Returns, StreamIInv, Calls
  <2>3. UNCHANGED <<pos, eofbit, failbit, badbit, wanted>>
    BY <1>1, Zenon DEF Stream!UserImplFails
  <2> QED
    BY <2>2, <2>3, Zenon DEF StreamIInv, Stream!ReadsContinue, Stream!Holds
<1>2. CASE Stream!ErrorElsewhere
  BY <1>2, Zenon DEF Stream!ErrorElsewhere, StreamIInv, Stream!ReadsContinue, Stream!Holds, Calls
<1>3. CASE UNCHANGED Stream!streamVars
  BY <1>3, Zenon DEF Stream!streamVars, StreamIInv, Stream!ReadsContinue, Stream!Holds
<1>4. ASSUME NEW room \in 0 .. Capacity, Stream!Read(room) \/ Stream!DeviceFails(room)
      PROVE  StreamIInv'
  BY <1>4, StreamRead, StreamDeviceFails, Zenon
<1>5. ASSUME NEW offset \in -(Length + 1) .. Length + 1, NEW basis \in {"begin", "end"},
             Stream!Seek(offset, basis)
      PROVE  StreamIInv'
  <2>1. offset \in Int
    BY TransfersAssumption
  <2> QED
    BY <1>5, <2>1, StreamSeek, Zenon
<1> QED
  BY <1>1, <1>2, <1>3, <1>4, <1>5, StreamGetLength, Zenon DEF Stream!Next
-----------------------------------------------------------------------------
(* CryptoIInv is an invariant *)

\* An object that says it is valid has a C object that takes input.
LEMMA ValidIsReady ==
  ASSUME CryptoIInv, NEW o \in CryptoObjects, Cryptography!Valid(o)
  PROVE  cHandle[o] \in Handles /\ native[cHandle[o]] = "ready"
BY Zenon DEF CryptoIInv, CryptoTypeOK, GoodInv, Cryptography!Valid, Cryptography!HasHandle

\* No object is constructed at first.
LEMMA CryptoInit == Cryptography!Init => CryptoIInv
<1> SUFFICES ASSUME Cryptography!Init
             PROVE  CryptoIInv
  BY Zenon
<1> USE TransfersAssumption DEF Cryptography!Init
<1>1. CryptoTypeOK
  BY Zenon DEF CryptoTypeOK
<1>2. \A o \in CryptoObjects : cHandle[o] = Gone /\ Gone \notin Handles
  BY Zenon
<1>3. OwnerInv /\ GoodInv /\ FedInv
  BY <1>2, Zenon DEF OwnerInv, GoodInv, FedInv, Unowned
<1>4. Cryptography!CipherFailuresExplained
  BY Zenon DEF Cryptography!CipherFailuresExplained, Cryptography!Explained
<1> QED
  BY <1>1, <1>3, <1>4, Zenon DEF CryptoIInv

\* Creation takes a C object that nobody has, or none.
LEMMA CryptoCreate ==
  ASSUME CryptoIInv, temporary = Gone, UNCHANGED temporary, NEW o \in CryptoObjects,
         Cryptography!Create(o)
  PROVE  CryptoIInv'
<1> USE TransfersAssumption DEF CryptoIInv, Cryptography!Create, Cryptography!Returns
<1>0. temporary \notin Handles
  BY Zenon
<1>1. CryptoTypeOK'
  <2>1. cHandle' \in [CryptoObjects -> Handles \cup {Null, Gone}]
    BY DEF CryptoTypeOK
  <2>2. m_good' \in [CryptoObjects -> BOOLEAN]
    BY ZenonT(60) DEF CryptoTypeOK
  <2>3. m_lastError' \in [CryptoObjects -> {"none", "library", "INVALID_STATE"}]
    BY Zenon DEF CryptoTypeOK
  <2>4. native' \in [Handles -> {"unused", "ready", "error", "finalized", "destroyed"}]
    BY Zenon DEF CryptoTypeOK
  <2>5. result' \in [object : CryptoObjects \cup {Null}, ok : BOOLEAN]
    BY Zenon DEF CryptoTypeOK
  <2> QED
    BY <1>0, <2>1, <2>2, <2>3, <2>4, <2>5, Zenon DEF CryptoTypeOK
<1>2. OwnerInv'
  BY <1>0, SMTT(60) DEF CryptoTypeOK, OwnerInv, Unowned
<1>3. GoodInv'
  BY <1>0, SMTT(60) DEF CryptoTypeOK, OwnerInv, GoodInv, Unowned
<1>4. FedInv'
  BY <1>0, SMTT(60) DEF CryptoTypeOK, OwnerInv, FedInv, Unowned
<1>5. Cryptography!CipherFailuresExplained'
  BY <1>0, Zenon DEF CryptoTypeOK, Cryptography!CipherFailuresExplained, Cryptography!Explained
<1> QED
  BY <1>1, <1>2, <1>3, <1>4, <1>5, Zenon DEF CryptoIInv

\* The destructor destroys the C object of its owner.
LEMMA CryptoDestroy ==
  ASSUME CryptoIInv, temporary = Gone, UNCHANGED temporary, NEW o \in CryptoObjects,
         Cryptography!Destroy(o)
  PROVE  CryptoIInv'
<1> USE TransfersAssumption DEF CryptoIInv, Cryptography!Destroy, Cryptography!Exists,
        Cryptography!HasHandle, Cryptography!Returns
<1>0. temporary \notin Handles
  BY Zenon
<1>1. CryptoTypeOK'
  BY <1>0, Zenon DEF CryptoTypeOK
<1>2. OwnerInv'
  BY <1>0, SMTT(60) DEF CryptoTypeOK, OwnerInv, Unowned
<1>3. GoodInv'
  BY <1>0, SMTT(60) DEF CryptoTypeOK, OwnerInv, GoodInv, Unowned
<1>4. FedInv'
  BY <1>0 DEF CryptoTypeOK, OwnerInv, FedInv, Unowned
<1>5. Cryptography!CipherFailuresExplained'
  BY <1>0, Zenon DEF CryptoTypeOK, Cryptography!CipherFailuresExplained, Cryptography!Explained
<1> QED
  BY <1>1, <1>2, <1>3, <1>4, <1>5, Zenon DEF CryptoIInv

\* A call on a hash or HMAC that is not valid changes nothing.
LEMMA CryptoRefusedDigest ==
  ASSUME CryptoIInv, temporary = Gone, UNCHANGED temporary, NEW o \in CryptoObjects,
         Cryptography!RefusedDigest(o)
  PROVE  CryptoIInv'
<1> USE TransfersAssumption DEF CryptoIInv, Cryptography!RefusedDigest,
        Cryptography!Exists, Cryptography!Returns, Cryptography!natives
<1>0. temporary \notin Handles
  BY Zenon
<1>1. CryptoTypeOK'
  BY <1>0, Zenon DEF CryptoTypeOK
<1>2. OwnerInv'
  BY <1>0, Zenon DEF CryptoTypeOK, OwnerInv, Unowned
<1>3. GoodInv'
  BY <1>0, Zenon DEF CryptoTypeOK, OwnerInv, GoodInv, Unowned
<1>4. FedInv'
  BY <1>0, Zenon DEF CryptoTypeOK, OwnerInv, FedInv, Unowned
<1>5. Cryptography!CipherFailuresExplained'
  BY <1>0, Zenon DEF CryptoTypeOK, Cryptography!CipherFailuresExplained, Cryptography!Explained
<1> QED
  BY <1>1, <1>2, <1>3, <1>4, <1>5, Zenon DEF CryptoIInv

\* A failed update ends the use of its C object.
LEMMA CryptoUpdateFails ==
  ASSUME CryptoIInv, temporary = Gone, UNCHANGED temporary, NEW o \in CryptoObjects,
         Cryptography!UpdateFails(o)
  PROVE  CryptoIInv'
<1> USE TransfersAssumption DEF CryptoIInv, Cryptography!UpdateFails, Cryptography!Returns,
        Cryptography!Fails
<1>0. cHandle[o] \in Handles /\ native[cHandle[o]] = "ready" /\ temporary \notin Handles
  BY ValidIsReady, Zenon
<1>1. CryptoTypeOK'
  BY <1>0, Zenon DEF CryptoTypeOK
<1>2. OwnerInv'
  BY <1>0, SMTT(60) DEF CryptoTypeOK, OwnerInv, Unowned
<1>3. GoodInv'
  BY <1>0, SMTT(60) DEF CryptoTypeOK, OwnerInv, GoodInv, Unowned
<1>4. FedInv'
  BY <1>0, SMTT(60) DEF CryptoTypeOK, OwnerInv, FedInv, Unowned
<1>5. Cryptography!CipherFailuresExplained'
  BY <1>0, Zenon DEF CryptoTypeOK, Cryptography!CipherFailuresExplained, Cryptography!Explained
<1> QED
  BY <1>1, <1>2, <1>3, <1>4, <1>5, Zenon DEF CryptoIInv

\* An accepted update is fed to the C object of its owner.
LEMMA CryptoUpdate ==
  ASSUME CryptoIInv, temporary = Gone, UNCHANGED temporary, NEW o \in CryptoObjects,
         Cryptography!Update(o)
  PROVE  CryptoIInv'
<1> USE TransfersAssumption DEF CryptoIInv, Cryptography!Update, Cryptography!Returns
<1>0. cHandle[o] \in Handles /\ native[cHandle[o]] = "ready" /\ temporary \notin Handles
  BY ValidIsReady, Zenon
<1>1. CryptoTypeOK'
  BY <1>0, SMTT(60) DEF CryptoTypeOK
<1>2. OwnerInv'
  BY <1>0, Zenon DEF CryptoTypeOK, OwnerInv, Unowned
<1>3. GoodInv'
  BY <1>0, Zenon DEF CryptoTypeOK, OwnerInv, GoodInv, Unowned
<1>4. FedInv'
  BY <1>0, SMTT(60) DEF CryptoTypeOK, OwnerInv, FedInv, Unowned
<1>5. Cryptography!CipherFailuresExplained'
  BY <1>0, Zenon DEF CryptoTypeOK, Cryptography!CipherFailuresExplained, Cryptography!Explained
<1> QED
  BY <1>1, <1>2, <1>3, <1>4, <1>5, Zenon DEF CryptoIInv

\* A failed digest ends the use of an HMAC, and perhaps of a hash.
LEMMA CryptoDigestFails ==
  ASSUME CryptoIInv, temporary = Gone, UNCHANGED temporary, NEW o \in CryptoObjects,
         Cryptography!DigestFails(o)
  PROVE  CryptoIInv'
<1> USE TransfersAssumption DEF CryptoIInv, Cryptography!DigestFails, Cryptography!Returns,
        Cryptography!Fails
<1>0. cHandle[o] \in Handles /\ native[cHandle[o]] = "ready" /\ temporary \notin Handles
  BY ValidIsReady, ZenonT(60)
<1>1. CryptoTypeOK'
  BY <1>0, Zenon DEF CryptoTypeOK
<1>2. OwnerInv'
  BY <1>0, SMTT(60) DEF CryptoTypeOK, OwnerInv, Unowned
<1>3. GoodInv'
  BY <1>0, SMTT(60) DEF CryptoTypeOK, OwnerInv, GoodInv, Unowned
<1>4. FedInv'
  BY <1>0, SMTT(60) DEF CryptoTypeOK, OwnerInv, FedInv, Unowned
<1>5. Cryptography!CipherFailuresExplained'
  BY <1>0, Zenon DEF CryptoTypeOK, Cryptography!CipherFailuresExplained, Cryptography!Explained
<1> QED
  BY <1>1, <1>2, <1>3, <1>4, <1>5, Zenon DEF CryptoIInv

\* A digest covers what the C object was fed.
LEMMA CryptoDigest ==
  ASSUME CryptoIInv, temporary = Gone, UNCHANGED temporary, NEW o \in CryptoObjects,
         Cryptography!Digest(o)
  PROVE  CryptoIInv'
<1> USE TransfersAssumption DEF CryptoIInv, Cryptography!Digest, Cryptography!Returns
<1>0. cHandle[o] \in Handles /\ native[cHandle[o]] = "ready" /\ temporary \notin Handles
  BY ValidIsReady, Zenon
<1>1. CryptoTypeOK'
  BY <1>0, Zenon DEF CryptoTypeOK
<1>2. OwnerInv'
  BY <1>0, SMTT(60) DEF CryptoTypeOK, OwnerInv, Unowned
<1>3. GoodInv'
  BY <1>0, SMTT(60) DEF CryptoTypeOK, OwnerInv, GoodInv, Unowned
<1>4. FedInv'
  BY <1>0, SMTT(60) DEF CryptoTypeOK, OwnerInv, FedInv, Unowned
<1>5. Cryptography!CipherFailuresExplained'
  BY <1>0, Zenon DEF CryptoTypeOK, Cryptography!CipherFailuresExplained, Cryptography!Explained
<1> QED
  BY <1>1, <1>2, <1>3, <1>4, <1>5, ZenonT(60) DEF CryptoIInv

\* Update() and Digest() in one.
LEMMA CryptoComputeOneShot ==
  ASSUME CryptoIInv, temporary = Gone, UNCHANGED temporary, NEW o \in CryptoObjects,
         Cryptography!ComputeOneShot(o)
  PROVE  CryptoIInv'
<1> USE TransfersAssumption DEF CryptoIInv, Cryptography!ComputeOneShot,
        Cryptography!Returns
<1>0. cHandle[o] \in Handles /\ native[cHandle[o]] = "ready" /\ temporary \notin Handles
  BY ValidIsReady, Zenon
<1>1. CryptoTypeOK'
  BY <1>0, SMTT(60) DEF CryptoTypeOK
<1>2. OwnerInv'
  BY <1>0, SMTT(60) DEF CryptoTypeOK, OwnerInv, Unowned
<1>3. GoodInv'
  BY <1>0, SMTT(60) DEF CryptoTypeOK, OwnerInv, GoodInv, Unowned
<1>4. FedInv'
  BY <1>0, SMTT(60) DEF CryptoTypeOK, OwnerInv, FedInv, Unowned
<1>5. Cryptography!CipherFailuresExplained'
  BY <1>0, Zenon DEF CryptoTypeOK, Cryptography!CipherFailuresExplained, Cryptography!Explained
<1> QED
  BY <1>1, <1>2, <1>3, <1>4, <1>5, Zenon DEF CryptoIInv

\* A cipher that is not valid says so.
LEMMA CryptoRefusedCipher ==
  ASSUME CryptoIInv, temporary = Gone, UNCHANGED temporary, NEW o \in CryptoObjects,
         Cryptography!RefusedCipher(o)
  PROVE  CryptoIInv'
<1> USE TransfersAssumption DEF CryptoIInv, Cryptography!RefusedCipher,
        Cryptography!Exists, Cryptography!Returns, Cryptography!Fails, Cryptography!natives
<1>0. temporary \notin Handles
  BY ZenonT(60)
<1>1. CryptoTypeOK'
  BY <1>0, Zenon DEF CryptoTypeOK
<1>2. OwnerInv'
  BY <1>0, Zenon DEF CryptoTypeOK, OwnerInv, Unowned
<1>3. GoodInv'
  BY <1>0, Zenon DEF CryptoTypeOK, OwnerInv, GoodInv, Unowned
<1>4. FedInv'
  BY <1>0, Zenon DEF CryptoTypeOK, OwnerInv, FedInv, Unowned
<1>5. Cryptography!CipherFailuresExplained'
  BY <1>0, Zenon DEF CryptoTypeOK, Cryptography!CipherFailuresExplained, Cryptography!Explained
<1> QED
  BY <1>1, <1>2, <1>3, <1>4, <1>5, ZenonT(60) DEF CryptoIInv

\* A cipher that fails keeps the error of the library.
LEMMA CryptoCipherFails ==
  ASSUME CryptoIInv, temporary = Gone, UNCHANGED temporary, NEW o \in CryptoObjects,
         Cryptography!CipherFails(o)
  PROVE  CryptoIInv'
<1> USE TransfersAssumption DEF CryptoIInv, Cryptography!CipherFails, Cryptography!Returns,
        Cryptography!Fails
<1>0. cHandle[o] \in Handles /\ native[cHandle[o]] = "ready" /\ temporary \notin Handles
  BY ValidIsReady, Zenon
<1>1. CryptoTypeOK'
  BY <1>0, Zenon DEF CryptoTypeOK
<1>2. OwnerInv'
  BY <1>0, SMTT(60) DEF CryptoTypeOK, OwnerInv, Unowned
<1>3. GoodInv'
  BY <1>0, Zenon DEF CryptoTypeOK, OwnerInv, GoodInv, Unowned
<1>4. FedInv'
  BY <1>0, SMTT(60) DEF CryptoTypeOK, OwnerInv, FedInv, Unowned
<1>5. Cryptography!CipherFailuresExplained'
  BY <1>0, Zenon DEF CryptoTypeOK, Cryptography!CipherFailuresExplained, Cryptography!Explained
<1> QED
  BY <1>1, <1>2, <1>3, <1>4, <1>5, Zenon DEF CryptoIInv

\* What a cipher accepts is fed to its C object.
LEMMA CryptoProcess ==
  ASSUME CryptoIInv, temporary = Gone, UNCHANGED temporary, NEW o \in CryptoObjects,
         Cryptography!Process(o)
  PROVE  CryptoIInv'
<1> USE TransfersAssumption DEF CryptoIInv, Cryptography!Process, Cryptography!Returns
<1>0. cHandle[o] \in Handles /\ native[cHandle[o]] = "ready" /\ temporary \notin Handles
  BY ValidIsReady, ZenonT(60)
<1>1. CryptoTypeOK'
  BY <1>0, SMTT(60) DEF CryptoTypeOK
<1>2. OwnerInv'
  BY <1>0, Zenon DEF CryptoTypeOK, OwnerInv, Unowned
<1>3. GoodInv'
  BY <1>0, Zenon DEF CryptoTypeOK, OwnerInv, GoodInv, Unowned
<1>4. FedInv'
  BY <1>0, SMTT(60) DEF CryptoTypeOK, OwnerInv, FedInv, Unowned
<1>5. Cryptography!CipherFailuresExplained'
  BY <1>0, Zenon DEF CryptoTypeOK, Cryptography!CipherFailuresExplained, Cryptography!Explained
<1> QED
  BY <1>1, <1>2, <1>3, <1>4, <1>5, Zenon DEF CryptoIInv

\* The end of a cipher covers what its C object was fed.
LEMMA CryptoFinalize ==
  ASSUME CryptoIInv, temporary = Gone, UNCHANGED temporary, NEW o \in CryptoObjects,
         Cryptography!Finalize(o)
  PROVE  CryptoIInv'
<1> USE TransfersAssumption DEF CryptoIInv, Cryptography!Finalize, Cryptography!Returns
<1>0. cHandle[o] \in Handles /\ native[cHandle[o]] = "ready" /\ temporary \notin Handles
  BY ValidIsReady, Zenon
<1>1. CryptoTypeOK'
  BY <1>0, Zenon DEF CryptoTypeOK
<1>2. OwnerInv'
  BY <1>0, SMTT(60) DEF CryptoTypeOK, OwnerInv, Unowned
<1>3. GoodInv'
  BY <1>0, Zenon DEF CryptoTypeOK, OwnerInv, GoodInv, Unowned
<1>4. FedInv'
  BY <1>0, SMTT(60) DEF CryptoTypeOK, OwnerInv, FedInv, Unowned
<1>5. Cryptography!CipherFailuresExplained'
  BY <1>0, Zenon DEF CryptoTypeOK, Cryptography!CipherFailuresExplained, Cryptography!Explained
<1> QED
  BY <1>1, <1>2, <1>3, <1>4, <1>5, ZenonT(60) DEF CryptoIInv

\* A cipher starts anew, with its C object.
LEMMA CryptoReset ==
  ASSUME CryptoIInv, temporary = Gone, UNCHANGED temporary, NEW o \in CryptoObjects,
         Cryptography!Reset(o)
  PROVE  CryptoIInv'
<1> USE TransfersAssumption DEF CryptoIInv, Cryptography!Reset, Cryptography!HasHandle,
        Cryptography!Returns
<1>0. temporary \notin Handles
  BY Zenon
<1>1. CryptoTypeOK'
  BY <1>0, Zenon DEF CryptoTypeOK
<1>2. OwnerInv'
  BY <1>0, SMTT(60) DEF CryptoTypeOK, OwnerInv, Unowned
<1>3. GoodInv'
  BY <1>0, Zenon DEF CryptoTypeOK, OwnerInv, GoodInv, Unowned
<1>4. FedInv'
  BY <1>0, SMTT(60) DEF CryptoTypeOK, OwnerInv, FedInv, Unowned
<1>5. Cryptography!CipherFailuresExplained'
  BY <1>0, Zenon DEF CryptoTypeOK, Cryptography!CipherFailuresExplained, Cryptography!Explained
<1> QED
  BY <1>1, <1>2, <1>3, <1>4, <1>5, ZenonT(60) DEF CryptoIInv

\* A reset that fails leaves an error.
LEMMA CryptoResetFails ==
  ASSUME CryptoIInv, temporary = Gone, UNCHANGED temporary, NEW o \in CryptoObjects,
         Cryptography!ResetFails(o)
  PROVE  CryptoIInv'
<1> USE TransfersAssumption DEF CryptoIInv, Cryptography!ResetFails, Cryptography!Exists,
        Cryptography!HasHandle, Cryptography!Returns, Cryptography!Fails, Cryptography!natives
<1>0. temporary \notin Handles
  BY Zenon
<1>1. CryptoTypeOK'
  BY <1>0, Zenon DEF CryptoTypeOK
<1>2. OwnerInv'
  BY <1>0, Zenon DEF CryptoTypeOK, OwnerInv, Unowned
<1>3. GoodInv'
  BY <1>0, Zenon DEF CryptoTypeOK, OwnerInv, GoodInv, Unowned
<1>4. FedInv'
  BY <1>0, Zenon DEF CryptoTypeOK, OwnerInv, FedInv, Unowned
<1>5. Cryptography!CipherFailuresExplained'
  BY <1>0, Zenon DEF CryptoTypeOK, Cryptography!CipherFailuresExplained, Cryptography!Explained
<1> QED
  BY <1>1, <1>2, <1>3, <1>4, <1>5, Zenon DEF CryptoIInv

\* The move constructor passes the C object on, with what was accepted.
LEMMA CryptoMove ==
  ASSUME CryptoIInv, temporary = Gone, UNCHANGED temporary, NEW o \in CryptoObjects,
         NEW p \in CryptoObjects,
         Cryptography!Move(o, p)
  PROVE  CryptoIInv'
<1> USE TransfersAssumption DEF CryptoIInv, Cryptography!Move, Cryptography!Exists,
        Cryptography!Returns, Cryptography!natives
<1>0. temporary \notin Handles
  BY Zenon
<1>1. CryptoTypeOK'
  BY <1>0, Zenon DEF CryptoTypeOK
<1>2. OwnerInv'
  BY <1>0, SMTT(60) DEF CryptoTypeOK, OwnerInv, Unowned
<1>3. GoodInv'
  BY <1>0, SMTT(60) DEF CryptoTypeOK, OwnerInv, GoodInv, Unowned
<1>4. FedInv'
  BY <1>0, SMTT(60) DEF CryptoTypeOK, OwnerInv, FedInv, Unowned
<1>5. Cryptography!CipherFailuresExplained'
  BY <1>0, Zenon DEF CryptoTypeOK, Cryptography!CipherFailuresExplained, Cryptography!Explained
<1> QED
  BY <1>1, <1>2, <1>3, <1>4, <1>5, Zenon DEF CryptoIInv

\* The move assignment of a cipher destroys what was there before.
LEMMA CryptoMoveAssignCipher ==
  ASSUME CryptoIInv, temporary = Gone, UNCHANGED temporary, NEW o \in CryptoObjects,
         NEW p \in CryptoObjects,
         Cryptography!MoveAssignCipher(o, p)
  PROVE  CryptoIInv'
<1> USE TransfersAssumption DEF CryptoIInv, Cryptography!MoveAssignCipher,
        Cryptography!Exists, Cryptography!HasHandle, Cryptography!Returns
<1>0. temporary \notin Handles
  BY Zenon
<1>1. CryptoTypeOK'
  BY <1>0, Zenon DEF CryptoTypeOK
<1>2. OwnerInv'
  BY <1>0, SMTT(60) DEF CryptoTypeOK, OwnerInv, Unowned
<1>3. GoodInv'
  BY <1>0, Zenon DEF CryptoTypeOK, OwnerInv, GoodInv, Unowned
<1>4. FedInv'
  BY <1>0, SMTT(60) DEF CryptoTypeOK, OwnerInv, FedInv, Unowned
<1>5. Cryptography!CipherFailuresExplained'
  BY <1>0, Zenon DEF CryptoTypeOK, Cryptography!CipherFailuresExplained, Cryptography!Explained
<1> QED
  BY <1>1, <1>2, <1>3, <1>4, <1>5, Zenon DEF CryptoIInv

\* A one-shot function has its C object to itself.
LEMMA CryptoCompute ==
  ASSUME CryptoIInv, temporary = Gone, UNCHANGED temporary, NEW n \in Handles,
         Cryptography!Compute(n)
  PROVE  CryptoIInv'
<1> USE TransfersAssumption DEF CryptoIInv, Cryptography!Compute, Cryptography!Returns
<1>0. temporary \notin Handles
  BY Zenon
<1>1. CryptoTypeOK'
  <2>1. native' \in [Handles -> {"unused", "ready", "error", "finalized", "destroyed"}]
    BY Zenon DEF CryptoTypeOK
  <2>2. fed' \in [Handles -> Nat]
    BY SMTT(60) DEF CryptoTypeOK
  <2>3. digest' \in [covers : Nat, accepted : Nat]
    BY SMTT(60) DEF CryptoTypeOK
  <2>4. result' \in [object : CryptoObjects \cup {Null}, ok : BOOLEAN]
    <3>1. \E b \in BOOLEAN : result' = [object |-> Null, ok |-> b]
      BY ZenonT(60)
    <3> QED
      BY <3>1
  <2> QED
    BY <1>0, <2>1, <2>2, <2>3, <2>4, Zenon DEF CryptoTypeOK
<1>2. OwnerInv'
  BY <1>0, SMTT(60) DEF CryptoTypeOK, OwnerInv, Unowned
<1>3. GoodInv'
  BY <1>0, Zenon DEF CryptoTypeOK, OwnerInv, GoodInv, Unowned
<1>4. FedInv'
  BY <1>0, SMTT(60) DEF CryptoTypeOK, OwnerInv, FedInv, Unowned
<1>5. Cryptography!CipherFailuresExplained'
  BY <1>0, Zenon DEF CryptoTypeOK, Cryptography!CipherFailuresExplained, Cryptography!Explained
<1> QED
  BY <1>1, <1>2, <1>3, <1>4, <1>5, Zenon DEF CryptoIInv

\* The move assignment of a hash or HMAC leaves the C object with a temporary.
LEMMA CryptoMoveAssignDigest ==
  ASSUME CryptoIInv, temporary = Gone, NEW o \in CryptoObjects, NEW p \in CryptoObjects,
         Cryptography!MoveAssignDigest(o, p)
  PROVE  CryptoIInv'
<1> USE TransfersAssumption DEF CryptoIInv, Cryptography!MoveAssignDigest,
                                    Cryptography!Exists, Cryptography!natives
<1>1. CryptoTypeOK'
  BY Zenon DEF CryptoTypeOK
<1>2. OwnerInv'
  BY SMTT(60) DEF CryptoTypeOK, OwnerInv, Unowned
<1>3. GoodInv'
  BY Zenon DEF CryptoTypeOK, GoodInv
<1>4. FedInv'
  BY Zenon DEF CryptoTypeOK, FedInv
<1>5. Cryptography!CipherFailuresExplained'
  BY Zenon DEF CryptoTypeOK, Cryptography!CipherFailuresExplained
<1> QED
  BY <1>1, <1>2, <1>3, <1>4, <1>5, Zenon DEF CryptoIInv

\* Every operation preserves CryptoIInv, on objects in any state.
LEMMA CryptoNext == CryptoIInv /\ [Cryptography!Next]_(Cryptography!cryptoVars) => CryptoIInv'
<1> SUFFICES ASSUME CryptoIInv, [Cryptography!Next]_(Cryptography!cryptoVars)
             PROVE  CryptoIInv'
  BY Zenon
<1>1. CASE UNCHANGED Cryptography!cryptoVars
  BY <1>1, ZenonT(60) DEF Cryptography!cryptoVars, CryptoIInv, CryptoTypeOK, OwnerInv, GoodInv,
         FedInv, Cryptography!CipherFailuresExplained, Cryptography!Explained
<1>2. CASE temporary = Gone /\ Cryptography!Operation /\ UNCHANGED temporary
  BY <1>2, CryptoCreate, CryptoDestroy, CryptoRefusedDigest, CryptoUpdateFails, CryptoUpdate,
     CryptoDigestFails, CryptoDigest, CryptoComputeOneShot, CryptoRefusedCipher, CryptoCipherFails,
     CryptoProcess, CryptoFinalize, CryptoReset, CryptoResetFails, CryptoMove,
     CryptoMoveAssignCipher, CryptoCompute, ZenonT(60) DEF Cryptography!Operation
<1>3. ASSUME temporary = Gone, NEW o \in CryptoObjects, NEW p \in CryptoObjects,
             Cryptography!MoveAssignDigest(o, p)
      PROVE  CryptoIInv'
  BY <1>3, CryptoMoveAssignDigest, Zenon
<1> QED
  BY <1>1, <1>2, <1>3, Zenon DEF Cryptography!Next

\* The owners of a C object are none or one.
LEMMA CryptoIInvIsEnough == CryptoIInv => CryptoIsSound
<1> SUFFICES ASSUME CryptoIInv
             PROVE  CryptoIsSound
  BY Zenon
<1>1. ASSUME NEW n \in Handles, native[n] \in Unowned
      PROVE  Cryptography!Owners(n) = {}
  BY <1>1, ZenonT(60) DEF CryptoIInv, OwnerInv, Cryptography!Owners
<1>2. ASSUME NEW n \in Handles, native[n] \notin Unowned
      PROVE  \E x \in CryptoObjects \cup {Gone} : Cryptography!Owners(n) = {x}
  <2>1. CASE temporary = n
    <3>1. Cryptography!Owners(n) = {Gone}
      BY <1>2, <2>1, Zenon DEF CryptoIInv, OwnerInv, Cryptography!Owners
    <3> QED
      BY <3>1, Zenon
  <2>2. CASE temporary # n
    <3>1. PICK o \in CryptoObjects : cHandle[o] = n
      BY <1>2, <2>2, Zenon DEF CryptoIInv, OwnerInv
    <3>2. Cryptography!Owners(n) = {o}
      BY <1>2, <2>2, <3>1, Zenon DEF CryptoIInv, OwnerInv, Cryptography!Owners
    <3> QED
      BY <3>2, Zenon
  <2> QED
    BY <2>1, <2>2, Zenon
<1>3. \A o \in CryptoObjects : Cryptography!Valid(o) => native[cHandle[o]] = "ready"
  BY ValidIsReady, Zenon
<1>4. digest.covers = digest.accepted
  BY Zenon DEF CryptoIInv, FedInv
<1>5. Cryptography!DigestsAreSound
  BY <1>1, <1>2, <1>3, <1>4, Zenon DEF Cryptography!DigestsAreSound, Unowned
<1> QED
  BY <1>5, Zenon DEF CryptoIInv, CryptoIsSound

-----------------------------------------------------------------------------
(* The properties of Transfers *)

\* What a behaviour of Transfers does to a component is a behaviour of that component.
LEMMA TransfersComponents == TransfersSpec => SystemSpec /\ Stream!Spec /\ Cryptography!Spec
<1>1. TransfersInit => SystemInit /\ Stream!Init /\ Cryptography!Init
  BY Zenon DEF TransfersInit
<1>2. [TransfersNext]_transfersVars =>
        /\ [SystemNext]_systemVars
        /\ [Stream!Next]_(Stream!streamVars)
        /\ [Cryptography!Next]_(Cryptography!cryptoVars)
  BY Zenon DEF TransfersNext, transfersVars, streamVars, cryptoVars, Stream!streamVars,
     Cryptography!cryptoVars
<1> QED
  BY <1>1, <1>2, PTL DEF TransfersSpec, SystemSpec, Stream!Spec, Cryptography!Spec

\* The invariant of every behaviour in which the callback is not cleared.
THEOREM Invariance ==
  ASSUME ~CallbackMayBeCleared
  PROVE  TransfersSpec => []IInv
<1>1. SystemInit => IInv
  BY InitIInv, Zenon
<1>2. IInv /\ [SystemNext]_systemVars => IInv'
  BY NextIInv, Zenon
<1> QED
  BY <1>1, <1>2, TransfersComponents, PTL DEF SystemSpec

\* Every callback of a meta request finds its S3MetaRequestCallbackData, every user of a
\* wrapper the request, and the shutdown of every client the bundle made for it.
THEOREM CallbacksAlwaysFindData ==
  ASSUME ~CallbackMayBeCleared
  PROVE  TransfersSpec => []S3CallbacksFindData
<1>1. ASSUME IInv
      PROVE  S3CallbacksFindData
  <2>1. DataOutlivesCallbacks
    BY <1>1, Zenon DEF IInv, SystemTypeOK, CallbackInv, DataOutlivesCallbacks
  <2>2. WrapperOwnsRequest
    BY <1>1, Zenon DEF IInv, WrapperInv, WrapperOwnsRequest
  <2>3. ShutdownDataIsLive
    BY <1>1, Zenon DEF IInv, BundleInv, ShutdownDataIsLive
  <2> QED
    BY <2>1, <2>2, <2>3, Zenon DEF S3CallbacksFindData
<1> QED
  BY <1>1, Invariance, PTL

\* The bundle of a construction is freed once, by its failure or by the shutdown of its
\* client, as long as the shutdown callback of the config is not cleared in between.
THEOREM BundlesAreFreedOnce ==
  ASSUME ~CallbackMayBeCleared
  PROVE  TransfersSpec => []BundleFreedOnce
<1>1. ASSUME IInv
      PROVE  BundleFreedOnce
  <2> SUFFICES ASSUME NEW c \in Clients
               PROVE  frees[c] <= 1
    BY ZenonT(60) DEF BundleFreedOnce
  <2>1. frees[c] \in {0, 1}
    BY <1>1, Zenon DEF IInv, BundleInv
  <2>2. \A n \in {0, 1} : n <= 1
    OBVIOUS
  <2> QED
    BY <2>1, <2>2, Zenon
<1> QED
  BY <1>1, Invariance, PTL

\* A read through s_Read delivers what is due, whatever order of reads, seeks, length
\* queries and device failures led there, in a stream of any length; and a call that fails
\* leaves an error of its own.
THEOREM ReadsAlwaysContinue == TransfersSpec => []ReadsContinue
<1>1. StreamIInv => ReadsContinue
  BY Zenon DEF StreamIInv, ReadsContinue
<1> QED
  BY <1>1, StreamInit, StreamNext, TransfersComponents, PTL DEF Stream!Spec

\* Hash, HMAC and SymmetricCipher: any number of objects, moved, reset, destroyed and used
\* beyond their end, own one C object each, and a digest covers what its object accepted;
\* a cipher that refuses says why.
THEOREM CryptoIsAlwaysSound == TransfersSpec => []CryptoIsSound
BY CryptoInit, CryptoNext, CryptoIInvIsEnough, TransfersComponents, PTL DEF Cryptography!Spec

=============================================================================
