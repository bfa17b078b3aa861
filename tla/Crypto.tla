------------------------------- MODULE Crypto -------------------------------
(***************************************************************************)
(* The streaming objects of Aws::Crt::Crypto: Hash, HMAC and               *)
(* SymmetricCipher, each an owner of one C object, and the C objects that  *)
(* are implemented in C++ (ByoHash, ByoHMAC) and own themselves until they *)
(* are destroyed.  A behaviour is about one of the classes; its objects    *)
(* are created, moved, used beyond their end and destroyed in any order.   *)
(***************************************************************************)
EXTENDS Naturals

CONSTANTS
    Objects,      \* C++ objects
    Handles,      \* C objects, each created once
    MaxUpdates,   \* bound on the updates of one C object
    Null,         \* a null handle
    Gone          \* an object that is not constructed

VARIABLES
    kind,         \* "hash", "hmac" or "cipher"
    byo,          \* the C objects are implemented in C++
    handle,       \* m_hash, m_hmac, m_cipher
    m_good,       \* of an HMAC
    m_lastError,
    native,       \* state of each C object
    fed,          \* updates a C object has taken since it was new
    accepted,     \* updates for which an object returned true
    digest,       \* updates covered by the last digest, and those accepted
    result,       \* the last call: its object, and whether it returned true
    temporary     \* what the temporary of a move assignment that runs holds, or Gone

cryptoVars ==
    <<kind, byo, handle, m_good, m_lastError, native, fed, accepted, digest, result, temporary>>

natives == <<native, fed>>

Init ==
    /\ kind \in {"hash", "hmac", "cipher"}
    /\ byo \in BOOLEAN /\ (kind = "cipher" => ~byo)
    /\ handle = [o \in Objects |-> Gone]
    /\ m_good = [o \in Objects |-> FALSE]
    /\ m_lastError = [o \in Objects |-> "none"]
    /\ native = [n \in Handles |-> "unused"]
    /\ fed = [n \in Handles |-> 0]
    /\ accepted = [o \in Objects |-> 0]
    /\ digest = [covers |-> 0, accepted |-> 0]
    /\ result = [object |-> Null, ok |-> TRUE]
    /\ temporary = Gone

Exists(o) == handle[o] # Gone

HasHandle(o) == handle[o] \in Handles

\* operator bool: an HMAC has a flag of its own, the others ask the C object.
Valid(o) == IF kind = "hmac" THEN m_good[o] ELSE HasHandle(o) /\ native[handle[o]] = "ready"

Returns(o, ok) == result' = [object |-> o, ok |-> ok]

Fails(o, error) ==
    /\ m_lastError' = [m_lastError EXCEPT ![o] = error]
    /\ Returns(o, FALSE)

-----------------------------------------------------------------------------
(* Creation, moves and destruction *)

\* The C object may not be made, and then its error is kept.
Create(o) ==
    /\ handle[o] = Gone
    /\ \/ \E n \in Handles :
            /\ native[n] = "unused"
            /\ native' = [native EXCEPT ![n] = "ready"]
            /\ handle' = [handle EXCEPT ![o] = n]
            /\ m_good' = [m_good EXCEPT ![o] = TRUE]
            /\ m_lastError' = [m_lastError EXCEPT ![o] = "none"]
       \/ /\ handle' = [handle EXCEPT ![o] = Null]
          /\ m_good' = [m_good EXCEPT ![o] = FALSE]
          /\ m_lastError' = [m_lastError EXCEPT ![o] = "library"]
          /\ UNCHANGED native
    /\ accepted' = [accepted EXCEPT ![o] = 0]
    /\ Returns(o, TRUE)
    /\ UNCHANGED <<kind, byo, fed, digest>>

\* Mutant of Move: the source keeps the handle too.
MoveKeepsHandle(o, p) ==
    /\ handle[o] = Gone /\ Exists(p)
    /\ handle' = [handle EXCEPT ![o] = handle[p]]
    /\ m_good' = [m_good EXCEPT ![o] = m_good[p], ![p] = FALSE]
    /\ m_lastError' = [m_lastError EXCEPT ![o] = m_lastError[p]]
    /\ accepted' = [accepted EXCEPT ![o] = accepted[p], ![p] = 0]
    /\ Returns(o, TRUE)
    /\ UNCHANGED <<kind, byo, natives, digest>>

\* The move constructor.
Move(o, p) ==
    /\ handle[o] = Gone /\ Exists(p)
    /\ handle' = [handle EXCEPT ![o] = handle[p], ![p] = Null]
    /\ m_good' = [m_good EXCEPT ![o] = m_good[p], ![p] = FALSE]
    /\ m_lastError' = [m_lastError EXCEPT ![o] = m_lastError[p]]
    /\ accepted' = [accepted EXCEPT ![o] = accepted[p], ![p] = 0]
    /\ Returns(o, TRUE)
    /\ UNCHANGED <<kind, byo, natives, digest>>

\* Releasing the handle of a C++ implementation drops its reference to itself.
Destroy(o) ==
    /\ Exists(o)
    /\ native' = IF HasHandle(o) THEN [native EXCEPT ![handle[o]] = "destroyed"] ELSE native
    /\ handle' = [handle EXCEPT ![o] = Gone]
    /\ m_good' = [m_good EXCEPT ![o] = FALSE]
    /\ Returns(Null, TRUE)
    /\ UNCHANGED <<kind, byo, m_lastError, fed, accepted, digest>>

\* operator= of Hash and HMAC moves its argument to a temporary and assigns that to
\* *this, which is operator= again: it moves from temporary to temporary and neither
\* returns nor touches *this.
MoveAssignDigest(o, p) ==
    /\ kind # "cipher" /\ o # p /\ Exists(o) /\ Exists(p)
    /\ temporary' = handle[p]
    /\ handle' = [handle EXCEPT ![p] = Null]
    /\ m_good' = [m_good EXCEPT ![p] = FALSE]
    /\ UNCHANGED <<kind, byo, m_lastError, natives, accepted, digest, result>>

\* The move assignment of a cipher is that of its unique pointer.
MoveAssignCipher(o, p) ==
    /\ kind = "cipher" /\ o # p /\ Exists(o) /\ Exists(p)
    /\ native' = IF HasHandle(o) THEN [native EXCEPT ![handle[o]] = "destroyed"] ELSE native
    /\ handle' = [handle EXCEPT ![o] = handle[p], ![p] = Null]
    /\ m_lastError' = [m_lastError EXCEPT ![o] = m_lastError[p]]
    /\ accepted' = [accepted EXCEPT ![o] = accepted[p], ![p] = 0]
    /\ Returns(o, TRUE)
    /\ UNCHANGED <<kind, byo, m_good, fed, digest>>

-----------------------------------------------------------------------------
(* Hash and HMAC *)

\* Update(), Digest() and ComputeOneShot() on an object that is not valid.
RefusedDigest(o) ==
    /\ kind # "cipher" /\ Exists(o) /\ ~Valid(o)
    /\ Returns(o, FALSE)
    /\ UNCHANGED <<kind, byo, handle, m_good, m_lastError, natives, accepted, digest>>

\* The C object, or UpdateInternal() of the C++ one, fails and is unusable from then on.
UpdateFails(o) ==
    /\ kind # "cipher" /\ Valid(o)
    /\ native' = [native EXCEPT ![handle[o]] = "error"]
    /\ m_good' = [m_good EXCEPT ![o] = FALSE]
    /\ Fails(o, "library")
    /\ UNCHANGED <<kind, byo, handle, fed, accepted, digest>>

Update(o) ==
    /\ kind # "cipher" /\ Valid(o)
    /\ fed[handle[o]] < MaxUpdates
    /\ fed' = [fed EXCEPT ![handle[o]] = @ + 1]
    /\ accepted' = [accepted EXCEPT ![o] = @ + 1]
    /\ Returns(o, TRUE)
    /\ UNCHANGED <<kind, byo, handle, m_good, m_lastError, native, digest>>

\* An HMAC is not good after Digest(), whatever it returns.  A hash of the C library
\* may still be good when its output did not fit; a C++ one never is.
DigestFails(o) ==
    /\ kind # "cipher" /\ Valid(o)
    /\ native' \in {[native EXCEPT ![handle[o]] = "finalized"]} \cup (IF byo THEN {} ELSE {native})
    /\ m_good' = [m_good EXCEPT ![o] = FALSE]
    /\ Fails(o, "library")
    /\ UNCHANGED <<kind, byo, handle, fed, accepted, digest>>

Digest(o) ==
    /\ kind # "cipher" /\ Valid(o)
    /\ native' = [native EXCEPT ![handle[o]] = "finalized"]
    /\ m_good' = [m_good EXCEPT ![o] = FALSE]
    /\ digest' = [covers |-> fed[handle[o]], accepted |-> accepted[o]]
    /\ Returns(o, TRUE)
    /\ UNCHANGED <<kind, byo, handle, m_lastError, fed, accepted>>

\* ComputeOneShot() goes on to Digest() only after Update() returned true.
ComputeOneShot(o) ==
    /\ kind # "cipher" /\ Valid(o)
    /\ fed[handle[o]] < MaxUpdates
    /\ fed' = [fed EXCEPT ![handle[o]] = @ + 1]
    /\ accepted' = [accepted EXCEPT ![o] = @ + 1]
    /\ native' = [native EXCEPT ![handle[o]] = "finalized"]
    /\ m_good' = [m_good EXCEPT ![o] = FALSE]
    /\ digest' = [covers |-> fed'[handle[o]], accepted |-> accepted'[o]]
    /\ Returns(o, TRUE)
    /\ UNCHANGED <<kind, byo, handle, m_lastError>>

\* ComputeSHA256() and the other free functions use an object of their own.
Compute(n) ==
    /\ kind # "cipher" /\ native[n] = "unused"
    /\ native' = [native EXCEPT ![n] = "destroyed"]
    /\ \/ /\ fed' = [fed EXCEPT ![n] = 1]
          /\ digest' = [covers |-> 1, accepted |-> 1]
          /\ Returns(Null, TRUE)
       \/ UNCHANGED <<fed, digest>> /\ Returns(Null, FALSE)
    /\ UNCHANGED <<kind, byo, handle, m_good, m_lastError, accepted>>

-----------------------------------------------------------------------------
(* SymmetricCipher *)

\* Any operation but Reset() on an object that is not valid.
RefusedCipher(o) ==
    /\ kind = "cipher" /\ Exists(o) /\ ~Valid(o)
    /\ Fails(o, "INVALID_STATE")
    /\ UNCHANGED <<kind, byo, handle, m_good, natives, accepted, digest>>

\* Encrypt(), Decrypt() and their ends fail in the C library.
CipherFails(o) ==
    /\ kind = "cipher" /\ Valid(o)
    /\ native' = [native EXCEPT ![handle[o]] = "error"]
    /\ Fails(o, "library")
    /\ UNCHANGED <<kind, byo, handle, m_good, fed, accepted, digest>>

\* Encrypt() and Decrypt().
Process(o) ==
    /\ kind = "cipher" /\ Valid(o)
    /\ fed[handle[o]] < MaxUpdates
    /\ fed' = [fed EXCEPT ![handle[o]] = @ + 1]
    /\ accepted' = [accepted EXCEPT ![o] = @ + 1]
    /\ Returns(o, TRUE)
    /\ UNCHANGED <<kind, byo, handle, m_good, m_lastError, native, digest>>

\* FinalizeEncryption() and FinalizeDecryption().
Finalize(o) ==
    /\ kind = "cipher" /\ Valid(o)
    /\ native' = [native EXCEPT ![handle[o]] = "finalized"]
    /\ digest' = [covers |-> fed[handle[o]], accepted |-> accepted[o]]
    /\ Returns(o, TRUE)
    /\ UNCHANGED <<kind, byo, handle, m_good, m_lastError, fed, accepted>>

\* Reset() asks for a handle only, in whatever state it is.
Reset(o) ==
    /\ kind = "cipher" /\ HasHandle(o)
    /\ native' = [native EXCEPT ![handle[o]] = "ready"]
    /\ fed' = [fed EXCEPT ![handle[o]] = 0]
    /\ accepted' = [accepted EXCEPT ![o] = 0]
    /\ m_lastError' = [m_lastError EXCEPT ![o] = "none"]
    /\ Returns(o, TRUE)
    /\ UNCHANGED <<kind, byo, handle, m_good, digest>>

ResetFails(o) ==
    /\ kind = "cipher" /\ Exists(o)
    /\ Fails(o, IF HasHandle(o) THEN "library" ELSE "INVALID_STATE")
    /\ UNCHANGED <<kind, byo, handle, m_good, natives, accepted, digest>>

Operation ==
    \/ \E o \in Objects :
        \/ Create(o) \/ Destroy(o) \/ RefusedDigest(o) \/ UpdateFails(o) \/ Update(o)
        \/ DigestFails(o) \/ Digest(o) \/ ComputeOneShot(o)
        \/ RefusedCipher(o) \/ CipherFails(o) \/ Process(o) \/ Finalize(o)
        \/ Reset(o) \/ ResetFails(o)
        \/ \E p \in Objects : Move(o, p) \/ MoveAssignCipher(o, p)
    \/ \E n \in Handles : Compute(n)

Next ==
    /\ temporary = Gone
    /\ \/ Operation /\ UNCHANGED temporary
       \/ \E o, p \in Objects : MoveAssignDigest(o, p)

Spec == Init /\ [][Next]_cryptoVars

-----------------------------------------------------------------------------
(* Properties *)

Owners(n) == {o \in Objects : handle[o] = n} \cup (IF temporary = n THEN {Gone} ELSE {})

\* However objects are moved, reset and used after their end: a C object in use has
\* one owner and one that is destroyed has none, an object that says it is valid has
\* a C object that takes input, and a digest covers the updates that its object
\* accepted, no fewer and no more.
DigestsAreSound ==
    /\ \A n \in Handles :
        IF native[n] \in {"unused", "destroyed"}
           THEN Owners(n) = {}
           ELSE \E x \in Objects \cup {Gone} : Owners(n) = {x}
    /\ \A o \in Objects : Valid(o) => native[handle[o]] = "ready"
    /\ digest.covers = digest.accepted

Explained == result.ok \/ result.object = Null \/ m_lastError[result.object] # "none"

\* A call on a cipher that returns false leaves the reason in LastError(): also on a
\* cipher that was moved from or finalized, and after a Reset() cleared the error.
CipherFailuresExplained == kind = "cipher" => Explained

=============================================================================
