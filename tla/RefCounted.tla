----------------------------- MODULE RefCounted -----------------------------
(***************************************************************************)
(* RefCounted: a C++ object that C code keeps alive by counting.  While    *)
(* the count is not zero the object owns itself through m_strongPtr, next  *)
(* to the shared_ptrs of C++ code.  InputStream is the class that uses it. *)
(* Threads acquire and release references, hand them to one another and    *)
(* drop shared_ptrs in any order; the mutex of AcquireRef() and            *)
(* ReleaseRef() is a member of the object that may be about to die.        *)
(***************************************************************************)
EXTENDS Naturals, FiniteSets

CONSTANTS Threads, NoThread

ASSUME RefCountedAssumption == IsFiniteSet(Threads) /\ NoThread \notin Threads

VARIABLES
    m_count,
    m_strongPtr,   \* m_strongPtr is set
    m_mutex,       \* its owner
    object,        \* "alive" or "destroyed"
    sharedPtr,     \* per thread: it has a shared_ptr
    tmp,           \* per thread: tmpStrongPtr is set
    cRef,          \* per thread: the C reference it has, one at most
    pc, arg        \* per thread: where it is, and for whom it acquires

memberVars == <<m_count, m_strongPtr, m_mutex>>
refVars == <<memberVars, object, sharedPtr, tmp, cRef, pc, arg>>

\* A C++ thread creates the object; others may have been given a shared_ptr.
Init ==
    /\ m_count = 0 /\ m_strongPtr = FALSE /\ m_mutex = NoThread
    /\ object = "alive"
    /\ sharedPtr \in [Threads -> BOOLEAN] /\ \E t \in Threads : sharedPtr[t]
    /\ tmp = [t \in Threads |-> FALSE]
    /\ cRef = [t \in Threads |-> "none"]
    /\ pc = [t \in Threads |-> "idle"]
    /\ arg = [t \in Threads |-> NoThread]

Goto(t, label) == pc' = [pc EXCEPT ![t] = label]

\* The object dies with the last shared_ptr to it.
Destruct(strong, ptrs, tmps) ==
    object' = IF strong \/ \E t \in Threads : ptrs[t] \/ tmps[t] THEN object ELSE "destroyed"

-----------------------------------------------------------------------------
(* AcquireRef(), called by a thread with access to the object, for itself or *)
(* for a thread that it hands the reference to                               *)

CallAcquireRef(t, u) ==
    /\ pc[t] = "idle" /\ (sharedPtr[t] \/ cRef[t] = "held")
    /\ cRef[u] = "none"
    /\ cRef' = [cRef EXCEPT ![u] = "coming"]
    /\ arg' = [arg EXCEPT ![t] = u]
    /\ Goto(t, "acquireLock")
    /\ UNCHANGED <<memberVars, object, sharedPtr, tmp>>

Lock(t, from, to) ==
    /\ pc[t] = from
    /\ m_mutex = NoThread
    /\ m_mutex' = t
    /\ Goto(t, to)
    /\ UNCHANGED <<m_count, m_strongPtr, object, sharedPtr, tmp, cRef, arg>>

AcquireRef(t) ==
    /\ pc[t] = "acquire"
    /\ m_count' = m_count + 1
    /\ m_strongPtr' = (m_strongPtr \/ m_count = 0)
    /\ cRef' = [cRef EXCEPT ![arg[t]] = "counted"]
    /\ Goto(t, "acquireUnlock")
    /\ UNCHANGED <<m_mutex, object, sharedPtr, tmp, arg>>

AcquireRefReturns(t) ==
    /\ pc[t] = "acquireUnlock"
    /\ m_mutex' = NoThread
    /\ cRef' = [cRef EXCEPT ![arg[t]] = "held"]
    /\ arg' = [arg EXCEPT ![t] = NoThread]
    /\ Goto(t, "idle")
    /\ UNCHANGED <<m_count, m_strongPtr, object, sharedPtr, tmp>>

-----------------------------------------------------------------------------
(* ReleaseRef() *)

CallReleaseRef(t) ==
    /\ pc[t] = "idle" /\ cRef[t] = "held"
    /\ Goto(t, "releaseLock")
    /\ UNCHANGED <<memberVars, object, sharedPtr, tmp, cRef, arg>>

\* Mutant of ReleaseRef: m_strongPtr is reset under the lock when one other reference is left.
ReleaseResetsEarly(t) ==
    /\ pc[t] = "release"
    /\ m_count' = m_count - 1
    /\ m_strongPtr' = (m_strongPtr /\ m_count > 2)
    /\ tmp' = [tmp EXCEPT ![t] = m_strongPtr /\ m_count = 1]
    /\ cRef' = [cRef EXCEPT ![t] = "none"]
    /\ Destruct(m_strongPtr', sharedPtr, tmp')
    /\ Goto(t, "releaseUnlock")
    /\ UNCHANGED <<m_mutex, sharedPtr, arg>>

\* The last reference swaps m_strongPtr with the empty tmpStrongPtr.
ReleaseRef(t) ==
    /\ pc[t] = "release"
    /\ m_count' = m_count - 1
    /\ m_strongPtr' = (m_strongPtr /\ m_count # 1)
    /\ tmp' = [tmp EXCEPT ![t] = m_strongPtr /\ m_count = 1]
    /\ cRef' = [cRef EXCEPT ![t] = "none"]
    /\ Destruct(m_strongPtr', sharedPtr, tmp')
    /\ Goto(t, "releaseUnlock")
    /\ UNCHANGED <<m_mutex, sharedPtr, arg>>

ReleaseRefUnlocks(t) ==
    /\ pc[t] = "releaseUnlock"
    /\ m_mutex' = NoThread
    /\ Goto(t, "return")
    /\ UNCHANGED <<m_count, m_strongPtr, object, sharedPtr, tmp, cRef, arg>>

\* tmpStrongPtr goes out of scope.
ReleaseRefReturns(t) ==
    /\ pc[t] = "return"
    /\ tmp' = [tmp EXCEPT ![t] = FALSE]
    /\ Destruct(m_strongPtr, sharedPtr, tmp')
    /\ Goto(t, "idle")
    /\ UNCHANGED <<memberVars, sharedPtr, cRef, arg>>

-----------------------------------------------------------------------------
(* C++ code: a shared_ptr is dropped, or copied to another thread *)

DropSharedPtr(t) ==
    /\ pc[t] = "idle" /\ sharedPtr[t]
    /\ sharedPtr' = [sharedPtr EXCEPT ![t] = FALSE]
    /\ Destruct(m_strongPtr, sharedPtr', tmp)
    /\ UNCHANGED <<memberVars, tmp, cRef, pc, arg>>

CopySharedPtr(t, u) ==
    /\ pc[t] = "idle" /\ sharedPtr[t] /\ ~sharedPtr[u]
    /\ sharedPtr' = [sharedPtr EXCEPT ![u] = TRUE]
    /\ UNCHANGED <<memberVars, object, tmp, cRef, pc, arg>>

\* The steps of a thread that is in a call.
CallStep(t) ==
    \/ Lock(t, "acquireLock", "acquire") \/ AcquireRef(t) \/ AcquireRefReturns(t)
    \/ Lock(t, "releaseLock", "release") \/ ReleaseRef(t)
    \/ ReleaseRefUnlocks(t) \/ ReleaseRefReturns(t)

Next ==
    \E t \in Threads :
        \/ CallStep(t) \/ CallReleaseRef(t) \/ DropSharedPtr(t)
        \/ \E u \in Threads : CallAcquireRef(t, u) \/ CopySharedPtr(t, u)

Spec == Init /\ [][Next]_refVars

-----------------------------------------------------------------------------
(* Properties *)

Referenced == \E t \in Threads : sharedPtr[t] \/ cRef[t] \in {"counted", "held"}

\* A thread inside AcquireRef() or ReleaseRef(), up to the unlock of the object's own
\* mutex, finds the object alive, and so does whoever has a reference: the last
\* ReleaseRef() defers the destructor to its return.  When nobody has a reference and
\* no call is in progress the object is destroyed: a count that came back from zero
\* leaves no shared_ptr of the object to itself behind.
LivesWhileReferenced ==
    /\ \A t \in Threads : pc[t] \notin {"idle", "return"} => object = "alive"
    /\ Referenced => object = "alive"
    /\ ~Referenced /\ (\A t \in Threads : pc[t] = "idle") => object = "destroyed"

=============================================================================
