------------------------ MODULE NativeObjectsProofs ------------------------
(***************************************************************************)
(* What NativeObjects promises, for any sets of threads and objects.       *)
(* Neither property is inductive: each needs to be told why it holds.      *)
(*                                                                         *)
(* RefIInv: the count is the number of C references that were counted and  *)
(* not yet released, m_strongPtr is set exactly while it is not zero, and  *)
(* a thread in a call has something that keeps the object alive: a         *)
(* shared_ptr or a counted reference before ReleaseRef() decrements, and   *)
(* afterwards tmpStrongPtr, or m_strongPtr and the mutex without which     *)
(* nobody can reset it.                                                    *)
(*                                                                         *)
(* TlsIInv: an initialized struct has one owner, with the same settings;   *)
(* the references to a context are counted; and whoever refers to one      *)
(* reports what it was made with.                                          *)
(***************************************************************************)
EXTENDS NativeObjects, FiniteSetTheorems, TLAPS

-----------------------------------------------------------------------------
(* An object counted by RefCounted *)

Acquiring == {"acquireLock", "acquire", "acquireUnlock"}

Locked == {"acquire", "acquireUnlock", "release", "releaseUnlock"}

RefTypeOK ==
    /\ m_count \in Nat
    /\ m_strongPtr \in BOOLEAN
    /\ m_mutex \in Threads \cup {NoThread}
    /\ object \in {"alive", "destroyed"}
    /\ sharedPtr \in [Threads -> BOOLEAN]
    /\ tmp \in [Threads -> BOOLEAN]
    /\ cRef \in [Threads -> {"none", "coming", "counted", "held"}]
    /\ pc \in [Threads -> Acquiring \cup Locked \cup {"idle", "releaseLock", "return"}]
    /\ arg \in [Threads -> Threads \cup {NoThread}]

Counted == {u \in Threads : cRef[u] \in {"counted", "held"}}

\* m_count counts, and m_strongPtr goes with it.
CountInv ==
    /\ m_count = Cardinality(Counted)
    /\ m_strongPtr <=> Counted # {}

\* The mutex excludes.
MutexInv == \A t \in Threads : pc[t] \in Locked => m_mutex = t

\* A call has what it was made with.
CallInv ==
    \A t \in Threads :
        /\ pc[t] \in Acquiring => (sharedPtr[t] \/ cRef[t] = "held") /\ arg[t] \in Threads
        /\ pc[t] \in {"acquireLock", "acquire"} => cRef[arg[t]] = "coming"
        /\ pc[t] = "acquireUnlock" => cRef[arg[t]] = "counted"
        /\ pc[t] \in {"releaseLock", "release"} => cRef[t] = "held"
        /\ pc[t] = "releaseUnlock" => tmp[t] \/ m_strongPtr
        /\ tmp[t] => pc[t] \in {"releaseUnlock", "return"}

\* No two threads acquire the same reference.
ArgInv ==
    \A t, u \in Threads :
        pc[t] \in Acquiring /\ pc[u] \in Acquiring /\ arg[t] = arg[u] => t = u

\* The object is alive exactly while a shared_ptr to it exists.
ObjectInv ==
    object = "alive" <=> m_strongPtr \/ \E t \in Threads : sharedPtr[t] \/ tmp[t]

RefIInv == RefTypeOK /\ CountInv /\ MutexInv /\ CallInv /\ ArgInv /\ ObjectInv

-----------------------------------------------------------------------------
(* TLS options, contexts and connection options *)

TlsTypeOK ==
    /\ options \in [Options -> Tls!TlsContextOptions \cup {Zero}]
    /\ context \in [Contexts -> Tls!TlsContext \cup {Zero}]
    /\ connection \in [Connections -> Tls!TlsConnectionOptions \cup {Zero}]
    /\ structs \in [NativeOptions -> Tls!Metrics \cup {Zero}]
    /\ native \in [NativeContexts -> [refs : Nat, made : Tls!Metrics]]

HasStruct(o, s) == options[o] # Zero /\ options[o].isInit /\ options[o].struct = s

\* A struct has one owner while it is initialized, which reports its settings.
StructInv ==
    /\ \A o \in Options : options[o] # Zero /\ options[o].isInit =>
        options[o].struct \in NativeOptions /\ structs[options[o].struct] = options[o].metrics
    /\ \A o, p \in Options, s \in NativeOptions : HasStruct(o, s) /\ HasStruct(p, s) => o = p
    /\ \A s \in NativeOptions : structs[s] # Zero => \E o \in Options : HasStruct(o, s)

\* The references to a context are counted.
RefsInv ==
    \A n \in NativeContexts :
        native[n].refs = Cardinality(Tls!Using(n)) + (IF Tls!Sharing(n) THEN 1 ELSE 0)

\* What reports the settings of a context reports what the context was made with.
MadeInv ==
    /\ \A x \in Contexts : context[x] # Zero /\ context[x].ctx # Zero =>
        context[x].metrics = native[context[x].ctx].made
    /\ \A c \in Connections : connection[c] # Zero /\ connection[c].isInit =>
        connection[c].ctx # Zero /\ connection[c].metrics = native[connection[c].ctx].made

TlsIInv == TlsTypeOK /\ StructInv /\ RefsInv /\ MadeInv

-----------------------------------------------------------------------------
(* RefIInv is enough *)

\* The set of counted references is finite, and its cardinality a number.
LEMMA CountedIsFinite == IsFiniteSet(Counted) /\ Cardinality(Counted) \in Nat
<1>1. Counted \in SUBSET Threads
  BY Zenon DEF Counted
<1>2. IsFiniteSet(Counted)
  BY <1>1, RefCountedAssumption, FS_Subset, Zenon
<1> QED
  BY <1>2, FS_CardinalityType, Zenon

\* A shared_ptr, a counted reference, or tmpStrongPtr keeps the object alive.
LEMMA KeptAlive ==
  ASSUME RefIInv, NEW t \in Threads, sharedPtr[t] \/ tmp[t] \/ cRef[t] \in {"counted", "held"}
  PROVE  object = "alive"
<1>1. CASE sharedPtr[t] \/ tmp[t]
  BY <1>1, Zenon DEF RefIInv, ObjectInv
<1>2. CASE cRef[t] \in {"counted", "held"}
  <2>1. t \in Counted
    BY <1>2, Zenon DEF Counted
  <2> QED
    BY <2>1, Zenon DEF RefIInv, CountInv, ObjectInv
<1> QED
  BY <1>1, <1>2, Zenon

\* RefIInv is strong enough.
LEMMA RefIInvIsEnough == RefIInv => LivesWhileReferenced
<1> SUFFICES ASSUME RefIInv
             PROVE  LivesWhileReferenced
  BY Zenon
<1>1. ASSUME NEW t \in Threads, pc[t] \notin {"idle", "return"}
      PROVE  object = "alive"
  <2>1. CASE pc[t] = "releaseUnlock"
    BY <2>1, Zenon DEF RefIInv, CallInv, ObjectInv
  <2>2. CASE pc[t] # "releaseUnlock"
    <3>1. sharedPtr[t] \/ cRef[t] = "held"
      BY <1>1, <2>2 DEF RefIInv, RefTypeOK, CallInv, Acquiring, Locked
    <3> QED
      BY <3>1, KeptAlive, Zenon
  <2> QED
    BY <2>1, <2>2, Zenon
<1>2. Referenced => object = "alive"
  BY KeptAlive, Zenon DEF Referenced
<1>3. ASSUME ~Referenced, \A t \in Threads : pc[t] = "idle"
      PROVE  object = "destroyed"
  <2>1. Counted = {}
    BY <1>3, Zenon DEF Referenced, Counted
  <2>2. ~m_strongPtr
    BY <2>1, Zenon DEF RefIInv, CountInv
  <2>3. \A t \in Threads : ~sharedPtr[t] /\ ~tmp[t]
    BY <1>3, Zenon DEF Referenced, RefIInv, CallInv
  <2> QED
    BY <2>2, <2>3, Zenon DEF RefIInv, RefTypeOK, ObjectInv
<1> QED
  BY <1>1, <1>2, <1>3, Zenon DEF LivesWhileReferenced

-----------------------------------------------------------------------------
(* RefIInv is an invariant *)

\* Init: the count is zero and no thread is in a call.
LEMMA RefInit == Init => RefIInv
<1> SUFFICES ASSUME Init
             PROVE  RefIInv
  BY Zenon
<1>1. RefTypeOK
  BY Zenon DEF Init, RefTypeOK
<1>2. Counted = {}
  BY Zenon DEF Init, Counted
<1>3. CountInv
  BY <1>2, FS_EmptySet, Zenon DEF Init, CountInv
<1>4. MutexInv /\ CallInv /\ ArgInv /\ ObjectInv
  BY Zenon DEF Init, MutexInv, CallInv, ArgInv, ObjectInv, Acquiring, Locked
<1> QED
  BY <1>1, <1>3, <1>4, Zenon DEF RefIInv

\* AcquireRef() hands out one more reference.
LEMMA AcquireCounts ==
  ASSUME RefIInv, NEW t \in Threads, AcquireRef(t)
  PROVE  CountInv'
<1>1. pc[t] = "acquire" /\ arg[t] \in Threads /\ cRef[arg[t]] = "coming"
  BY Zenon DEF AcquireRef, RefIInv, CallInv, Acquiring
<1>2. Counted' = Counted \cup {arg[t]} /\ arg[t] \notin Counted
  BY <1>1 DEF AcquireRef, RefIInv, RefTypeOK, Counted
<1>3. Cardinality(Counted') = Cardinality(Counted) + 1
  BY <1>2, CountedIsFinite, FS_AddElement, ZenonT(60)
<1>4. m_count' = Cardinality(Counted')
  BY <1>3, Zenon DEF AcquireRef, RefIInv, CountInv
<1>5. m_strongPtr'
  <2>1. m_strongPtr \/ m_count = 0
    BY CountedIsFinite, FS_EmptySet, Zenon DEF RefIInv, CountInv
  <2> QED
    BY <2>1, Zenon DEF AcquireRef
<1> QED
  BY <1>2, <1>4, <1>5, Zenon DEF CountInv

\* ReleaseRef() takes one reference back.
LEMMA ReleaseCounts ==
  ASSUME RefIInv, NEW t \in Threads, ReleaseRef(t)
  PROVE  CountInv' /\ m_count' \in Nat
<1>1. pc[t] = "release" /\ cRef[t] = "held"
  BY Zenon DEF ReleaseRef, RefIInv, CallInv
<1>2. Counted' = Counted \ {t} /\ t \in Counted
  BY <1>1, Zenon DEF ReleaseRef, RefIInv, RefTypeOK, Counted
<1>3. Cardinality(Counted') = Cardinality(Counted) - 1 /\ IsFiniteSet(Counted')
  BY <1>2, CountedIsFinite, FS_RemoveElement, Zenon
<1>4. m_count' = Cardinality(Counted')
  BY <1>3, Zenon DEF ReleaseRef, RefIInv, CountInv
<1>5. Cardinality(Counted') \in Nat
  BY <1>3, FS_CardinalityType, Zenon
<1>6. m_strongPtr
  BY <1>2, Zenon DEF RefIInv, CountInv
<1>7. m_strongPtr' <=> m_count # 1
  BY <1>6, Zenon DEF ReleaseRef
<1>8. m_count # 1 <=> Cardinality(Counted') # 0
  BY <1>4, <1>5 DEF ReleaseRef, RefIInv, RefTypeOK
<1>9. Cardinality(Counted') # 0 <=> Counted' # {}
  BY <1>3, FS_EmptySet, Zenon
<1> QED
  BY <1>4, <1>5, <1>7, <1>8, <1>9, Zenon DEF CountInv

\* The steps that leave the references as they are, as far as they are counted.
LEMMA CountUnchanged ==
  ASSUME CountInv, Counted' = Counted, UNCHANGED <<m_count, m_strongPtr>>
  PROVE  CountInv'
BY Zenon DEF CountInv

\* Every step preserves RefIInv, whatever other threads are in the middle of.
LEMMA RefNext == RefIInv /\ [Next]_refVars => RefIInv'
<1> SUFFICES ASSUME RefIInv, [Next]_refVars
             PROVE  RefIInv'
  BY Zenon
<1> USE DEF RefIInv
<1>1. ASSUME NEW t \in Threads, NEW u \in Threads, CallAcquireRef(t, u)
      PROVE  RefIInv'
  <2>1. RefTypeOK'
    BY <1>1, Zenon DEF RefTypeOK, CallAcquireRef, memberVars, Goto, Acquiring, Locked
  <2>2. CountInv'
    <3>1. Counted' = Counted
      BY <1>1, Zenon DEF RefTypeOK, CallInv, Counted, CallAcquireRef
    <3> QED
      BY <3>1, <1>1, CountUnchanged, Zenon DEF CallAcquireRef, memberVars
  <2>3. MutexInv'
    BY <1>1, RefCountedAssumption, Zenon DEF RefTypeOK, MutexInv, CallAcquireRef, memberVars,
       Goto, Acquiring, Locked
  <2>4. CallInv'
    BY <1>1 DEF RefTypeOK, MutexInv, CallInv, ArgInv, CallAcquireRef, memberVars, Goto,
                Acquiring, Locked
  <2>5. ArgInv'
    BY <1>1 DEF RefTypeOK, CallInv, ArgInv, CallAcquireRef, memberVars, Goto, Acquiring
  <2>6. ObjectInv'
    BY <1>1, Zenon DEF RefTypeOK, ObjectInv, CallAcquireRef, memberVars
  <2> QED
    BY <2>1, <2>2, <2>3, <2>4, <2>5, <2>6, Zenon DEF RefIInv
<1>2. ASSUME NEW t \in Threads, Lock(t, "acquireLock", "acquire")
      PROVE  RefIInv'
  <2>1. RefTypeOK'
    BY <1>2, Zenon DEF RefTypeOK, Lock, Goto, Acquiring, Locked
  <2>2. CountInv'
    <3>1. Counted' = Counted
      BY <1>2, Zenon DEF RefTypeOK, CallInv, Counted, Lock
    <3> QED
      BY <3>1, <1>2, CountUnchanged, Zenon DEF Lock, memberVars
  <2>3. MutexInv'
    BY <1>2, RefCountedAssumption, Zenon DEF RefTypeOK, MutexInv, Lock, Goto, Acquiring, Locked
  <2>4. CallInv'
    BY <1>2 DEF RefTypeOK, MutexInv, CallInv, ArgInv, Lock, Goto, Acquiring, Locked
  <2>5. ArgInv'
    BY <1>2 DEF RefTypeOK, CallInv, ArgInv, Lock, Goto, Acquiring
  <2>6. ObjectInv'
    BY <1>2, Zenon DEF RefTypeOK, ObjectInv, Lock
  <2> QED
    BY <2>1, <2>2, <2>3, <2>4, <2>5, <2>6, Zenon DEF RefIInv
<1>3. ASSUME NEW t \in Threads, AcquireRef(t)
      PROVE  RefIInv'
  <2>1. RefTypeOK'
    <3>1. m_strongPtr' \in BOOLEAN
      BY <1>3, Zenon DEF AcquireRef
    <3>2. m_count' \in Nat
      BY <1>3 DEF RefTypeOK, AcquireRef
    <3> QED
      BY <1>3, <3>1, <3>2, ZenonT(60) DEF RefTypeOK, AcquireRef, Goto, Acquiring, Locked
  <2>2. CountInv'
    BY <1>3, AcquireCounts, Zenon
  <2>3. MutexInv'
    BY <1>3, RefCountedAssumption, Zenon DEF RefTypeOK, MutexInv, AcquireRef, Goto, Acquiring,
       Locked
  <2>4. CallInv'
    BY <1>3 DEF RefTypeOK, MutexInv, CallInv, ArgInv, AcquireRef, Goto, Acquiring, Locked
  <2>5. ArgInv'
    BY <1>3 DEF RefTypeOK, CallInv, ArgInv, AcquireRef, Goto, Acquiring
  <2>6. ObjectInv'
    <3>1. object = "alive"
      BY <1>3, RefIInvIsEnough, Zenon DEF AcquireRef, LivesWhileReferenced
    <3>2. m_strongPtr'
      <4>1. pc[t] = "acquire" /\ arg[t] \in Threads
        BY <1>3, Zenon DEF AcquireRef, CallInv, Acquiring
      <4>2. arg[t] \in Counted'
        BY <1>3, <4>1, Zenon DEF AcquireRef, RefTypeOK, Counted
      <4> QED
        BY <2>2, <4>2, Zenon DEF CountInv
    <3> QED
      BY <1>3, <3>1, <3>2, Zenon DEF ObjectInv, AcquireRef
  <2> QED
    BY <2>1, <2>2, <2>3, <2>4, <2>5, <2>6, Zenon DEF RefIInv
<1>4. ASSUME NEW t \in Threads, AcquireRefReturns(t)
      PROVE  RefIInv'
  <2>1. RefTypeOK'
    BY <1>4, Zenon DEF RefTypeOK, AcquireRefReturns, Goto, Acquiring, Locked
  <2>2. CountInv'
    <3>1. Counted' = Counted
      BY <1>4 DEF RefTypeOK, CallInv, Counted, AcquireRefReturns
    <3> QED
      BY <3>1, <1>4, CountUnchanged, Zenon DEF AcquireRefReturns, memberVars
  <2>3. MutexInv'
    BY <1>4, RefCountedAssumption, Zenon DEF RefTypeOK, MutexInv, AcquireRefReturns, Goto,
       Acquiring, Locked
  <2>4. CallInv'
    BY <1>4 DEF RefTypeOK, MutexInv, CallInv, ArgInv, AcquireRefReturns, Goto, Acquiring, Locked
  <2>5. ArgInv'
    BY <1>4 DEF RefTypeOK, CallInv, ArgInv, AcquireRefReturns, Goto, Acquiring
  <2>6. ObjectInv'
    BY <1>4, Zenon DEF RefTypeOK, ObjectInv, AcquireRefReturns
  <2> QED
    BY <2>1, <2>2, <2>3, <2>4, <2>5, <2>6, Zenon DEF RefIInv
<1>5. ASSUME NEW t \in Threads, CallReleaseRef(t)
      PROVE  RefIInv'
  <2>1. RefTypeOK'
    BY <1>5, Zenon DEF RefTypeOK, CallReleaseRef, memberVars, Goto, Acquiring, Locked
  <2>2. CountInv'
    <3>1. Counted' = Counted
      BY <1>5, Zenon DEF RefTypeOK, CallInv, Counted, CallReleaseRef
    <3> QED
      BY <3>1, <1>5, CountUnchanged, Zenon DEF CallReleaseRef, memberVars
  <2>3. MutexInv'
    BY <1>5, RefCountedAssumption, Zenon DEF RefTypeOK, MutexInv, CallReleaseRef, memberVars,
       Goto, Acquiring, Locked
  <2>4. CallInv'
    BY <1>5, SMTT(60)
       DEF RefTypeOK, MutexInv, CallInv, ArgInv, CallReleaseRef, memberVars, Goto, Acquiring, Locked
  <2>5. ArgInv'
    BY <1>5 DEF RefTypeOK, CallInv, ArgInv, CallReleaseRef, memberVars, Goto, Acquiring
  <2>6. ObjectInv'
    BY <1>5, Zenon DEF RefTypeOK, ObjectInv, CallReleaseRef, memberVars
  <2> QED
    BY <2>1, <2>2, <2>3, <2>4, <2>5, <2>6, Zenon DEF RefIInv
<1>6. ASSUME NEW t \in Threads, Lock(t, "releaseLock", "release")
      PROVE  RefIInv'
  <2>1. RefTypeOK'
    BY <1>6, Zenon DEF RefTypeOK, Lock, Goto, Acquiring, Locked
  <2>2. CountInv'
    <3>1. Counted' = Counted
      BY <1>6, Zenon DEF RefTypeOK, CallInv, Counted, Lock
    <3> QED
      BY <3>1, <1>6, CountUnchanged, Zenon DEF Lock, memberVars
  <2>3. MutexInv'
    BY <1>6, RefCountedAssumption, Zenon DEF RefTypeOK, MutexInv, Lock, Goto, Acquiring, Locked
  <2>4. CallInv'
    BY <1>6 DEF RefTypeOK, MutexInv, CallInv, ArgInv, Lock, Goto, Acquiring, Locked
  <2>5. ArgInv'
    BY <1>6 DEF RefTypeOK, CallInv, ArgInv, Lock, Goto, Acquiring
  <2>6. ObjectInv'
    BY <1>6, Zenon DEF RefTypeOK, ObjectInv, Lock
  <2> QED
    BY <2>1, <2>2, <2>3, <2>4, <2>5, <2>6, Zenon DEF RefIInv
<1>7. ASSUME NEW t \in Threads, ReleaseRef(t)
      PROVE  RefIInv'
  <2>1. RefTypeOK'
    <3>1. m_strongPtr' \in BOOLEAN /\ (m_strongPtr /\ m_count = 1) \in BOOLEAN
      BY <1>7, Zenon DEF ReleaseRef
    <3>2. tmp' \in [Threads -> BOOLEAN]
      BY <1>7, <3>1, Zenon DEF RefTypeOK, ReleaseRef
    <3>3. m_count' \in Nat
      BY <1>7, ReleaseCounts, Zenon
    <3> QED
      BY <1>7, <3>1, <3>2, <3>3, Zenon DEF RefTypeOK, ReleaseRef, Destruct, Goto, Acquiring,
         Locked
  <2>2. CountInv'
    BY <1>7, ReleaseCounts, Zenon
  <2>3. MutexInv'
    BY <1>7, RefCountedAssumption, Zenon DEF RefTypeOK, MutexInv, ReleaseRef, Goto, Acquiring,
       Locked
  <2>4. CallInv'
    <3>1. m_strongPtr
      <4>1. t \in Counted
        BY <1>7, Zenon DEF ReleaseRef, CallInv, Counted
      <4> QED
        BY <4>1, Zenon DEF CountInv
    <3>2. tmp'[t] \/ m_strongPtr'
      BY <1>7, <3>1, ZenonT(60) DEF RefTypeOK, ReleaseRef
    <3>3. \A u \in Threads : pc'[u] = "releaseUnlock" => u = t
      BY <1>7, Zenon DEF RefTypeOK, MutexInv, ReleaseRef, Goto, Locked
    <3>4. \A u \in Threads \ {t} : pc'[u] = pc[u] /\ tmp'[u] = tmp[u] /\ cRef'[u] = cRef[u]
      BY <1>7, Zenon DEF RefTypeOK, ReleaseRef, Goto
    <3>5. pc'[t] = "releaseUnlock"
      BY <1>7, Zenon DEF RefTypeOK, ReleaseRef, Goto
    <3>6. \A u \in Threads \ {t} : pc[u] \in Acquiring => arg[u] # t
      BY <1>7, Zenon DEF CallInv, ReleaseRef, Acquiring
    <3> QED
      BY <1>7, <3>2, <3>3, <3>4, <3>5, <3>6 DEF CallInv, ReleaseRef, Acquiring
  <2>5. ArgInv'
    BY <1>7 DEF RefTypeOK, CallInv, ArgInv, ReleaseRef, Goto, Acquiring
  <2>6. ObjectInv'
    BY <1>7, Zenon DEF RefTypeOK, ObjectInv, Destruct, ReleaseRef
  <2> QED
    BY <2>1, <2>2, <2>3, <2>4, <2>5, <2>6, Zenon DEF RefIInv
<1>8. ASSUME NEW t \in Threads, ReleaseRefUnlocks(t)
      PROVE  RefIInv'
  <2>1. RefTypeOK'
    BY <1>8, Zenon DEF RefTypeOK, ReleaseRefUnlocks, Goto, Acquiring, Locked
  <2>2. CountInv'
    <3>1. Counted' = Counted
      BY <1>8, Zenon DEF RefTypeOK, CallInv, Counted, ReleaseRefUnlocks
    <3> QED
      BY <3>1, <1>8, CountUnchanged, Zenon DEF ReleaseRefUnlocks, memberVars
  <2>3. MutexInv'
    BY <1>8, RefCountedAssumption, Zenon DEF RefTypeOK, MutexInv, ReleaseRefUnlocks, Goto,
       Acquiring, Locked
  <2>4. CallInv'
    BY <1>8 DEF RefTypeOK, MutexInv, CallInv, ArgInv, ReleaseRefUnlocks, Goto, Acquiring, Locked
  <2>5. ArgInv'
    BY <1>8 DEF RefTypeOK, CallInv, ArgInv, ReleaseRefUnlocks, Goto, Acquiring
  <2>6. ObjectInv'
    BY <1>8, Zenon DEF RefTypeOK, ObjectInv, ReleaseRefUnlocks
  <2> QED
    BY <2>1, <2>2, <2>3, <2>4, <2>5, <2>6, Zenon DEF RefIInv
<1>9. ASSUME NEW t \in Threads, ReleaseRefReturns(t)
      PROVE  RefIInv'
  <2>1. RefTypeOK'
    BY <1>9, Zenon DEF RefTypeOK, ReleaseRefReturns, memberVars, Destruct, Goto, Acquiring,
       Locked
  <2>2. CountInv'
    <3>1. Counted' = Counted
      BY <1>9, Zenon DEF RefTypeOK, CallInv, Counted, ReleaseRefReturns
    <3> QED
      BY <3>1, <1>9, CountUnchanged, Zenon DEF ReleaseRefReturns, memberVars
  <2>3. MutexInv'
    BY <1>9, RefCountedAssumption, Zenon DEF RefTypeOK, MutexInv, ReleaseRefReturns, memberVars,
       Goto, Acquiring, Locked
  <2>4. CallInv'
    BY <1>9 DEF RefTypeOK, MutexInv, CallInv, ArgInv, ReleaseRefReturns, memberVars, Goto,
                Acquiring, Locked
  <2>5. ArgInv'
    BY <1>9 DEF RefTypeOK, CallInv, ArgInv, ReleaseRefReturns, memberVars, Goto, Acquiring
  <2>6. ObjectInv'
    BY <1>9, Zenon DEF RefTypeOK, ObjectInv, Destruct, ReleaseRefReturns, memberVars
  <2> QED
    BY <2>1, <2>2, <2>3, <2>4, <2>5, <2>6, Zenon DEF RefIInv
<1>10. ASSUME NEW t \in Threads, DropSharedPtr(t)
      PROVE  RefIInv'
  <2>1. RefTypeOK'
    BY <1>10, Zenon DEF RefTypeOK, DropSharedPtr, memberVars, Destruct
  <2>2. CountInv'
    <3>1. Counted' = Counted
      BY <1>10, Zenon DEF RefTypeOK, CallInv, Counted, DropSharedPtr
    <3> QED
      BY <3>1, <1>10, CountUnchanged, Zenon DEF DropSharedPtr, memberVars
  <2>3. MutexInv'
    BY <1>10, RefCountedAssumption, Zenon DEF RefTypeOK, MutexInv, DropSharedPtr, memberVars,
       Goto, Acquiring, Locked
  <2>4. CallInv'
    BY <1>10 DEF RefTypeOK, MutexInv, CallInv, ArgInv, DropSharedPtr, memberVars, Goto,
                 Acquiring, Locked
  <2>5. ArgInv'
    BY <1>10 DEF RefTypeOK, CallInv, ArgInv, DropSharedPtr, memberVars, Goto, Acquiring
  <2>6. ObjectInv'
    BY <1>10, Zenon DEF RefTypeOK, ObjectInv, Destruct, DropSharedPtr, memberVars
  <2> QED
    BY <2>1, <2>2, <2>3, <2>4, <2>5, <2>6, Zenon DEF RefIInv
<1>11. ASSUME NEW t \in Threads, NEW u \in Threads, CopySharedPtr(t, u)
      PROVE  RefIInv'
  <2>1. RefTypeOK'
    BY <1>11, Zenon DEF RefTypeOK, CopySharedPtr, memberVars, Goto, Acquiring, Locked
  <2>2. CountInv'
    <3>1. Counted' = Counted
      BY <1>11 DEF RefTypeOK, CallInv, Counted, CopySharedPtr
    <3> QED
      BY <3>1, <1>11, CountUnchanged, Zenon DEF CopySharedPtr, memberVars
  <2>3. MutexInv'
    BY <1>11, RefCountedAssumption, Zenon DEF RefTypeOK, MutexInv, CopySharedPtr, memberVars,
       Goto, Acquiring, Locked
  <2>4. CallInv'
    BY <1>11 DEF RefTypeOK, MutexInv, CallInv, ArgInv, CopySharedPtr, memberVars, Goto,
                 Acquiring, Locked
  <2>5. ArgInv'
    BY <1>11 DEF RefTypeOK, CallInv, ArgInv, CopySharedPtr, memberVars, Goto, Acquiring
  <2>6. ObjectInv'
    BY <1>11, Zenon DEF RefTypeOK, ObjectInv, CopySharedPtr, memberVars
  <2> QED
    BY <2>1, <2>2, <2>3, <2>4, <2>5, <2>6, Zenon DEF RefIInv
<1>12. CASE UNCHANGED refVars
  BY <1>12 DEF refVars, memberVars, RefTypeOK, CountInv, Counted, MutexInv, CallInv, ArgInv,
               ObjectInv
<1> QED
  BY <1>1, <1>2, <1>3, <1>4, <1>5, <1>6, <1>7, <1>8, <1>9, <1>10, <1>11, <1>12, ZenonT(60)
     DEF Next, CallStep

-----------------------------------------------------------------------------
(* TlsIInv is an invariant: the structs of TlsContextOptions *)

\* Cardinality as the instance knows it.
LEMMA TlsCardinality == \A S : Tls!Cardinality(S) = Cardinality(S)
BY Zenon DEF Tls!Cardinality, Cardinality

\* Nothing is initialized at first.
LEMMA TlsInit == Tls!Init => TlsIInv
<1> SUFFICES ASSUME Tls!Init
             PROVE  TlsIInv
  BY Zenon
<1> USE NativeObjectsAssumption DEF Tls!Init
<1>1. Tls!DefaultMetrics \in Tls!Metrics
  BY Zenon DEF Tls!DefaultMetrics, Tls!Metrics
<1>2. TlsTypeOK
  BY <1>1, Zenon DEF TlsTypeOK, Tls!Freed
<1>3. StructInv
  BY Zenon DEF StructInv, HasStruct
<1>4. RefsInv
  <2> SUFFICES ASSUME NEW n \in NativeContexts
               PROVE  /\ native[n].refs = 0 /\ Cardinality(Tls!Using(n)) = 0
                      /\ ~Tls!Sharing(n)
    BY DEF RefsInv
  <2>1. Tls!Using(n) = {}
    BY Zenon DEF Tls!Using, Tls!CtxOf, Tls!Is
  <2> QED
    BY <2>1, FS_EmptySet, Zenon DEF Tls!Sharing, Tls!Is, Tls!Freed
<1>5. MadeInv
  BY Zenon DEF MadeInv
<1> QED
  BY <1>2, <1>3, <1>4, <1>5, Zenon DEF TlsIInv

\* The references and what they report depend on contexts and connections only.
LEMMA ContextsUntouched ==
  ASSUME TlsIInv, UNCHANGED <<context, connection, native>>
  PROVE  RefsInv' /\ MadeInv'
BY Zenon DEF TlsIInv, RefsInv, MadeInv, Tls!Using, Tls!Sharing, Tls!CtxOf

\* The structs and their owners depend on the options only.
LEMMA OptionsUntouched ==
  ASSUME TlsIInv, UNCHANGED <<options, structs>>
  PROVE  StructInv'
BY Zenon DEF TlsIInv, StructInv, HasStruct

\* Initialization takes a struct that nobody has.
LEMMA TlsInitOptions ==
  ASSUME TlsIInv, NEW o \in Options, NEW source \in Sources, Tls!InitOptions(o, source)
  PROVE  TlsIInv'
<1> USE NativeObjectsAssumption DEF TlsIInv
<1>1. UNCHANGED <<context, connection, native>> /\ options[o] = Zero
  BY Zenon DEF Tls!InitOptions, Tls!Is
<1>2. ASSUME NEW s \in NativeOptions, NEW m \in Tls!Metrics, structs[s] = Zero,
             structs' = [structs EXCEPT ![s] = m],
             options' = [options EXCEPT ![o] = [isInit |-> TRUE, struct |-> s, metrics |-> m]]
      PROVE  TlsTypeOK' /\ StructInv'
  <2>1. TlsTypeOK'
    BY <1>1, <1>2, Zenon DEF TlsTypeOK, Tls!TlsContextOptions
  <2>2. \A p \in Options : ~HasStruct(p, s)
    BY <1>2, SMTT(60) DEF TlsTypeOK, StructInv, HasStruct, Tls!TlsContextOptions
  <2>3. [isInit |-> TRUE, struct |-> s, metrics |-> m] \in Tls!TlsContextOptions
    BY <1>2, Zenon DEF Tls!TlsContextOptions
  <2>4. \A p \in Options, z \in NativeOptions :
            HasStruct(p, z)' <=> HasStruct(p, z) \/ (p = o /\ z = s)
    BY <1>1, <1>2, <2>3, ZenonT(60) DEF TlsTypeOK, HasStruct
  <2>5. StructInv'
    BY <1>1, <1>2, <2>2, <2>3, <2>4 DEF TlsTypeOK, StructInv, HasStruct
  <2> QED
    BY <2>1, <2>5, Zenon
<1>3. CASE options' = [options EXCEPT ![o] = Tls!Empty] /\ UNCHANGED structs
  <2>1. Tls!Empty \in Tls!TlsContextOptions /\ ~Tls!Empty.isInit
    BY Zenon DEF Tls!Empty, Tls!TlsContextOptions, Tls!DefaultMetrics, Tls!Metrics
  <2>2. TlsTypeOK'
    BY <1>1, <1>3, <2>1, Zenon DEF TlsTypeOK
  <2>3. \A p \in Options, z \in NativeOptions : HasStruct(p, z)' <=> HasStruct(p, z)
    BY <1>1, <1>3, <2>1, Zenon DEF TlsTypeOK, HasStruct
  <2>4. StructInv'
    BY <1>3, <2>1, <2>3 DEF TlsTypeOK, StructInv
  <2> QED
    BY <1>1, <2>2, <2>4, ContextsUntouched, Zenon
<1>4. CASE ~(options' = [options EXCEPT ![o] = Tls!Empty] /\ UNCHANGED structs)
  <2> DEFINE s == CHOOSE s \in NativeOptions : ~Tls!Is(structs[s])
             m == [Tls!DefaultMetrics EXCEPT !.source = source]
  <2>1. s \in NativeOptions /\ structs[s] = Zero
    BY <1>4, Zenon DEF Tls!InitOptions, Tls!Is
  <2>2. m \in Tls!Metrics
    BY Zenon DEF Tls!DefaultMetrics, Tls!Metrics
  <2>3. /\ structs' = [structs EXCEPT ![s] = m]
        /\ options' = [options EXCEPT ![o] = [isInit |-> TRUE, struct |-> s, metrics |-> m]]
    BY <1>4, Zenon DEF Tls!InitOptions
  <2> HIDE DEF s, m
  <2> QED
    BY <1>1, <1>2, <2>1, <2>2, <2>3, ContextsUntouched, ZenonT(60)
<1> QED
  BY <1>3, <1>4, Zenon

\* What is left of the structs when one object has cleaned up.
LEMMA TlsCleanUp ==
  ASSUME TlsIInv, NEW o \in Options, Tls!CleanUp(o)
  PROVE  /\ structs' \in [NativeOptions -> Tls!Metrics \cup {Zero}]
         /\ \A s \in NativeOptions :
                structs'[s] = IF HasStruct(o, s) THEN Zero ELSE structs[s]
BY Zenon DEF TlsIInv, TlsTypeOK, Tls!CleanUp, HasStruct, Tls!Is

\* A move passes the struct on and cleans up the one that was there.
LEMMA TlsMoveOptions ==
  ASSUME TlsIInv, NEW o \in Options, NEW p \in Options, Tls!MoveOptions(o, p)
  PROVE  TlsIInv'
<1> USE NativeObjectsAssumption DEF TlsIInv
<1>1. /\ o # p /\ options[p] # Zero /\ Tls!CleanUp(o)
      /\ options' = [options EXCEPT ![o] = options[p], ![p] = Tls!Empty]
      /\ UNCHANGED <<context, connection, native>>
  BY Zenon DEF Tls!MoveOptions, Tls!Is
<1>2. Tls!Empty \in Tls!TlsContextOptions /\ ~Tls!Empty.isInit
  BY ZenonT(60) DEF Tls!Empty, Tls!TlsContextOptions, Tls!DefaultMetrics, Tls!Metrics
<1>3. TlsTypeOK'
  BY <1>1, <1>2, TlsCleanUp, Zenon DEF TlsTypeOK
<1>4. \A s \in NativeOptions :
        /\ HasStruct(o, s)' <=> HasStruct(p, s)
        /\ ~HasStruct(p, s)'
        /\ \A q \in Options \ {o, p} : HasStruct(q, s)' <=> HasStruct(q, s)
  BY <1>1, <1>2, Zenon DEF TlsTypeOK, HasStruct
<1>5. StructInv'
  <2>1. \A s \in NativeOptions : structs'[s] = IF HasStruct(o, s) THEN Zero ELSE structs[s]
    BY <1>1, TlsCleanUp, Zenon
  <2>2. ASSUME NEW q \in Options, options'[q] # Zero, options'[q].isInit
        PROVE  /\ options'[q].struct \in NativeOptions
               /\ structs'[options'[q].struct] = options'[q].metrics
    <3>1. q # p
      BY <1>1, <1>2, <2>2, Zenon DEF TlsTypeOK
    <3>2. PICK r \in Options \ {o} : options'[q] = options[r]
      BY <1>1, <3>1 DEF TlsTypeOK
    <3>3. options[r].struct \in NativeOptions /\ HasStruct(r, options[r].struct)
      BY <2>2, <3>2, Zenon DEF StructInv, HasStruct
    <3>4. ~HasStruct(o, options[r].struct)
      BY <3>2, <3>3, Zenon DEF StructInv
    <3> QED
      BY <2>1, <2>2, <3>2, <3>3, <3>4 DEF StructInv
  <2>3. \A q, r \in Options, s \in NativeOptions : HasStruct(q, s)' /\ HasStruct(r, s)' => q = r
    BY <1>1, <1>4 DEF StructInv
  <2>4. \A s \in NativeOptions : structs'[s] # Zero => \E q \in Options : HasStruct(q, s)'
    BY <1>1, <1>4, <2>1 DEF StructInv
  <2> QED
    BY <2>2, <2>3, <2>4, Zenon DEF StructInv
<1> QED
  BY <1>1, <1>3, <1>5, ContextsUntouched, Zenon

\* The destructor cleans up the struct of its owner.
LEMMA TlsDestroyOptions ==
  ASSUME TlsIInv, NEW o \in Options, Tls!DestroyOptions(o)
  PROVE  TlsIInv'
<1> USE NativeObjectsAssumption DEF TlsIInv
<1>1. /\ Tls!CleanUp(o) /\ options' = [options EXCEPT ![o] = Zero]
      /\ UNCHANGED <<context, connection, native>>
  BY Zenon DEF Tls!DestroyOptions
<1>2. TlsTypeOK'
  BY <1>1, TlsCleanUp, Zenon DEF TlsTypeOK
<1>3. \A q \in Options, s \in NativeOptions : HasStruct(q, s)' <=> q # o /\ HasStruct(q, s)
  BY <1>1, Zenon DEF TlsTypeOK, HasStruct
<1>4. \A s \in NativeOptions : structs'[s] = IF HasStruct(o, s) THEN Zero ELSE structs[s]
  BY <1>1, TlsCleanUp, Zenon
<1>5. StructInv'
  <2>1. ASSUME NEW q \in Options, options'[q] # Zero, options'[q].isInit
        PROVE  /\ options'[q].struct \in NativeOptions
               /\ structs'[options'[q].struct] = options'[q].metrics
    <3>1. q # o /\ options'[q] = options[q]
      BY <1>1, <2>1, Zenon DEF TlsTypeOK
    <3>2. options[q].struct \in NativeOptions /\ HasStruct(q, options[q].struct)
      BY <2>1, <3>1, Zenon DEF StructInv, HasStruct
    <3> QED
      BY <1>4, <2>1, <3>1, <3>2, Zenon DEF StructInv
  <2> QED
    BY <1>3, <1>4, <2>1, Zenon DEF StructInv
<1> QED
  BY <1>1, <1>2, <1>5, ContextsUntouched, Zenon

\* A setting goes to the struct and to the report of its owner.
LEMMA TlsSetVersion ==
  ASSUME TlsIInv, NEW o \in Options, NEW version \in Versions, Tls!SetVersion(o, version)
  PROVE  TlsIInv'
<1> USE NativeObjectsAssumption DEF TlsIInv
<1> DEFINE s == options[o].struct
           m == [options[o].metrics EXCEPT !.version = version]
           r == [options[o] EXCEPT !.metrics = m]
<1>1. /\ options[o] # Zero /\ options[o].isInit
      /\ structs' = [structs EXCEPT ![s].version = version]
      /\ options' = [options EXCEPT ![o].metrics.version = version]
      /\ UNCHANGED <<context, connection, native>>
  BY Zenon DEF Tls!SetVersion, Tls!Is
<1>2. /\ options[o] \in Tls!TlsContextOptions /\ s \in NativeOptions
      /\ structs[s] = options[o].metrics
  BY <1>1, Zenon DEF TlsTypeOK, StructInv
<1>3. m \in Tls!Metrics
  BY <1>2, Zenon DEF Tls!TlsContextOptions, Tls!Metrics
<1>4. structs' = [structs EXCEPT ![s] = m]
  BY <1>1, <1>2, Zenon
<1>5. /\ options' = [options EXCEPT ![o] = r]
      /\ r \in Tls!TlsContextOptions /\ r.isInit /\ r.struct = s /\ r.metrics = m
  <2>1. options' = [options EXCEPT ![o] = r]
    BY <1>1, Zenon
  <2>2. r \in Tls!TlsContextOptions /\ r.struct = s /\ r.metrics = m
    BY <1>2, <1>3, Zenon DEF Tls!TlsContextOptions
  <2>3. r.isInit
    BY <1>1, <1>2, Zenon DEF Tls!TlsContextOptions
  <2> QED
    BY <2>1, <2>2, <2>3, Zenon
<1> HIDE DEF s, m, r
<1>6. TlsTypeOK'
  BY <1>1, <1>2, <1>3, <1>4, <1>5 DEF TlsTypeOK
<1>7. HasStruct(o, s)
  BY <1>1, Zenon DEF HasStruct, s
<1>8. \A q \in Options, z \in NativeOptions : HasStruct(q, z)' <=> HasStruct(q, z)
  BY <1>1, <1>4, <1>5 DEF TlsTypeOK, HasStruct, s
<1>9. \A q \in Options \ {o} : options'[q] = options[q]
  BY <1>5, Zenon DEF TlsTypeOK
<1>10. ASSUME NEW q \in Options, options'[q] # Zero, options'[q].isInit
       PROVE  /\ options'[q].struct \in NativeOptions
              /\ structs'[options'[q].struct] = options'[q].metrics
  <2>1. CASE q = o
    BY <1>2, <1>4, <1>5, <2>1, Zenon DEF TlsTypeOK
  <2>2. CASE q # o
    <3>1. HasStruct(q, options[q].struct) /\ options[q].struct \in NativeOptions
      BY <1>9, <1>10, <2>2, Zenon DEF HasStruct, StructInv
    <3>2. options[q].struct # s
      BY <1>2, <1>7, <2>2, <3>1, SMTT(60) DEF StructInv
    <3> QED
      BY <1>4, <1>9, <1>10, <2>2, <3>1, <3>2, SMTT(60) DEF TlsTypeOK, StructInv
  <2> QED
    BY <2>1, <2>2, Zenon
<1>11. \A z \in NativeOptions : structs'[z] # Zero => structs[z] # Zero
  BY <1>2, <1>4, Zenon DEF TlsTypeOK, Tls!TlsContextOptions
<1>12. StructInv'
  BY <1>8, <1>10, <1>11, Zenon DEF StructInv
<1> QED
  BY <1>1, <1>6, <1>12, ContextsUntouched, Zenon

-----------------------------------------------------------------------------
(* TlsIInv is an invariant: the references to C contexts *)

Counts == [refs : Nat, made : Tls!Metrics]

OthersShare(x, n) == \E y \in Contexts \ {x} : context[y] # Zero /\ context[y].ctx = n

\* The connection options that use a context are counted.
LEMMA UsingIsFinite ==
  \A n : IsFiniteSet(Tls!Using(n)) /\ Cardinality(Tls!Using(n)) \in Nat
<1> SUFFICES ASSUME NEW n
             PROVE  IsFiniteSet(Tls!Using(n)) /\ Cardinality(Tls!Using(n)) \in Nat
  BY Zenon
<1>1. Tls!Using(n) \subseteq Connections
  BY Zenon DEF Tls!Using
<1>2. IsFiniteSet(Tls!Using(n))
  BY <1>1, NativeObjectsAssumption, FS_Subset, Zenon
<1> QED
  BY <1>2, FS_CardinalityType, Zenon

\* A context without references is used by nobody.
LEMMA UnusedContext ==
  ASSUME TlsIInv, NEW n \in NativeContexts, native[n].refs = 0
  PROVE  Tls!Using(n) = {} /\ ~Tls!Sharing(n)
<1>1. Cardinality(Tls!Using(n)) = 0 /\ ~Tls!Sharing(n)
  BY UsingIsFinite, SMTT(60) DEF TlsIInv, RefsInv
<1> QED
  BY <1>1, UsingIsFinite, FS_EmptySet, Zenon

\* What is left when object x no longer shares its context: the references are those
\* of the others, who still find what they were made with.
LEMMA TlsUnshare ==
  ASSUME TlsIInv, NEW x \in Contexts
  PROVE  LET left == Tls!Unshare(native, x)
         IN /\ left \in [NativeContexts -> Counts]
            /\ \A n \in NativeContexts :
                /\ left[n].refs = Cardinality(Tls!Using(n)) + (IF OthersShare(x, n) THEN 1 ELSE 0)
                /\ Tls!Using(n) # {} \/ OthersShare(x, n) => left[n].made = native[n].made
<1> DEFINE left == Tls!Unshare(native, x)
           k == context[x].ctx
           LeftIsRight(n) ==
                /\ left[n].refs = Cardinality(Tls!Using(n)) + (IF OthersShare(x, n) THEN 1 ELSE 0)
                /\ Tls!Using(n) # {} \/ OthersShare(x, n) => left[n].made = native[n].made
<1> SUFFICES left \in [NativeContexts -> Counts] /\ \A n \in NativeContexts : LeftIsRight(n)
  BY Zenon
<1> USE NativeObjectsAssumption DEF TlsIInv
<1>1. native \in [NativeContexts -> Counts]
  BY Zenon DEF TlsTypeOK, Counts
<1>2. \A n \in NativeContexts :
        Tls!Sharing(n) <=> OthersShare(x, n) \/ (context[x] # Zero /\ k = n)
  BY Zenon DEF Tls!Sharing, OthersShare, Tls!Is
<1>3. CASE context[x] # Zero /\ k # Zero /\ ~OthersShare(x, k)
  <2>1. k \in NativeContexts
    BY <1>3, Zenon DEF TlsTypeOK, Tls!TlsContext
  <2>2. native[k].refs = Cardinality(Tls!Using(k)) + 1
    BY <1>2, <1>3, <2>1, Zenon DEF RefsInv
  <2>3. left = IF native[k].refs = 1 THEN [native EXCEPT ![k] = Tls!Freed]
               ELSE [native EXCEPT ![k].refs = @ - 1]
    BY <1>3, Zenon DEF Tls!Unshare, Tls!Release, Tls!Is, OthersShare
  <2>4. \A n \in NativeContexts \ {k} : left[n] = native[n]
    BY <1>1, <2>3, Zenon
  <2>7. ASSUME NEW n \in NativeContexts \ {k}
        PROVE  LeftIsRight(n)
    <3>1. left[n] = native[n] /\ (Tls!Sharing(n) <=> OthersShare(x, n))
      BY <1>2, <2>4, Zenon
    <3> HIDE DEF left
    <3> QED
      BY <3>1, Zenon DEF RefsInv
  <2>5. CASE native[k].refs = 1
    <3>1. Cardinality(Tls!Using(k)) = 0 /\ Tls!Using(k) = {}
      BY <2>2, <2>5, UsingIsFinite, FS_EmptySet
    <3>2. left[k] = Tls!Freed /\ Tls!Freed \in Counts /\ Tls!Freed.refs = 0
      BY <1>1, <2>1, <2>3, <2>5, Zenon DEF Tls!Freed, Counts, Tls!DefaultMetrics, Tls!Metrics
    <3>3. left \in [NativeContexts -> Counts]
      BY <1>1, <2>1, <2>3, <2>5, <3>2, Zenon
    <3>4. left[k].refs = 0
      BY <3>2, Zenon
    <3> HIDE DEF left, k
    <3>5. LeftIsRight(k)
      BY <1>3, <3>1, <3>4, SMTT(60)
    <3> QED
      BY <2>7, <3>3, <3>5, Zenon
  <2>6. CASE native[k].refs # 1
    <3>1. /\ left[k] \in Counts /\ left[k].refs = Cardinality(Tls!Using(k))
          /\ left[k].made = native[k].made
      <4>1. native[k] \in Counts /\ left[k] = [native[k] EXCEPT !.refs = @ - 1]
        BY <1>1, <2>1, <2>3, <2>6, Zenon
      <4>2. Cardinality(Tls!Using(k)) \in Nat
        BY UsingIsFinite, Zenon
      <4> HIDE DEF left, k
      <4> QED
        BY <2>2, <4>1, <4>2 DEF Counts
    <3>2. left \in [NativeContexts -> Counts]
      BY <1>1, <2>1, <2>3, <2>6, <3>1, Zenon
    <3>3. Cardinality(Tls!Using(k)) \in Nat
      BY UsingIsFinite, Zenon
    <3> HIDE DEF left, k
    <3> QED
      BY <1>3, <2>7, <3>1, <3>2, <3>3, SMTT(60)
  <2> QED
    BY <2>5, <2>6, Zenon
<1>4. CASE ~(context[x] # Zero /\ k # Zero /\ ~OthersShare(x, k))
  <2>1. left = native
    BY <1>4, Zenon DEF Tls!Unshare, Tls!Release, Tls!Is, OthersShare
  <2>2. \A n \in NativeContexts : Tls!Sharing(n) <=> OthersShare(x, n)
    BY <1>2, <1>4, Zenon
  <2> QED
    BY <1>1, <2>1, <2>2, Zenon DEF RefsInv
<1> QED
  BY <1>3, <1>4, Zenon

\* The steps of TlsContext objects: x gives its context up, and those that have one
\* afterwards had it before, others than x among them.
LEMMA ContextSteps ==
  ASSUME TlsIInv, NEW x \in Contexts,
         native' \in [NativeContexts -> Counts],
         \A n \in NativeContexts :
            /\ native'[n].refs =
                    Cardinality(Tls!Using(n)) + (IF OthersShare(x, n) THEN 1 ELSE 0)
            /\ Tls!Using(n) # {} \/ OthersShare(x, n) => native'[n].made = native[n].made,
         context' \in [Contexts -> Tls!TlsContext \cup {Zero}],
         \A n \in NativeContexts : Tls!Sharing(n)' <=> OthersShare(x, n),
         \A z \in Contexts : context'[z] # Zero /\ context'[z].ctx # Zero =>
            \E y \in Contexts \ {x} : context[y] # Zero /\ context'[z] = context[y],
         UNCHANGED <<options, connection, structs>>
  PROVE  TlsIInv'
<1> USE NativeObjectsAssumption DEF TlsIInv
<1>1. TlsTypeOK'
  BY ZenonT(60) DEF TlsTypeOK, Counts
<1>2. \A n \in NativeContexts : Tls!Using(n)' = Tls!Using(n)
  BY Zenon DEF Tls!Using, Tls!CtxOf
<1>3. RefsInv'
  BY <1>2, Zenon DEF RefsInv
<1>4. ASSUME NEW z \in Contexts, context'[z] # Zero, context'[z].ctx # Zero
      PROVE  context'[z].metrics = native'[context'[z].ctx].made
  <2>1. PICK y \in Contexts \ {x} : context[y] # Zero /\ context'[z] = context[y]
    BY <1>4, Zenon
  <2>2. context[y].ctx \in NativeContexts
    BY <1>4, <2>1, ZenonT(60) DEF TlsTypeOK, Tls!TlsContext
  <2>3. OthersShare(x, context[y].ctx)
    BY <2>1, Zenon DEF OthersShare
  <2>4. context[y].metrics = native[context[y].ctx].made
    BY <1>4, <2>1, SMTT(60) DEF MadeInv
  <2> QED
    BY <2>1, <2>2, <2>3, <2>4, Zenon
<1>5. ASSUME NEW c \in Connections, connection[c] # Zero, connection[c].isInit
      PROVE  /\ connection[c].ctx # Zero
             /\ connection[c].metrics = native'[connection[c].ctx].made
  <2>1. connection[c].ctx \in NativeContexts
    BY <1>5, Zenon DEF TlsTypeOK, Tls!TlsConnectionOptions, MadeInv
  <2>2. c \in Tls!Using(connection[c].ctx)
    BY <1>5, Zenon DEF Tls!Using, Tls!CtxOf, Tls!Is
  <2> QED
    BY <1>5, <2>1, <2>2, Zenon DEF MadeInv
<1>6. MadeInv'
  BY <1>4, <1>5, ZenonT(60) DEF MadeInv
<1> QED
  BY <1>1, <1>3, <1>6, OptionsUntouched, Zenon

\* A new context is one that nobody refers to, made with the settings of its options.
LEMMA TlsNewContext ==
  ASSUME TlsIInv, NEW x \in Contexts, NEW o \in Options, Tls!NewContext(x, o)
  PROVE  TlsIInv'
<1> USE NativeObjectsAssumption DEF TlsIInv
<1> DEFINE m == options[o].metrics
<1>1. context[x] = Zero /\ UNCHANGED <<options, connection, structs>>
  BY ZenonT(60) DEF Tls!NewContext, Tls!Is
<1>2. m \in Tls!Metrics /\ structs[options[o].struct] = m
  BY Zenon DEF Tls!NewContext, Tls!Is, TlsTypeOK, Tls!TlsContextOptions, StructInv
<1> HIDE DEF m
<1>3. ASSUME NEW n \in NativeContexts, native[n].refs = 0,
             native' = [native EXCEPT ![n] = [refs |-> 1, made |-> m]],
             context' = [context EXCEPT ![x] = [ctx |-> n, metrics |-> m]]
      PROVE  TlsIInv'
  <2>1. [ctx |-> n, metrics |-> m] \in Tls!TlsContext
    BY <1>2, Zenon DEF Tls!TlsContext
  <2>2. [refs |-> 1, made |-> m] \in Counts
    BY <1>2, Zenon DEF Counts
  <2>3. TlsTypeOK'
    BY <1>1, <1>3, <2>1, <2>2, Zenon DEF TlsTypeOK, Counts
  <2>4. Tls!Using(n) = {} /\ ~Tls!Sharing(n)
    BY <1>3, UnusedContext, Zenon
  <2>5. \A z \in NativeContexts : Tls!Using(z)' = Tls!Using(z)
    BY <1>1, Zenon DEF Tls!Using, Tls!CtxOf
  <2>6. \A z \in NativeContexts : Tls!Sharing(z)' <=> Tls!Sharing(z) \/ z = n
    BY <1>1, <1>3, <2>1, Zenon DEF TlsTypeOK, Tls!Sharing, Tls!Is
  <2>7. RefsInv'
    <3>1. native'[n].refs = 1 /\ Cardinality(Tls!Using(n)) = 0
      BY <1>3, <2>4, FS_EmptySet, Zenon DEF TlsTypeOK
    <3>2. \A z \in NativeContexts \ {n} : native'[z] = native[z]
      BY <1>3, Zenon DEF TlsTypeOK
    <3> QED
      BY <2>5, <2>6, <3>1, <3>2 DEF RefsInv
  <2>8. \A z \in NativeContexts \ {n} : native'[z] = native[z]
    BY <1>3, Zenon DEF TlsTypeOK
  <2>9. native'[n].made = m
    BY <1>3, Zenon DEF TlsTypeOK
  <2>10. ASSUME NEW y \in Contexts, context'[y] # Zero, context'[y].ctx # Zero
         PROVE  context'[y].metrics = native'[context'[y].ctx].made
    <3>1. CASE y = x
      BY <1>3, <2>9, <3>1, Zenon DEF TlsTypeOK
    <3>2. CASE y # x
      <4>1. context'[y] = context[y]
        BY <1>3, <3>2, Zenon DEF TlsTypeOK
      <4>2. context[y].ctx \in NativeContexts \ {n}
        BY <2>4, <2>10, <4>1, Zenon DEF TlsTypeOK, Tls!TlsContext, Tls!Sharing, Tls!Is
      <4> QED
        BY <2>8, <2>10, <4>1, <4>2, SMTT(60) DEF MadeInv
    <3> QED
      BY <3>1, <3>2, Zenon
  <2>11. ASSUME NEW c \in Connections, connection[c] # Zero, connection[c].isInit
         PROVE  /\ connection[c].ctx # Zero
                /\ connection[c].metrics = native'[connection[c].ctx].made
    <3>1. connection[c].ctx \in NativeContexts
      BY <2>11, Zenon DEF TlsTypeOK, Tls!TlsConnectionOptions, MadeInv
    <3>2. c \in Tls!Using(connection[c].ctx)
      BY <2>11, Zenon DEF Tls!Using, Tls!CtxOf, Tls!Is
    <3> QED
      BY <2>4, <2>8, <2>11, <3>1, <3>2, Zenon DEF MadeInv
  <2>12. MadeInv'
    BY <1>1, <2>10, <2>11, Zenon DEF MadeInv
  <2> QED
    BY <1>1, <2>3, <2>7, <2>12, OptionsUntouched, Zenon
<1> DEFINE Failed == /\ context' = [context EXCEPT ![x] = [ctx |-> Zero, metrics |-> m]]
                     /\ UNCHANGED native
<1>4. CASE Failed
  <2>1. [ctx |-> Zero, metrics |-> m] \in Tls!TlsContext
    BY <1>2, Zenon DEF Tls!TlsContext
  <2>2. TlsTypeOK'
    BY <1>1, <1>4, <2>1, Zenon DEF TlsTypeOK
  <2>3. \A z \in NativeContexts :
            Tls!Using(z)' = Tls!Using(z) /\ (Tls!Sharing(z)' <=> Tls!Sharing(z))
    BY <1>1, <1>4, <2>1, Zenon DEF TlsTypeOK, Tls!Sharing, Tls!Using, Tls!CtxOf, Tls!Is
  <2>4. RefsInv'
    BY <1>4, <2>3, Zenon DEF RefsInv
  <2>5. MadeInv'
    BY <1>1, <1>4, Zenon DEF TlsTypeOK, MadeInv
  <2> QED
    BY <1>1, <2>2, <2>4, <2>5, OptionsUntouched, Zenon
<1>5. CASE ~Failed
  <2> DEFINE n == CHOOSE n \in NativeContexts : native[n].refs = 0
  <2>1. n \in NativeContexts /\ native[n].refs = 0
    BY <1>5, Zenon DEF Tls!NewContext, m
  <2>2. /\ native' = [native EXCEPT
                            ![n] = [refs |-> 1, made |-> structs[options[o].struct]]]
        /\ context' = [context EXCEPT ![x] = [ctx |-> n, metrics |-> m]]
    BY <1>5, Zenon DEF Tls!NewContext, m
  <2> HIDE DEF n
  <2> QED
    BY <1>2, <1>3, <2>1, <2>2, ZenonT(60)
<1> QED
  BY <1>4, <1>5, Zenon

\* A TlsContext that already shares the context it is assigned keeps it.
LEMMA AssignsSame ==
  ASSUME TlsIInv, NEW x \in Contexts, NEW y \in Contexts \ {x}, context[y] # Zero,
         native' = IF context[x] # Zero /\ context[x].ctx = context[y].ctx
                      THEN native ELSE Tls!Unshare(native, x)
  PROVE  /\ native' \in [NativeContexts -> Counts]
         /\ \A n \in NativeContexts :
            /\ native'[n].refs =
                    Cardinality(Tls!Using(n)) + (IF OthersShare(x, n) THEN 1 ELSE 0)
            /\ Tls!Using(n) # {} \/ OthersShare(x, n) => native'[n].made = native[n].made
<1>1. CASE context[x] # Zero /\ context[x].ctx = context[y].ctx
  <2>1. \A n \in NativeContexts : Tls!Sharing(n) <=> OthersShare(x, n)
    BY <1>1, Zenon DEF Tls!Sharing, OthersShare, Tls!Is
  <2> QED
    BY <1>1, <2>1, Zenon DEF TlsIInv, TlsTypeOK, RefsInv, Counts
<1>2. CASE ~(context[x] # Zero /\ context[x].ctx = context[y].ctx)
  BY <1>2, TlsUnshare, Zenon
<1> QED
  BY <1>1, <1>2, Zenon

\* Copies, moves and destruction of TlsContext objects.
LEMMA TlsCopyContext ==
  ASSUME TlsIInv, NEW x \in Contexts, NEW y \in Contexts, Tls!CopyContext(x, y)
  PROVE  TlsIInv'
<1> USE NativeObjectsAssumption DEF TlsIInv
<1>1. /\ x # y /\ context[y] # Zero
      /\ context' = [context EXCEPT ![x] = context[y]]
      /\ native' = IF context[x] # Zero /\ context[x].ctx = context[y].ctx
                      THEN native ELSE Tls!Unshare(native, x)
      /\ UNCHANGED <<options, connection, structs>>
  BY Zenon DEF Tls!CopyContext, Tls!Is
<1>2. context' \in [Contexts -> Tls!TlsContext \cup {Zero}]
  BY <1>1, Zenon DEF TlsTypeOK
<1>3. \A n \in NativeContexts : Tls!Sharing(n)' <=> OthersShare(x, n)
  BY <1>1, Zenon DEF TlsTypeOK, Tls!Sharing, OthersShare, Tls!Is
<1>4. \A z \in Contexts : context'[z] # Zero /\ context'[z].ctx # Zero =>
        \E w \in Contexts \ {x} : context[w] # Zero /\ context'[z] = context[w]
  BY <1>1, Zenon DEF TlsTypeOK
<1> QED
  BY <1>1, <1>2, <1>3, <1>4, AssignsSame, ContextSteps, SMTT(60)

LEMMA TlsMoveContext ==
  ASSUME TlsIInv, NEW x \in Contexts, NEW y \in Contexts, Tls!MoveContext(x, y)
  PROVE  TlsIInv'
<1> USE NativeObjectsAssumption DEF TlsIInv
<1>1. /\ x # y /\ context[y] # Zero
      /\ context' = [context EXCEPT ![x] = context[y], ![y].ctx = Zero]
      /\ native' = IF context[x] # Zero /\ context[x].ctx = context[y].ctx
                      THEN native ELSE Tls!Unshare(native, x)
      /\ UNCHANGED <<options, connection, structs>>
  BY Zenon DEF Tls!MoveContext, Tls!Is
<1> DEFINE moved == [context[y] EXCEPT !.ctx = Zero]
<1>2. moved \in Tls!TlsContext /\ moved.ctx = Zero /\ context[y] \in Tls!TlsContext
  BY <1>1, Zenon DEF TlsTypeOK, Tls!TlsContext
<1>3. context' = [context EXCEPT ![x] = context[y], ![y] = moved]
  BY <1>1, Zenon DEF TlsTypeOK
<1> HIDE DEF moved
<1>4. context' \in [Contexts -> Tls!TlsContext \cup {Zero}]
  BY <1>2, <1>3, Zenon DEF TlsTypeOK
<1>5. \A n \in NativeContexts : Tls!Sharing(n)' <=> OthersShare(x, n)
  BY <1>1, <1>2, <1>3 DEF TlsTypeOK, Tls!Sharing, OthersShare, Tls!Is
<1>6. \A z \in Contexts : context'[z] # Zero /\ context'[z].ctx # Zero =>
        \E w \in Contexts \ {x} : context[w] # Zero /\ context'[z] = context[w]
  BY <1>1, <1>2, <1>3, Zenon DEF TlsTypeOK
<1> QED
  BY <1>1, <1>4, <1>5, <1>6, AssignsSame, ContextSteps

LEMMA TlsDestroyContext ==
  ASSUME TlsIInv, NEW x \in Contexts, Tls!DestroyContext(x)
  PROVE  TlsIInv'
<1> USE NativeObjectsAssumption DEF TlsIInv
<1>1. /\ context' = [context EXCEPT ![x] = Zero]
      /\ native' = Tls!Unshare(native, x)
      /\ UNCHANGED <<options, connection, structs>>
  BY Zenon DEF Tls!DestroyContext
<1>2. context' \in [Contexts -> Tls!TlsContext \cup {Zero}]
  BY <1>1, Zenon DEF TlsTypeOK
<1>3. \A n \in NativeContexts : Tls!Sharing(n)' <=> OthersShare(x, n)
  BY <1>1, Zenon DEF TlsTypeOK, Tls!Sharing, OthersShare, Tls!Is
<1>4. \A z \in Contexts : context'[z] # Zero /\ context'[z].ctx # Zero =>
        \E w \in Contexts \ {x} : context[w] # Zero /\ context'[z] = context[w]
  BY <1>1, Zenon DEF TlsTypeOK
<1> QED
  BY <1>1, <1>2, <1>3, <1>4, TlsUnshare, ContextSteps, SMTT(60)

-----------------------------------------------------------------------------
(* TlsIInv is an invariant: connection options *)

Shared(n) == IF Tls!Sharing(n) THEN 1 ELSE 0

\* The context of an object is what it has while it is initialized.
LEMMA ContextOf ==
  ASSUME TlsIInv, NEW c \in Connections
  PROVE  /\ Tls!CtxOf(c) \in NativeContexts \cup {Zero}
         /\ Tls!CtxOf(c) # Zero <=> connection[c] # Zero /\ connection[c].isInit
         /\ Tls!CtxOf(c) # Zero => /\ Tls!CtxOf(c) = connection[c].ctx
                                   /\ connection[c].metrics = native[connection[c].ctx].made
         /\ \A n \in NativeContexts : c \in Tls!Using(n) <=> Tls!CtxOf(c) = n
BY NativeObjectsAssumption, ZenonT(60)
   DEF TlsIInv, TlsTypeOK, MadeInv, Tls!CtxOf, Tls!Is, Tls!TlsConnectionOptions, Tls!Using

\* What is left when c no longer uses its context.
LEMMA TlsRelease ==
  ASSUME TlsIInv, NEW c \in Connections
  PROVE  LET left == Tls!Release(native, Tls!CtxOf(c))
         IN /\ left \in [NativeContexts -> Counts]
            /\ \A n \in NativeContexts :
                /\ left[n].refs = Cardinality(Tls!Using(n) \ {c}) + Shared(n)
                /\ Tls!Using(n) \ {c} # {} \/ Tls!Sharing(n) => left[n].made = native[n].made
<1> DEFINE left == Tls!Release(native, Tls!CtxOf(c))
           k == Tls!CtxOf(c)
           LeftIsRight(n) ==
                /\ left[n].refs = Cardinality(Tls!Using(n) \ {c}) + Shared(n)
                /\ Tls!Using(n) \ {c} # {} \/ Tls!Sharing(n) => left[n].made = native[n].made
<1> SUFFICES left \in [NativeContexts -> Counts] /\ \A n \in NativeContexts : LeftIsRight(n)
  BY Zenon
<1> USE NativeObjectsAssumption DEF TlsIInv
<1>1. native \in [NativeContexts -> Counts]
  BY Zenon DEF TlsTypeOK, Counts
<1>2. \A n \in NativeContexts : native[n].refs = Cardinality(Tls!Using(n)) + Shared(n)
  BY Zenon DEF RefsInv, Shared
<1>3. ASSUME NEW n \in NativeContexts, n # k, left[n] = native[n]
      PROVE  LeftIsRight(n)
  <2>1. Tls!Using(n) \ {c} = Tls!Using(n)
    BY <1>3, ContextOf, Zenon
  <2> HIDE DEF left, k
  <2> QED
    BY <1>2, <1>3, <2>1, ZenonT(60)
<1>4. CASE k = Zero
  <2>1. left = native
    BY <1>4, Zenon DEF Tls!Release, Tls!Is
  <2> HIDE DEF left, LeftIsRight
  <2> QED
    BY <1>1, <1>3, <1>4, <2>1, Zenon
<1>5. CASE k # Zero
  <2>1. k \in NativeContexts /\ c \in Tls!Using(k)
    BY <1>5, ContextOf, Zenon
  <2>2. /\ Cardinality(Tls!Using(k) \ {c}) = Cardinality(Tls!Using(k)) - 1
        /\ IsFiniteSet(Tls!Using(k) \ {c}) /\ Cardinality(Tls!Using(k) \ {c}) \in Nat
    <3>1. /\ Cardinality(Tls!Using(k) \ {c}) = Cardinality(Tls!Using(k)) - 1
          /\ IsFiniteSet(Tls!Using(k) \ {c})
      BY <2>1, UsingIsFinite, FS_RemoveElement, Zenon
    <3> QED
      BY <3>1, FS_CardinalityType, Zenon
  <2>3. native[k].refs = Cardinality(Tls!Using(k) \ {c}) + 1 + Shared(k)
    BY <1>2, <2>1, <2>2, UsingIsFinite DEF Shared
  <2>4. left = IF native[k].refs = 1 THEN [native EXCEPT ![k] = Tls!Freed]
               ELSE [native EXCEPT ![k].refs = @ - 1]
    BY <1>5, Zenon DEF Tls!Release, Tls!Is
  <2>5. \A n \in NativeContexts \ {k} : left[n] = native[n]
    BY <1>1, <2>4, Zenon
  <2>6. CASE native[k].refs = 1
    <3>1. Cardinality(Tls!Using(k) \ {c}) = 0 /\ ~Tls!Sharing(k) /\ Shared(k) = 0
      <4>1. Shared(k) \in {0, 1} /\ (Tls!Sharing(k) => Shared(k) = 1)
        BY Zenon DEF Shared
      <4> DEFINE a == Cardinality(Tls!Using(k) \ {c})
                 b == Shared(k)
      <4>2. a \in Nat /\ b \in {0, 1} /\ a + 1 + b = 1
        BY <2>2, <2>3, <2>6, <4>1, ZenonT(60)
      <4> HIDE DEF a, b
      <4>3. a = 0 /\ b = 0
        BY <4>2, SMTT(60)
      <4> QED
        BY <4>1, <4>3 DEF a, b
    <3>2. Tls!Using(k) \ {c} = {}
      BY <2>2, <3>1, FS_EmptySet, Zenon
    <3>3. left[k] = Tls!Freed /\ Tls!Freed \in Counts /\ Tls!Freed.refs = 0
      BY <1>1, <2>1, <2>4, <2>6, Zenon DEF Tls!Freed, Counts, Tls!DefaultMetrics, Tls!Metrics
    <3>4. left \in [NativeContexts -> Counts] /\ left[k].refs = 0
      BY <1>1, <2>1, <2>4, <2>6, <3>3, Zenon
    <3> HIDE DEF left, k
    <3>5. LeftIsRight(k)
      BY <3>1, <3>2, <3>4, SMTT(60)
    <3> HIDE DEF LeftIsRight
    <3> QED
      BY <1>3, <2>5, <3>4, <3>5, Zenon
  <2>7. CASE native[k].refs # 1
    <3>1. /\ left[k] \in Counts /\ left[k].made = native[k].made
          /\ left[k].refs = Cardinality(Tls!Using(k) \ {c}) + Shared(k)
      BY <1>1, <2>1, <2>2, <2>3, <2>4, <2>7 DEF Counts, Shared
    <3>2. left \in [NativeContexts -> Counts]
      BY <1>1, <2>1, <2>4, <2>7, <3>1, Zenon
    <3> HIDE DEF left, k
    <3>3. LeftIsRight(k)
      BY <3>1, Zenon
    <3> HIDE DEF LeftIsRight
    <3> QED
      BY <1>3, <2>5, <3>2, <3>3, Zenon
  <2> QED
    BY <2>6, <2>7, ZenonT(60)
<1> QED
  BY <1>4, <1>5, ZenonT(60)

\* The steps of connection options: the counts are right for those that use a context
\* afterwards, each of which had it, or took it from one that had it, with its report.
LEMMA ConnectionSteps ==
  ASSUME TlsIInv,
         native' \in [NativeContexts -> Counts],
         \A n \in NativeContexts :
            /\ native'[n].refs = Cardinality(Tls!Using(n)') + Shared(n)
            /\ Tls!Using(n)' # {} \/ Tls!Sharing(n) => native'[n].made = native[n].made,
         connection' \in [Connections -> Tls!TlsConnectionOptions \cup {Zero}],
         \A c \in Connections : connection'[c] # Zero /\ connection'[c].isInit =>
            /\ connection'[c].ctx \in NativeContexts
            /\ connection'[c].metrics = native[connection'[c].ctx].made,
         UNCHANGED <<options, context, structs>>
  PROVE  TlsIInv'
<1> USE NativeObjectsAssumption DEF TlsIInv
<1>1. TlsTypeOK'
  BY Zenon DEF TlsTypeOK, Counts
<1>2. \A n \in NativeContexts : Tls!Sharing(n)' <=> Tls!Sharing(n)
  BY Zenon DEF Tls!Sharing
<1>3. RefsInv'
  BY <1>2, ZenonT(60) DEF RefsInv, Shared
<1>4. ASSUME NEW x \in Contexts, context[x] # Zero, context[x].ctx # Zero
      PROVE  context[x].metrics = native'[context[x].ctx].made
  <2>1. context[x].ctx \in NativeContexts
    BY <1>4, ZenonT(60) DEF TlsTypeOK, Tls!TlsContext
  <2>2. Tls!Sharing(context[x].ctx)
    BY <1>4, ZenonT(60) DEF Tls!Sharing, Tls!Is
  <2> QED
    BY <1>4, <2>1, <2>2, ZenonT(60) DEF MadeInv
<1>5. ASSUME NEW c \in Connections, connection'[c] # Zero, connection'[c].isInit
      PROVE  /\ connection'[c].ctx # Zero
             /\ connection'[c].metrics = native'[connection'[c].ctx].made
  <2>1. /\ connection'[c].ctx \in NativeContexts
        /\ connection'[c].metrics = native[connection'[c].ctx].made
    BY <1>5, Zenon
  <2>2. PICK n \in NativeContexts : n = connection'[c].ctx
    BY <2>1, Zenon
  <2>3. c \in Tls!Using(n)'
    BY <1>5, <2>2, ZenonT(60) DEF Tls!Using, Tls!CtxOf, Tls!Is
  <2> QED
    BY <2>1, <2>2, <2>3, Zenon
<1>6. MadeInv'
  BY <1>4, <1>5, ZenonT(60) DEF MadeInv
<1> QED
  BY <1>1, <1>3, <1>6, OptionsUntouched, Zenon

\* Options without a context are of their type.
LEMMA NoConnectionType ==
  Tls!NoConnection \in Tls!TlsConnectionOptions /\ ~Tls!NoConnection.isInit
BY Zenon DEF Tls!NoConnection, Tls!TlsConnectionOptions, Tls!DefaultMetrics, Tls!Metrics

\* New connection options take a reference.
LEMMA TlsNewConnectionOptions ==
  ASSUME TlsIInv, NEW c \in Connections, NEW x \in Contexts, Tls!NewConnectionOptions(c, x)
  PROVE  TlsIInv'
<1> USE NativeObjectsAssumption
<1>1. connection[c] = Zero /\ context[x] # Zero /\ UNCHANGED <<options, context, structs>>
  BY ZenonT(60) DEF Tls!NewConnectionOptions, Tls!Is
<1>2. \A n \in NativeContexts : c \notin Tls!Using(n)
  BY <1>1, ContextOf, Zenon
<1>3. native \in [NativeContexts -> Counts] /\ context[x] \in Tls!TlsContext
  BY <1>1, Zenon DEF TlsIInv, TlsTypeOK, Counts
<1>4. \A n \in NativeContexts : native[n].refs = Cardinality(Tls!Using(n)) + Shared(n)
  BY Zenon DEF TlsIInv, RefsInv, Shared
<1>5. CASE context[x].ctx # Zero
  <2>0. PICK k \in NativeContexts : k = context[x].ctx
    BY <1>3, <1>5, Zenon DEF Tls!TlsContext
  <2> DEFINE m == context[x].metrics
             new == [isInit |-> TRUE, ctx |-> k, metrics |-> m]
  <2>1. native' = Tls!Acquire(native, k) /\ connection' = [connection EXCEPT ![c] = new]
    BY <1>5, <2>0, ZenonT(60) DEF Tls!NewConnectionOptions, Tls!Is
  <2>2. k \in NativeContexts /\ m \in Tls!Metrics /\ m = native[k].made
    BY <1>1, <1>3, <1>5, <2>0, ZenonT(60) DEF TlsIInv, MadeInv, Tls!TlsContext
  <2>3. new \in Tls!TlsConnectionOptions /\ new.isInit /\ new.ctx = k /\ new.metrics = m
    BY <2>2, Zenon DEF Tls!TlsConnectionOptions
  <2> HIDE DEF m, new
  <2>4. connection' \in [Connections -> Tls!TlsConnectionOptions \cup {Zero}]
    BY <2>1, <2>3, ZenonT(60) DEF TlsIInv, TlsTypeOK
  <2>5. \A n \in NativeContexts :
            Tls!Using(n)' = IF n = k THEN Tls!Using(n) \cup {c} ELSE Tls!Using(n)
    BY <1>1, <2>1, <2>2, <2>3 DEF TlsIInv, TlsTypeOK, Tls!Using, Tls!CtxOf, Tls!Is
  <2>6. /\ native' \in [NativeContexts -> Counts]
        /\ native'[k].refs = native[k].refs + 1 /\ native'[k].made = native[k].made
        /\ \A n \in NativeContexts \ {k} : native'[n] = native[n]
    BY <1>3, <2>1, <2>2 DEF Tls!Acquire, Counts
  <2>7. Cardinality(Tls!Using(k) \cup {c}) = Cardinality(Tls!Using(k)) + 1
    BY <1>2, <2>2, UsingIsFinite, FS_AddElement, ZenonT(60)
  <2>8. \A n \in NativeContexts : native'[n].refs = Cardinality(Tls!Using(n)') + Shared(n)
    <3>1. native'[k].refs = Cardinality(Tls!Using(k)') + Shared(k)
      <4>1. native[k].refs = Cardinality(Tls!Using(k)) + Shared(k) /\ Shared(k) \in Nat
        BY <1>4, <2>2, Zenon DEF Shared
      <4>2. Cardinality(Tls!Using(k)') = Cardinality(Tls!Using(k)) + 1
        BY <2>5, <2>7, Zenon
      <4>3. Cardinality(Tls!Using(k)) \in Nat
        BY UsingIsFinite, Zenon
      <4> DEFINE a == Cardinality(Tls!Using(k))
                 b == Shared(k)
                 r == native[k].refs
      <4>4. a \in Nat /\ b \in Nat /\ r = a + b /\ native'[k].refs = r + 1
        BY <2>6, <4>1, <4>3, Zenon
      <4> HIDE DEF a, b, r
      <4>5. native'[k].refs = (a + 1) + b
        BY <4>4, SMTT(60)
      <4> QED
        BY <4>2, <4>5, Zenon DEF a, b
    <3> QED
      BY <1>4, <2>5, <2>6, <3>1, Zenon
  <2>9. \A d \in Connections : connection'[d] # Zero /\ connection'[d].isInit =>
            /\ connection'[d].ctx \in NativeContexts
            /\ connection'[d].metrics = native[connection'[d].ctx].made
    BY <2>1, <2>2, <2>3, ContextOf, SMTT(60) DEF TlsIInv, TlsTypeOK
  <2> QED
    BY <1>1, <2>4, <2>6, <2>8, <2>9, ConnectionSteps, ZenonT(60)
<1>6. CASE context[x].ctx = Zero
  <2>1. UNCHANGED native /\ connection' = [connection EXCEPT ![c] = Tls!NoConnection]
    BY <1>6, ZenonT(60) DEF Tls!NewConnectionOptions, Tls!Is
  <2>2. connection' \in [Connections -> Tls!TlsConnectionOptions \cup {Zero}]
    BY <2>1, NoConnectionType, Zenon DEF TlsIInv, TlsTypeOK
  <2>3. \A n \in NativeContexts : Tls!Using(n)' = Tls!Using(n)
    BY <1>1, <2>1, NoConnectionType, Zenon DEF TlsIInv, TlsTypeOK, Tls!Using, Tls!CtxOf, Tls!Is
  <2>4. \A d \in Connections : connection'[d] # Zero /\ connection'[d].isInit =>
            /\ connection'[d].ctx \in NativeContexts
            /\ connection'[d].metrics = native[connection'[d].ctx].made
    BY <2>1, NoConnectionType, ContextOf, SMTT(60) DEF TlsIInv, TlsTypeOK
  <2> QED
    BY <1>1, <1>3, <1>4, <2>1, <2>2, <2>3, <2>4, ConnectionSteps, Zenon
<1> QED
  BY <1>5, <1>6, Zenon

\* c is left without a context.
LEMMA ConnectionGone ==
  ASSUME TlsIInv, NEW c \in Connections, NEW v \in Tls!TlsConnectionOptions \cup {Zero},
         v # Zero => ~v.isInit,
         connection' = [connection EXCEPT ![c] = v],
         native' = Tls!Release(native, Tls!CtxOf(c)),
         UNCHANGED <<options, context, structs>>
  PROVE  TlsIInv'
<1> USE NativeObjectsAssumption
<1>1. connection' \in [Connections -> Tls!TlsConnectionOptions \cup {Zero}]
  BY Zenon DEF TlsIInv, TlsTypeOK
<1>2. \A n \in NativeContexts : Tls!Using(n)' = Tls!Using(n) \ {c}
  BY ZenonT(60) DEF TlsIInv, TlsTypeOK, Tls!Using, Tls!CtxOf, Tls!Is
<1>3. \A d \in Connections : connection'[d] # Zero /\ connection'[d].isInit =>
        /\ connection'[d].ctx \in NativeContexts
        /\ connection'[d].metrics = native[connection'[d].ctx].made
  BY ContextOf, Zenon DEF TlsIInv, TlsTypeOK
<1>4. /\ native' \in [NativeContexts -> Counts]
      /\ \A n \in NativeContexts :
            /\ native'[n].refs = Cardinality(Tls!Using(n) \ {c}) + Shared(n)
            /\ Tls!Using(n) \ {c} # {} \/ Tls!Sharing(n) => native'[n].made = native[n].made
  BY TlsRelease, ZenonT(60)
<1>5. \A n \in NativeContexts :
        /\ native'[n].refs = Cardinality(Tls!Using(n)') + Shared(n)
        /\ Tls!Using(n)' # {} \/ Tls!Sharing(n) => native'[n].made = native[n].made
  BY <1>2, <1>4, ZenonT(60)
<1> QED
  BY <1>1, <1>3, <1>4, <1>5, ConnectionSteps, Zenon

\* c refers to the context of d as well.
LEMMA ConnectionCopied ==
  ASSUME TlsIInv, NEW c \in Connections, NEW d \in Connections, c # d,
         connection[d] # Zero, connection[d].isInit,
         connection' = [connection EXCEPT ![c] = connection[d]],
         native' = Tls!Acquire(Tls!Release(native, Tls!CtxOf(c)), connection[d].ctx),
         UNCHANGED <<options, context, structs>>
  PROVE  TlsIInv'
<1> USE NativeObjectsAssumption
<1> DEFINE left == Tls!Release(native, Tls!CtxOf(c))
<1>1. connection' \in [Connections -> Tls!TlsConnectionOptions \cup {Zero}]
  BY ZenonT(60) DEF TlsIInv, TlsTypeOK
<1>2. PICK k \in NativeContexts : k = connection[d].ctx
  BY ContextOf, Zenon
<1>3. d \in Tls!Using(k)
  BY <1>2, ContextOf, Zenon
<1>4. \A n \in NativeContexts :
        Tls!Using(n)' = IF n = k THEN (Tls!Using(n) \ {c}) \cup {c} ELSE Tls!Using(n) \ {c}
  BY <1>2, ZenonT(60) DEF TlsIInv, TlsTypeOK, Tls!Using, Tls!CtxOf, Tls!Is
<1>5. \A e \in Connections : connection'[e] # Zero /\ connection'[e].isInit =>
        /\ connection'[e].ctx \in NativeContexts
        /\ connection'[e].metrics = native[connection'[e].ctx].made
  BY ContextOf, ZenonT(60) DEF TlsIInv, TlsTypeOK
<1>6. /\ left \in [NativeContexts -> Counts]
      /\ \A n \in NativeContexts :
            /\ left[n].refs = Cardinality(Tls!Using(n) \ {c}) + Shared(n)
            /\ Tls!Using(n) \ {c} # {} \/ Tls!Sharing(n) => left[n].made = native[n].made
  BY TlsRelease, Zenon
<1>7. native' = [left EXCEPT ![k].refs = @ + 1]
  BY <1>2, Zenon DEF Tls!Acquire
<1> HIDE DEF left
<1>8. /\ native' \in [NativeContexts -> Counts]
      /\ native'[k].refs = left[k].refs + 1 /\ native'[k].made = left[k].made
      /\ \A n \in NativeContexts \ {k} : native'[n] = left[n]
  BY <1>6, <1>7 DEF Counts
<1>9. native'[k].refs = Cardinality(Tls!Using(k)') + Shared(k)
  <2> DEFINE a == Cardinality(Tls!Using(k) \ {c})
             b == Shared(k)
             r == left[k].refs
  <2>1. IsFiniteSet(Tls!Using(k) \ {c})
    BY UsingIsFinite, FS_Subset, Tls!Using(k) \ {c} \subseteq Tls!Using(k), Zenon
  <2>2. Cardinality((Tls!Using(k) \ {c}) \cup {c}) = a + 1 /\ a \in Nat
    BY <2>1, FS_AddElement, FS_CardinalityType, c \notin Tls!Using(k) \ {c}, ZenonT(60)
  <2>3. Cardinality(Tls!Using(k)') = a + 1
    BY <1>4, <2>2, ZenonT(60)
  <2>4. b \in Nat /\ r = a + b /\ native'[k].refs = r + 1
    BY <1>6, <1>8, Zenon DEF Shared
  <2> HIDE DEF a, b, r
  <2>5. native'[k].refs = (a + 1) + b
    BY <2>2, <2>4, SMTT(60)
  <2> QED
    BY <2>3, <2>5, Zenon DEF b
<1>10. \A n \in NativeContexts : native'[n].refs = Cardinality(Tls!Using(n)') + Shared(n)
  BY <1>4, <1>6, <1>8, <1>9, ZenonT(60)
<1>11. \A n \in NativeContexts :
        Tls!Using(n)' # {} \/ Tls!Sharing(n) => native'[n].made = native[n].made
  <2>1. native'[k].made = native[k].made
    BY <1>3, <1>6, <1>8, ZenonT(60)
  <2> QED
    BY <1>4, <1>6, <1>8, <2>1, ZenonT(60)
<1> QED
  BY <1>1, <1>5, <1>8, <1>10, <1>11, ConnectionSteps, ZenonT(60)

\* c takes the place of d, among those that use its context.
LEMMA ConnectionMoved ==
  ASSUME TlsIInv, NEW c \in Connections, NEW d \in Connections, c # d,
         connection[d] # Zero, connection[d].isInit,
         connection' = [connection EXCEPT ![c] = connection[d], ![d] = Tls!NoConnection],
         native' = Tls!Release(native, Tls!CtxOf(c)),
         UNCHANGED <<options, context, structs>>
  PROVE  TlsIInv'
<1> USE NativeObjectsAssumption
<1>1. connection' \in [Connections -> Tls!TlsConnectionOptions \cup {Zero}]
  BY NoConnectionType, ZenonT(60) DEF TlsIInv, TlsTypeOK
<1>2. PICK k \in NativeContexts : k = connection[d].ctx
  BY ContextOf, Zenon
<1>3. d \in Tls!Using(k) /\ \A n \in NativeContexts \ {k} : d \notin Tls!Using(n)
  BY <1>2, ContextOf, Zenon
<1>4. \A n \in NativeContexts :
        Tls!Using(n)' = IF n = k THEN ((Tls!Using(n) \ {c}) \ {d}) \cup {c}
                        ELSE Tls!Using(n) \ {c}
  <2>1. \A n \in NativeContexts, e \in Connections \ {c, d} :
            e \in Tls!Using(n)' <=> e \in Tls!Using(n)
    BY ZenonT(60) DEF TlsIInv, TlsTypeOK, Tls!Using, Tls!CtxOf, Tls!Is
  <2>2. \A n \in NativeContexts : d \notin Tls!Using(n)'
    BY NoConnectionType, ZenonT(60) DEF TlsIInv, TlsTypeOK, Tls!Using, Tls!CtxOf, Tls!Is
  <2>3. \A n \in NativeContexts : c \in Tls!Using(n)' <=> n = k
    BY <1>2, ZenonT(60) DEF TlsIInv, TlsTypeOK, Tls!Using, Tls!CtxOf, Tls!Is
  <2>4. \A n \in NativeContexts :
            Tls!Using(n)' \subseteq Connections /\ Tls!Using(n) \subseteq Connections
    BY Zenon DEF Tls!Using
  <2> QED
    BY <1>3, <2>1, <2>2, <2>3, <2>4, Zenon
<1>5. \A e \in Connections : connection'[e] # Zero /\ connection'[e].isInit =>
        /\ connection'[e].ctx \in NativeContexts
        /\ connection'[e].metrics = native[connection'[e].ctx].made
  BY NoConnectionType, ContextOf, ZenonT(60) DEF TlsIInv, TlsTypeOK
<1>6. /\ native' \in [NativeContexts -> Counts]
      /\ \A n \in NativeContexts :
            /\ native'[n].refs = Cardinality(Tls!Using(n) \ {c}) + Shared(n)
            /\ Tls!Using(n) \ {c} # {} \/ Tls!Sharing(n) => native'[n].made = native[n].made
  BY TlsRelease, Zenon
<1>7. Cardinality(Tls!Using(k)') = Cardinality(Tls!Using(k) \ {c})
  <2> DEFINE S == Tls!Using(k) \ {c}
             R == S \ {d}
  <2>1. IsFiniteSet(S) /\ d \in S
    BY <1>3, UsingIsFinite, FS_Subset, S \subseteq Tls!Using(k), Zenon
  <2> HIDE DEF S
  <2>2. IsFiniteSet(R) /\ Cardinality(R) = Cardinality(S) - 1
    BY <2>1, FS_RemoveElement, ZenonT(60)
  <2>3. c \notin R
    BY Zenon DEF S
  <2> HIDE DEF R
  <2>4. Cardinality(R \cup {c}) = Cardinality(R) + 1
    BY <2>2, <2>3, FS_AddElement, ZenonT(60)
  <2>5. Cardinality(R \cup {c}) = Cardinality(S)
    BY <2>1, <2>2, <2>4, FS_CardinalityType, SMTT(60)
  <2>6. Tls!Using(k)' = R \cup {c}
    BY <1>4, Zenon DEF R, S
  <2> QED
    BY <2>5, <2>6, Zenon DEF S
<1>8. \A n \in NativeContexts : native'[n].refs = Cardinality(Tls!Using(n)') + Shared(n)
  BY <1>4, <1>6, <1>7, Zenon
<1>9. \A n \in NativeContexts :
        Tls!Using(n)' # {} \/ Tls!Sharing(n) => native'[n].made = native[n].made
  BY <1>3, <1>4, <1>6, ZenonT(60)
<1> QED
  BY <1>1, <1>5, <1>6, <1>8, <1>9, ConnectionSteps, ZenonT(60)

\* Copies, moves and destruction of connection options.
LEMMA TlsConnectionSteps ==
  ASSUME TlsIInv, NEW c \in Connections, NEW d \in Connections,
         \/ Tls!DestroyConnection(c) \/ Tls!CopyConnection(c, d)
         \/ Tls!MoveAssignConnection(c, d) \/ Tls!MoveConnection(c, d)
  PROVE  TlsIInv'
<1> USE NativeObjectsAssumption
<1>1. CASE Tls!DestroyConnection(c)
  BY <1>1, ConnectionGone, ZenonT(60) DEF Tls!DestroyConnection
<1>2. CASE Tls!CopyConnection(c, d)
  <2>1. c # d /\ connection[d] # Zero /\ UNCHANGED <<options, context, structs>>
    BY <1>2, Zenon DEF Tls!CopyConnection, Tls!Is
  <2>2. connection[d] \in Tls!TlsConnectionOptions
    BY <2>1, Zenon DEF TlsIInv, TlsTypeOK
  <2> DEFINE failed == [connection[d] EXCEPT !.isInit = FALSE, !.ctx = Zero]
  <2>3. failed \in Tls!TlsConnectionOptions /\ ~failed.isInit
    BY <2>2, ZenonT(60) DEF Tls!TlsConnectionOptions
  <2>4. \/ /\ connection[d].isInit
           /\ connection' = [connection EXCEPT ![c] = connection[d]]
           /\ native' = Tls!Acquire(Tls!Release(native, Tls!CtxOf(c)), connection[d].ctx)
        \/ /\ connection' = [connection EXCEPT ![c] = failed]
           /\ native' = Tls!Release(native, Tls!CtxOf(c))
        \/ /\ connection' = [connection EXCEPT ![c] = Tls!NoConnection]
           /\ native' = Tls!Release(native, Tls!CtxOf(c))
    BY <1>2, Zenon DEF Tls!CopyConnection
  <2> HIDE DEF failed
  <2> QED
    BY <2>1, <2>3, <2>4, ConnectionCopied, ConnectionGone, NoConnectionType, ZenonT(60)
<1>3. CASE Tls!MoveAssignConnection(c, d)
  <2>1. /\ c # d /\ connection[d] # Zero /\ UNCHANGED <<options, context, structs>>
        /\ native' = Tls!Release(native, Tls!CtxOf(c))
    BY <1>3, Zenon DEF Tls!MoveAssignConnection, Tls!Is
  <2>2. CASE connection[d].isInit
    <3>1. connection' = [connection EXCEPT ![c] = connection[d], ![d] = Tls!NoConnection]
      BY <1>3, <2>2, Zenon DEF Tls!MoveAssignConnection
    <3> QED
      BY <2>1, <2>2, <3>1, ConnectionMoved, ZenonT(60)
  <2>3. CASE ~connection[d].isInit
    <3>1. connection' = [connection EXCEPT ![c] = Tls!NoConnection]
      BY <1>3, <2>3, Zenon DEF Tls!MoveAssignConnection
    <3> QED
      BY <2>1, <3>1, ConnectionGone, NoConnectionType, ZenonT(60)
  <2> QED
    BY <2>2, <2>3, Zenon
<1>4. CASE Tls!MoveConnection(c, d)
  <2>1. /\ connection[c] = Zero /\ connection[d] # Zero /\ c # d
        /\ UNCHANGED <<options, context, structs>> /\ native' = native
    BY <1>4, Zenon DEF Tls!MoveConnection, Tls!Is
  <2>2. native' = Tls!Release(native, Tls!CtxOf(c))
    BY <2>1, Zenon DEF Tls!Release, Tls!CtxOf, Tls!Is
  <2>3. CASE connection[d].isInit
    <3>1. connection' = [connection EXCEPT ![c] = connection[d], ![d] = Tls!NoConnection]
      BY <1>4, <2>1, <2>3, Zenon DEF Tls!MoveConnection, TlsIInv, TlsTypeOK
    <3> QED
      BY <2>1, <2>2, <2>3, <3>1, ConnectionMoved, ZenonT(60)
  <2>4. CASE ~connection[d].isInit
    <3>1. connection' = [connection EXCEPT ![c] = connection[d]]
      BY <1>4, <2>1, <2>4, ZenonT(60) DEF Tls!MoveConnection, TlsIInv, TlsTypeOK
    <3>2. connection[d] \in Tls!TlsConnectionOptions
      BY <2>1, Zenon DEF TlsIInv, TlsTypeOK
    <3> QED
      BY <2>1, <2>2, <2>4, <3>1, <3>2, ConnectionGone, ZenonT(60)
  <2> QED
    BY <2>3, <2>4, Zenon
<1> QED
  BY <1>1, <1>2, <1>3, <1>4, Zenon

\* Every operation preserves TlsIInv.
LEMMA TlsNext == TlsIInv /\ [Tls!Next]_(Tls!tlsVars) => TlsIInv'
<1> SUFFICES ASSUME TlsIInv, [Tls!Next]_(Tls!tlsVars)
             PROVE  TlsIInv'
  BY Zenon
<1>1. CASE UNCHANGED Tls!tlsVars
  <2>1. TlsTypeOK'
    BY <1>1, Zenon DEF Tls!tlsVars, TlsIInv, TlsTypeOK
  <2> QED
    BY <1>1, <2>1, OptionsUntouched, ContextsUntouched, Zenon DEF Tls!tlsVars, TlsIInv
<1>2. ASSUME NEW o \in Options,
             \/ Tls!DestroyOptions(o)
             \/ \E source \in Sources : Tls!InitOptions(o, source)
             \/ \E version \in Versions : Tls!SetVersion(o, version)
             \/ \E p \in Options : Tls!MoveOptions(o, p)
             \/ \E x \in Contexts : Tls!NewContext(x, o)
      PROVE  TlsIInv'
  BY <1>2, TlsDestroyOptions, TlsInitOptions, TlsSetVersion, TlsMoveOptions, TlsNewContext,
     Zenon
<1>3. ASSUME NEW x \in Contexts,
             \/ Tls!DestroyContext(x)
             \/ \E y \in Contexts : Tls!CopyContext(x, y) \/ Tls!MoveContext(x, y)
             \/ \E c \in Connections : Tls!NewConnectionOptions(c, x)
      PROVE  TlsIInv'
  BY <1>3, TlsDestroyContext, TlsCopyContext, TlsMoveContext, TlsNewConnectionOptions, Zenon
<1>4. ASSUME NEW c \in Connections,
             \/ Tls!DestroyConnection(c)
             \/ \E d \in Connections :
                    \/ Tls!CopyConnection(c, d) \/ Tls!MoveAssignConnection(c, d)
                    \/ Tls!MoveConnection(c, d)
      PROVE  TlsIInv'
  BY <1>4, TlsConnectionSteps, Zenon
<1> QED
  BY <1>1, <1>2, <1>3, <1>4, Zenon DEF Tls!Next

\* The owners of a struct are counted, none or one.
LEMMA TlsIInvIsEnough == TlsIInv => TlsObjectsAreSound
<1> SUFFICES ASSUME TlsIInv
             PROVE  TlsObjectsAreSound
  BY Zenon
<1> DEFINE owners(s) ==
        {o \in Options : Tls!Is(options[o]) /\ options[o].isInit /\ options[o].struct = s}
<1>1. ASSUME NEW s \in NativeOptions
      PROVE  Cardinality(owners(s)) = IF structs[s] # Zero THEN 1 ELSE 0
  <2>1. owners(s) = {o \in Options : HasStruct(o, s)}
    BY Zenon DEF HasStruct, Tls!Is
  <2> HIDE DEF owners
  <2>2. CASE structs[s] # Zero
    <3>1. PICK o \in Options : HasStruct(o, s)
      BY <2>2, Zenon DEF TlsIInv, StructInv
    <3>2. owners(s) = {o}
      BY <2>1, <3>1 DEF TlsIInv, StructInv
    <3> QED
      BY <2>2, <3>2, FS_Singleton, Zenon
  <2>3. CASE structs[s] = Zero
    <3>1. owners(s) = {}
      <4>1. SUFFICES ASSUME NEW o \in Options, HasStruct(o, s)
                     PROVE  FALSE
        BY <2>1, Zenon
      <4>2. options[o].metrics = Zero /\ options[o] \in Tls!TlsContextOptions
        BY <2>3, <4>1, SMTT(60) DEF TlsIInv, TlsTypeOK, StructInv, HasStruct
      <4> QED
        BY <4>2, NativeObjectsAssumption, Zenon DEF Tls!TlsContextOptions
    <3> QED
      BY <2>3, <3>1, FS_EmptySet, Zenon
  <2> QED
    BY <2>2, <2>3, Zenon
<1>2. \A c \in Connections :
        Tls!Is(Tls!CtxOf(c)) => connection[c].metrics = native[Tls!CtxOf(c)].made
  BY ContextOf, Zenon DEF Tls!Is
<1> QED
  BY <1>1, <1>2, TlsCardinality, ZenonT(60)
     DEF TlsIInv, RefsInv, TlsObjectsAreSound, Tls!TlsObjectsAreSound, Tls!Is

-----------------------------------------------------------------------------
(* The properties of NativeObjects *)

\* What a behaviour of NativeObjects does to a component is a behaviour of that component.
LEMMA ObjectsComponents == ObjectsSpec => Spec /\ Tls!Spec
<1>1. ObjectsInit => Init /\ Tls!Init
  BY Zenon DEF ObjectsInit
<1>2. [ObjectsNext]_objectsVars => [Next]_refVars /\ [Tls!Next]_(Tls!tlsVars)
  BY Zenon DEF ObjectsNext, objectsVars, tlsVars, Tls!tlsVars
<1> QED
  BY <1>1, <1>2, PTL DEF ObjectsSpec, Spec, Tls!Spec

\* RefCounted.h: "keep your C++ object alive as long as the count is non-zero".  With
\* any number of threads that count, the object is alive for every call and every
\* reference, and is destroyed when there is none.
THEOREM LivesExactlyWhileReferenced == ObjectsSpec => []LivesWhileReferenced
<1>1. Spec => []RefIInv
  BY RefInit, RefNext, PTL DEF Spec
<1> QED
  BY <1>1, RefIInvIsEnough, ObjectsComponents, PTL

\* TlsContextOptions, TlsContext and TlsConnectionOptions: for any number of objects, a
\* struct is cleaned up by its one owner, a context is freed when the last reference to it
\* goes, and what valid options report is what their context was made with.
THEOREM TlsObjectsAreAlwaysSound == ObjectsSpec => []TlsObjectsAreSound
BY TlsInit, TlsNext, TlsIInvIsEnough, ObjectsComponents, PTL DEF Tls!Spec

=============================================================================
