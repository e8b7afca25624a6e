----------------------------- MODULE CmapProofs -----------------------------
(***************************************************************************)
(* Proofs about Cmap, for any sets of keys, goroutines and objects: the     *)
(* type invariant first, then the inductive invariant of CmapInv, and from  *)
(* it that commands are canonical and keep their documented flag.           *)
(***************************************************************************)
EXTENDS CmapInv, TLAPS

(* Nil is no key and no object, whatever the instance (cmap.go:86-93).       *)
LEMMA NilFacts == Nil \notin Keys /\ Nil \notin Objects
  BY NilAssumption

(* Package initialization (message.go:54-68) leaves every variable typed.    *)
LEMMA TypeInit == Init => TypeOK
<1> SUFFICES ASSUME Init PROVE TypeOK
  OBVIOUS
<1>1. PICK f \in [Documented -> Objects] : Init!(f)
  BY DEF Init
<1>2. keyOf \in [Objects -> Keys \union {Nil}]
  BY <1>1, DocumentedAssumption
<1>3. data \in [Keys -> Objects \union {Nil}]
  BY <1>1
<1>4. vars0 \subseteq Objects
  BY <1>1
<1> QED
  BY <1>1, <1>2, <1>3, <1>4, SMT DEF TypeOK

(* No step of get, of a caller, of the collector or of a cleanup leaves the  *)
(* domains of the variables (cmap.go:47-100).                                *)
LEMMA TypeStep == TypeOK /\ [Next]_vars => TypeOK'
<1> SUFFICES ASSUME TypeOK, [Next]_vars PROVE TypeOK'
  OBVIOUS
<1> USE DEF TypeOK, mapVars, gcVars
<1>1. ASSUME NEW t \in Threads, NEW k \in Keys, Get(t, k) PROVE TypeOK'
  BY <1>1 DEF Get
<1>2. ASSUME NEW t \in Threads, PeekRead(t) PROVE TypeOK'
  BY <1>2 DEF PeekRead
<1>3. ASSUME NEW t \in Threads, PeekHit(t) PROVE TypeOK'
  BY <1>3 DEF PeekHit, Return
<1>4. ASSUME NEW t \in Threads, PeekMiss(t) PROVE TypeOK'
  BY <1>4 DEF PeekMiss
<1>5. ASSUME NEW t \in Threads, DoubleCheck(t) PROVE TypeOK'
  <2>1. data[key[t]] \in Objects
    BY <1>5 DEF DoubleCheck
  <2> QED
    BY <1>5, <2>1 DEF DoubleCheck, Return
<1>6. ASSUME NEW t \in Threads, NEW o \in Objects, Assign(t, o) PROVE TypeOK'
  <2>1. key[t] \in Keys
    BY <1>6 DEF Assign
  <2> QED
    BY <1>6, <2>1 DEF Assign, Return
<1>7. ASSUME NEW t \in Threads, NEW o \in Objects, Release(t, o) PROVE TypeOK'
  BY <1>7 DEF Release
<1>8. ASSUME NEW o \in Objects, Collect(o) PROVE TypeOK'
  BY <1>8 DEF Collect
<1>9. ASSUME NEW o \in Objects, Cleanup(o) PROVE TypeOK'
  BY <1>9 DEF Cleanup
<1>10. CASE UNCHANGED vars
  BY <1>10 DEF vars
<1> QED
  BY <1>1, <1>2, <1>3, <1>4, <1>5, <1>6, <1>7, <1>8, <1>9, <1>10
  DEF Next, Lookup

(* Type correctness, for every value of the constants: in particular peek    *)
(* asks a weak pointer for its value only after it found one (cmap.go:91).   *)
THEOREM TypeCorrect == Spec => []TypeOK
<1> QED
  BY TypeInit, TypeStep, PTL DEF Spec

-----------------------------------------------------------------------------
(* The predefined commands establish the invariant (message.go:54-68).       *)
LEMMA InvInit == Init => CmapInv
<1> SUFFICES ASSUME Init PROVE CmapInv
  OBVIOUS
<1>1. PICK f \in [Documented -> Objects] : Init!(f)
  BY DEF Init
<1>2. ASSUME NEW k \in Documented PROVE keyOf[f[k]] = k /\ data[k] = f[k]
  <2>1. f[k] \in Objects /\ k \in Keys
    BY DocumentedAssumption
  <2>2. \A l \in Documented : f[l] = f[k] => l = k
    BY <1>1
  <2>3. (CHOOSE l \in Documented : f[l] = f[k]) = k
    BY <2>2
  <2> QED
    BY <1>1, <2>1, <2>3
<1>3. ASSUME NEW o \in Objects, keyOf[o] # Nil
      PROVE  \E k \in Documented : o = f[k]
  BY <1>1, <1>3
<1>4. EntryKey
  <2> SUFFICES ASSUME NEW k \in Keys, data[k] # Nil PROVE keyOf[data[k]] = k
    BY DEF EntryKey
  <2>1. k \in Documented
    BY <1>1
  <2> QED
    BY <2>1, <1>2
<1>5. LiveInMap
  BY <1>2, <1>3 DEF LiveInMap
<1>6. HeldLive
  <2> SUFFICES ASSUME NEW o \in Objects, Referenced(o)
               PROVE  keyOf[o] # Nil /\ o \notin dead
    BY DEF HeldLive
  <2>1. PICK k \in Documented : o = f[k]
    BY <1>1 DEF Referenced
  <2> QED
    BY <1>1, <1>2, <2>1, NilFacts, DocumentedAssumption
<1>7. CleanDead /\ PeekKey
  BY <1>1 DEF CleanDead, PeekKey
<1>8. VarsDocumented
  BY <1>1, <1>2 DEF VarsDocumented
<1> QED
  BY <1>4, <1>5, <1>6, <1>7, <1>8 DEF CmapInv

(* A step that only moves goroutines, or drops pointers, leaves the          *)
(* invariant's view of the map alone.                                        *)
LEMMA MapUntouched ==
  ASSUME CmapInv, UNCHANGED <<mapVars, gcVars, vars0>>,
         \A o \in Objects : Referenced(o)' => keyOf[o] # Nil /\ o \notin dead,
         PeekKey'
  PROVE  CmapInv'
<1> USE DEF CmapInv, mapVars, gcVars
<1>1. EntryKey' /\ LiveInMap'
  BY DEF EntryKey, LiveInMap
<1>2. HeldLive'
  BY DEF HeldLive
<1>3. CleanDead' /\ VarsDocumented'
  BY DEF CleanDead, VarsDocumented
<1> QED
  BY <1>1, <1>2, <1>3

(* The invariant survives the steps of get that assign nothing               *)
(* (cmap.go:56-73, 86-99).                                                   *)
LEMMA LookupStep ==
  ASSUME TypeOK, CmapInv, NEW t \in Threads,
         \/ \E k \in Keys : Get(t, k)
         \/ PeekRead(t) \/ PeekHit(t) \/ PeekMiss(t) \/ DoubleCheck(t)
         \/ \E o \in Objects : Release(t, o)
  PROVE  CmapInv'
<1> USE DEF TypeOK, mapVars, gcVars
<1>a. HeldLive /\ PeekKey /\ LiveInMap /\ EntryKey
  BY DEF CmapInv
<1>1. ASSUME NEW k \in Keys, Get(t, k) PROVE CmapInv'
  <2>1. PeekKey'
    BY <1>1, <1>a DEF Get, PeekKey
  <2>2. \A o \in Objects : Referenced(o)' <=> Referenced(o)
    BY <1>1 DEF Get, Referenced
  <2> QED
    BY <1>1, <1>a, <2>1, <2>2, MapUntouched DEF Get, HeldLive
<1>2. CASE PeekRead(t)
  <2>1. PeekKey'
    BY <1>2, <1>a DEF PeekRead, PeekKey, EntryKey
  <2>2. \A o \in Objects : Referenced(o)' <=> Referenced(o)
    BY <1>2 DEF PeekRead, Referenced
  <2> QED
    BY <1>2, <1>a, <2>1, <2>2, MapUntouched DEF PeekRead, HeldLive
<1>3. CASE PeekHit(t)
  <2>1. PeekKey'
    BY <1>3, <1>a DEF PeekHit, Return, PeekKey
  <2>2. keyOf[ptr[t]] # Nil /\ ptr[t] \notin dead
    BY <1>3, <1>a, NilFacts DEF PeekHit, PeekKey
  <2>3. \A o \in Objects : Referenced(o)' => Referenced(o) \/ o = ptr[t]
    BY <1>3 DEF PeekHit, Return, Referenced
  <2> QED
    BY <1>3, <1>a, <2>1, <2>2, <2>3, MapUntouched DEF PeekHit, HeldLive
<1>4. CASE PeekMiss(t)
  <2>1. PeekKey'
    BY <1>4, <1>a DEF PeekMiss, PeekKey
  <2>2. \A o \in Objects : Referenced(o)' <=> Referenced(o)
    BY <1>4 DEF PeekMiss, Referenced
  <2> QED
    BY <1>4, <1>a, <2>1, <2>2, MapUntouched DEF PeekMiss, HeldLive
<1>5. CASE DoubleCheck(t)
  <2>1. PeekKey'
    BY <1>5, <1>a DEF DoubleCheck, Return, PeekKey
  <2>2. keyOf[data[key[t]]] # Nil /\ data[key[t]] \notin dead
    BY <1>5, <1>a, NilFacts DEF DoubleCheck, EntryKey
  <2>3. \A o \in Objects : Referenced(o)' => Referenced(o) \/ o = data[key[t]]
    BY <1>5 DEF DoubleCheck, Return, Referenced
  <2> QED
    BY <1>5, <1>a, <2>1, <2>2, <2>3, MapUntouched DEF DoubleCheck, HeldLive
<1>6. ASSUME NEW o \in Objects, Release(t, o) PROVE CmapInv'
  <2>1. PeekKey'
    BY <1>6, <1>a DEF Release, PeekKey
  <2>2. \A p \in Objects : Referenced(p)' => Referenced(p)
    BY <1>6 DEF Release, Referenced
  <2> QED
    BY <1>6, <1>a, <2>1, <2>2, MapUntouched DEF Release, HeldLive
<1> QED
  BY <1>1, <1>2, <1>3, <1>4, <1>5, <1>6

(* Assign puts the new object where every lookup of its key finds it, and    *)
(* replaces nothing alive (cmap.go:65-83).                                   *)
LEMMA AssignStep ==
  ASSUME TypeOK, CmapInv, NEW t \in Threads, NEW o \in Objects, Assign(t, o)
  PROVE  CmapInv'
<1> USE DEF TypeOK
<1>a. EntryKey /\ LiveInMap /\ HeldLive /\ CleanDead /\ PeekKey /\ VarsDocumented
  BY DEF CmapInv
<1> DEFINE k == key[t]
<1>0. /\ k \in Keys /\ k # Nil
      /\ keyOf[o] = Nil /\ o \notin dead /\ ~Referenced(o) /\ o \notin vars0
      /\ data[k] # o
      /\ data' = [data EXCEPT ![k] = o] /\ keyOf' = [keyOf EXCEPT ![o] = k]
      /\ UNCHANGED <<dead, toClean, vars0, key, ptr>>
  <2>1. k \in Keys
    BY DEF Assign
  <2>2. keyOf[o] = Nil
    BY DEF Assign, Fresh, Allocated
  <2>3. o \notin dead /\ ~Referenced(o)
    BY <1>a, <2>2 DEF CleanDead, HeldLive
  <2>4. data[k] # o
    BY <1>a, <2>1, <2>2, NilFacts DEF EntryKey
  <2> QED
    BY <2>1, <2>2, <2>3, <2>4, NilFacts DEF Assign, gcVars, Referenced
<1> HIDE DEF k
<1>1. EntryKey'
  <2> SUFFICES ASSUME NEW l \in Keys, data'[l] # Nil PROVE keyOf'[data'[l]] = l
    BY DEF EntryKey
  <2>1. CASE l = k
    BY <1>0, <2>1
  <2>2. CASE l # k
    <3>1. data'[l] = data[l] /\ keyOf[data[l]] = l /\ data[l] \in Objects
      BY <1>0, <1>a, <2>2 DEF EntryKey
    <3> QED
      BY <1>0, <3>1, NilFacts
  <2> QED
    BY <2>1, <2>2
<1>2. LiveInMap'
  <2> SUFFICES ASSUME NEW p \in Objects, keyOf'[p] # Nil, p \notin dead
               PROVE  data'[keyOf'[p]] = p
    BY <1>0 DEF LiveInMap
  <2>1. CASE p = o
    BY <1>0, <2>1
  <2>2. CASE p # o
    <3>1. keyOf'[p] = keyOf[p] /\ keyOf[p] \in Keys /\ data[keyOf[p]] = p
      BY <1>0, <1>a, <2>2 DEF LiveInMap
    <3>2. keyOf[p] # k
      BY <3>1, <1>0, NilFacts DEF Assign, k
    <3> QED
      BY <1>0, <3>1, <3>2
  <2> QED
    BY <2>1, <2>2
<1>3. HeldLive'
  <2>1. \A p \in Objects : Referenced(p)' => Referenced(p) \/ p = o
    BY DEF Assign, Return, Referenced
  <2> QED
    BY <1>0, <1>a, <2>1 DEF HeldLive
<1>4. CleanDead'
  BY <1>0, <1>a DEF CleanDead
<1>5. PeekKey'
  <2>1. \A u \in Threads : pc'[u] = "value" => pc[u] = "value"
    BY DEF Assign, Return
  <2>2. \A u \in Threads : pc[u] = "value" => keyOf[ptr[u]] = key[u] /\ ptr[u] # o
    BY <1>0, <1>a, NilFacts DEF PeekKey
  <2> QED
    BY <1>0, <2>1, <2>2 DEF PeekKey
<1>6. VarsDocumented'
  BY <1>0, <1>a DEF VarsDocumented
<1> QED
  BY <1>1, <1>2, <1>3, <1>4, <1>5, <1>6 DEF CmapInv

(* The collector takes only what nobody references (cmap.go:82).             *)
LEMMA CollectStep ==
  ASSUME TypeOK, CmapInv, NEW o \in Objects, Collect(o)
  PROVE  CmapInv'
<1> USE DEF TypeOK, Collect, mapVars
<1>a. EntryKey /\ LiveInMap /\ HeldLive /\ CleanDead /\ PeekKey /\ VarsDocumented
  BY DEF CmapInv
<1>1. EntryKey' /\ LiveInMap' /\ PeekKey' /\ VarsDocumented'
  BY <1>a DEF EntryKey, LiveInMap, PeekKey, VarsDocumented
<1>2. \A p \in Objects : Referenced(p)' <=> Referenced(p)
  BY DEF Referenced
<1>3. HeldLive'
  BY <1>a, <1>2 DEF HeldLive
<1>4. CleanDead'
  BY <1>a DEF CleanDead, Allocated
<1> QED
  BY <1>1, <1>3, <1>4 DEF CmapInv

(* A late cleanup deletes its own dead entry and no other (cmap.go:47-54).   *)
LEMMA CleanupStep ==
  ASSUME TypeOK, CmapInv, NEW o \in Objects, Cleanup(o)
  PROVE  CmapInv'
<1> USE DEF TypeOK, Cleanup
<1>a. EntryKey /\ LiveInMap /\ HeldLive /\ CleanDead /\ PeekKey /\ VarsDocumented
  BY DEF CmapInv
<1>0. o \in dead /\ keyOf[o] \in Keys
  BY <1>a DEF CleanDead
<1>1. \A k \in Keys : data'[k] = data[k] \/ (data[k] = o /\ data'[k] = Nil)
  BY <1>0
<1>2. EntryKey'
  BY <1>a, <1>1 DEF EntryKey
<1>3. LiveInMap'
  BY <1>a, <1>0, <1>1 DEF LiveInMap
<1>4. \A p \in Objects : Referenced(p)' <=> Referenced(p)
  BY DEF Referenced
<1>5. HeldLive' /\ CleanDead' /\ PeekKey' /\ VarsDocumented'
  BY <1>a, <1>4 DEF HeldLive, CleanDead, PeekKey, VarsDocumented
<1> QED
  BY <1>2, <1>3, <1>5 DEF CmapInv

(* The invariant of the map is inductive (cmap.go:47-100).                   *)
LEMMA InvStep == TypeOK /\ CmapInv /\ [Next]_vars => CmapInv'
<1> SUFFICES ASSUME TypeOK, CmapInv, [Next]_vars PROVE CmapInv'
  OBVIOUS
<1>1. CASE Next
  BY <1>1, LookupStep, AssignStep, CollectStep, CleanupStep DEF Next, Lookup
<1>2. CASE UNCHANGED vars
  BY <1>2 DEF vars, mapVars, gcVars, CmapInv, EntryKey, LiveInMap, HeldLive,
              Referenced, CleanDead, PeekKey, VarsDocumented
<1> QED
  BY <1>1, <1>2

(* The invariant holds of every behaviour of the map and the collector.      *)
THEOREM CmapInvCorrect == Spec => []CmapInv
<1> QED
  BY TypeCorrect, InvInit, InvStep, PTL DEF Spec

(* Two live objects of one key are both the entry of that key.               *)
LEMMA CanonicalFromInv == CmapInv => Canonical
  BY DEF CmapInv, HeldLive, LiveInMap, Canonical

(* Pointers to commands may be compared (basic.go:50): whoever holds one     *)
(* holds the only one of its key.                                            *)
THEOREM CanonicalCorrect == Spec => []Canonical
<1> QED
  BY CmapInvCorrect, CanonicalFromInv, PTL

(* The documented object is the canonical one.                               *)
LEMMA SafeFromInv == TypeOK /\ CmapInv => SafeStays
<1> SUFFICES ASSUME TypeOK, CmapInv, NEW t \in Threads, NEW o \in held[t]
             PROVE  keyOf[o] \in Documented <=> o \in vars0
  BY DEF SafeStays
<1>1. o \in Objects /\ Referenced(o)
  BY DEF TypeOK, Referenced
<1>2. ASSUME keyOf[o] \in Documented PROVE o \in vars0
  <2>1. PICK p \in vars0 : keyOf[p] = keyOf[o]
    BY <1>2 DEF CmapInv, VarsDocumented
  <2>2. p \in Objects /\ Referenced(p)
    BY DEF TypeOK, Referenced
  <2> QED
    BY <1>1, <2>1, <2>2, CanonicalFromInv DEF Canonical
<1>3. ASSUME o \in vars0 PROVE keyOf[o] \in Documented
  BY <1>3 DEF CmapInv, VarsDocumented
<1> QED
  BY <1>2, <1>3

(* IsSafe gives the same verdict on a Q command for ever (basic.go:65).      *)
THEOREM SafeStaysCorrect == Spec => []SafeStays
<1> QED
  BY TypeCorrect, CmapInvCorrect, SafeFromInv, PTL

(* What a step may do to an entry: only a dead one is replaced or deleted.   *)
LEMMA LiveEntryStep ==
  TypeOK /\ CmapInv /\ [Next]_vars =>
    \A k \in Keys : data[k] # Nil /\ data[k] \notin dead => data'[k] = data[k]
<1> SUFFICES ASSUME TypeOK, CmapInv, [Next]_vars,
                    NEW k \in Keys, data[k] # Nil, data[k] \notin dead
             PROVE  data'[k] = data[k]
  OBVIOUS
<1>1. ASSUME NEW t \in Threads, NEW o \in Objects, Assign(t, o)
      PROVE  data'[k] = data[k]
  BY <1>1 DEF Assign, TypeOK
<1>2. ASSUME NEW o \in Objects, Cleanup(o) PROVE data'[k] = data[k]
  BY <1>2 DEF Cleanup, TypeOK, CmapInv, CleanDead
<1>3. CASE UNCHANGED data
  BY <1>3
<1>4. \/ UNCHANGED data
      \/ \E t \in Threads, o \in Objects : Assign(t, o)
      \/ \E o \in Objects : Cleanup(o)
  BY DEF Next, Lookup, vars, mapVars, Get, PeekRead, PeekHit, PeekMiss,
         DoubleCheck, Release, Collect
<1> QED
  BY <1>1, <1>2, <1>3, <1>4

(* A live entry is neither replaced by a second assignment nor deleted by    *)
(* the late cleanup of its predecessor (cmap.go:50-53, 69-73).               *)
THEOREM LiveEntryCorrect == Spec => LiveEntryStays
<1> QED
  BY TypeCorrect, CmapInvCorrect, LiveEntryStep, PTL DEF Spec, LiveEntryStays
=============================================================================
