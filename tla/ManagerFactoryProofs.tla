------------------------- MODULE ManagerFactoryProofs -------------------------
(***************************************************************************)
(* Proofs about ManagerFactory, for every set of workers and identifiers.  *)
(***************************************************************************)
EXTENDS ManagerFactory, FiniteSetTheorems, TLAPS

(* The invariant holds of an empty cache and a free lock. *)
LEMMA InitIInv == Init => IInv
  <1> SUFFICES ASSUME Init PROVE IInv
    OBVIOUS
  <1>1. TypeOK /\ LockOK
    BY FactoryAssumption DEF Init, TypeOK, LockOK, Places
  <1>2. CreationOK
    BY DEF Init, CreationOK, CreationAt
  <1> QED BY <1>1, <1>2 DEF IInv

(* A step of one worker: the places the lock speaks of, and the lock. *)
LEMMA StepLock ==
  ASSUME TypeOK, LockOK, NEW w \in Workers, Call(w) \/ ManagerFor(w)
  PROVE  TypeOK' /\ LockOK'
  <1> USE FactoryAssumption DEF TypeOK, LockOK, Places, Move
  <1>1. CASE Call(w)
    BY <1>1 DEF Call
  <1>2. CASE RLock(w)
    BY <1>2 DEF RLock
  <1>3. CASE Lookup(w)
    BY <1>3 DEF Lookup
  <1>4. CASE RUnlock(w)
    BY <1>4 DEF RUnlock
  <1>5. CASE Lock(w)
    BY <1>5 DEF Lock
  <1>6. CASE Locked(w)
    BY <1>6 DEF Locked
  <1>7. CASE NewResourceManager(w)
    BY <1>7 DEF NewResourceManager
  <1>8. CASE Store(w)
    BY <1>8 DEF Store
  <1>9. CASE Unlock(w)
    BY <1>9 DEF Unlock
  <1> QED BY <1>1, <1>2, <1>3, <1>4, <1>5, <1>6, <1>7, <1>8, <1>9 DEF ManagerFor

(* The workers that may still make a manager can be counted. *)
LEMMA PendingFinite ==
  ASSUME NEW i \in RmIds
  PROVE  /\ IsFiniteSet(Workers) /\ Cardinality(Workers) \in Nat
         /\ Pending(i) \subseteq Workers
         /\ IsFiniteSet(Pending(i)) /\ Cardinality(Pending(i)) \in Nat
  <1>1. Pending(i) \subseteq Workers /\ IsFiniteSet(Workers)
    BY FactoryAssumption DEF Pending
  <1> QED BY <1>1, FS_Subset, FS_CardinalityType

(* An identifier that is in the cache: a manager that is still made for it  *)
(* takes a worker out of those pending, and nobody joins them.              *)
LEMMA CachedStep ==
  ASSUME IInv, NEW w \in Workers, Call(w) \/ ManagerFor(w), NEW i \in RmIds, i \in rmCache
  PROVE  CreationAt(i)'
  <1> USE DEF Move
  <1>1. /\ TypeOK /\ created[i] + Cardinality(Pending(i)) <= Cardinality(Workers)
        /\ created[i] \in Nat
    BY DEF IInv, CreationOK, CreationAt, TypeOK
  <1>2. i \in rmCache'
    BY DEF Call, ManagerFor, RLock, Lookup, RUnlock, Lock, Locked, NewResourceManager, Store,
       Unlock
  <1>3. CASE NewResourceManager(w) /\ at'[w] = "store" /\ rmId[w] = i
    <2>1. created'[i] = created[i] + 1
      BY <1>1, <1>3 DEF NewResourceManager, TypeOK
    <2>2. w \in Pending(i)
      BY <1>3 DEF NewResourceManager, Pending
    <2>3. Pending(i)' \subseteq Pending(i) \ {w}
      <3>1. /\ at' = [at EXCEPT ![w] = "store"] /\ at \in [Workers -> Places]
            /\ UNCHANGED <<rmId, found>>
        BY <1>1, <1>3 DEF NewResourceManager, TypeOK
      <3>2. \A v \in Workers : at'[v] = IF v = w THEN "store" ELSE at[v]
        BY <3>1
      <3>3. ASSUME NEW v \in Pending(i)' PROVE v \in Pending(i) \ {w}
        BY <3>1, <3>2, <3>3 DEF Pending
      <3> QED BY <3>3
    <2>4. Cardinality(Pending(i) \ {w}) = Cardinality(Pending(i)) - 1
          /\ IsFiniteSet(Pending(i) \ {w})
      BY <2>2, PendingFinite, FS_RemoveElement
    <2>5. /\ Cardinality(Pending(i)') <= Cardinality(Pending(i) \ {w})
          /\ Cardinality(Pending(i)') \in Nat
      BY <2>3, <2>4, FS_Subset, FS_CardinalityType
    <2> QED BY <1>1, <1>2, <2>1, <2>4, <2>5, PendingFinite DEF CreationAt
  <1>4. CASE ~(NewResourceManager(w) /\ at'[w] = "store" /\ rmId[w] = i)
    <2>1. created'[i] = created[i]
      BY <1>1, <1>4 DEF Call, ManagerFor, RLock, Lookup, RUnlock, Lock, Locked,
         NewResourceManager, Store, Unlock, TypeOK
    <2>2. Pending(i)' \subseteq Pending(i)
      <3>1. ASSUME NEW v \in Workers, v # w
            PROVE  at'[v] = at[v] /\ rmId'[v] = rmId[v] /\ found'[v] = found[v]
        BY <1>1, <3>1 DEF Call, ManagerFor, RLock, Lookup, RUnlock, Lock, Locked,
           NewResourceManager, Store, Unlock, TypeOK
      <3>2. w \in Pending(i)' => w \in Pending(i)
        <4>1. CASE Lookup(w)
          BY <1>1, <4>1 DEF Lookup, TypeOK, Pending
        <4>2. CASE RUnlock(w)
          BY <1>1, <4>2 DEF RUnlock, TypeOK, Pending
        <4>3. CASE Lock(w) \/ Locked(w)
          BY <1>1, <4>3 DEF Lock, Locked, TypeOK, Pending
        <4>4. CASE Call(w) \/ RLock(w) \/ NewResourceManager(w) \/ Store(w) \/ Unlock(w)
          BY <1>1, <4>4 DEF Call, RLock, NewResourceManager, Store, Unlock, TypeOK, Pending
        <4> QED BY <4>1, <4>2, <4>3, <4>4 DEF ManagerFor
      <3>3. ASSUME NEW v \in Pending(i)' PROVE v \in Pending(i)
        BY <3>1, <3>2, <3>3 DEF Pending
      <3> QED BY <3>3
    <2>3. /\ Cardinality(Pending(i)') <= Cardinality(Pending(i))
          /\ Cardinality(Pending(i)') \in Nat
      BY <2>2, PendingFinite, FS_Subset, FS_CardinalityType
    <2> QED BY <1>1, <1>2, <2>1, <2>3, PendingFinite DEF CreationAt
  <1> QED BY <1>3, <1>4

(* An identifier that is not in the cache: the write lock lets one worker   *)
(* at a time make a manager for it, and its store ends that.                *)
LEMMA UncachedStep ==
  ASSUME IInv, NEW w \in Workers, Call(w) \/ ManagerFor(w), NEW i \in RmIds, i \notin rmCache
  PROVE  CreationAt(i)'
  <1> USE DEF Move
  <1>1. /\ TypeOK /\ LockOK
        /\ created[i] = IF \E v \in Workers : at[v] = "store" /\ rmId[v] = i THEN 1 ELSE 0
    BY DEF IInv, CreationOK, CreationAt
  <1>2. CASE Store(w) /\ rmId[w] = i
    <2>1. created'[i] = 1 /\ Pending(i)' \subseteq Workers \ {w}
      BY <1>1, <1>2 DEF Store, Pending, TypeOK
    <2>2. Cardinality(Workers \ {w}) = Cardinality(Workers) - 1 /\ IsFiniteSet(Workers \ {w})
      BY FactoryAssumption, FS_RemoveElement
    <2>3. /\ Cardinality(Pending(i)') <= Cardinality(Workers \ {w})
          /\ Cardinality(Pending(i)') \in Nat
      BY <2>1, <2>2, FS_Subset, FS_CardinalityType
    <2>4. i \in rmCache'
      BY <1>2 DEF Store
    <2> QED BY <2>1, <2>2, <2>3, <2>4, PendingFinite DEF CreationAt
  <1>3. CASE ~(Store(w) /\ rmId[w] = i)
    <2>1. i \notin rmCache'
      BY <1>3 DEF Call, ManagerFor, RLock, Lookup, RUnlock, Lock, Locked,
         NewResourceManager, Store, Unlock
    <2>2. CASE NewResourceManager(w) /\ at'[w] = "store" /\ rmId[w] = i
      <3>1. \A v \in Workers : at[v] # "store"
        BY <1>1, <2>2 DEF NewResourceManager, LockOK
      <3>2. created'[i] = 1 /\ rmId'[w] = i
        BY <1>1, <2>2, <3>1 DEF NewResourceManager, TypeOK
      <3> QED BY <2>1, <2>2, <3>2 DEF CreationAt
    <2>3. CASE ~(NewResourceManager(w) /\ at'[w] = "store" /\ rmId[w] = i)
      <3>1. created'[i] = created[i]
        BY <1>1, <2>3 DEF Call, ManagerFor, RLock, Lookup, RUnlock, Lock, Locked,
           NewResourceManager, Store, Unlock, TypeOK
      <3>2. \A v \in Workers : (at'[v] = "store" /\ rmId'[v] = i)
                                 <=> (at[v] = "store" /\ rmId[v] = i)
        BY <1>1, <1>3, <2>3 DEF Call, ManagerFor, RLock, Lookup, RUnlock, Lock, Locked,
           NewResourceManager, Store, Unlock, TypeOK
      <3> QED BY <1>1, <2>1, <3>1, <3>2 DEF CreationAt
    <2> QED BY <2>2, <2>3
  <1> QED BY <1>2, <1>3

(* Every step keeps the invariant. *)
LEMMA NextIInv == IInv /\ [Next]_vars => IInv'
  <1> SUFFICES ASSUME IInv, [Next]_vars PROVE IInv'
    OBVIOUS
  <1>1. ASSUME NEW w \in Workers, Call(w) \/ ManagerFor(w)
        PROVE  IInv'
    <2>1. TypeOK' /\ LockOK'
      BY <1>1, StepLock DEF IInv
    <2>2. CreationOK'
      BY <1>1, CachedStep, UncachedStep DEF CreationOK
    <2> QED BY <2>1, <2>2 DEF IInv
  <1>2. CASE UNCHANGED vars
    BY <1>2 DEF vars, IInv, TypeOK, LockOK, CreationOK, CreationAt, Pending
  <1> QED BY <1>1, <1>2 DEF Next

(* Who is where in ManagerFor and what of the lock he holds; how many       *)
(* managers exist for an identifier and may still be made.                  *)
THEOREM FactoryInvariant == Spec => []IInv
  <1> QED BY InitIInv, NextIInv, PTL DEF Spec

(* The cache is never written while another worker reads or writes it.      *)
THEOREM CacheRaceFree == Spec => []CacheIsGuarded
  <1>1. IInv => CacheIsGuarded
    BY FactoryAssumption DEF IInv, LockOK, TypeOK, CacheIsGuarded
  <1> QED BY <1>1, FactoryInvariant, PTL

(* No more managers are made for an identifier than there are workers,      *)
(* however they race between the look-up and the write lock.                *)
THEOREM CreationIsBounded == Spec => []BoundedCreation
  <1>1. ASSUME IInv, NEW i \in RmIds
        PROVE  created[i] <= Cardinality(Workers)
    <2>1. created[i] \in Nat /\ CreationAt(i)
      BY <1>1 DEF IInv, TypeOK, CreationOK
    <2>2. CASE i \in rmCache
      BY <2>1, <2>2, PendingFinite DEF CreationAt
    <2>3. CASE i \notin rmCache /\ \E w \in Workers : at[w] = "store"
      <3>1. Cardinality(Workers) # 0
        BY <2>3, FactoryAssumption, FS_EmptySet
      <3> QED BY <2>1, <2>3, <3>1, PendingFinite DEF CreationAt
    <2>4. CASE i \notin rmCache /\ ~\E w \in Workers : at[w] = "store"
      BY <2>1, <2>4, PendingFinite DEF CreationAt
    <2> QED BY <2>2, <2>3, <2>4
  <1>2. IInv => BoundedCreation
    BY <1>1 DEF BoundedCreation
  <1> QED BY <1>2, FactoryInvariant, PTL
=============================================================================
