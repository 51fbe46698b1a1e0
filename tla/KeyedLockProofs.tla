--------------------------- MODULE KeyedLockProofs ---------------------------
(* What the per-key locks of the LevelDB backend guarantee for any number  *)
(* of goroutines, keys and mutexes.                                        *)
EXTENDS KeyedLock, TLAPS

(* A goroutine has a key and a mutex from getLock's LoadOrStore to         *)
(* releaseLock's Delete, and only then.                                    *)
HasMutex ==
    \A h \in Holder :
        /\ pc[h] = "idle" <=> mu[h] = NoMutex
        /\ pc[h] = "idle" <=> key[h] = NoKey

IInv == TypeOK /\ HasMutex /\ OwnerIsHolder /\ EntryHasUser

-----------------------------------------------------------------------------

(* The initial states satisfy the inductive invariant.                     *)
LEMMA InitInv == Init => IInv
BY SentinelAssumption DEF Init, IInv, TypeOK, HasMutex, OwnerIsHolder, EntryHasUser, Place

(* getLock's LoadOrStore keeps it: the mutex is the entry's or a new one.  *)
LEMMA LoadOrStoreInv ==
    ASSUME IInv, NEW h \in Holder, NEW k \in Key, LoadOrStore(h, k)
    PROVE  IInv'
<1>1. TypeOK'
  BY DEF IInv, TypeOK, LoadOrStore, Fresh, Place
<1>2. HasMutex'
  BY SentinelAssumption DEF IInv, TypeOK, HasMutex, LoadOrStore, Fresh, Place
<1>3. OwnerIsHolder'
  BY DEF IInv, TypeOK, OwnerIsHolder, LoadOrStore, Place
<1>4. EntryHasUser'
  <2>. SUFFICES ASSUME NEW j \in Key, locker'[j] # NoMutex
                PROVE  \E g \in Holder : pc'[g] # "idle" /\ key'[g] = j /\ mu'[g] = locker'[j]
    BY DEF EntryHasUser
  <2>1. CASE j = k
    BY <2>1 DEF IInv, TypeOK, LoadOrStore, Place
  <2>2. CASE j # k
    <3>1. locker'[j] = locker[j]
      BY <2>2 DEF IInv, TypeOK, LoadOrStore
    <3>2. PICK g \in Holder : pc[g] # "idle" /\ key[g] = j /\ mu[g] = locker[j]
      BY <3>1 DEF IInv, EntryHasUser
    <3>3. g # h
      BY <3>2 DEF LoadOrStore
    <3>. QED
      BY <3>1, <3>2, <3>3 DEF IInv, TypeOK, LoadOrStore
  <2>. QED
    BY <2>1, <2>2
<1>. QED
  BY <1>1, <1>2, <1>3, <1>4 DEF IInv

(* getLock's Lock keeps it: a mutex changes hands only when it is free.    *)
LEMMA LockInv ==
    ASSUME IInv, NEW h \in Holder, Lock(h)
    PROVE  IInv'
<1>1. mu[h] \in Mutex
  BY DEF IInv, TypeOK, HasMutex, Lock
<1>2. TypeOK'
  BY <1>1 DEF IInv, TypeOK, Lock, Place
<1>3. HasMutex'
  BY DEF IInv, TypeOK, HasMutex, Lock, Place
<1>4. OwnerIsHolder'
  BY <1>1, SentinelAssumption DEF IInv, TypeOK, OwnerIsHolder, Lock, Place
<1>5. EntryHasUser'
  BY DEF IInv, TypeOK, EntryHasUser, Lock, Place
<1>. QED
  BY <1>2, <1>3, <1>4, <1>5 DEF IInv

(* releaseLock's Unlock keeps it.                                          *)
LEMMA UnlockInv ==
    ASSUME IInv, NEW h \in Holder, Unlock(h)
    PROVE  IInv'
<1>1. mu[h] \in Mutex
  BY DEF IInv, TypeOK, HasMutex, Unlock
<1>2. TypeOK'
  BY <1>1 DEF IInv, TypeOK, Unlock, Place
<1>3. HasMutex'
  BY DEF IInv, TypeOK, HasMutex, Unlock, Place
<1>4. OwnerIsHolder'
  BY <1>1, SentinelAssumption DEF IInv, TypeOK, OwnerIsHolder, Unlock, Place
<1>5. EntryHasUser'
  BY DEF IInv, TypeOK, EntryHasUser, Unlock, Place
<1>. QED
  BY <1>2, <1>3, <1>4, <1>5 DEF IInv

(* releaseLock's Delete keeps it: the entry of the leaving goroutine's key *)
(* goes with it, whoever stored that entry.                                *)
LEMMA DeleteInv ==
    ASSUME IInv, NEW h \in Holder, Delete(h)
    PROVE  IInv'
<1>1. TypeOK'
  BY DEF IInv, TypeOK, Delete, Place
<1>2. HasMutex'
  BY DEF IInv, TypeOK, HasMutex, Delete, Place
<1>3. OwnerIsHolder'
  BY DEF IInv, TypeOK, OwnerIsHolder, Delete, Place
<1>4. EntryHasUser'
  <2>. SUFFICES ASSUME NEW j \in Key, locker'[j] # NoMutex
                PROVE  \E g \in Holder : pc'[g] # "idle" /\ key'[g] = j /\ mu'[g] = locker'[j]
    BY DEF EntryHasUser
  <2>1. j # key[h] /\ locker'[j] = locker[j]
    BY DEF IInv, TypeOK, Delete
  <2>2. PICK g \in Holder : pc[g] # "idle" /\ key[g] = j /\ mu[g] = locker[j]
    BY <2>1 DEF IInv, EntryHasUser
  <2>. QED
    BY <2>1, <2>2 DEF IInv, TypeOK, Delete
<1>. QED
  BY <1>1, <1>2, <1>3, <1>4 DEF IInv

(* Every step keeps the inductive invariant.                               *)
LEMMA NextInv == IInv /\ [Next]_vars => IInv'
<1>. SUFFICES ASSUME IInv, [Next]_vars PROVE IInv'
  OBVIOUS
<1>1. CASE Next
  BY <1>1, LoadOrStoreInv, LockInv, UnlockInv, DeleteInv DEF Next
<1>2. CASE UNCHANGED vars
  BY <1>2 DEF vars, IInv, TypeOK, HasMutex, OwnerIsHolder, EntryHasUser
<1>. QED
  BY <1>1, <1>2

(* The inductive invariant holds in every reachable state.                 *)
THEOREM Invariant == Spec => []IInv
BY InitInv, NextInv, PTL DEF Spec

-----------------------------------------------------------------------------

(* The variables keep their types.                                         *)
THEOREM TypeCorrect == Spec => []TypeOK
<1>1. IInv => TypeOK
  BY DEF IInv
<1>. QED
  BY <1>1, Invariant, PTL

(* An unlock is always legal and no lock is left behind.                   *)
THEOREM UnlockLegal == Spec => []OwnerIsHolder
<1>1. IInv => OwnerIsHolder
  BY DEF IInv
<1>. QED
  BY <1>1, Invariant, PTL

(* The lock table does not leak entries.                                   *)
THEOREM NoLeak == Spec => []EntryHasUser
<1>1. IInv => EntryHasUser
  BY DEF IInv
<1>. QED
  BY <1>1, Invariant, PTL

(* Mutual exclusion is lost only by a release that orphans a goroutine.    *)
THEOREM ExclusionHoldsUntilOrphaned == Spec => []ExclusionUntilOrphaned
<1>1. IInv => ExclusionUntilOrphaned
  <2>. SUFFICES ASSUME IInv, NEW g \in Holder, NEW h \in Holder, Both(g, h),
                       ~Orphan(g), ~Orphan(h)
                PROVE  FALSE
    BY DEF ExclusionUntilOrphaned
  <2>1. mu[g] = mu[h] /\ mu[g] \in Mutex
    BY DEF IInv, TypeOK, HasMutex, Both, Orphan
  <2>2. owner[mu[g]] = g /\ owner[mu[g]] = h
    BY <2>1 DEF IInv, OwnerIsHolder, Both
  <2>. QED
    BY <2>2 DEF Both
<1>. QED
  BY <1>1, Invariant, PTL

(* Nothing but a release by another goroutine takes a mutex in use out of  *)
(* the table.                                                              *)
THEOREM ReleasesOrphan == Spec => OnlyReleaseOrphans
<1>. DEFINE A == \A h \in Holder : Orphan(h)' /\ ~Orphan(h) =>
                   \E g \in Holder \ {h} : pc[g] = "delete" /\ pc'[g] = "idle" /\ key[g] = key[h]
<1>1. IInv /\ [Next]_vars => [A]_vars
  <2>. SUFFICES ASSUME IInv, Next, NEW h \in Holder, Orphan(h)', ~Orphan(h)
                PROVE  \E g \in Holder \ {h} :
                          pc[g] = "delete" /\ pc'[g] = "idle" /\ key[g] = key[h]
    OBVIOUS
  <2>1. ASSUME NEW g \in Holder, NEW k \in Key, LoadOrStore(g, k) PROVE FALSE
    <3>1. CASE g = h
      BY <2>1, <3>1 DEF IInv, TypeOK, LoadOrStore, Orphan
    <3>2. CASE g # h
      <4>1. pc[h] \in {"lock", "held"} /\ key'[h] = key[h] /\ mu'[h] = mu[h]
        BY <2>1, <3>2 DEF IInv, TypeOK, LoadOrStore, Orphan
      <4>2. mu[h] = locker[key[h]] /\ mu[h] # NoMutex /\ key[h] \in Key
        BY <4>1 DEF Orphan, IInv, HasMutex, TypeOK
      <4>3. locker'[key[h]] = locker[key[h]]
        BY <2>1, <4>2 DEF IInv, TypeOK, LoadOrStore
      <4>. QED
        BY <4>1, <4>2, <4>3 DEF Orphan
    <3>. QED
      BY <3>1, <3>2
  <2>2. ASSUME NEW g \in Holder, Lock(g) \/ Unlock(g) PROVE FALSE
    BY <2>2 DEF IInv, TypeOK, Lock, Unlock, Orphan, Place
  <2>3. ASSUME NEW g \in Holder, Delete(g)
        PROVE  g # h /\ pc[g] = "delete" /\ pc'[g] = "idle" /\ key[g] = key[h]
    BY <2>3 DEF IInv, TypeOK, Delete, Orphan, Place
  <2>. QED
    BY <2>1, <2>2, <2>3 DEF Next
<1>2. Spec => [][A]_vars
  BY <1>1, Invariant, PTL DEF Spec
<1>. QED
  BY <1>2 DEF OnlyReleaseOrphans

-----------------------------------------------------------------------------
(* Whom a mutex is for.                                                    *)

(* The mutex in the table under a key is only had by those who asked for   *)
(* the key, and whoever has the same mutex has asked for the same key.     *)
OneKey ==
    /\ \A h \in Holder, k \in Key : mu[h] # NoMutex /\ mu[h] = locker[k] => key[h] = k
    /\ \A g, h \in Holder : mu[h] # NoMutex /\ mu[g] = mu[h] => key[g] = key[h]

LEMMA OneKeyInit == Init => OneKey
BY DEF Init, OneKey

(* Two keys never have one mutex in the table, so LoadOrStore hands out a  *)
(* mutex for the key that it is asked for.                                 *)
LEMMA LoadOrStoreOneKey ==
    ASSUME IInv, OneKey, NEW h \in Holder, NEW k \in Key, LoadOrStore(h, k)
    PROVE  OneKey'
<1>1. /\ key' = [key EXCEPT ![h] = k] /\ mu \in [Holder -> Mutex \cup {NoMutex}]
      /\ key \in [Holder -> Key \cup {NoKey}] /\ locker \in [Key -> Mutex \cup {NoMutex}]
  BY DEF IInv, TypeOK, LoadOrStore
<1>2. mu[h] = NoMutex
  BY DEF IInv, HasMutex, LoadOrStore
<1>3. CASE locker[k] # NoMutex
  <2>1. locker' = locker /\ mu' = [mu EXCEPT ![h] = locker[k]]
    BY <1>3 DEF LoadOrStore
  <2>2. ASSUME NEW j \in Key, locker[j] = locker[k] PROVE j = k
    <3>1. PICK g \in Holder : key[g] = k /\ mu[g] = locker[k]
      BY <1>3 DEF IInv, EntryHasUser
    <3>. QED
      BY <1>3, <2>2, <3>1 DEF OneKey
  <2>3. ASSUME NEW g \in Holder, mu[g] = locker[k] PROVE key[g] = k
    BY <1>3, <2>3 DEF OneKey
  <2>. QED
    BY <1>1, <1>2, <1>3, <2>1, <2>2, <2>3 DEF OneKey
<1>4. CASE locker[k] = NoMutex
  <2>1. PICK m \in Fresh : locker' = [locker EXCEPT ![k] = m] /\ mu' = [mu EXCEPT ![h] = m]
    BY <1>4 DEF LoadOrStore
  <2>2. (\A j \in Key : locker[j] # m) /\ (\A g \in Holder : mu[g] # m)
    BY DEF Fresh
  <2>3. \A g \in Holder : mu'[g] = IF g = h THEN m ELSE mu[g]
    BY <1>1, <2>1
  <2>4. \A g \in Holder : key'[g] = IF g = h THEN k ELSE key[g]
    BY <1>1
  <2>5. \A j \in Key : locker'[j] = IF j = k THEN m ELSE locker[j]
    BY <1>1, <2>1
  <2>. QED
    BY <1>2, <2>2, <2>3, <2>4, <2>5 DEF OneKey
<1>. QED
  BY <1>3, <1>4

LEMMA OneKeyNext ==
    ASSUME IInv, OneKey, [Next]_vars
    PROVE  OneKey'
<1>1. ASSUME NEW h \in Holder, Lock(h) \/ Unlock(h) PROVE OneKey'
  BY <1>1 DEF OneKey, Lock, Unlock
<1>2. ASSUME NEW h \in Holder, Delete(h) PROVE OneKey'
  BY <1>2 DEF IInv, TypeOK, OneKey, Delete
<1>3. CASE UNCHANGED vars
  BY <1>3 DEF vars, OneKey
<1>. QED
  BY <1>1, <1>2, <1>3, LoadOrStoreOneKey DEF Next

(* Goroutines that wait for one mutex, or have it, are after the same key. *)
THEOREM MutexOfOneKey == Spec => []OneKeyPerMutex
<1>1. IInv /\ OneKey /\ [Next]_vars => (IInv /\ OneKey)'
  BY NextInv, OneKeyNext
<1>2. Init => IInv /\ OneKey
  BY InitInv, OneKeyInit
<1>3. OneKey => OneKeyPerMutex
  BY DEF OneKey, OneKeyPerMutex
<1>. QED
  BY <1>1, <1>2, <1>3, PTL DEF Spec

=============================================================================
