------------------------------ MODULE KeyedLock ------------------------------
(***************************************************************************)
(* The per-key locks of the LevelDB backend (db/db_leveldb/leveldb.go).    *)
(*                                                                         *)
(* DbManager.locker is a sync.Map from a key to a *sync.Mutex.  getLock    *)
(* loads the mutex of the key, or stores a new one, and then locks it;     *)
(* releaseLock unlocks the mutex and then deletes the entry of the key.    *)
(* Each of the four library calls is atomic, and goroutines interleave     *)
(* between any two of them: every call is an action here.                  *)
(*                                                                         *)
(* A Holder is one activation of getLock .. releaseLock: the goroutine and *)
(* the lock it is after.  A mutex that nobody can reach any more is        *)
(* garbage, so its model value may be allocated again.                     *)
(***************************************************************************)
EXTENDS FiniteSets

CONSTANTS
    Holder,     \* goroutines that use the lock table
    Key,        \* keys of the lock table
    Mutex,      \* mutex objects: identities of &sync.Mutex{}
    NoHolder,   \* an unlocked mutex
    NoMutex,    \* no entry in the lock table
    NoKey       \* the key of a holder that is outside

ASSUME SentinelAssumption == NoHolder \notin Holder /\ NoMutex \notin Mutex /\ NoKey \notin Key

VARIABLES
    locker,     \* the sync.Map: the mutex stored under each key
    owner,      \* who has locked each mutex
    pc,         \* where each holder is
    key,        \* the key each holder asked for
    mu          \* the mutex each holder got from the table

vars == <<locker, owner, pc, key, mu>>

Place == {"idle", "lock", "held", "delete"}

Init ==
    /\ locker = [k \in Key |-> NoMutex]
    /\ owner = [m \in Mutex |-> NoHolder]
    /\ pc = [h \in Holder |-> "idle"]
    /\ key = [h \in Holder |-> NoKey]
    /\ mu = [h \in Holder |-> NoMutex]

-----------------------------------------------------------------------------

(* A mutex just allocated: nobody else has a reference to it.              *)
Fresh == {m \in Mutex : (\A k \in Key : locker[k] # m) /\ (\A h \in Holder : mu[h] # m)}

(* Mutants of LoadOrStore: a Store, which replaces the mutex in the table; *)
(* and a new entry with a mutex from a pool of those that have been taken  *)
(* out of the table, which others may still wait for.                      *)
StoreAlways(h, k) ==
    /\ pc[h] = "idle"
    /\ \E m \in Fresh :
          /\ locker' = [locker EXCEPT ![k] = m]
          /\ mu' = [mu EXCEPT ![h] = m]
    /\ key' = [key EXCEPT ![h] = k]
    /\ pc' = [pc EXCEPT ![h] = "lock"]
    /\ UNCHANGED owner

LoadOrStorePooled(h, k) ==
    /\ pc[h] = "idle"
    /\ \/ /\ locker[k] # NoMutex
          /\ mu' = [mu EXCEPT ![h] = locker[k]]
          /\ UNCHANGED locker
       \/ /\ locker[k] = NoMutex
          /\ \E m \in {n \in Mutex : \A j \in Key : locker[j] # n} :
                /\ locker' = [locker EXCEPT ![k] = m]
                /\ mu' = [mu EXCEPT ![h] = m]
    /\ key' = [key EXCEPT ![h] = k]
    /\ pc' = [pc EXCEPT ![h] = "lock"]
    /\ UNCHANGED owner

(* getLock, locker.LoadOrStore(key, &sync.Mutex{}).                        *)
LoadOrStore(h, k) ==
    /\ pc[h] = "idle"
    /\ \/ /\ locker[k] # NoMutex
          /\ mu' = [mu EXCEPT ![h] = locker[k]]
          /\ UNCHANGED locker
       \/ /\ locker[k] = NoMutex
          /\ \E m \in Fresh :
                /\ locker' = [locker EXCEPT ![k] = m]
                /\ mu' = [mu EXCEPT ![h] = m]
    /\ key' = [key EXCEPT ![h] = k]
    /\ pc' = [pc EXCEPT ![h] = "lock"]
    /\ UNCHANGED owner

(* Mutant of Lock: it does not wait for the owner.                         *)
LockWithoutWaiting(h) ==
    /\ pc[h] = "lock"
    /\ owner' = [owner EXCEPT ![mu[h]] = h]
    /\ pc' = [pc EXCEPT ![h] = "held"]
    /\ UNCHANGED <<locker, key, mu>>

(* getLock, lock.Lock(): blocks while somebody has the mutex.              *)
Lock(h) ==
    /\ pc[h] = "lock"
    /\ owner[mu[h]] = NoHolder
    /\ owner' = [owner EXCEPT ![mu[h]] = h]
    /\ pc' = [pc EXCEPT ![h] = "held"]
    /\ UNCHANGED <<locker, key, mu>>

(* Mutant of Unlock: the unlock is forgotten.                              *)
UnlockForgotten(h) ==
    /\ pc[h] = "held"
    /\ pc' = [pc EXCEPT ![h] = "delete"]
    /\ UNCHANGED <<locker, owner, key, mu>>

(* releaseLock, lock.Unlock().                                             *)
Unlock(h) ==
    /\ pc[h] = "held"
    /\ owner' = [owner EXCEPT ![mu[h]] = NoHolder]
    /\ pc' = [pc EXCEPT ![h] = "delete"]
    /\ UNCHANGED <<locker, key, mu>>

(* Mutant of Delete: the entry stays.                                      *)
DeleteForgotten(h) ==
    /\ pc[h] = "delete"
    /\ pc' = [pc EXCEPT ![h] = "idle"]
    /\ mu' = [mu EXCEPT ![h] = NoMutex]
    /\ key' = [key EXCEPT ![h] = NoKey]
    /\ UNCHANGED <<locker, owner>>

(* releaseLock, locker.Delete(key): whatever is stored under the key by    *)
(* now, the mutex just unlocked or another one.                            *)
Delete(h) ==
    /\ pc[h] = "delete"
    /\ locker' = [locker EXCEPT ![key[h]] = NoMutex]
    /\ pc' = [pc EXCEPT ![h] = "idle"]
    /\ mu' = [mu EXCEPT ![h] = NoMutex]
    /\ key' = [key EXCEPT ![h] = NoKey]
    /\ UNCHANGED owner

Next ==
    \E h \in Holder :
        \/ \E k \in Key : LoadOrStore(h, k)
        \/ Lock(h)
        \/ Unlock(h)
        \/ Delete(h)

Spec == Init /\ [][Next]_vars

-----------------------------------------------------------------------------

(* The variables have their types.                                         *)
TypeOK ==
    /\ locker \in [Key -> Mutex \cup {NoMutex}]
    /\ owner \in [Mutex -> Holder \cup {NoHolder}]
    /\ pc \in [Holder -> Place]
    /\ key \in [Holder -> Key \cup {NoKey}]
    /\ mu \in [Holder -> Mutex \cup {NoMutex}]

(* Goroutines that wait for one mutex, or have it, are after one key, also *)
(* when the table has long lost that mutex: the locks of different keys    *)
(* never hold each other up, however their entries come and go.            *)
OneKeyPerMutex == \A g, h \in Holder : mu[h] # NoMutex /\ mu[g] = mu[h] => key[g] = key[h]

(* Unlocking is always legal: a goroutine between getLock and releaseLock  *)
(* owns the mutex getLock gave it, although others delete table entries    *)
(* meanwhile.  (sync.Mutex kills the process on an unlock of an unlocked   *)
(* mutex.)  And nobody else owns a mutex: no lock is left behind.          *)
OwnerIsHolder ==
    \A h \in Holder, m \in Mutex : owner[m] = h <=> (pc[h] = "held" /\ mu[h] = m)

(* The table does not leak: an entry belongs to a goroutine that has its   *)
(* mutex and has still to run locker.Delete for its key.                   *)
EntryHasUser ==
    \A k \in Key : locker[k] # NoMutex =>
        \E h \in Holder : pc[h] # "idle" /\ key[h] = k /\ mu[h] = locker[k]

(* A goroutine whose mutex is no longer the one stored under its key: a    *)
(* release by somebody else has deleted the entry it loaded.               *)
Orphan(h) == pc[h] \in {"lock", "held"} /\ mu[h] # locker[key[h]]

(* Two goroutines inside getLock .. releaseLock of the same key.           *)
Both(g, h) == g # h /\ key[g] = key[h] /\ pc[g] = "held" /\ pc[h] = "held"

(* The lock excludes as long as no release has orphaned anybody: two       *)
(* goroutines in the critical section of one key means that at least one   *)
(* of them holds a mutex that has been deleted from the table.             *)
ExclusionUntilOrphaned ==
    \A g, h \in Holder : Both(g, h) => Orphan(g) \/ Orphan(h)

(* Mutual exclusion, what getLock and releaseLock are for: at most one     *)
(* goroutine is between them for a given key.                              *)
MutualExclusion == \A g, h \in Holder : ~Both(g, h)

(* Only a release can orphan somebody, and only somebody who got the mutex *)
(* before the release: no other step, in particular no getLock, ever takes *)
(* a waiting or working goroutine's mutex out of the table.                *)
OnlyReleaseOrphans ==
    [][\A h \in Holder : Orphan(h)' /\ ~Orphan(h) =>
          \E g \in Holder \ {h} : pc[g] = "delete" /\ pc'[g] = "idle" /\ key[g] = key[h]]_vars

=============================================================================
