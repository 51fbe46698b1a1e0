--------------------------- MODULE LevelDBClients ---------------------------
(***************************************************************************)
(* The LevelDB backend under any clients: goroutines call any method that  *)
(* is to change the store, and query one e-mail, at any time, accesses to  *)
(* the store fail, and the process may end and start again at any moment.  *)
(***************************************************************************)
EXTENDS LevelDBStore

CONSTANT Level      \* the levels that clients store

ASSUME LevelAssumption == Level \subseteq StoredLevel

VARIABLES
    alone,      \* history: goroutines whose call overlapped no other call so far
    crowded     \* history: locks whose holder has not been the only one of its key

vars == <<account, reflect, old, op, locker, lockOwner, lockPc, lockKey, lockMu, alone, crowded>>

Init == StoreInit([a \in Address |-> NoDoc]) /\ alone = {} /\ crowded = {}

Clients(t, c) ==
    /\ Invoke(t, c)
    /\ alone' = IF \E u \in Thread \ {t} : Running(u) THEN {} ELSE {t}
    /\ UNCHANGED <<account, reflect, old, locks, crowded>>

Begin(t) ==
    \/ \E a \in Address, e \in Email : Clients(t, UpdateBinding(a, e))
    \/ \E a \in Address, e \in Email : Clients(t, DeleteBinding(a, e))
    \/ \E e \in Email : Clients(t, QueryReflectByOneEmail(e))
    \/ \E a \in Address : Clients(t, UninstallByUser(a))
    \/ \E a \in Address : Clients(t, DeleteAccount(a))
    \/ \E a \in Address, l \in Level : Clients(t, ActiveAccount(a, l))
    \/ \E a \in Address, l \in Level : Clients(t, UpdateAccountLevel(a, l))

(* The locks inside of which somebody else is for the same key.            *)
Held(h) == lockPc[h] = "held"
Shared == {h \in Holder : Held(h) /\ \E g \in Holder \ {h} : Held(g) /\ lockKey[g] = lockKey[h]}

Next ==
    \/ \E t \in Thread : Begin(t)
    \/ /\ \E t \in Thread : StoreStep(t)
       /\ crowded' = {h \in crowded : Held(h)'} \cup Shared'
       /\ UNCHANGED alone
    \/ ProcessExit /\ crowded' = {} /\ UNCHANGED alone

Spec == Init /\ [][Next]_vars

-----------------------------------------------------------------------------

(* The variables have their types.                                         *)
TypeOK == StoreTypeOK /\ alone \subseteq Thread /\ crowded \subseteq Holder

(* Between its read and its write, a method's copy of its account is what  *)
(* is stored: no update is lost, unless two methods were inside the lock   *)
(* of one account (KeyedLock says when).                                   *)
CopyCurrent ==
    \A t \in Thread :
        /\ op[t].pc \in {"write", "email", "setEmail", "leaveEmail", "old", "setOld", "leaveOld"}
        /\ op[t].res = "none" /\ Outer(t) \notin crowded
        => op[t].doc = account[op[t].addr]
OldCopyCurrent ==
    \A t \in Thread : op[t].pc = "setOld" /\ Inner(t) \notin crowded => old[t] = account[op[t].owner]

NoLostUpdate == CopyCurrent /\ OldCopyCurrent

(* UpdateBinding, run alone to a success, leaves the pair bound on both    *)
(* sides and takes the e-mail from the account it was mapped to, whatever  *)
(* earlier races and failures had left in the store.                       *)
AloneBindHeals ==
    \A t \in alone : Returned(t, "UpdateBinding", "ok") =>
        LET c == op[t]
        IN  /\ reflect[c.email] = c.addr
            /\ account[c.addr].found /\ c.email \in account[c.addr].emails
            /\ c.owner \notin {NoAddress, c.addr} => c.email \notin account[c.owner].emails

(* DeleteBinding, run alone to a success, leaves the e-mail unlisted and   *)
(* unmapped.                                                               *)
AloneUnbindClears ==
    \A t \in alone : Returned(t, "DeleteBinding", "ok") =>
        reflect[op[t].email] = NoAddress /\ op[t].email \notin account[op[t].addr].emails

=============================================================================
