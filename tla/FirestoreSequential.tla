------------------------- MODULE FirestoreSequential -------------------------
(***************************************************************************)
(* The Firestore backend under callers who come one after the other, and   *)
(* whose calls may fail or be cut off: it implements ContactBook.  The     *)
(* book is the collections as they were when the running call began, and   *)
(* the collections themselves when there is none: a call takes effect, in  *)
(* whole or in part, in the step in which it returns or is cut off.        *)
(***************************************************************************)
EXTENDS FirestoreStore

CONSTANT Level      \* the levels that callers store
ASSUME LevelAssumption == Level \subseteq StoredLevel

VARIABLE before     \* history: the collections when the last call began

vars == <<account, reflect, link, op, before>>

Init == StoreInit /\ before = [account |-> account, reflect |-> reflect]

Begin(t, c) ==
    /\ \A u \in Thread : ~Running(u)
    /\ Invoke(t, c)
    /\ before' = [account |-> account, reflect |-> reflect]
    /\ UNCHANGED tables

Next ==
    \/ \E t \in Thread, a \in Address :
          \/ \E e \in Email : Begin(t, UpdateBinding(a, e)) \/ Begin(t, DeleteBinding(a, e))
          \/ Begin(t, UninstallByUser(a)) \/ Begin(t, DeleteAccount(a))
          \/ \E l \in Level : Begin(t, ActiveAccount(a, l)) \/ Begin(t, UpdateAccountLevel(a, l))
    \/ \E t \in Thread : StoreStep(t) /\ UNCHANGED before
    \/ ProcessExit /\ UNCHANGED before

Spec == Init /\ [][Next]_vars

Busy == \E t \in Thread : Running(t)

Book == INSTANCE ContactBook WITH
    account <- IF Busy THEN before.account ELSE account,
    reflect <- IF Busy THEN before.reflect ELSE reflect

-----------------------------------------------------------------------------

(* A call reports success only when it has done the whole of what it was   *)
(* called for, or when there was nothing to do: a deletion of what is not  *)
(* there, an activation of an account that is.                             *)
Whole(c) ==
    LET known == before.account[c.addr].found
    IN  \/ c.name = "UpdateBinding" /\ Book!Bind(c.addr, c.email)
        \/ c.name = "DeleteBinding" /\ Book!Unbind(c.addr, c.email)
        \/ c.name = "UninstallByUser" /\ Book!Uninstall(c.addr)
        \/ c.name = "DeleteAccount" /\ Book!Delete(c.addr)
        \/ c.name = "ActiveAccount" /\ Book!Activate(c.addr, c.level)
        \/ c.name = "UpdateAccountLevel" /\ Book!SetLevel(c.addr, c.level)
        \/ /\ c.name \in {"DeleteBinding", "UninstallByUser", "DeleteAccount"} /\ ~known
           /\ UNCHANGED Book!book
        \/ c.name = "ActiveAccount" /\ known /\ UNCHANGED Book!book

SuccessIsWhole ==
    [][\A t \in Thread :
          Running(t) /\ op'[t].pc = "done" /\ op'[t].res = "ok" => Whole(op[t])]_vars

(* Each call of the backend is a call of the contact book: done in one     *)
(* step, or left in one of the states that ContactBook allows a failed     *)
(* call to leave, and then not reported as a success.                      *)
ImplementsBook == Book!Spec /\ SuccessIsWhole

(* The book stays consistent but for failures and foreign unbinds.         *)
BookStaysConsistent == Book!StaysConsistent

=============================================================================
