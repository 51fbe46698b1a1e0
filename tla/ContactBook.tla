----------------------------- MODULE ContactBook -----------------------------
(***************************************************************************)
(* What the mutators of DatabaseI promise to a caller whom nobody          *)
(* overlaps: the contact book of accounts and mappings, and for each       *)
(* method one step from the book before the call to the book after it,     *)
(* with a step of its own for what a call that fails, or dies with its     *)
(* process, may leave behind.  It says nothing of how a backend does it.   *)
(***************************************************************************)
EXTENDS ContactData

CONSTANT Level      \* the levels that callers store

VARIABLES
    account,    \* the account of each BMail address
    reflect     \* the BMail address that each e-mail address resolves to

book == <<account, reflect>>

Init ==
    /\ account = [a \in Address |-> NoDoc]
    /\ reflect = [e \in Email |-> NoAddress]

Listed(acc, a, e) == [acc EXCEPT ![a].emails = @ \cup {e}]
Unlisted(acc, a, e) == [acc EXCEPT ![a].emails = @ \ {e}]
Mapped(e, a) == reflect' = [reflect EXCEPT ![e] = a]
Unmapped(gone) == reflect' = [e \in Email |-> IF e \in gone THEN NoAddress ELSE reflect[e]]

-----------------------------------------------------------------------------

(* UpdateBinding lists the e-mail at a, makes it resolve to a, and takes   *)
(* it from the account that it resolved to before.                         *)
Bind(a, e) ==
    LET old == reflect[e]
    IN  /\ account[a].found
        /\ Mapped(e, a)
        /\ \/ old \in {a, NoAddress} /\ account' = Listed(account, a, e)
           \/ /\ old \notin {a, NoAddress} /\ account[old].found
              /\ account' = Unlisted(Listed(account, a, e), old, e)

(* It lists first, maps second and unlists last.                           *)
BindFails(a, e) ==
    /\ account[a].found
    /\ account' = Listed(account, a, e)
    /\ UNCHANGED reflect \/ Mapped(e, a)

(* DeleteBinding: whoever the e-mail resolves to, it resolves to nobody    *)
(* afterwards.                                                             *)
Unbind(a, e) ==
    /\ account[a].found
    /\ account' = Unlisted(account, a, e)
    /\ Unmapped({e})

UnbindFails(a, e) ==
    /\ account[a].found
    /\ account' = Unlisted(account, a, e)
    /\ UNCHANGED reflect

(* UninstallByUser: the account remains, without its e-mails.              *)
Uninstall(a) ==
    /\ account[a].found
    /\ account' = [account EXCEPT ![a].emails = {}]
    /\ Unmapped(account[a].emails)

UninstallFails(a) ==
    /\ account[a].found
    /\ account' = [account EXCEPT ![a].emails = {}]
    /\ \E gone \in SUBSET account[a].emails : Unmapped(gone)

(* DeleteAccount: the mappings of its e-mails go first.                    *)
Delete(a) ==
    /\ account[a].found
    /\ account' = [account EXCEPT ![a] = NoDoc]
    /\ Unmapped(account[a].emails)

DeleteFails(a) ==
    /\ account[a].found
    /\ UNCHANGED account
    /\ \E gone \in SUBSET account[a].emails : Unmapped(gone)

(* ActiveAccount leaves an account that is there as it is.                 *)
Activate(a, l) ==
    /\ ~account[a].found
    /\ account' = [account EXCEPT ![a] = NewDoc(l)]
    /\ UNCHANGED reflect

SetLevel(a, l) ==
    /\ account[a].found
    /\ account' = [account EXCEPT ![a].level = l]
    /\ UNCHANGED reflect

Fails ==
    \E a \in Address :
        \/ UninstallFails(a) \/ DeleteFails(a)
        \/ \E e \in Email : BindFails(a, e) \/ UnbindFails(a, e)

Next ==
    \/ \E a \in Address, e \in Email : Bind(a, e) \/ Unbind(a, e)
    \/ \E a \in Address : Uninstall(a) \/ Delete(a)
    \/ \E a \in Address, l \in Level : Activate(a, l) \/ SetLevel(a, l)
    \/ Fails

Spec == Init /\ [][Next]_book

-----------------------------------------------------------------------------

(* The variables have their types.                                         *)
BookTypeOK ==
    /\ account \in [Address -> Doc]
    /\ reflect \in [Email -> Address \cup {NoAddress}]

(* An account lists exactly the e-mails that resolve to it.                *)
Consistent ==
    \A a \in Address, e \in Email : e \in account[a].emails <=> reflect[e] = a

(* An account that is not the owner of an e-mail unbinds it.               *)
ForeignUnbind == \E a \in Address, e \in Email : reflect[e] \notin {a, NoAddress} /\ Unbind(a, e)

(* A consistent book stays consistent, unless a call fails half way or an  *)
(* account unbinds an e-mail that is not its own.                          *)
StaysConsistent == [][Consistent /\ ~Consistent' => Fails \/ ForeignUnbind]_book

=============================================================================
