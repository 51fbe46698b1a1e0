-------------------------- MODULE FirestoreClients --------------------------
(***************************************************************************)
(* The Firestore backend under any clients: goroutines call any mutator of *)
(* the two contact collections at any time with any arguments, requests    *)
(* fail, and the process may end and start again at any moment.            *)
(***************************************************************************)
EXTENDS FirestoreStore

CONSTANT Level      \* the levels that clients store
ASSUME LevelAssumption == Level \subseteq StoredLevel

VARIABLES
    asked,  \* history: pairs <<a, e>> that a client asked UpdateBinding for
    alone   \* history: goroutines whose call overlapped no other call so far

vars == <<account, reflect, link, op, asked, alone>>

Init == StoreInit /\ asked = {} /\ alone = {}

Clients(t, c) ==
    /\ Invoke(t, c)
    /\ alone' = IF \E u \in Thread \ {t} : Running(u) THEN {} ELSE {t}
    /\ asked' = IF c.name = "UpdateBinding" THEN asked \cup {<<c.addr, c.email>>} ELSE asked
    /\ UNCHANGED tables

Begin(t) ==
    \/ \E a \in Address, e \in Email : Clients(t, UpdateBinding(a, e))
    \/ \E a \in Address, e \in Email : Clients(t, DeleteBinding(a, e))
    \/ \E a \in Address : Clients(t, UninstallByUser(a))
    \/ \E a \in Address : Clients(t, DeleteAccount(a))
    \/ \E a \in Address, l \in Level : Clients(t, ActiveAccount(a, l))
    \/ \E a \in Address, l \in Level : Clients(t, UpdateAccountLevel(a, l))

Next ==
    \/ \E t \in Thread : Begin(t)
    \/ \E t \in Thread : StoreStep(t) /\ UNCHANGED <<asked, alone>>
    \/ ProcessExit /\ UNCHANGED <<asked, alone>>

Spec == Init /\ [][Next]_vars

-----------------------------------------------------------------------------

(* The variables have their types.                                         *)
TypeOK ==
    /\ StoreTypeOK
    /\ asked \subseteq Address \X Email
    /\ alone \subseteq Thread

(* Nothing is ever listed or mapped that nobody asked to bind: whatever    *)
(* interleavings and failures do to the two collections, and whatever      *)
(* stale copy of a document is written back, no account shows an e-mail    *)
(* and no e-mail resolves to an account without a request for that pair.   *)
Provenance ==
    /\ \A a \in Address : \A e \in account[a].emails : <<a, e>> \in asked
    /\ \A e \in Email : reflect[e] # NoAddress => <<reflect[e], e>> \in asked

(* UpdateBinding, run alone to a success, leaves the pair bound on both    *)
(* sides and takes the e-mail from the account it was mapped to, whatever  *)
(* earlier races and failures had left in the collections.                 *)
AloneBindHeals ==
    \A t \in alone : Returned(t, "UpdateBinding", "ok") =>
        LET c == op[t]
        IN  /\ reflect[c.email] = c.addr
            /\ account[c.addr].found /\ c.email \in account[c.addr].emails
            /\ c.owner \notin {NoAddress, c.addr} => c.email \notin account[c.owner].emails

(* DeleteBinding, run alone to a success, leaves the account without the   *)
(* e-mail.  The e-mail resolves to nobody then, unless the account did not *)
(* exist.                                                                  *)
AloneUnbindClears ==
    \A t \in alone : Returned(t, "DeleteBinding", "ok") =>
        LET c == op[t]
        IN  /\ c.email \notin account[c.addr].emails
            /\ account[c.addr].found => reflect[c.email] = NoAddress

(* An e-mail that resolves to an account which does not list it: the user  *)
(* of that account can neither see nor clear it with an uninstall.         *)
Dangling(e) == reflect[e] # NoAddress /\ e \notin account[reflect[e]].emails

(* UpdateBinding lists an e-mail before it maps it, and DeleteAccount      *)
(* deletes mappings before the account: a call that nothing overlaps makes *)
(* no e-mail dangle, not even when it fails or the process ends half way,  *)
(* unless it is one of the two that work in the other order.               *)
UnmapsLast == {"DeleteBinding", "UninstallByUser"}

OnlyUnbindDangles ==
    [][\A e \in Email : Dangling(e)' /\ ~Dangling(e) =>
          \E t \in Thread : Running(t) /\ (t \in alone => op[t].name \in UnmapsLast)]_vars

(* Only ActiveAccount creates accounts.  The other methods write back what *)
(* they have read, so one that nothing overlaps never brings a deleted     *)
(* account back.  (One that a deletion overlaps may: nothing is said of    *)
(* it.)                                                                    *)
OnlyActivationCreates ==
    [][\A a \in Address : account'[a].found /\ ~account[a].found =>
          \E t \in Thread : Running(t) /\ (t \in alone => op[t].name = "ActiveAccount")]_vars

=============================================================================
