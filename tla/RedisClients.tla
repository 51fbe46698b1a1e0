---------------------------- MODULE RedisClients ----------------------------
(***************************************************************************)
(* The Redis backend under any clients: goroutines call any method that    *)
(* changes the database (UninstallByUser does not), at any time with any   *)
(* arguments, commands fail, and the process may end and start again at    *)
(* any moment.                                                             *)
(***************************************************************************)
EXTENDS RedisStore

CONSTANT Level      \* the levels that clients store
ASSUME LevelAssumption == Level \subseteq StoredLevel

VARIABLES
    asked,  \* history: pairs <<a, e>> that a client asked UpdateBinding for
    alone   \* history: goroutines whose call overlapped no other call so far

vars == <<account, noList, reflect, op, asked, alone>>

Init == StoreInit /\ asked = {} /\ alone = {}

Clients(t, c) ==
    /\ Invoke(t, c)
    /\ alone' = IF \E u \in Thread \ {t} : Running(u) THEN {} ELSE {t}
    /\ asked' = IF c.name = "UpdateBinding" THEN asked \cup {<<c.addr, c.email>>} ELSE asked
    /\ UNCHANGED tables

Begin(t) ==
    \/ \E a \in Address, e \in Email : Clients(t, UpdateBinding(a, e))
    \/ \E a \in Address, e \in Email : Clients(t, DeleteBinding(a, e))
    \/ \E a \in Address : Clients(t, DeleteAccount(a))
    \/ \E a \in Address, l \in Level : Clients(t, ActiveAccount(a, l))
    \/ \E a \in Address, l \in Level : Clients(t, UpdateAccountLevel(a, l))

Next ==
    \/ \E t \in Thread : Begin(t)
    \/ \E t \in Thread : StoreStep(t) /\ UNCHANGED <<asked, alone>>
    \/ ProcessExit /\ UNCHANGED <<asked, alone>>

Spec == Init /\ [][Next]_vars

-----------------------------------------------------------------------------

(* The variables have their types.                                         *)
TypeOK ==
    /\ StoreTypeOK
    /\ asked \subseteq Address \X Email
    /\ alone \subseteq Thread

(* Nothing is ever listed or mapped that nobody asked to bind, whatever    *)
(* lists and mappings races and failures leave behind.                     *)
Provenance ==
    /\ \A a \in Address : \A e \in account[a].emails : <<a, e>> \in asked
    /\ \A e \in Email : reflect[e] # NoAddress => <<reflect[e], e>> \in asked

(* UpdateBinding, run alone to a success, leaves the pair bound on both    *)
(* sides and takes the e-mail from the account it was mapped to, whatever  *)
(* half bindings and half unbindings it finds.                             *)
AloneBindHeals ==
    \A t \in alone : Returned(t, "UpdateBinding", "ok") =>
        LET c == op[t]
        IN  /\ reflect[c.email] = c.addr
            /\ account[c.addr].found /\ c.email \in account[c.addr].emails
            /\ c.owner \notin {NoAddress, c.addr} => c.email \notin account[c.owner].emails

(* DeleteBinding, run alone to a success, leaves the e-mail unmapped.  It  *)
(* leaves it unlisted only if it was mapped: one that has failed between   *)
(* its DEL and its HSET is not finished by a second attempt.               *)
AloneUnbindClears ==
    \A t \in alone : Returned(t, "DeleteBinding", "ok") =>
        LET c == op[t]
        IN  /\ reflect[c.email] = NoAddress
            /\ c.owner # NoAddress => c.email \notin account[c.addr].emails

(* An account lists an e-mail that resolves to nobody.                     *)
Orphan(a, e) == e \in account[a].emails /\ reflect[e] = NoAddress

(* Of the calls that nothing overlaps, only those that delete a mapping    *)
(* first and the list entry (or nothing) later leave such an entry behind: *)
(* an unbinding, by the owner or by another account, or the deletion of an *)
(* account, and no activation or binding, not even one that fails half     *)
(* way.  Calls that overlap may leave one whatever they are.               *)
OnlyDeletionsOrphan ==
    [][\A a \in Address, e \in Email : Orphan(a, e)' /\ ~Orphan(a, e) =>
          \E t \in Thread :
             Running(t) /\ (t \in alone => op[t].name \in {"DeleteBinding", "DeleteAccount"})]_vars

(* An activation wipes the list of the account and no mapping, so e-mails  *)
(* that were bound go on resolving to it.  Of the other calls that nothing *)
(* overlaps only a binding (between its SET and its HSET) makes an e-mail  *)
(* resolve to an account that does not list it.  Calls that overlap may do *)
(* so whatever they are.                                                   *)
Dangling(e) == reflect[e] # NoAddress /\ e \notin account[reflect[e]].emails

OnlyActivationOrBindDangles ==
    [][\A e \in Email : Dangling(e)' /\ ~Dangling(e) =>
          \E t \in Thread :
             Running(t) /\ (t \in alone => op[t].name \in {"ActiveAccount", "UpdateBinding"})]_vars

(* An account is made by an activation, or again, at level 0 and with an   *)
(* empty list, by a binding that takes an e-mail from an account that is   *)
(* gone (its deletion did not know of the mapping).  No other call that    *)
(* nothing overlaps makes one; of calls that overlap nothing is said.      *)
OnlyActivationCreates ==
    [][\A a \in Address : account'[a].found /\ ~account[a].found =>
          \E t \in Thread : Running(t) /\
             (t \in alone => \/ op[t].name = "ActiveAccount"
                             \/ /\ op[t].name = "UpdateBinding"
                                /\ a = op[t].owner /\ account'[a] = NewDoc(0))]_vars

(* The hash of an account is without its list, which makes DeleteAccount   *)
(* fail, only after a race: no call that nothing overlaps makes one.       *)
OnlyRacesUndeletable ==
    [][noList' \subseteq noList \/ \E t \in Thread \ alone : Running(t)]_vars

=============================================================================
