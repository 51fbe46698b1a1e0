--------------------------- MODULE FirestoreProofs ---------------------------
(***************************************************************************)
(* What the Firestore backend guarantees for any number of goroutines,     *)
(* accounts and e-mails, whatever requests fail and whenever the process   *)
(* ends: the types, and that races, failures and restarts never forge a    *)
(* binding.  Provenance is not inductive as it stands, since a document    *)
(* travels through the memory of a goroutine before it is written back:    *)
(* what a call is about to write has to be asked for as well (Sourced).    *)
(***************************************************************************)
EXTENDS FirestoreClients, FirestoreTyping

USE DEF Running, Returned, At

-----------------------------------------------------------------------------
(* The types.                                                              *)

(* What a client begins.                                                   *)
LEMMA BeginCall ==
    ASSUME NEW t \in Thread, Begin(t)
    PROVE  \E c : /\ Clients(t, c) /\ GoodCall(c) /\ c.pc = "begin"
                  /\ c.name = "UpdateBinding" => <<c.addr, c.email>> \in Address \X Email
<1>1. ASSUME NEW a \in Address, NEW e \in Email
      PROVE  /\ UpdateBinding(a, e).pc = "begin" /\ DeleteBinding(a, e).pc = "begin"
             /\ UpdateBinding(a, e).addr = a /\ UpdateBinding(a, e).email = e
             /\ DeleteBinding(a, e).name = "DeleteBinding"
  BY DEF UpdateBinding, DeleteBinding, Calling, NoCall
<1>2. ASSUME NEW a \in Address
      PROVE  /\ UninstallByUser(a).pc = "begin" /\ DeleteAccount(a).pc = "begin"
             /\ UninstallByUser(a).name = "UninstallByUser"
             /\ DeleteAccount(a).name = "DeleteAccount"
  BY DEF UninstallByUser, DeleteAccount, Calling, NoCall
<1>3. ASSUME NEW a \in Address, NEW l \in Level
      PROVE  /\ ActiveAccount(a, l).pc = "begin" /\ UpdateAccountLevel(a, l).pc = "begin"
             /\ ActiveAccount(a, l).name = "ActiveAccount"
             /\ UpdateAccountLevel(a, l).name = "UpdateAccountLevel"
  BY DEF ActiveAccount, UpdateAccountLevel, Calling, NoCall
<1>4. CASE \E a \in Address, e \in Email : Clients(t, UpdateBinding(a, e))
  BY <1>4, <1>1, BeginGood
<1>5. CASE \E a \in Address, e \in Email : Clients(t, DeleteBinding(a, e))
  BY <1>5, <1>1, BeginGood
<1>6. CASE \E a \in Address : Clients(t, UninstallByUser(a)) \/ Clients(t, DeleteAccount(a))
  BY <1>6, <1>2, BeginGood
<1>7. CASE \E a \in Address, l \in Level :
              Clients(t, ActiveAccount(a, l)) \/ Clients(t, UpdateAccountLevel(a, l))
  BY <1>7, <1>3, BeginGood, LevelAssumption
<1>. QED
  BY <1>4, <1>5, <1>6, <1>7 DEF Begin

(* The inductive invariant: types, and what each call has at its place.    *)
TInv == TypeOK /\ GoodStore

(* The inductive invariant holds at the start.                             *)
LEMMA StartTyped ==
    ASSUME StoreInit, asked \subseteq Address \X Email, alone \subseteq Thread
    PROVE  TInv
<1>1. TablesTyped
  BY DocTyped DEF StoreInit, TablesTyped, NoLink, LinkData
<1>2. op \in [Thread -> Call(Request)] /\ \A t \in Thread : GoodCall(op[t])
  BY NoCallGood DEF StoreInit, GoodCall
<1>. QED
  BY <1>1, <1>2 DEF TInv, TypeOK, GoodStore, StoreTypeOK, TablesTyped

LEMMA InitTyped == Init => TInv
BY StartTyped DEF Init

(* Steps of the clients, the backend and the process keep it.              *)
LEMMA NextTyped == TInv /\ [Next]_vars => TInv'
<1>. SUFFICES ASSUME TInv, [Next]_vars PROVE TInv'
  OBVIOUS
<1>1. GoodStore /\ TypeOK
  BY DEF TInv
<1>2. UNCHANGED tables => TablesTyped'
  BY <1>1 DEF GoodStore, StoreTypeOK, tables, TablesTyped
<1>3. ASSUME NEW t \in Thread, Begin(t) PROVE TInv'
  <2>1. PICK c : /\ Clients(t, c) /\ GoodCall(c) /\ c.pc = "begin"
                 /\ c.name = "UpdateBinding" => <<c.addr, c.email>> \in Address \X Email
    BY <1>3, BeginCall
  <2>2. GoodStore'
    BY <1>1, <1>2, <2>1, OneCall, StoreSplit DEF Clients, Invoke
  <2>3. asked' \subseteq Address \X Email /\ alone' \subseteq Thread
    BY <1>1, <2>1 DEF Clients, TypeOK
  <2>. QED
    BY <2>2, <2>3 DEF TInv, TypeOK, GoodStore
<1>4. ASSUME NEW t \in Thread, StoreStep(t), UNCHANGED <<asked, alone>> PROVE TInv'
  BY <1>1, <1>4, StepGood DEF TInv, TypeOK, GoodStore
<1>5. CASE ProcessExit /\ UNCHANGED <<asked, alone>>
  <2>1. op' \in [Thread -> Call(Request)] /\ \A u \in Thread : GoodCall(op'[u])
    BY <1>5, NoCallGood DEF ProcessExit, GoodCall
  <2>2. GoodStore'
    BY <1>2, <1>5, <2>1, StoreSplit DEF ProcessExit
  <2>. QED
    BY <1>1, <1>5, <2>2 DEF TInv, TypeOK, GoodStore
<1>6. CASE UNCHANGED vars
  BY <1>1, <1>6 DEF vars, TInv, TypeOK, GoodStore, StoreTypeOK, GoodCall
<1>. QED
  BY <1>3, <1>4, <1>5, <1>6 DEF Next

(* The collections and the calls keep their types.                         *)
THEOREM TypeCorrect == Spec => []TypeOK
<1>1. Init => TInv
  BY InitTyped
<1>2. TInv /\ [Next]_vars => TInv'
  BY NextTyped
<1>3. TInv => TypeOK
  BY DEF TInv
<1>. QED
  BY <1>1, <1>2, <1>3, PTL DEF Spec

-----------------------------------------------------------------------------
(* Provenance.                                                             *)

(* Account a may list what doc lists.                                      *)
Allowed(a, doc) == \A e \in doc.emails : <<a, e>> \in asked

Sourced(c) ==
    /\ c.name = "UpdateBinding" /\ c.pc \notin {"idle", "done"} => <<c.addr, c.email>> \in asked
    /\ c.pc = "setAccount" => Allowed(c.addr, c.doc)
    /\ c.pc = "setOld" => Allowed(c.owner, c.doc)

AllSourced == \A t \in Thread : Sourced(op[t])

PInv == TInv /\ Provenance /\ AllSourced

(* What the type invariant says of a call that is running.                 *)
LEMMA RunningCall ==
    ASSUME TInv, NEW t \in Thread, op[t].pc \notin {"idle", "done"}
    PROVE  /\ op[t].name \in Mutator => op[t].addr \in Address /\ account[op[t].addr] \in Doc
           /\ op[t].pc \in {"getOld", "setOld"} => op[t].owner \in Address
           /\ op[t].pc \in {"getReflect", "setReflect", "getOld", "setOld"} =>
                 op[t].name = "UpdateBinding"
           /\ op[t].name = "UpdateBinding" => op[t].email \in Email
           /\ op[t].pc \in {"setAccount", "delReflect", "delAccount"} => op[t].name \in Mutator
<1>1. GoodCall(op[t]) /\ account \in [Address -> Doc]
  BY DEF TInv, GoodStore, StoreTypeOK
<1>. QED
  BY <1>1 DEF GoodCall, TakesAddress, TakesEmail

(* A write puts only into the collections what was asked for.              *)
LEMMA WriteSourced ==
    ASSUME PInv, NEW t \in Thread, Running(t), WriteRequest(t), UNCHANGED asked
    PROVE  Provenance'
<1>1. /\ account \in [Address -> Doc]
      /\ reflect \in [Email -> Address \cup {NoAddress}]
  BY DEF PInv, TInv, GoodStore, StoreTypeOK
<1>2. Sourced(op[t]) /\ Provenance
  BY DEF PInv, AllSourced
<1>3. ASSUME NEW a \in Address, NEW doc, Allowed(a, doc), SetAccount(a, doc) PROVE Provenance'
  BY <1>1, <1>2, <1>3 DEF SetAccount, Provenance, Allowed
<1>4. ASSUME NEW e, SetReflect(e, NoAddress) PROVE Provenance'
  BY <1>1, <1>2, <1>4 DEF SetReflect, Provenance
<1>5. CASE op[t].pc = "setAccount" /\ SetAccount(op[t].addr, op[t].doc)
  BY <1>2, <1>3, <1>5, RunningCall DEF PInv, Sourced
<1>6. CASE op[t].pc = "setOld" /\ SetAccount(op[t].owner, op[t].doc)
  BY <1>2, <1>3, <1>6, RunningCall DEF PInv, Sourced
<1>7. CASE op[t].pc = "delAccount" /\ SetAccount(op[t].addr, NoDoc)
  BY <1>3, <1>7, RunningCall DEF PInv, Allowed, NoDoc
<1>8. CASE op[t].pc = "setReflect" /\ SetReflect(op[t].email, op[t].addr)
  <2>1. <<op[t].addr, op[t].email>> \in asked
    BY <1>2, <1>8, RunningCall DEF PInv, Sourced
  <2>. QED
    BY <1>1, <1>2, <1>8, <2>1 DEF SetReflect, Provenance
<1>9. CASE \E e \in op[t].todo : SetReflect(e, NoAddress)
  BY <1>4, <1>9
<1>10. ASSUME NEW data, SetLink(op[t].token, data) PROVE Provenance'
  BY <1>2, <1>10 DEF SetLink, Provenance
<1>. QED
  BY <1>5, <1>6, <1>7, <1>8, <1>9, <1>10 DEF WriteRequest

(* A step puts one sourced record into op.                                 *)
LEMMA OneSourced ==
    ASSUME PInv, NEW t \in Thread, NEW c, op' = [op EXCEPT ![t] = c], Sourced(c), UNCHANGED asked
    PROVE  AllSourced'
<1>1. op \in [Thread -> Call(Request)] /\ \A u \in Thread : Sourced(op[u])
  BY DEF PInv, TInv, GoodStore, StoreTypeOK, AllSourced
<1>2. ASSUME NEW u \in Thread PROVE Sourced(op'[u])
  BY <1>1
<1>3. \A u \in Thread : Sourced(op[u])'
  BY <1>2 DEF Sourced, Allowed
<1>. QED
  BY <1>3 DEF AllSourced

(* A call that has returned is about to write nothing.                     *)
LEMMA ReturnSourced ==
    ASSUME PInv, NEW t \in Thread, NEW res, Return(t, res), UNCHANGED asked
    PROVE  AllSourced'
<1>1. op[t] \in Call(Request) /\ op \in [Thread -> Call(Request)]
  BY DEF PInv, TInv, GoodStore, StoreTypeOK
<1>2. op' = [op EXCEPT ![t] = Ended(op[t], res)]
  BY <1>1 DEF Return, Ended
<1>3. Sourced(Ended(op[t], res))
  BY <1>1 DEF Sourced, Ended, Call
<1>. QED
  BY <1>2, <1>3, OneSourced

(* A call that goes on with a document it may write.                       *)
LEMMA StoreSourced ==
    ASSUME PInv, NEW t \in Thread, Running(t), NEW place, NEW doc, Store(t, place, doc),
           place = "setAccount" => Allowed(op[t].addr, doc),
           place = "setOld" => Allowed(op[t].owner, doc),
           UNCHANGED asked
    PROVE  AllSourced'
<1>1. op[t] \in Call(Request) /\ op \in [Thread -> Call(Request)] /\ Sourced(op[t])
  BY DEF PInv, TInv, GoodStore, StoreTypeOK, AllSourced
<1>2. op' = [op EXCEPT ![t] = Stored(op[t], place, doc)]
  BY <1>1 DEF Store, Stored
<1>3. Sourced(Stored(op[t], place, doc))
  BY <1>1 DEF Sourced, Stored, Call
<1>. QED
  BY <1>2, <1>3, OneSourced

(* The loop over the mappings writes no account.                           *)
LEMMA DeleteReflectsSourced ==
    ASSUME PInv, NEW t \in Thread, Running(t), NEW rest, DeleteReflects(t, rest), UNCHANGED asked
    PROVE  AllSourced'
<1>1. op[t] \in Call(Request) /\ op \in [Thread -> Call(Request)] /\ Sourced(op[t])
  BY DEF PInv, TInv, GoodStore, StoreTypeOK, AllSourced
<1>2. ASSUME NEW place \in {"delReflect", "delAccount"},
             op' = [op EXCEPT ![t].pc = place, ![t].todo = rest]
      PROVE  AllSourced'
  <2>. DEFINE c == [op[t] EXCEPT !.pc = place, !.todo = rest]
  <2>1. op' = [op EXCEPT ![t] = c]
    BY <1>1, <1>2
  <2>2. Sourced(c)
    BY <1>1 DEF Sourced, Call
  <2>. QED
    BY <2>1, <2>2, OneSourced
<1>. QED
  BY <1>2, ReturnSourced DEF DeleteReflects

(* A step of a method.                                                     *)
LEMMA StepSourced ==
    ASSUME PInv, NEW t \in Thread, StoreStep(t), UNCHANGED asked
    PROVE  Provenance' /\ AllSourced'
<1>1. op[t] \in Call(Request) /\ op \in [Thread -> Call(Request)] /\ Sourced(op[t])
  BY DEF PInv, TInv, GoodStore, StoreTypeOK, AllSourced
<1>2. UNCHANGED tables => Provenance'
  BY DEF PInv, Provenance, tables
<1>3. \A a \in Address : Allowed(a, account[a])
  BY DEF PInv, Provenance, Allowed
<1>4. TInv
  BY DEF PInv
<1>5. CASE Querying(t)
  <2>1. /\ op'[t].name # "UpdateBinding" /\ op'[t].pc \in {"begin", "setLink", "done"}
        /\ UNCHANGED <<account, reflect>>
    BY <1>4, <1>5, QueryingFields DEF TInv, Mutator
  <2>2. \A u \in Thread \ {t} : op'[u] = op[u]
    BY <1>4, <1>5, StepOfOne DEF TInv, StoreStep, Querying
  <2>3. Sourced(op[t])'
    BY <2>1 DEF Sourced
  <2>4. ASSUME NEW u \in Thread \ {t} PROVE Sourced(op[u])'
    BY <2>2 DEF PInv, AllSourced, Sourced, Allowed
  <2>. QED
    BY <2>1, <2>3, <2>4 DEF PInv, Provenance, AllSourced
<1>6. CASE ActiveAccountGet(t)
  <2>1. Allowed(op[t].addr, NewDoc(op[t].level))
    BY DEF Allowed, NewDoc
  <2>. QED
    BY <1>2, <1>6, <2>1, ReturnSourced, StoreSourced DEF ActiveAccountGet
<1>7. CASE UpdateAccountLevelGet(t)
  <2>. DEFINE doc == account[op[t].addr]
  <2>1. doc \in Doc /\ Allowed(op[t].addr, doc)
    BY <1>3, <1>4, <1>7, RunningCall DEF UpdateAccountLevelGet, Mutator
  <2>2. Allowed(op[t].addr, [doc EXCEPT !.level = op[t].level])
    BY <2>1 DEF Allowed, Doc
  <2>. QED
    BY <1>2, <1>7, <2>2, ReturnSourced, StoreSourced DEF UpdateAccountLevelGet
<1>8. CASE UpdateBindingGet(t)
  <2>. DEFINE doc == account[op[t].addr]
  <2>1. doc \in Doc /\ Allowed(op[t].addr, doc)
    BY <1>3, <1>4, <1>8, RunningCall DEF UpdateBindingGet, Mutator
  <2>2. <<op[t].addr, op[t].email>> \in asked
    BY <1>1, <1>8 DEF UpdateBindingGet, Sourced
  <2>3. Allowed(op[t].addr, [doc EXCEPT !.emails = @ \cup {op[t].email}])
    BY <2>1, <2>2 DEF Allowed, Doc
  <2>. QED
    BY <1>2, <1>8, <2>3, ReturnSourced, StoreSourced DEF UpdateBindingGet
<1>9. CASE UpdateBindingGetReflect(t)
  <2>. DEFINE owner == reflect[op[t].email]
  <2>1. ASSUME NEW c \in {[op[t] EXCEPT !.pc = "done", !.res = "ok", !.owner = owner],
                          [op[t] EXCEPT !.pc = "setReflect", !.owner = owner]}
        PROVE  Sourced(c)
    BY <1>1, <1>9, ZenonT(60) DEF UpdateBindingGetReflect, Sourced, Call
  <2>2. \/ op' = [op EXCEPT ![t] = [op[t] EXCEPT !.pc = "done", !.res = "ok", !.owner = owner]]
        \/ op' = [op EXCEPT ![t] = [op[t] EXCEPT !.pc = "setReflect", !.owner = owner]]
    BY <1>1, <1>9 DEF UpdateBindingGetReflect
  <2>3. AllSourced'
    BY <2>1, <2>2, OneSourced
  <2>. QED
    BY <1>2, <1>9, <2>3 DEF UpdateBindingGetReflect
<1>10. CASE UpdateBindingSetReflect(t)
  BY <1>10, WriteSourced, ReturnSourced, StoreSourced DEF UpdateBindingSetReflect
<1>11. CASE UpdateBindingGetOld(t)
  <2>. DEFINE doc == account[op[t].owner]
  <2>1. op[t].owner \in Address /\ account \in [Address -> Doc]
    BY <1>4, <1>11, RunningCall DEF UpdateBindingGetOld, TInv, GoodStore, StoreTypeOK
  <2>2. doc \in Doc /\ Allowed(op[t].owner, doc)
    BY <1>3, <2>1
  <2>3. Allowed(op[t].owner, [doc EXCEPT !.emails = @ \ {op[t].email}])
    BY <2>2 DEF Allowed, Doc
  <2>. QED
    BY <1>2, <1>11, <2>3, ReturnSourced, StoreSourced DEF UpdateBindingGetOld
<1>12. CASE UpdateBindingSetOld(t) \/ DeleteAccountDelete(t)
  BY <1>12, WriteSourced, ReturnSourced DEF UpdateBindingSetOld, DeleteAccountDelete
<1>13. CASE DeleteBindingGet(t)
  <2>. DEFINE doc == account[op[t].addr]
              c == [op[t] EXCEPT !.pc = "setAccount",
                                 !.doc = [doc EXCEPT !.emails = @ \ {op[t].email}],
                                 !.todo = {op[t].email}]
  <2>1. doc \in Doc /\ Allowed(op[t].addr, doc)
    BY <1>3, <1>4, <1>13, RunningCall DEF DeleteBindingGet, Mutator
  <2>2. Allowed(op[t].addr, [doc EXCEPT !.emails = @ \ {op[t].email}])
    BY <2>1 DEF Allowed, Doc
  <2>3. Sourced(c)
    BY <1>1, <1>13, <2>2 DEF DeleteBindingGet, Sourced, Call
  <2>4. Return(t, "ok") \/ op' = [op EXCEPT ![t] = c]
    BY <1>1, <1>13 DEF DeleteBindingGet
  <2>. QED
    BY <1>2, <1>13, <2>3, <2>4, ReturnSourced, OneSourced DEF DeleteBindingGet
<1>14. CASE UninstallByUserGet(t)
  <2>. DEFINE doc == account[op[t].addr]
              c == [op[t] EXCEPT !.pc = "setAccount",
                                 !.doc = [doc EXCEPT !.emails = {}],
                                 !.todo = doc.emails]
  <2>1. doc \in Doc
    BY <1>4, <1>14, RunningCall DEF UninstallByUserGet, Mutator
  <2>2. Allowed(op[t].addr, [doc EXCEPT !.emails = {}])
    BY <2>1 DEF Allowed, Doc
  <2>3. Sourced(c)
    BY <1>1, <1>14, <2>2 DEF UninstallByUserGet, Sourced, Call
  <2>4. Return(t, "ok") \/ op' = [op EXCEPT ![t] = c]
    BY <1>1, <1>14 DEF UninstallByUserGet
  <2>. QED
    BY <1>2, <1>14, <2>3, <2>4, ReturnSourced, OneSourced DEF UninstallByUserGet
<1>15. CASE DeleteAccountGet(t)
  BY <1>2, <1>15, ReturnSourced, DeleteReflectsSourced DEF DeleteAccountGet
<1>16. CASE SaveAccount(t)
  BY <1>16, WriteSourced, ReturnSourced, StoreSourced, DeleteReflectsSourced DEF SaveAccount
<1>17. CASE DeleteEmailReflect(t)
  BY <1>17, WriteSourced, DeleteReflectsSourced DEF DeleteEmailReflect, WriteRequest
<1>18. CASE RequestFails(t)
  BY <1>2, <1>18, WriteSourced, ReturnSourced DEF RequestFails
<1>. QED
  BY <1>5, <1>6, <1>7, <1>8, <1>9, <1>10, <1>11, <1>12, <1>13, <1>14, <1>15, <1>16, <1>17,
     <1>18 DEF StoreStep, Querying

(* A client that calls UpdateBinding asks for the pair.                    *)
LEMMA BeginSourced ==
    ASSUME PInv, NEW t \in Thread, Begin(t)
    PROVE  Provenance' /\ AllSourced'
<1>1. PICK c : Clients(t, c) /\ c.pc = "begin"
  BY BeginCall
<1>2. asked \subseteq asked' /\ UNCHANGED tables /\ op' = [op EXCEPT ![t] = c]
  BY <1>1 DEF Clients, Invoke
<1>3. Provenance'
  BY <1>2 DEF PInv, Provenance, tables
<1>4. op \in [Thread -> Call(Request)] /\ \A u \in Thread : Sourced(op[u])
  BY DEF PInv, TInv, GoodStore, StoreTypeOK, AllSourced
<1>5. ASSUME NEW u \in Thread, u # t PROVE Sourced(op[u])'
  BY <1>2, <1>4, <1>5 DEF Sourced, Allowed
<1>6. Sourced(op[t])'
  <2>1. op'[t] = c
    BY <1>2, <1>4
  <2>. QED
    BY <1>1, <2>1 DEF Sourced, Clients
<1>. QED
  BY <1>3, <1>5, <1>6 DEF AllSourced

(* Nothing is ever listed or mapped that nobody asked to bind.             *)
THEOREM NothingForged == Spec => []Provenance
<1>1. Init => PInv
  <2>. SUFFICES ASSUME Init PROVE PInv
    OBVIOUS
  <2>1. Provenance
    BY DEF Init, StoreInit, NoDoc, Provenance
  <2>2. AllSourced
    BY DEF Init, StoreInit, NoCall, AllSourced, Sourced
  <2>. QED
    BY <2>1, <2>2, InitTyped DEF PInv
<1>2. PInv /\ [Next]_vars => PInv'
  <2>. SUFFICES ASSUME PInv, [Next]_vars PROVE PInv'
    OBVIOUS
  <2>1. TInv'
    BY NextTyped DEF PInv
  <2>2. CASE \E t \in Thread : Begin(t)
    BY <2>1, <2>2, BeginSourced DEF PInv
  <2>3. CASE \E t \in Thread : StoreStep(t) /\ UNCHANGED <<asked, alone>>
    BY <2>1, <2>3, StepSourced DEF PInv
  <2>4. CASE ProcessExit /\ UNCHANGED <<asked, alone>>
    <3>1. AllSourced'
      BY <2>4 DEF ProcessExit, NoCall, AllSourced, Sourced
    <3>2. Provenance'
      BY <2>4 DEF ProcessExit, tables, PInv, Provenance
    <3>. QED
      BY <2>1, <3>1, <3>2 DEF PInv
  <2>5. CASE UNCHANGED vars
    BY <2>1, <2>5 DEF PInv, vars, Provenance, AllSourced, Sourced, Allowed
  <2>. QED
    BY <2>2, <2>3, <2>4, <2>5 DEF Next
<1>3. PInv => Provenance
  BY DEF PInv
<1>. QED
  BY <1>1, <1>2, <1>3, PTL DEF Spec

-----------------------------------------------------------------------------
(***************************************************************************)
(* What a call does when no other call overlaps it, whatever earlier races *)
(* and failures have left in the collections.  The four properties follow  *)
(* from one invariant, which says at each place of such a call what its    *)
(* locals and the collections have in common (Knows): nobody else writes   *)
(* between its Get and its Set.                                            *)
(***************************************************************************)

(* An account that is not there lists nothing, and no Set makes an account *)
(* that is not there.                                                      *)
FoundOnly ==
    /\ \A a \in Address : account[a].found \/ account[a].emails = {}
    /\ \A t \in Thread : op[t].pc \in {"setAccount", "setOld"} => op[t].doc.found

(* While a call runs that nothing has overlapped, no other call runs.      *)
OnlyOne == \A t \in alone : \A u \in Thread \ {t} : ~Running(u)

Healed(c) ==
    /\ reflect[c.email] = c.addr
    /\ account[c.addr].found /\ c.email \in account[c.addr].emails
    /\ c.owner \notin {NoAddress, c.addr} => c.email \notin account[c.owner].emails
Cleared(c) ==
    /\ c.email \notin account[c.addr].emails
    /\ account[c.addr].found => reflect[c.email] = NoAddress

KnowsSetAccount(c) ==
    LET emails == account[c.addr].emails
    IN  /\ c.name # "DeleteAccount"
        /\ account[c.addr].found <=> c.name # "ActiveAccount"
        /\ c.name = "UpdateAccountLevel" => c.doc.emails = emails
        /\ c.name = "UpdateBinding" =>
              c.doc.emails = emails \cup {c.email} /\ c.doc.level = account[c.addr].level
        /\ c.name = "DeleteBinding" => c.todo = {c.email} /\ c.doc.emails = emails \ {c.email}
        /\ c.name \in {"ActiveAccount", "UninstallByUser"} => c.doc.emails = {}

KnowsBind(c) ==
    /\ account[c.addr].found /\ c.email \in account[c.addr].emails
    /\ c.pc # "getReflect" => c.owner # c.addr
    /\ c.pc \in {"getOld", "setOld"} => reflect[c.email] = c.addr /\ c.owner # NoAddress
    /\ c.pc = "setOld" =>
          account[c.owner].found /\ c.doc.emails = account[c.owner].emails \ {c.email}

KnowsDelete(c) ==
    /\ c.name \in {"DeleteBinding", "UninstallByUser", "DeleteAccount"}
    /\ c.name = "DeleteBinding" => c.todo = {c.email} /\ c.email \notin account[c.addr].emails
    /\ c.name = "UninstallByUser" => account[c.addr].emails = {}
    /\ c.name = "DeleteAccount" => \A e \in account[c.addr].emails \ c.todo : reflect[e] = NoAddress
    /\ c.pc = "delAccount" => c.name = "DeleteAccount" /\ c.todo = {}

KnowsQuery(c) ==
    /\ c.name = "QueryAccount" => c.doc = account[c.addr]
    /\ c.name = "QueryReflectByOneEmail" => c.owner = reflect[c.email]
    /\ c.name = "GetActiveLink" => c.addr = link[c.token].addr /\ c.email = link[c.token].email

Knows(c) ==
    /\ c.pc = "setAccount" => KnowsSetAccount(c)
    /\ c.pc \in {"getReflect", "setReflect", "getOld", "setOld"} => KnowsBind(c)
    /\ c.pc \in {"delReflect", "delAccount"} => KnowsDelete(c)
    /\ c.pc = "done" /\ c.res = "ok" /\ c.name = "UpdateBinding" => Healed(c)
    /\ c.pc = "done" /\ c.res = "ok" /\ c.name = "DeleteBinding" => Cleared(c)
    /\ c.pc = "done" /\ c.res = "ok" /\ c.name = "UninstallByUser" => account[c.addr].emails = {}
    /\ c.pc = "done" /\ c.res = "ok" => KnowsQuery(c)

AInv == TInv /\ FoundOnly /\ OnlyOne /\ \A t \in alone : Knows(op[t])

USE DEF Running, Returned, At

-----------------------------------------------------------------------------

(* What the type invariant says of the call of one goroutine.              *)
LEMMA CallTyped ==
    ASSUME TInv, NEW t \in Thread
    PROVE  /\ GoodStore
           /\ op \in [Thread -> Call(Request)] /\ op[t] \in Call(Request) /\ GoodCall(op[t])
           /\ account \in [Address -> Doc]
           /\ reflect \in [Email -> Address \cup {NoAddress}]
           /\ alone \subseteq Thread
BY DEF TInv, TypeOK, GoodStore, StoreTypeOK

(* The step of a call that is alone carries over what it knows.            *)
LEMMA StepKnows ==
    ASSUME AInv, NEW t \in Thread, t \in alone, StoreStep(t)
    PROVE  Knows(op[t])'
<1>. DEFINE c == op[t]
            d == op'[t]
            cur == account[c.addr]
<1>1. /\ op \in [Thread -> Call(Request)] /\ c \in Call(Request) /\ GoodCall(c)
      /\ account \in [Address -> Doc]
      /\ reflect \in [Email -> Address \cup {NoAddress}]
  BY CallTyped DEF AInv
<1>2. Knows(c) /\ FoundOnly /\ GoodStore /\ (d.name \in Mutator => KnowsQuery(op[t])')
  BY DEF AInv, TInv, KnowsQuery, Mutator
<1>3. CASE RequestFails(t)
  BY <1>2, <1>3, ReturnFields DEF RequestFails, Knows
<1>4. CASE ActiveAccountGet(t)
  <2>1. CASE Return(t, "ok")
    BY <1>2, <1>4, <2>1, ReturnFields DEF ActiveAccountGet, SameArguments, Knows, Mutator
  <2>2. CASE ~cur.found /\ Store(t, "setAccount", NewDoc(c.level))
    <3>1. NewDoc(c.level).emails = {}
      BY DEF NewDoc
    <3>. QED
      BY <1>2, <1>4, <2>2, <3>1, StoreFields DEF ActiveAccountGet, SameArguments, Knows,
         KnowsSetAccount, tables
  <2>. QED
    BY <1>4, <2>1, <2>2 DEF ActiveAccountGet
<1>5. CASE UpdateAccountLevelGet(t)
  <2>1. CASE Return(t, "err")
    BY <1>2, <2>1, ReturnFields DEF Knows
  <2>2. CASE cur.found /\ Store(t, "setAccount", [cur EXCEPT !.level = c.level])
    <3>1. [cur EXCEPT !.level = c.level].emails = cur.emails
      BY <1>1, <1>5 DEF UpdateAccountLevelGet, GoodCall, Doc
    <3>2. d.pc = "setAccount" /\ d.doc.emails = cur.emails /\ SameArguments(c, d)
      BY <1>2, <2>2, <3>1, StoreFields
    <3>. QED
      BY <1>5, <2>2, <3>2 DEF UpdateAccountLevelGet, SameArguments, Knows, KnowsSetAccount,
         tables
  <2>. QED
    BY <1>5, <2>1, <2>2 DEF UpdateAccountLevelGet
<1>6. CASE UpdateBindingGet(t)
  <2>. DEFINE new == [cur EXCEPT !.emails = @ \cup {c.email}]
  <2>1. /\ new.emails = cur.emails \cup {c.email} /\ new.level = cur.level
        /\ c.name = "UpdateBinding" /\ UNCHANGED tables
        /\ Return(t, "err") \/ (cur.found /\ Store(t, "setAccount", new))
    BY <1>1, <1>6 DEF UpdateBindingGet, GoodCall, Doc
  <2>. HIDE DEF new
  <2>2. CASE Return(t, "err")
    BY <1>2, <2>2, ReturnFields DEF Knows
  <2>3. CASE cur.found /\ Store(t, "setAccount", new)
    BY <1>2, <2>1, <2>3, StoreFields DEF SameArguments, Knows, KnowsSetAccount, tables
  <2>. QED
    BY <2>1, <2>2, <2>3
<1>7. CASE UpdateBindingGetReflect(t)
  <2>. DEFINE owner == reflect[c.email]
  <2>1. SameArguments(c, d) /\ UNCHANGED tables /\ KnowsBind(c) /\ c.name = "UpdateBinding"
    BY <1>1, <1>2, <1>7 DEF UpdateBindingGetReflect, Knows, SameArguments, Call
  <2>2. CASE owner = c.addr
    <3>1. d.pc = "done" /\ d.owner = c.addr
      BY <1>1, <1>7, <2>2 DEF UpdateBindingGetReflect, Call
    <3>. QED
      BY <1>2, <2>1, <2>2, <3>1 DEF SameArguments, Knows, KnowsBind, Healed, tables, Mutator
  <2>3. CASE owner # c.addr
    <3>1. d.pc = "setReflect" /\ d.owner = owner
      BY <1>1, <1>7, <2>3 DEF UpdateBindingGetReflect, Call
    <3>. QED
      BY <2>1, <2>3, <3>1 DEF SameArguments, Knows, KnowsBind, tables
  <2>. QED
    BY <2>2, <2>3
<1>8. CASE UpdateBindingSetReflect(t)
  <2>1. /\ account' = account /\ reflect' = [reflect EXCEPT ![c.email] = c.addr]
        /\ KnowsBind(c) /\ c.name = "UpdateBinding" /\ c.pc = "setReflect"
    BY <1>2, <1>8 DEF UpdateBindingSetReflect, WriteRequest, SetReflect, Knows
  <2>2. reflect'[c.email] = c.addr
    BY <1>1, <2>1 DEF GoodCall, TakesAddress, TakesEmail, Mutator
  <2>3. CASE c.owner = NoAddress /\ Return(t, "ok")
    <3>1. d.pc = "done" /\ d.owner = NoAddress /\ SameArguments(c, d)
      BY <1>2, <2>3, ReturnFields
    <3>. QED
      BY <1>2, <2>1, <2>2, <3>1 DEF SameArguments, Knows, KnowsBind, Healed, Mutator
  <2>4. CASE c.owner # NoAddress /\ Store(t, "getOld", NoDoc)
    <3>1. d.pc = "getOld" /\ d.owner = c.owner /\ SameArguments(c, d)
      BY <1>2, <2>4, StoreFields
    <3>. QED
      BY <2>1, <2>2, <2>4, <3>1 DEF SameArguments, Knows, KnowsBind
  <2>. QED
    BY <1>8, <2>3, <2>4 DEF UpdateBindingSetReflect
<1>9. CASE UpdateBindingGetOld(t)
  <2>. DEFINE had == account[c.owner]
              new == [had EXCEPT !.emails = @ \ {c.email}]
  <2>1. UNCHANGED tables /\ KnowsBind(c) /\ c.pc = "getOld"
    BY <1>2, <1>9 DEF UpdateBindingGetOld, Knows
  <2>2. /\ new.emails = had.emails \ {c.email}
        /\ Return(t, "err") \/ (had.found /\ Store(t, "setOld", new))
    BY <1>1, <1>9 DEF UpdateBindingGetOld, GoodCall, Doc
  <2>. HIDE DEF new
  <2>3. CASE Return(t, "err")
    BY <1>2, <2>3, ReturnFields DEF Knows
  <2>4. CASE had.found /\ Store(t, "setOld", new)
    BY <1>2, <2>1, <2>2, <2>4, StoreFields DEF SameArguments, Knows, KnowsBind, tables
  <2>. QED
    BY <2>2, <2>3, <2>4
<1>10. CASE UpdateBindingSetOld(t)
  <2>1. /\ account' = [account EXCEPT ![c.owner] = c.doc] /\ reflect' = reflect
        /\ KnowsBind(c) /\ c.pc = "setOld" /\ c.owner \in Address
    BY <1>1, <1>2, <1>10 DEF UpdateBindingSetOld, WriteRequest, SetAccount, Knows, GoodCall
  <2>2. account'[c.owner] = c.doc /\ account'[c.addr] = cur
    BY <1>1, <2>1 DEF KnowsBind, GoodCall
  <2>3. d.pc = "done" /\ d.owner = c.owner /\ SameArguments(c, d)
    BY <1>2, <1>10, ReturnFields DEF UpdateBindingSetOld
  <2>. QED
    BY <1>2, <1>10, <2>1, <2>2, <2>3
    DEF UpdateBindingSetOld, SameArguments, Knows, KnowsBind, Healed, Mutator
<1>11. CASE DeleteBindingGet(t)
  <2>. DEFINE new == [cur EXCEPT !.emails = @ \ {c.email}]
  <2>1. cur.found \/ cur.emails = {}
    BY <1>1, <1>2, <1>11 DEF DeleteBindingGet, GoodCall, TakesAddress, TakesEmail, FoundOnly,
       Mutator
  <2>2. CASE ~cur.found /\ Return(t, "ok")
    BY <1>2, <1>11, <2>1, <2>2, ReturnFields
    DEF DeleteBindingGet, SameArguments, Knows, Cleared, tables, Mutator
  <2>3. CASE /\ cur.found
             /\ op' = [op EXCEPT ![t].pc = "setAccount", ![t].doc = new, ![t].todo = {c.email}]
    <3>1. new.emails = cur.emails \ {c.email}
      BY <1>1, <1>11 DEF DeleteBindingGet, GoodCall, Doc
    <3>. HIDE DEF new
    <3>2. d.pc = "setAccount" /\ d.doc = new /\ d.todo = {c.email} /\ SameArguments(c, d)
      BY <1>1, <2>3 DEF SameArguments, Call
    <3>. QED
      BY <1>11, <2>3, <3>1, <3>2 DEF DeleteBindingGet, SameArguments, Knows, KnowsSetAccount,
         tables
  <2>. QED
    BY <1>11, <2>2, <2>3 DEF DeleteBindingGet
<1>12. CASE UninstallByUserGet(t)
  <2>. DEFINE new == [cur EXCEPT !.emails = {}]
  <2>1. CASE ~cur.found /\ Return(t, "ok")
    <3>1. cur.emails = {}
      BY <1>1, <1>2, <1>12, <2>1 DEF UninstallByUserGet, GoodCall, TakesAddress, FoundOnly,
         Mutator
    <3>. QED
      BY <1>2, <1>12, <2>1, <3>1, ReturnFields
      DEF UninstallByUserGet, SameArguments, Knows, tables, Mutator
  <2>2. CASE /\ cur.found
             /\ op' = [op EXCEPT ![t].pc = "setAccount", ![t].doc = new, ![t].todo = cur.emails]
    <3>1. new.emails = {}
      BY <1>1, <1>12 DEF UninstallByUserGet, GoodCall, Doc
    <3>. HIDE DEF new
    <3>2. d.pc = "setAccount" /\ d.doc = new /\ SameArguments(c, d)
      BY <1>1, <2>2 DEF SameArguments, Call
    <3>. QED
      BY <1>12, <2>2, <3>1, <3>2 DEF UninstallByUserGet, SameArguments, Knows,
         KnowsSetAccount, tables
  <2>. QED
    BY <1>12, <2>1, <2>2 DEF UninstallByUserGet
<1>13. CASE DeleteAccountGet(t)
  <2>1. CASE Return(t, "ok")
    BY <1>2, <1>13, <2>1, ReturnFields DEF DeleteAccountGet, SameArguments, Knows, Mutator
  <2>2. CASE DeleteReflects(t, cur.emails)
    BY <1>2, <1>13, <2>2, DeleteReflectsFields
    DEF DeleteAccountGet, SameArguments, Knows, KnowsDelete, tables
  <2>. QED
    BY <1>13, <2>1, <2>2 DEF DeleteAccountGet
<1>14. CASE DeleteAccountDelete(t)
  BY <1>2, <1>14, ReturnFields DEF DeleteAccountDelete, SameArguments, Knows, Mutator
<1>15. CASE SaveAccount(t)
  <2>1. /\ KnowsSetAccount(c) /\ c.doc.found /\ c.addr \in Address
        /\ account' = [account EXCEPT ![c.addr] = c.doc] /\ reflect' = reflect
    BY <1>1, <1>2, <1>15
    DEF SaveAccount, WriteRequest, SetAccount, Knows, FoundOnly, GoodCall, TakesAddress,
        TakesEmail, Mutator
  <2>2. account'[c.addr] = c.doc
    BY <1>1, <2>1
  <2>3. CASE c.name \in {"ActiveAccount", "UpdateAccountLevel"} /\ Return(t, "ok")
    BY <1>2, <2>3, ReturnFields DEF SameArguments, Knows, Mutator
  <2>4. CASE c.name = "UpdateBinding" /\ Store(t, "getReflect", NoDoc)
    BY <1>2, <2>1, <2>2, <2>4, StoreFields
    DEF SameArguments, Knows, KnowsSetAccount, KnowsBind
  <2>5. CASE c.name \in {"DeleteBinding", "UninstallByUser"} /\ DeleteReflects(t, c.todo)
    <3>1. /\ d.name = c.name /\ d.addr = c.addr /\ d.email = c.email /\ account'[c.addr] = c.doc
          /\ c.name = "DeleteBinding" =>
                c.todo = {c.email} /\ c.email \notin account'[c.addr].emails
          /\ c.name = "UninstallByUser" => account'[c.addr].emails = {}
      BY <1>2, <2>1, <2>2, <2>5, DeleteReflectsFields DEF SameArguments, KnowsSetAccount
    <3>2. CASE c.todo # {}
      <4>1. d.pc = "delReflect" /\ d.todo = c.todo
        BY <1>2, <2>5, <3>2, DeleteReflectsFields
      <4>. QED
        BY <2>5, <3>1, <4>1 DEF Knows, KnowsDelete
    <3>3. CASE c.todo = {}
      <4>1. d.pc = "done" /\ c.name = "UninstallByUser"
        BY <1>2, <2>5, <3>1, <3>3, DeleteReflectsFields
      <4>. QED
        BY <1>2, <3>1, <4>1 DEF Knows, Mutator
    <3>. QED
      BY <3>2, <3>3
  <2>. QED
    BY <1>15, <2>3, <2>4, <2>5 DEF SaveAccount
<1>16. CASE DeleteEmailReflect(t)
  <2>1. PICK e \in c.todo : SetReflect(e, NoAddress) /\ DeleteReflects(t, c.todo \ {e})
    BY <1>16 DEF DeleteEmailReflect
  <2>2. /\ KnowsDelete(c) /\ c.addr \in Address /\ e \in Email
        /\ account' = account /\ reflect' = [reflect EXCEPT ![e] = NoAddress]
        /\ cur.emails \subseteq Email
    BY <1>1, <1>2, <1>16, <2>1 DEF DeleteEmailReflect, Knows, SetReflect, GoodCall,
       TakesAddress, TakesEmail, Call, Doc, Mutator
  <2>3. /\ reflect'[e] = NoAddress
        /\ \A x \in Email : reflect[x] = NoAddress => reflect'[x] = NoAddress
    BY <1>1, <2>2
  <2>4. c.name = "DeleteBinding" => e = c.email /\ c.todo \ {e} = {}
    BY <2>2 DEF KnowsDelete
  <2>5. c.name = "DeleteAccount" =>
           \A x \in cur.emails \ (c.todo \ {e}) : reflect'[x] = NoAddress
    BY <2>2, <2>3 DEF KnowsDelete
  <2>. QED
    BY <1>2, <2>1, <2>2, <2>3, <2>4, <2>5, DeleteReflectsFields
    DEF SameArguments, Knows, KnowsDelete, Cleared, Mutator
<1>17. CASE Querying(t)
  <2>1. d.pc \in {"begin", "setLink", "done"} /\ d.name \notin Mutator /\ d.name = c.name
    BY <1>2, <1>17, QueryingFields, CallKept DEF StoreStep, Querying
  <2>2. d.pc = "done" /\ d.res = "ok" => KnowsQuery(op[t])'
    BY <1>2, <1>17, QueryAnswers, CallKept DEF StoreStep, Querying, KnowsQuery, tables
  <2>. QED
    BY <2>1, <2>2 DEF Knows, Mutator
<1>. QED
  BY <1>3, <1>4, <1>5, <1>6, <1>7, <1>8, <1>9, <1>10, <1>11, <1>12, <1>13, <1>14, <1>15, <1>16,
     <1>17 DEF StoreStep, Querying

-----------------------------------------------------------------------------
(* The rest of the invariant.                                              *)

(* A call that runs writes a document it found, or deletes one.            *)
LEMMA WriteFound ==
    ASSUME TInv, FoundOnly, NEW t \in Thread, WriteRequest(t)
    PROVE  \A a \in Address : account'[a].found \/ account'[a].emails = {}
<1>1. account \in [Address -> Doc] /\ GoodCall(op[t]) /\ NoDoc.emails = {}
  BY CallTyped DEF NoDoc
<1>2. \/ account' = account
      \/ account' = [account EXCEPT ![op[t].addr] = NoDoc]
      \/ op[t].doc.found /\ account' = [account EXCEPT ![op[t].addr] = op[t].doc]
      \/ op[t].doc.found /\ account' = [account EXCEPT ![op[t].owner] = op[t].doc]
  BY DEF WriteRequest, SetAccount, SetReflect, SetLink, FoundOnly
<1>. QED
  BY <1>1, <1>2 DEF FoundOnly

(* The document that a Set is going to write has been found.               *)
LEMMA StepFound ==
    ASSUME TInv, FoundOnly, NEW t \in Thread, StoreStep(t)
    PROVE  op'[t].pc \in {"setAccount", "setOld"} => op'[t].doc.found
<1>. DEFINE c == op[t]
            d == op'[t]
            Goal == d.pc \in {"setAccount", "setOld"} => d.doc.found
<1>1. /\ op \in [Thread -> Call(Request)] /\ c \in Call(Request) /\ GoodCall(c)
      /\ account \in [Address -> Doc] /\ GoodStore
  BY CallTyped
<1>2. ASSUME NEW res, Return(t, res) PROVE Goal
  BY <1>1, <1>2, ReturnFields
<1>3. ASSUME NEW place, NEW doc, Store(t, place, doc),
             doc.found \/ place \notin {"setAccount", "setOld"}
      PROVE  Goal
  BY <1>1, <1>3, StoreFields
<1>4. ASSUME NEW rest, DeleteReflects(t, rest) PROVE Goal
  BY <1>1, <1>4, DeleteReflectsFields
<1>5. ASSUME NEW doc \in Doc
      PROVE  /\ \A s : [doc EXCEPT !.emails = s].found = doc.found
             /\ \A l : [doc EXCEPT !.level = l].found = doc.found
  BY DEF Doc
<1>6. CASE ActiveAccountGet(t)
  <2>1. NewDoc(c.level).found
    BY DEF NewDoc
  <2>. QED
    BY <1>2, <1>3, <1>6, <2>1 DEF ActiveAccountGet
<1>7. CASE UpdateAccountLevelGet(t)
  <2>. DEFINE new == [account[c.addr] EXCEPT !.level = c.level]
  <2>1. /\ new.found = account[c.addr].found
        /\ Return(t, "err") \/ (account[c.addr].found /\ Store(t, "setAccount", new))
    BY <1>1, <1>5, <1>7 DEF UpdateAccountLevelGet, GoodCall
  <2>. HIDE DEF new
  <2>. QED
    BY <1>2, <1>3, <2>1
<1>8. CASE UpdateBindingGet(t)
  <2>. DEFINE new == [account[c.addr] EXCEPT !.emails = @ \cup {c.email}]
  <2>1. /\ new.found = account[c.addr].found
        /\ Return(t, "err") \/ (account[c.addr].found /\ Store(t, "setAccount", new))
    BY <1>1, <1>5, <1>8 DEF UpdateBindingGet, GoodCall
  <2>. HIDE DEF new
  <2>. QED
    BY <1>2, <1>3, <2>1
<1>9. CASE UpdateBindingGetOld(t)
  <2>. DEFINE new == [account[c.owner] EXCEPT !.emails = @ \ {c.email}]
  <2>1. /\ new.found = account[c.owner].found
        /\ Return(t, "err") \/ (account[c.owner].found /\ Store(t, "setOld", new))
    BY <1>1, <1>5, <1>9 DEF UpdateBindingGetOld, GoodCall
  <2>. HIDE DEF new
  <2>. QED
    BY <1>2, <1>3, <2>1
<1>10. CASE UpdateBindingGetReflect(t)
  BY <1>1, <1>10 DEF UpdateBindingGetReflect, Call
<1>11. CASE DeleteBindingGet(t)
  <2>. DEFINE new == [account[c.addr] EXCEPT !.emails = @ \ {c.email}]
  <2>1. /\ new.found = account[c.addr].found
        /\ Return(t, "ok") \/ (account[c.addr].found /\ op' =
              [op EXCEPT ![t].pc = "setAccount", ![t].doc = new, ![t].todo = {c.email}])
    <3>1. new.found = account[c.addr].found
      BY <1>1, <1>5, <1>11 DEF DeleteBindingGet, GoodCall, Doc
    <3>2. Return(t, "ok") \/ (account[c.addr].found /\ op' =
             [op EXCEPT ![t].pc = "setAccount", ![t].doc = new, ![t].todo = {c.email}])
      BY <1>11 DEF DeleteBindingGet
    <3>. QED
      BY <3>1, <3>2
  <2>. HIDE DEF new
  <2>. QED
    BY <1>1, <1>2, <2>1 DEF Call
<1>12. CASE UninstallByUserGet(t)
  <2>. DEFINE had == account[c.addr].emails
              new == [account[c.addr] EXCEPT !.emails = {}]
  <2>1. /\ new.found = account[c.addr].found
        /\ Return(t, "ok") \/ (account[c.addr].found /\ op' =
              [op EXCEPT ![t].pc = "setAccount", ![t].doc = new, ![t].todo = had])
    BY <1>1, <1>5, <1>12 DEF UninstallByUserGet, GoodCall
  <2>. HIDE DEF had, new
  <2>. QED
    BY <1>1, <1>2, <2>1 DEF Call
<1>13. CASE UpdateBindingSetReflect(t) \/ SaveAccount(t)
  BY <1>2, <1>3, <1>4, <1>13 DEF UpdateBindingSetReflect, SaveAccount
<1>14. CASE UpdateBindingSetOld(t) \/ DeleteAccountGet(t) \/ DeleteAccountDelete(t)
            \/ DeleteEmailReflect(t) \/ RequestFails(t)
  BY <1>2, <1>4, <1>14 DEF UpdateBindingSetOld, DeleteAccountGet, DeleteAccountDelete,
     DeleteEmailReflect, RequestFails
<1>15. CASE Querying(t)
  BY <1>1, <1>15, QueryingFields
<1>. QED
  BY <1>6, <1>7, <1>8, <1>9, <1>10, <1>11, <1>12, <1>13, <1>14, <1>15 DEF StoreStep, Querying

(* The whole invariant is inductive.                                       *)
LEMMA StartAlone ==
    ASSUME StoreInit, asked \subseteq Address \X Email, alone \subseteq Thread
    PROVE  AInv
<1>1. FoundOnly
  BY DEF StoreInit, FoundOnly, NoDoc, NoCall
<1>2. OnlyOne /\ \A t \in alone : Knows(op[t])
  BY DEF StoreInit, OnlyOne, Knows, NoCall
<1>. QED
  BY <1>1, <1>2, StartTyped DEF AInv

LEMMA InitAlone == Init => AInv
BY StartAlone DEF Init

LEMMA NextAlone == AInv /\ [Next]_vars => AInv'
<1>. SUFFICES ASSUME AInv, [Next]_vars PROVE AInv'
  OBVIOUS
<1>1. /\ TInv' /\ TInv /\ GoodStore /\ FoundOnly /\ OnlyOne
      /\ op \in [Thread -> Call(Request)] /\ alone \subseteq Thread
      /\ \A t \in alone : Knows(op[t])
  BY NextTyped, InitTyped DEF AInv, TInv, TypeOK, GoodStore, StoreTypeOK
<1>2. ASSUME NEW t \in Thread, Begin(t) PROVE AInv'
  <2>1. PICK c : Clients(t, c) /\ c.pc = "begin"
    BY <1>2, BeginCall
  <2>2. /\ op' = [op EXCEPT ![t] = c] /\ UNCHANGED tables
        /\ alone' = IF \E u \in Thread \ {t} : Running(u) THEN {} ELSE {t}
    BY <2>1 DEF Clients, Invoke
  <2>3. op'[t] = c /\ \A u \in Thread \ {t} : op'[u] = op[u]
    BY <1>1, <2>2
  <2>4. FoundOnly'
    BY <1>1, <2>1, <2>2, <2>3 DEF FoundOnly, tables
  <2>5. OnlyOne'
    BY <2>2, <2>3 DEF OnlyOne
  <2>6. \A u \in alone' : Knows(op[u])'
    BY <2>1, <2>2, <2>3 DEF Knows
  <2>. QED
    BY <1>1, <2>4, <2>5, <2>6 DEF AInv
<1>3. ASSUME NEW t \in Thread, StoreStep(t), UNCHANGED <<asked, alone>> PROVE AInv'
  <2>1. FoundOnly'
    <3>1. \A a \in Address : account'[a].found \/ account'[a].emails = {}
      BY <1>1, <1>3, StepOfOne, WriteFound DEF FoundOnly, tables
    <3>2. \A u \in Thread : op'[u].pc \in {"setAccount", "setOld"} => op'[u].doc.found
      BY <1>1, <1>3, StepOfOne, StepFound DEF FoundOnly
    <3>. QED
      BY <3>1, <3>2 DEF FoundOnly
  <2>2. \A u \in alone : u = t
    BY <1>1, <1>3, StepOfOne DEF OnlyOne
  <2>3. OnlyOne'
    BY <1>1, <1>3, <2>2, StepOfOne DEF OnlyOne
  <2>4. \A u \in alone' : Knows(op[u])'
    BY <1>3, <2>2, StepKnows
  <2>. QED
    BY <1>1, <2>1, <2>3, <2>4 DEF AInv
<1>4. CASE ProcessExit /\ UNCHANGED <<asked, alone>>
  <2>1. \A u \in Thread : op'[u] = NoCall
    BY <1>4 DEF ProcessExit
  <2>2. NoCall.pc = "idle"
    BY DEF NoCall
  <2>3. FoundOnly' /\ OnlyOne' /\ \A u \in alone' : Knows(op[u])'
    BY <1>1, <1>4, <2>1, <2>2 DEF ProcessExit, tables, FoundOnly, OnlyOne, Knows
  <2>. QED
    BY <1>1, <2>3 DEF AInv
<1>5. CASE UNCHANGED vars
  <2>1. UNCHANGED <<account, reflect, op, alone>>
    BY <1>5 DEF vars
  <2>2. FoundOnly' /\ OnlyOne'
    BY <1>1, <2>1 DEF AInv, FoundOnly, OnlyOne
  <2>3. ASSUME NEW u \in alone PROVE Knows(op[u])'
    BY <1>1, <1>5, <2>1 DEF vars, AInv, Knows, KnowsSetAccount, KnowsBind, KnowsDelete,
       KnowsQuery, Healed, Cleared
  <2>. QED
    BY <1>1, <2>1, <2>2, <2>3 DEF AInv
<1>. QED
  BY <1>2, <1>3, <1>4, <1>5 DEF Next

LEMMA Alone == Spec => []AInv
BY InitAlone, NextAlone, PTL DEF Spec

-----------------------------------------------------------------------------

(* UpdateBinding alone, run to a success, repairs whatever races and       *)
(* failures did to the pair it binds.                                      *)
THEOREM BindHeals == Spec => []AloneBindHeals
<1>1. AInv => AloneBindHeals
  BY DEF AInv, Knows, Healed, AloneBindHeals
<1>. QED
  BY <1>1, Alone, PTL

(* DeleteBinding alone, run to a success, clears the pair on both sides.   *)
THEOREM UnbindClears == Spec => []AloneUnbindClears
<1>1. AInv => AloneUnbindClears
  BY DEF AInv, Knows, Cleared, AloneUnbindClears
<1>. QED
  BY <1>1, Alone, PTL

(* No step of a call that is alone makes an e-mail dangle, unless it is    *)
(* one of the two that unmap last.                                         *)
LEMMA NoNewDangling ==
    ASSUME AInv, NEW t \in Thread, t \in alone, StoreStep(t), op[t].name \notin UnmapsLast,
           NEW e \in Email, Dangling(e)'
    PROVE  Dangling(e)
<1>. DEFINE c == op[t]
<1>1. /\ account \in [Address -> Doc] /\ reflect \in [Email -> Address \cup {NoAddress}]
      /\ GoodCall(c) /\ Running(t) /\ Knows(c) /\ FoundOnly
      /\ UNCHANGED tables \/ WriteRequest(t)
  BY CallTyped, StepOfOne DEF AInv, TInv
<1>2. CASE c.pc = "setAccount" /\ SetAccount(c.addr, c.doc)
  <2>1. c.addr \in Address /\ account[c.addr].emails \subseteq c.doc.emails
    BY <1>1, <1>2 DEF Knows, KnowsSetAccount, FoundOnly, GoodCall, TakesAddress, TakesEmail,
       Mutator, UnmapsLast
  <2>. QED
    BY <1>1, <1>2, <2>1 DEF SetAccount, Dangling
<1>3. CASE c.pc = "setOld" /\ SetAccount(c.owner, c.doc)
  <2>1. /\ c.owner \in Address /\ c.doc.emails = account[c.owner].emails \ {c.email}
        /\ reflect[c.email] # c.owner
    BY <1>1, <1>3 DEF Knows, KnowsBind, GoodCall
  <2>. QED
    BY <1>1, <1>3, <2>1 DEF SetAccount, Dangling
<1>4. CASE c.pc = "delAccount" /\ SetAccount(c.addr, NoDoc)
  <2>1. c.addr \in Address /\ \A x \in account[c.addr].emails : reflect[x] = NoAddress
    BY <1>1, <1>4 DEF Knows, KnowsDelete, GoodCall, TakesAddress, TakesEmail, Mutator
  <2>. QED
    BY <1>1, <1>4, <2>1 DEF SetAccount, Dangling
<1>5. CASE c.pc = "setReflect" /\ SetReflect(c.email, c.addr)
  <2>1. c.addr \in Address /\ c.email \in account[c.addr].emails
    BY <1>1, <1>5 DEF Knows, KnowsBind, GoodCall, TakesAddress, TakesEmail, Mutator
  <2>. QED
    BY <1>1, <1>5, <2>1 DEF SetReflect, Dangling
<1>6. CASE \E x \in c.todo : SetReflect(x, NoAddress)
  BY <1>1, <1>6 DEF SetReflect, Dangling
<1>7. CASE account' = account /\ reflect' = reflect
  BY <1>7 DEF Dangling
<1>. QED
  BY <1>1, <1>2, <1>3, <1>4, <1>5, <1>6, <1>7 DEF WriteRequest, tables, SetLink

(* A mapping outlives the entry of its account only by calls that overlap, *)
(* or by the two methods that delete the mappings last.                    *)
THEOREM UnbindDangles == Spec => OnlyUnbindDangles
<1>. DEFINE A == \A e \in Email : Dangling(e)' /\ ~Dangling(e) =>
                    \E t \in Thread : Running(t) /\ (t \in alone => op[t].name \in UnmapsLast)
<1>1. AInv /\ [Next]_vars => [A]_vars
  <2>. SUFFICES ASSUME AInv, Next, NEW e \in Email, Dangling(e)', ~Dangling(e)
                PROVE  \E t \in Thread :
                          Running(t) /\ (t \in alone => op[t].name \in UnmapsLast)
    OBVIOUS
  <2>1. ASSUME UNCHANGED tables PROVE FALSE
    BY <2>1 DEF tables, Dangling
  <2>2. ASSUME NEW t \in Thread, Begin(t) PROVE FALSE
    BY <2>1, <2>2, BeginCall DEF Clients
  <2>3. CASE ProcessExit
    BY <2>1, <2>3 DEF ProcessExit
  <2>4. ASSUME NEW t \in Thread, StoreStep(t)
        PROVE  Running(t) /\ (t \in alone => op[t].name \in UnmapsLast)
    BY <2>4, StepOfOne, NoNewDangling DEF AInv, TInv
  <2>. QED
    BY <2>2, <2>3, <2>4 DEF Next
<1>2. Spec => [][A]_vars
  BY <1>1, Alone, PTL DEF Spec
<1>. QED
  BY <1>2 DEF OnlyUnbindDangles

(* What a call that is alone creates, ActiveAccount creates.               *)
LEMMA NoNewAccount ==
    ASSUME AInv, NEW t \in Thread, t \in alone, StoreStep(t), op[t].name # "ActiveAccount",
           NEW a \in Address, account'[a].found
    PROVE  account[a].found
<1>. DEFINE c == op[t]
<1>1. /\ account \in [Address -> Doc] /\ GoodCall(c) /\ Knows(c) /\ ~NoDoc.found
      /\ UNCHANGED tables \/ WriteRequest(t)
  BY CallTyped, StepOfOne DEF AInv, TInv, NoDoc
<1>2. CASE c.pc = "setAccount" /\ SetAccount(c.addr, c.doc)
  BY <1>1, <1>2 DEF Knows, KnowsSetAccount, SetAccount
<1>3. CASE c.pc = "setOld" /\ SetAccount(c.owner, c.doc)
  BY <1>1, <1>3 DEF Knows, KnowsBind, SetAccount
<1>4. CASE SetAccount(c.addr, NoDoc)
  BY <1>1, <1>4 DEF SetAccount
<1>5. CASE account' = account
  BY <1>5
<1>. QED
  BY <1>1, <1>2, <1>3, <1>4, <1>5 DEF WriteRequest, tables, SetReflect, SetLink

(* A deleted account comes back only by calls that overlap, or by          *)
(* ActiveAccount.                                                          *)
THEOREM ActivationCreates == Spec => OnlyActivationCreates
<1>. DEFINE A == \A a \in Address : account'[a].found /\ ~account[a].found =>
                    \E t \in Thread : Running(t) /\ (t \in alone => op[t].name = "ActiveAccount")
<1>1. AInv /\ [Next]_vars => [A]_vars
  <2>. SUFFICES ASSUME AInv, Next, NEW a \in Address, account'[a].found, ~account[a].found
                PROVE  \E t \in Thread :
                          Running(t) /\ (t \in alone => op[t].name = "ActiveAccount")
    OBVIOUS
  <2>1. ASSUME UNCHANGED tables PROVE FALSE
    BY <2>1 DEF tables
  <2>2. ASSUME NEW t \in Thread, Begin(t) PROVE FALSE
    BY <2>1, <2>2, BeginCall DEF Clients
  <2>3. CASE ProcessExit
    BY <2>1, <2>3 DEF ProcessExit
  <2>4. ASSUME NEW t \in Thread, StoreStep(t)
        PROVE  Running(t) /\ (t \in alone => op[t].name = "ActiveAccount")
    BY <2>4, StepOfOne, NoNewAccount DEF AInv, TInv
  <2>. QED
    BY <2>2, <2>3, <2>4 DEF Next
<1>2. Spec => [][A]_vars
  BY <1>1, Alone, PTL DEF Spec
<1>. QED
  BY <1>2 DEF OnlyActivationCreates

-----------------------------------------------------------------------------
(* What a step of a call that is alone may do to the database.             *)

(* A query writes nothing; only UpdateBinding lists an e-mail, its own for *)
(* its account, or maps one.                                               *)
OwnWrites(c) ==
    LET emails == account[c.addr].emails
    IN  /\ c.name \notin Mutator => UNCHANGED <<account, reflect>>
        /\ \A a \in Address :
              \/ account'[a].emails \subseteq account[a].emails
              \/ c.name = "UpdateBinding" /\ a = c.addr
        /\ c.name = "UpdateBinding" =>
              /\ account'[c.addr].emails \in {emails, emails \cup {c.email}}
              /\ account'[c.addr].level = account[c.addr].level
        /\ \A e \in Email :
              \/ reflect'[e] \in {reflect[e], NoAddress}
              \/ c.name = "UpdateBinding" /\ e = c.email /\ reflect'[e] = c.addr

LEMMA AloneWrites ==
    ASSUME AInv, NEW t \in Thread, t \in alone, StoreStep(t)
    PROVE  OwnWrites(op[t])
<1>. DEFINE c == op[t]
<1>1. /\ GoodCall(c) /\ Knows(c) /\ c \in Call(Request)
      /\ account \in [Address -> Doc] /\ reflect \in [Email -> Address \cup {NoAddress}]
      /\ NoDoc.emails = {}
  BY CallTyped DEF AInv, NoDoc
<1>2. UNCHANGED tables \/ WriteRequest(t)
  BY <1>1, StepOfOne, CallTyped DEF AInv
<1>3. CASE UNCHANGED <<account, reflect>>
  BY <1>3 DEF OwnWrites
<1>4. CASE c.pc = "setAccount" /\ SetAccount(c.addr, c.doc)
  <2>1. /\ KnowsSetAccount(c) /\ c.name \in Mutator /\ UNCHANGED reflect /\ c.addr \in Address
        /\ account'[c.addr] = c.doc /\ \A a \in Address \ {c.addr} : account'[a] = account[a]
    BY <1>1, <1>4 DEF SetAccount, Knows, GoodCall, TakesAddress, Mutator
  <2>2. c.name # "UpdateBinding" => c.doc.emails \subseteq account[c.addr].emails
    BY <2>1 DEF KnowsSetAccount, Mutator
  <2>. QED
    BY <2>1, <2>2 DEF OwnWrites, KnowsSetAccount
<1>5. CASE c.pc = "setOld" /\ SetAccount(c.owner, c.doc)
  <2>1. /\ KnowsBind(c) /\ c.name = "UpdateBinding" /\ UNCHANGED reflect /\ c.owner # c.addr
        /\ c.owner \in Address /\ c.addr \in Address
        /\ account'[c.owner] = c.doc /\ \A a \in Address \ {c.owner} : account'[a] = account[a]
    BY <1>1, <1>5 DEF SetAccount, Knows, GoodCall, TakesAddress, Mutator, KnowsBind
  <2>. QED
    BY <2>1, <1>5 DEF OwnWrites, KnowsBind, Mutator
<1>6. CASE c.pc = "delAccount" /\ SetAccount(c.addr, NoDoc)
  <2>1. /\ KnowsDelete(c) /\ UNCHANGED reflect /\ c.name = "DeleteAccount"
        /\ \A a \in Address : account'[a] \in {account[a], NoDoc}
    BY <1>1, <1>6 DEF SetAccount, Knows, KnowsDelete
  <2>. QED
    BY <1>1, <2>1 DEF OwnWrites, Mutator
<1>7. CASE c.pc = "setReflect" /\ SetReflect(c.email, c.addr)
  BY <1>1, <1>7 DEF SetReflect, OwnWrites, GoodCall, Mutator
<1>8. CASE c.pc = "delReflect" /\ \E e \in c.todo : SetReflect(e, NoAddress)
  <2>1. UNCHANGED account /\ \A e \in Email : reflect'[e] \in {reflect[e], NoAddress}
    BY <1>1, <1>8 DEF SetReflect
  <2>2. c.name \in Mutator /\ c.name # "UpdateBinding"
    BY <1>1, <1>8 DEF Knows, KnowsDelete, Mutator
  <2>. QED
    BY <2>1, <2>2 DEF OwnWrites
<1>9. ASSUME NEW k, NEW data, SetLink(k, data) PROVE OwnWrites(c)
  BY <1>3, <1>9 DEF SetLink
<1>. QED
  BY <1>2, <1>3, <1>4, <1>5, <1>6, <1>7, <1>8, <1>9 DEF WriteRequest, tables

=============================================================================
