------------------------- MODULE FirestoreRefinement -------------------------
(***************************************************************************)
(* The Firestore backend, called by one caller after the other, implements *)
(* ContactBook for any number of goroutines, accounts and e-mails: every   *)
(* step of it is a step of the book or leaves the book as it is.  The      *)
(* invariant (SInv) says how far the running call has got from the         *)
(* collections it found (before) to the collections as they are.           *)
(***************************************************************************)
EXTENDS FirestoreSequential, FirestoreTyping

(* The account of the call as it found it, with other e-mails or another   *)
(* level.                                                                  *)
Had(c) == before.account[c.addr]
WithEmails(doc, emails) == [doc EXCEPT !.emails = emails]
Plus(c) == WithEmails(Had(c), Had(c).emails \cup {c.email})
Minus(c) == WithEmails(Had(c), Had(c).emails \ {c.email})

(* The collections as they were but for one account, or some mappings.     *)
Saved(a, doc) == account = [before.account EXCEPT ![a] = doc]
Unmapped(gone) == reflect = [e \in Email |-> IF e \in gone THEN NoAddress ELSE before.reflect[e]]

(* What the methods are about to save.                                     *)
Planned(c) ==
    \/ c.name = "ActiveAccount" /\ ~Had(c).found /\ c.doc = NewDoc(c.level)
    \/ /\ c.name = "UpdateAccountLevel" /\ Had(c).found
       /\ c.doc = [Had(c) EXCEPT !.level = c.level]
    \/ c.name = "UpdateBinding" /\ Had(c).found /\ c.doc = Plus(c)
    \/ c.name = "DeleteBinding" /\ Had(c).found /\ c.doc = Minus(c) /\ c.todo = {c.email}
    \/ /\ c.name = "UninstallByUser" /\ Had(c).found
       /\ c.doc = WithEmails(Had(c), {}) /\ c.todo = Had(c).emails

TracedBind(c) ==
    LET old == before.account[c.owner]
    IN  /\ Had(c).found /\ Saved(c.addr, Plus(c))
        /\ c.pc # "getReflect" => c.owner = before.reflect[c.email] /\ c.owner # c.addr
        /\ c.pc \in {"getReflect", "setReflect"} => reflect = before.reflect
        /\ c.pc \in {"getOld", "setOld"} =>
              reflect = [before.reflect EXCEPT ![c.email] = c.addr] /\ c.owner # NoAddress
        /\ c.pc = "setOld" => old.found /\ c.doc = WithEmails(old, old.emails \ {c.email})

TracedDelete(c) ==
    /\ Had(c).found
    /\ \/ /\ c.name = "DeleteBinding" /\ c.todo = {c.email}
          /\ Saved(c.addr, Minus(c)) /\ reflect = before.reflect
       \/ /\ c.name = "UninstallByUser" /\ c.todo \subseteq Had(c).emails
          /\ Saved(c.addr, WithEmails(Had(c), {})) /\ Unmapped(Had(c).emails \ c.todo)
       \/ /\ c.name = "DeleteAccount" /\ c.todo \subseteq Had(c).emails
          /\ account = before.account /\ Unmapped(Had(c).emails \ c.todo)
    /\ c.pc = "delAccount" => c.name = "DeleteAccount" /\ c.todo = {}

Traced(c) ==
    /\ c.name \in Mutator \cup {"none"}
    /\ c.pc \in {"begin", "setAccount"} => account = before.account /\ reflect = before.reflect
    /\ c.pc = "setAccount" => Planned(c)
    /\ c.pc \in {"getReflect", "setReflect", "getOld", "setOld"} => TracedBind(c)
    /\ c.pc \in {"delReflect", "delAccount"} => TracedDelete(c)
    /\ c.name \in {"ActiveAccount", "UpdateAccountLevel"} => c.level \in Level

BeforeTyped ==
    /\ before.account \in [Address -> Doc]
    /\ before.reflect \in [Email -> Address \cup {NoAddress}]

SInv ==
    /\ GoodStore /\ BeforeTyped
    /\ \A t, u \in Thread : Running(t) /\ Running(u) => t = u
    /\ \A t \in Thread : Traced(op[t])

USE DEF Running, Returned, At

-----------------------------------------------------------------------------
(* The steps of the book, when the running call ends: from the collections *)
(* it found to the collections as they are now.                            *)

Book1(a, doc) == account' = [before.account EXCEPT ![a] = doc]
Gone1(gone) == reflect' = [e \in Email |-> IF e \in gone THEN NoAddress ELSE before.reflect[e]]

LEMMA BookSteps ==
    ASSUME BeforeTyped, Busy, ~Busy', NEW a \in Address
    PROVE  LET had == before.account[a]
           IN  /\ had.found /\ Book1(a, WithEmails(had, {})) =>
                     /\ Gone1(had.emails) => Book!Uninstall(a)
                     /\ \A gone \in SUBSET had.emails : Gone1(gone) => Book!UninstallFails(a)
               /\ had.found /\ Book1(a, NoDoc) /\ Gone1(had.emails) => Book!Delete(a)
               /\ had.found /\ account' = before.account =>
                     \A gone \in SUBSET had.emails : Gone1(gone) => Book!DeleteFails(a)
<1>1. /\ before.account \in [Address -> Doc]
      /\ before.reflect \in [Email -> Address \cup {NoAddress}]
  BY DEF BeforeTyped
<1>2. ASSUME before.account[a].found, Book1(a, WithEmails(before.account[a], {}))
      PROVE  /\ Gone1(before.account[a].emails) => Book!Uninstall(a)
             /\ \A gone \in SUBSET before.account[a].emails : Gone1(gone) => Book!UninstallFails(a)
  BY <1>1, <1>2 DEF Book1, Gone1, WithEmails, Book!Uninstall, Book!UninstallFails, Book!Unmapped
<1>3. ASSUME before.account[a].found, Book1(a, NoDoc), Gone1(before.account[a].emails)
      PROVE  Book!Delete(a)
  BY <1>1, <1>3 DEF Book1, Gone1, Book!Delete, Book!Unmapped, NoDoc, Book!NoDoc
<1>4. ASSUME before.account[a].found, account' = before.account,
             NEW gone \in SUBSET before.account[a].emails, Gone1(gone)
      PROVE  Book!DeleteFails(a)
  BY <1>1, <1>4 DEF Gone1, Book!DeleteFails, Book!Unmapped
<1>. QED
  BY <1>2, <1>3, <1>4

LEMMA BookLevels ==
    ASSUME BeforeTyped, Busy, ~Busy', NEW a \in Address, NEW l, reflect' = before.reflect
    PROVE  /\ ~before.account[a].found /\ Book1(a, NewDoc(l)) => Book!Activate(a, l)
           /\ before.account[a].found /\ Book1(a, [before.account[a] EXCEPT !.level = l]) =>
                 Book!SetLevel(a, l)
<1>1. /\ before.account \in [Address -> Doc]
      /\ before.reflect \in [Email -> Address \cup {NoAddress}]
  BY DEF BeforeTyped
<1>2. ASSUME ~before.account[a].found, Book1(a, NewDoc(l))
      PROVE  Book!Activate(a, l)
  BY <1>1, <1>2 DEF Book1, Book!Activate, NewDoc, Book!NewDoc
<1>3. ASSUME before.account[a].found, Book1(a, [before.account[a] EXCEPT !.level = l])
      PROVE  Book!SetLevel(a, l)
  BY <1>1, <1>3 DEF Book1, Book!SetLevel
<1>. QED
  BY <1>2, <1>3

LEMMA BookBindings ==
    ASSUME BeforeTyped, Busy, ~Busy', NEW a \in Address, NEW e \in Email, before.account[a].found
    PROVE  LET old == before.reflect[e]
               had == before.account[a]
               listed == WithEmails(had, had.emails \cup {e})
               unlisted == WithEmails(had, had.emails \ {e})
           IN  /\ Book1(a, listed) =>
                     /\ reflect' = before.reflect => Book!BindFails(a, e)
                     /\ reflect' = [before.reflect EXCEPT ![e] = a] =>
                           /\ Book!BindFails(a, e)
                           /\ old \in {a, NoAddress} => Book!Bind(a, e)
               /\ /\ reflect' = [before.reflect EXCEPT ![e] = a]
                  /\ old \notin {a, NoAddress} /\ before.account[old].found
                  /\ account' = [before.account EXCEPT
                        ![a] = listed,
                        ![old] = WithEmails(before.account[old], before.account[old].emails \ {e})]
                  => Book!Bind(a, e)
               /\ Book1(a, unlisted) =>
                     /\ Gone1({e}) => Book!Unbind(a, e)
                     /\ reflect' = before.reflect => Book!UnbindFails(a, e)
<1>1. /\ before.account \in [Address -> Doc]
      /\ before.reflect \in [Email -> Address \cup {NoAddress}]
  BY DEF BeforeTyped
<1>2. ASSUME Book1(a, WithEmails(before.account[a], before.account[a].emails \ {e}))
      PROVE  /\ Gone1({e}) => Book!Unbind(a, e)
             /\ reflect' = before.reflect => Book!UnbindFails(a, e)
  BY <1>1, <1>2 DEF Book1, Gone1, WithEmails, Book!Unbind, Book!UnbindFails, Book!Unlisted, Book!Unmapped
<1>3. ASSUME Book1(a, WithEmails(before.account[a], before.account[a].emails \cup {e}))
      PROVE  /\ reflect' = before.reflect => Book!BindFails(a, e)
             /\ reflect' = [before.reflect EXCEPT ![e] = a] =>
                   /\ Book!BindFails(a, e)
                   /\ before.reflect[e] \in {a, NoAddress} => Book!Bind(a, e)
  BY <1>1, <1>3 DEF Book1, WithEmails, Book!Bind, Book!BindFails, Book!Listed, Book!Mapped
<1>4. ASSUME NEW old, old = before.reflect[e], old \notin {a, NoAddress}, before.account[old].found,
             reflect' = [before.reflect EXCEPT ![e] = a],
             account' = [before.account EXCEPT
                ![a] = WithEmails(before.account[a], before.account[a].emails \cup {e}),
                ![old] = WithEmails(before.account[old], before.account[old].emails \ {e})]
      PROVE  Book!Bind(a, e)
  BY <1>1, <1>4 DEF WithEmails, Book!Bind, Book!Listed, Book!Unlisted, Book!Mapped
<1>. QED
  BY <1>2, <1>3, <1>4

-----------------------------------------------------------------------------
(* SInv is inductive.                                                      *)

LEMMA InitTraced == Init => SInv
<1>. SUFFICES ASSUME Init PROVE SInv
  OBVIOUS
<1>1. NoDoc \in Doc /\ GoodCall(NoCall) /\ NoCall.name = "none" /\ NoCall.pc = "idle"
  BY DocTyped, NoCallGood DEF NoCall
<1>2. NoLink \in LinkData
  BY DEF NoLink, LinkData
<1>3. GoodStore /\ BeforeTyped
  BY <1>1, <1>2 DEF Init, StoreInit, GoodStore, StoreTypeOK, GoodCall, BeforeTyped
<1>4. \A t \in Thread : op[t].pc = "idle" /\ op[t].name = "none"
  BY <1>1 DEF Init, StoreInit
<1>. QED
  BY <1>3, <1>4 DEF SInv, Traced

(* A call that has ended has nothing to say of the collections.            *)
LEMMA EndedTraced ==
    ASSUME NEW t \in Thread, Traced(op[t]), SameArguments(op[t], op'[t]), op'[t].pc = "done"
    PROVE  Traced(op[t])'
BY DEF Traced, SameArguments

(* The next step of the running call carries on from what the call found.  *)
LEMMA StepTraced ==
    ASSUME SInv, NEW t \in Thread, StoreStep(t), UNCHANGED before
    PROVE  Traced(op[t])'
<1>. DEFINE c == op[t]
            d == op'[t]
            had == before.account[c.addr]
<1>1. /\ op \in [Thread -> Call(Request)] /\ c \in Call(Request) /\ GoodCall(c)
      /\ account \in [Address -> Doc] /\ before.account \in [Address -> Doc]
      /\ reflect \in [Email -> Address \cup {NoAddress}]
      /\ before.reflect \in [Email -> Address \cup {NoAddress}]
  BY DEF SInv, GoodStore, StoreTypeOK, BeforeTyped
<1>2. GoodStore /\ Traced(c)
  BY DEF SInv
<1>3. CASE RequestFails(t)
  BY <1>2, <1>3, ReturnFields, EndedTraced DEF RequestFails
<1>4. CASE ActiveAccountGet(t)
  <2>1. CASE Return(t, "ok")
    BY <1>2, <2>1, ReturnFields, EndedTraced
  <2>2. CASE ~account[c.addr].found /\ Store(t, "setAccount", NewDoc(c.level))
    <3>1. d.pc = "setAccount" /\ d.doc = NewDoc(c.level) /\ SameArguments(c, d)
      BY <1>2, <2>2, StoreFields
    <3>. QED
      BY <1>2, <1>4, <2>2, <3>1 DEF ActiveAccountGet, SameArguments, Traced, Planned, Had, tables
  <2>. QED
    BY <1>4, <2>1, <2>2 DEF ActiveAccountGet
<1>5. CASE UpdateAccountLevelGet(t)
  <2>1. CASE Return(t, "err")
    BY <1>2, <2>1, ReturnFields, EndedTraced
  <2>2. CASE /\ account[c.addr].found
             /\ Store(t, "setAccount", [account[c.addr] EXCEPT !.level = c.level])
    <3>1. /\ d.pc = "setAccount" /\ d.doc = [account[c.addr] EXCEPT !.level = c.level]
          /\ SameArguments(c, d)
      BY <1>2, <2>2, StoreFields
    <3>. QED
      BY <1>2, <1>5, <2>2, <3>1 DEF UpdateAccountLevelGet, SameArguments, Traced, Planned, Had, tables
  <2>. QED
    BY <1>5, <2>1, <2>2 DEF UpdateAccountLevelGet
<1>6. CASE UpdateBindingGet(t)
  <2>. DEFINE new == WithEmails(account[c.addr], account[c.addr].emails \cup {c.email})
  <2>1. CASE Return(t, "err")
    BY <1>2, <2>1, ReturnFields, EndedTraced
  <2>2. CASE account[c.addr].found /\ Store(t, "setAccount", new)
    <3>1. d.pc = "setAccount" /\ d.doc = new /\ SameArguments(c, d)
      BY <1>2, <2>2, StoreFields
    <3>. QED
      BY <1>2, <1>6, <2>2, <3>1 DEF UpdateBindingGet, SameArguments, Traced, Planned, Had, Plus, tables
  <2>. QED
    BY <1>6, <2>1, <2>2 DEF UpdateBindingGet, WithEmails
<1>7. CASE UpdateBindingGetReflect(t)
  <2>. DEFINE owner == reflect[c.email]
  <2>1. SameArguments(c, d) /\ UNCHANGED tables /\ TracedBind(c) /\ c.pc = "getReflect"
    BY <1>1, <1>2, <1>7 DEF UpdateBindingGetReflect, Traced, SameArguments, Call
  <2>2. CASE owner = c.addr
    <3>1. d.pc = "done"
      BY <1>1, <1>7, <2>2 DEF UpdateBindingGetReflect, Call
    <3>. QED
      BY <1>2, <2>1, <3>1, EndedTraced
  <2>3. CASE owner # c.addr
    <3>1. d.pc = "setReflect" /\ d.owner = owner
      BY <1>1, <1>7, <2>3 DEF UpdateBindingGetReflect, Call
    <3>2. TracedBind(c)'
      BY <2>1, <2>3, <3>1 DEF SameArguments, TracedBind, Had, Plus, Saved, tables
    <3>. QED
      BY <1>2, <2>1, <3>1, <3>2 DEF Traced, SameArguments
  <2>. QED
    BY <2>2, <2>3
<1>8. CASE UpdateBindingSetReflect(t)
  <2>1. /\ account' = account /\ reflect' = [reflect EXCEPT ![c.email] = c.addr]
        /\ TracedBind(c) /\ c.pc = "setReflect"
    BY <1>2, <1>8 DEF UpdateBindingSetReflect, WriteRequest, SetReflect, Traced
  <2>2. CASE Return(t, "ok")
    BY <1>2, <2>2, ReturnFields, EndedTraced
  <2>3. CASE c.owner # NoAddress /\ Store(t, "getOld", NoDoc)
    <3>1. d.pc = "getOld" /\ d.owner = c.owner /\ SameArguments(c, d)
      BY <1>2, <2>3, StoreFields
    <3>2. TracedBind(c)'
      BY <2>1, <2>3, <3>1 DEF SameArguments, TracedBind, Had, Plus, Saved
    <3>. QED
      BY <1>2, <3>1, <3>2 DEF Traced, SameArguments
  <2>. QED
    BY <1>8, <2>2, <2>3 DEF UpdateBindingSetReflect
<1>9. CASE UpdateBindingGetOld(t)
  <2>. DEFINE old == before.account[c.owner]
              new == WithEmails(old, old.emails \ {c.email})
  <2>1. UNCHANGED tables /\ TracedBind(c) /\ c.pc = "getOld" /\ c.owner \in Address /\ c.addr \in Address
    BY <1>1, <1>2, <1>9 DEF UpdateBindingGetOld, Traced, GoodCall, TakesAddress, Mutator
  <2>2. account[c.owner] = old
    BY <1>1, <2>1 DEF TracedBind, Saved
  <2>3. CASE Return(t, "err")
    BY <1>2, <2>3, ReturnFields, EndedTraced
  <2>4. CASE old.found /\ Store(t, "setOld", new)
    <3>1. d.pc = "setOld" /\ d.owner = c.owner /\ d.doc = new /\ SameArguments(c, d)
      BY <1>2, <2>4, StoreFields
    <3>2. TracedBind(c)'
      BY <2>1, <2>4, <3>1 DEF SameArguments, TracedBind, Had, Plus, Saved, tables
    <3>. QED
      BY <1>2, <3>1, <3>2 DEF Traced, SameArguments
  <2>. QED
    BY <1>9, <2>2, <2>3, <2>4 DEF UpdateBindingGetOld, WithEmails
<1>10. CASE UpdateBindingSetOld(t) \/ DeleteAccountDelete(t)
  BY <1>2, <1>10, ReturnFields, EndedTraced DEF UpdateBindingSetOld, DeleteAccountDelete
<1>11. CASE DeleteBindingGet(t)
  <2>. DEFINE new == WithEmails(account[c.addr], account[c.addr].emails \ {c.email})
  <2>1. CASE Return(t, "ok")
    BY <1>2, <2>1, ReturnFields, EndedTraced
  <2>2. CASE /\ account[c.addr].found
             /\ op' = [op EXCEPT ![t].pc = "setAccount", ![t].doc = new, ![t].todo = {c.email}]
    <3>. HIDE DEF new
    <3>1. d.pc = "setAccount" /\ d.doc = new /\ d.todo = {c.email} /\ SameArguments(c, d)
      BY <1>1, <2>2 DEF SameArguments, Call
    <3>. QED
      BY <1>2, <1>11, <2>2, <3>1
      DEF DeleteBindingGet, SameArguments, Traced, Planned, Had, Minus, tables, new
  <2>. QED
    BY <1>11, <2>1, <2>2 DEF DeleteBindingGet, WithEmails
<1>12. CASE UninstallByUserGet(t)
  <2>. DEFINE new == WithEmails(account[c.addr], {})
  <2>1. CASE Return(t, "ok")
    BY <1>2, <2>1, ReturnFields, EndedTraced
  <2>2. CASE /\ account[c.addr].found
             /\ op' = [op EXCEPT ![t].pc = "setAccount", ![t].doc = new,
                                 ![t].todo = account[c.addr].emails]
    <3>. HIDE DEF new
    <3>1. /\ d.pc = "setAccount" /\ d.doc = new /\ d.todo = account[c.addr].emails
          /\ SameArguments(c, d)
      BY <1>1, <2>2 DEF SameArguments, Call
    <3>. QED
      BY <1>2, <1>12, <2>2, <3>1
      DEF UninstallByUserGet, SameArguments, Traced, Planned, Had, tables, new
  <2>. QED
    BY <1>12, <2>1, <2>2 DEF UninstallByUserGet, WithEmails
<1>13. CASE DeleteAccountGet(t)
  <2>1. CASE Return(t, "ok")
    BY <1>2, <2>1, ReturnFields, EndedTraced
  <2>2. CASE account[c.addr].found /\ DeleteReflects(t, had.emails)
    <3>1. /\ account = before.account /\ reflect = before.reflect /\ UNCHANGED tables
          /\ c.name = "DeleteAccount" /\ c.addr \in Address
      BY <1>1, <1>2, <1>13 DEF DeleteAccountGet, Traced, GoodCall, TakesAddress, Mutator
    <3>2. Unmapped({})'
      BY <1>1, <3>1 DEF Unmapped, tables
    <3>3. /\ SameArguments(c, d)
          /\ \/ d.pc = "delReflect" /\ d.todo = had.emails
             \/ d.pc = "delAccount" /\ had.emails = {} /\ d.todo = {}
             \/ d.pc = "done"
      BY <1>2, <2>2, DeleteReflectsFields
    <3>4. CASE d.pc # "done"
      <4>1. TracedDelete(c)'
        BY <2>2, <3>1, <3>2, <3>3, <3>4 DEF SameArguments, TracedDelete, Had, tables
      <4>. QED
        BY <1>2, <3>3, <3>4, <4>1 DEF Traced, SameArguments
    <3>. QED
      BY <1>2, <3>3, <3>4, EndedTraced
  <2>3. account[c.addr] = had
    BY <1>2, <1>13 DEF DeleteAccountGet, Traced
  <2>. QED
    BY <1>13, <2>1, <2>2, <2>3 DEF DeleteAccountGet
<1>14. CASE SaveAccount(t)
  <2>1. /\ account' = [before.account EXCEPT ![c.addr] = c.doc] /\ reflect' = before.reflect
        /\ Planned(c) /\ c.pc = "setAccount"
    BY <1>2, <1>14 DEF SaveAccount, WriteRequest, SetAccount, Traced
  <2>2. CASE Return(t, "ok")
    BY <1>2, <2>2, ReturnFields, EndedTraced
  <2>3. CASE c.name = "UpdateBinding" /\ Store(t, "getReflect", NoDoc)
    <3>1. d.pc = "getReflect" /\ SameArguments(c, d)
      BY <1>2, <2>3, StoreFields
    <3>2. had.found /\ c.doc = Plus(c)
      BY <2>1, <2>3 DEF Planned, Had
    <3>3. TracedBind(c)'
      BY <2>1, <3>1, <3>2 DEF SameArguments, TracedBind, Had, Plus, Saved
    <3>. QED
      BY <1>2, <3>1, <3>3 DEF Traced, SameArguments
  <2>4. CASE c.name \in {"DeleteBinding", "UninstallByUser"} /\ DeleteReflects(t, c.todo)
    <3>1. SameArguments(c, d) /\ ((d.pc = "delReflect" /\ d.todo = c.todo) \/ d.pc = "done")
      BY <1>2, <2>4, DeleteReflectsFields
    <3>2. Unmapped({})'
      BY <1>1, <2>1 DEF Unmapped
    <3>3. CASE d.pc = "delReflect"
      <4>1. TracedDelete(c)'
        BY <2>1, <2>4, <3>1, <3>2, <3>3 DEF SameArguments, TracedDelete, Planned, Had, Minus, Saved
      <4>. QED
        BY <1>2, <3>1, <3>3, <4>1 DEF Traced, SameArguments
    <3>. QED
      BY <1>2, <3>1, <3>3, EndedTraced
  <2>. QED
    BY <1>14, <2>2, <2>3, <2>4 DEF SaveAccount
<1>15. CASE DeleteEmailReflect(t)
  <2>1. PICK e \in c.todo : SetReflect(e, NoAddress) /\ DeleteReflects(t, c.todo \ {e})
    BY <1>15 DEF DeleteEmailReflect
  <2>2. account' = account /\ reflect' = [reflect EXCEPT ![e] = NoAddress]
    BY <2>1 DEF SetReflect
  <2>3. TracedDelete(c) /\ c.pc = "delReflect"
    BY <1>2, <1>15 DEF DeleteEmailReflect, Traced
  <2>4. /\ SameArguments(c, d)
        /\ \/ d.pc = "delReflect" /\ d.todo = c.todo \ {e} /\ c.todo \ {e} # {}
           \/ d.pc = "delAccount" /\ c.name = "DeleteAccount" /\ c.todo \ {e} = {} /\ d.todo = {}
           \/ d.pc = "done"
    BY <1>2, <2>1, DeleteReflectsFields
  <2>5. CASE d.pc # "done"
    <3>1. c.name # "DeleteBinding" /\ d.todo = c.todo \ {e}
      BY <2>1, <2>3, <2>4, <2>5 DEF TracedDelete
    <3>2. c.todo \subseteq had.emails /\ Unmapped(had.emails \ c.todo)
      BY <2>3, <3>1 DEF TracedDelete, Had
    <3>3. Unmapped(had.emails \ c.todo)'
      <4>1. had' = had /\ had.emails \ d.todo = (had.emails \ c.todo) \cup {e}
        BY <2>1, <2>4, <3>1, <3>2 DEF SameArguments
      <4>2. reflect' = [x \in Email |-> IF x \in had.emails \ d.todo THEN NoAddress ELSE before.reflect[x]]
        BY <1>1, <2>2, <3>2, <4>1 DEF Unmapped
      <4>. QED
        BY <4>1, <4>2 DEF Unmapped
    <3>4. TracedDelete(c)'
      BY <2>2, <2>3, <2>4, <2>5, <3>1, <3>2, <3>3
      DEF SameArguments, TracedDelete, Had, Minus, Saved
    <3>. QED
      BY <1>2, <2>4, <2>5, <3>4 DEF Traced, SameArguments
  <2>. QED
    BY <1>2, <2>4, <2>5, EndedTraced
<1>16. c.name \in Mutator \cup {"none"} /\ c.pc # "setLink"
  BY <1>1, <1>2 DEF GoodCall, Traced, Mutator
<1>. QED
  BY <1>3, <1>4, <1>5, <1>6, <1>7, <1>8, <1>9, <1>10, <1>11, <1>12, <1>13, <1>14, <1>15, <1>16
  DEF StoreStep, QueryAccountGet, QueryReflectGet, QueryReflectsGet, CreateActiveLinkGet,
     CreateActiveLinkSet, GetActiveLinkGet, RemoveActiveLinkDelete, Mutator

(* A new call begins when none runs, and finds the collections as they are.*)
LEMMA BeginTraced ==
    ASSUME SInv, NEW t \in Thread, NEW c, GoodCall(c), c.pc = "begin", c.name \in Mutator,
           c.name \in {"ActiveAccount", "UpdateAccountLevel"} => c.level \in Level,
           Begin(t, c)
    PROVE  SInv'
<1>1. /\ op' = [op EXCEPT ![t] = c] /\ op \in [Thread -> Call(Request)]
      /\ UNCHANGED tables /\ before' = [account |-> account, reflect |-> reflect]
      /\ \A u \in Thread : ~Running(u)
      /\ GoodStore /\ \A u \in Thread : Traced(op[u])
  BY DEF Begin, Invoke, SInv, GoodStore, StoreTypeOK
<1>2. TablesTyped /\ TablesTyped'
  BY <1>1 DEF GoodStore, StoreTypeOK, TablesTyped, tables
<1>3. GoodStore' /\ BeforeTyped'
  BY <1>1, <1>2, OneCall, StoreSplit DEF TablesTyped, BeforeTyped
<1>4. op'[t] = c /\ \A u \in Thread \ {t} : op'[u] = op[u]
  BY <1>1
<1>5. account' = before'.account /\ reflect' = before'.reflect
  BY <1>1 DEF tables
<1>6. Traced(op[t])'
  BY <1>4, <1>5 DEF Traced
<1>7. ASSUME NEW u \in Thread \ {t} PROVE Traced(op[u])'
  BY <1>1, <1>4 DEF Traced
<1>. QED
  BY <1>1, <1>3, <1>4, <1>6, <1>7 DEF SInv

(* No step but Begin changes before, and they are steps of the running call*)
(* or the end of the process.                                              *)
LEMMA NextTraced == SInv /\ [Next]_vars => SInv'
<1>. SUFFICES ASSUME SInv, [Next]_vars PROVE SInv'
  OBVIOUS
<1>1. ASSUME NEW t \in Thread, NEW a \in Address, NEW e \in Email,
             Begin(t, UpdateBinding(a, e)) \/ Begin(t, DeleteBinding(a, e))
      PROVE  SInv'
  BY <1>1, BeginGood, BeginTraced DEF UpdateBinding, DeleteBinding, Calling, NoCall, Mutator
<1>2. ASSUME NEW t \in Thread, NEW a \in Address,
             Begin(t, UninstallByUser(a)) \/ Begin(t, DeleteAccount(a))
      PROVE  SInv'
  BY <1>2, BeginGood, BeginTraced DEF UninstallByUser, DeleteAccount, Calling, NoCall, Mutator
<1>3. ASSUME NEW t \in Thread, NEW a \in Address, NEW l \in Level,
             Begin(t, ActiveAccount(a, l)) \/ Begin(t, UpdateAccountLevel(a, l))
      PROVE  SInv'
  BY <1>3, LevelAssumption, BeginGood, BeginTraced
  DEF ActiveAccount, UpdateAccountLevel, Calling, NoCall, Mutator
<1>4. ASSUME NEW t \in Thread, StoreStep(t), UNCHANGED before
      PROVE  SInv'
  <2>1. GoodStore /\ BeforeTyped'
    BY <1>4 DEF SInv, BeforeTyped
  <2>2. GoodStore'
    BY <1>4, <2>1, StepGood
  <2>3. Running(t) /\ \A u \in Thread \ {t} : op'[u] = op[u] /\ ~Running(u)
    BY <1>4, <2>1, StepOfOne DEF SInv
  <2>4. Traced(op[t])'
    BY <1>4, StepTraced
  <2>5. ASSUME NEW u \in Thread \ {t} PROVE Traced(op[u])'
    BY <2>3 DEF SInv, Traced
  <2>. QED
    BY <2>1, <2>2, <2>3, <2>4, <2>5 DEF SInv
<1>5. CASE ProcessExit /\ UNCHANGED before
  <2>1. op' = [t \in Thread |-> NoCall] /\ GoodCall(NoCall) /\ NoCall.pc = "idle" /\ NoCall.name = "none"
    BY <1>5, NoCallGood DEF ProcessExit, NoCall
  <2>2. TablesTyped' /\ BeforeTyped'
    BY <1>5 DEF ProcessExit, tables, SInv, BeforeTyped, GoodStore, StoreTypeOK, TablesTyped
  <2>3. GoodStore'
    BY <2>1, <2>2, StoreSplit DEF GoodCall
  <2>4. \A t \in Thread : Traced(op[t])'
    BY <2>1 DEF Traced
  <2>. QED
    BY <2>1, <2>2, <2>3, <2>4 DEF SInv
<1>6. CASE UNCHANGED vars
  <2>1. GoodStore'
    BY <1>6 DEF vars, SInv, GoodStore, StoreTypeOK
  <2>2. BeforeTyped' /\ \A t \in Thread : Traced(op[t])'
    <3>1. op' = op /\ account' = account /\ reflect' = reflect /\ before' = before
      BY <1>6 DEF vars
    <3>2. ASSUME NEW t \in Thread
          PROVE  /\ Planned(op[t]) => Planned(op[t])'
                 /\ TracedBind(op[t]) => TracedBind(op[t])'
                 /\ TracedDelete(op[t]) => TracedDelete(op[t])'
      <4>1. Planned(op[t]) => Planned(op[t])'
        BY <3>1 DEF Planned, Had, Plus, Minus
      <4>2. TracedBind(op[t]) => TracedBind(op[t])'
        BY <3>1 DEF TracedBind, Had, Plus, Saved
      <4>3. TracedDelete(op[t]) => TracedDelete(op[t])'
        BY <3>1 DEF TracedDelete, Had, Minus, Saved, Unmapped
      <4>. QED
        BY <4>1, <4>2, <4>3
    <3>. QED
      BY <3>1, <3>2 DEF SInv, BeforeTyped, Traced
  <2>. QED
    BY <1>6, <2>1, <2>2 DEF vars, SInv
<1>. QED
  BY <1>1, <1>2, <1>3, <1>4, <1>5, <1>6 DEF Next

-----------------------------------------------------------------------------
(* Every way in which a call can end is a step of the book.                *)

(* The running call ends, with or without its last write.                  *)
LEMMA Outcome ==
    ASSUME SInv, NEW t \in Thread, Running(t), ~Busy', UNCHANGED before,
           UNCHANGED tables \/ WriteRequest(t)
    PROVE  Book!Next \/ UNCHANGED Book!book
<1>. DEFINE c == op[t]
            a == c.addr
            e == c.email
            had == before.account[a]
<1>1. /\ GoodCall(c) /\ Traced(c) /\ a \in Address /\ c.todo \in SUBSET Email
      /\ c.pc \in {"begin", "setAccount", "getReflect", "setReflect", "getOld", "setOld",
                  "delReflect", "delAccount"}
      /\ c.name \in Mutator
  <2>1. GoodCall(c) /\ Traced(c) /\ c \in Call(Request)
    BY DEF SInv, GoodStore, GoodCall
  <2>2. c.name \in Mutator /\ c.pc # "setLink"
    BY <2>1 DEF GoodCall, Traced, Mutator
  <2>. QED
    BY <2>1, <2>2 DEF GoodCall, Call, Request, TakesAddress
<1>2. /\ account \in [Address -> Doc] /\ before.account \in [Address -> Doc]
      /\ reflect \in [Email -> Address \cup {NoAddress}]
      /\ before.reflect \in [Email -> Address \cup {NoAddress}]
      /\ BeforeTyped /\ had.emails \in SUBSET Email
  BY <1>1, DocTyped DEF SInv, GoodStore, StoreTypeOK, BeforeTyped
<1>3. Busy
  BY DEF Busy
<1>4. c.name \in {"UpdateBinding", "DeleteBinding"} => e \in Email
  BY <1>1 DEF GoodCall, TakesEmail
<1>5. (account' = before.account /\ reflect' = before.reflect) => UNCHANGED Book!book
  BY <1>3 DEF Book!book
<1>6. ASSUME \/ Book!Uninstall(a) \/ Book!UninstallFails(a) \/ Book!Delete(a) \/ Book!DeleteFails(a)
             \/ e \in Email /\ (Book!Bind(a, e) \/ Book!BindFails(a, e) \/ Book!Unbind(a, e) \/ Book!UnbindFails(a, e))
             \/ c.level \in Level /\ (Book!Activate(a, c.level) \/ Book!SetLevel(a, c.level))
      PROVE  Book!Next
  BY <1>1, <1>6 DEF Book!Next, Book!Fails
<1>7. CASE c.pc \in {"begin", "setAccount"} /\ UNCHANGED tables
  BY <1>1, <1>5, <1>7 DEF Traced, tables
<1>8. CASE c.pc = "setAccount" /\ WriteRequest(t)
  <2>1. Planned(c) /\ Book1(a, c.doc) /\ reflect' = before.reflect
    BY <1>1, <1>8 DEF Traced, WriteRequest, SetAccount, Book1
  <2>2. CASE c.name = "ActiveAccount"
    <3>1. ~had.found /\ Book1(a, NewDoc(c.level)) /\ c.level \in Level
      BY <1>1, <2>1, <2>2 DEF Planned, Had, Traced
    <3>2. Book!Activate(a, c.level)
      BY <1>1, <1>2, <1>3, <2>1, <3>1, BookLevels
    <3>. QED
      BY <1>6, <3>1, <3>2
  <2>3. CASE c.name = "UpdateAccountLevel"
    <3>1. had.found /\ Book1(a, [had EXCEPT !.level = c.level]) /\ c.level \in Level
      BY <1>1, <2>1, <2>3 DEF Planned, Had, Traced
    <3>2. Book!SetLevel(a, c.level)
      BY <1>1, <1>2, <1>3, <2>1, <3>1, BookLevels
    <3>. QED
      BY <1>6, <3>1, <3>2
  <2>4. CASE c.name = "UpdateBinding"
    BY <1>1, <1>2, <1>3, <1>4, <1>6, <2>1, <2>4, BookBindings DEF Planned, Had, Plus
  <2>5. CASE c.name = "DeleteBinding"
    BY <1>1, <1>2, <1>3, <1>4, <1>6, <2>1, <2>5, BookBindings, ZenonT(60) DEF Planned, Had, Minus
  <2>6. CASE c.name = "UninstallByUser"
    <3>1. Gone1({})
      BY <1>2, <2>1 DEF Gone1
    <3>. QED
      BY <1>1, <1>2, <1>3, <1>6, <2>1, <2>6, <3>1, BookSteps DEF Planned, Had
  <2>. QED
    BY <2>1, <2>2, <2>3, <2>4, <2>5, <2>6 DEF Planned
<1>9. CASE c.pc \in {"getReflect", "setReflect", "getOld", "setOld"}
  <2>1. /\ TracedBind(c) /\ c.name = "UpdateBinding" /\ e \in Email
        /\ had.found /\ account = [before.account EXCEPT ![a] = Plus(c)]
    BY <1>1, <1>4, <1>9 DEF Traced, GoodCall, TracedBind, Had, Saved
  <2>2. CASE account' = account /\ reflect' \in {before.reflect, [before.reflect EXCEPT ![e] = a]}
    <3>1. Book1(a, WithEmails(had, had.emails \cup {e}))
      BY <2>1, <2>2 DEF Book1, Plus, Had
    <3>2. Book!BindFails(a, e)
      BY <1>1, <1>2, <1>3, <2>1, <2>2, <3>1, BookBindings
    <3>. QED
      BY <1>6, <2>1, <3>2
  <2>3. CASE UNCHANGED tables
    BY <1>9, <2>1, <2>2, <2>3 DEF TracedBind, tables
  <2>4. CASE c.pc = "setReflect" /\ WriteRequest(t)
    BY <2>1, <2>2, <2>4 DEF WriteRequest, SetReflect, TracedBind
  <2>5. CASE c.pc = "setOld" /\ WriteRequest(t)
    <3>1. account' = [account EXCEPT ![c.owner] = c.doc] /\ reflect' = reflect
      BY <2>5 DEF WriteRequest, SetAccount
    <3>2. /\ c.owner = before.reflect[e] /\ c.owner \notin {a, NoAddress}
          /\ before.account[c.owner].found /\ reflect' = [before.reflect EXCEPT ![e] = a]
          /\ c.doc = WithEmails(before.account[c.owner], before.account[c.owner].emails \ {e})
      BY <2>1, <2>5, <3>1 DEF TracedBind
    <3>3. account' = [before.account EXCEPT
              ![a] = WithEmails(had, had.emails \cup {e}),
              ![c.owner] = WithEmails(before.account[c.owner], before.account[c.owner].emails \ {e})]
      BY <2>1, <3>1, <3>2 DEF Plus, Had
    <3>4. Book!Bind(a, e)
      BY <1>1, <1>2, <1>3, <2>1, <3>2, <3>3, BookBindings
    <3>. QED
      BY <1>6, <2>1, <3>4
  <2>. QED
    BY <1>9, <2>1, <2>3, <2>4, <2>5 DEF WriteRequest
<1>10. CASE c.pc \in {"delReflect", "delAccount"}
  <2>. DEFINE gone == had.emails \ c.todo
  <2>1. TracedDelete(c) /\ had.found
    BY <1>1, <1>10 DEF Traced, TracedDelete, Had
  <2>2. CASE c.name = "DeleteBinding"
    <3>1. /\ c.todo = {e} /\ c.pc = "delReflect" /\ reflect = before.reflect /\ e \in Email
          /\ account = [before.account EXCEPT ![a] = WithEmails(had, had.emails \ {e})]
      BY <1>4, <1>10, <2>1, <2>2 DEF TracedDelete, Saved, Minus, Had
    <3>2. /\ account' = account
          /\ reflect' = reflect \/ reflect' = [reflect EXCEPT ![e] = NoAddress]
      BY <3>1, <2>2 DEF WriteRequest, SetReflect, tables
    <3>3. Book1(a, WithEmails(had, had.emails \ {e})) /\ (reflect' = before.reflect \/ Gone1({e}))
      BY <1>2, <3>1, <3>2 DEF Book1, Gone1
    <3>4. Book!Unbind(a, e) \/ Book!UnbindFails(a, e)
      BY <1>1, <1>2, <1>3, <2>1, <3>1, <3>3, BookBindings
    <3>. QED
      BY <1>6, <3>1, <3>4
  <2>3. CASE c.name # "DeleteBinding"
    <3>1. /\ c.todo \subseteq had.emails
          /\ reflect = [x \in Email |-> IF x \in gone THEN NoAddress ELSE before.reflect[x]]
          /\ \/ /\ c.name = "UninstallByUser" /\ c.pc = "delReflect"
                /\ account = [before.account EXCEPT ![a] = WithEmails(had, {})]
             \/ c.name = "DeleteAccount" /\ account = before.account
      BY <1>10, <2>1, <2>3 DEF TracedDelete, Saved, Unmapped, Had
    <3>2. ASSUME reflect' = reflect \/ \E x \in c.todo : reflect' = [reflect EXCEPT ![x] = NoAddress]
          PROVE  \E g \in SUBSET had.emails : Gone1(g)
      <4>1. CASE reflect' = reflect
        BY <3>1, <4>1 DEF Gone1
      <4>2. ASSUME NEW x \in c.todo, reflect' = [reflect EXCEPT ![x] = NoAddress]
            PROVE  Gone1(gone \cup {x}) /\ gone \cup {x} \in SUBSET had.emails
        BY <1>2, <3>1, <4>2 DEF Gone1
      <4>. QED
        BY <3>2, <4>1, <4>2
    <3>3. CASE account' = account /\ (reflect' = reflect \/ \E x \in c.todo : reflect' = [reflect EXCEPT ![x] = NoAddress])
      <4>1. PICK g \in SUBSET had.emails : Gone1(g)
        BY <3>2, <3>3
      <4>2. CASE c.name = "UninstallByUser"
        BY <1>1, <1>2, <1>3, <1>6, <2>1, <3>1, <3>3, <4>1, <4>2, BookSteps DEF Book1
      <4>3. CASE c.name = "DeleteAccount"
        BY <1>1, <1>2, <1>3, <1>6, <2>1, <3>1, <3>3, <4>1, <4>3, BookSteps
      <4>. QED
        BY <3>1, <4>2, <4>3
    <3>4. CASE c.pc = "delAccount" /\ WriteRequest(t)
      <4>1. /\ c.name = "DeleteAccount" /\ c.todo = {} /\ reflect' = reflect
            /\ account' = [account EXCEPT ![a] = NoDoc]
        BY <2>1, <3>4 DEF TracedDelete, WriteRequest, SetAccount
      <4>2. Book1(a, NoDoc) /\ Gone1(had.emails)
        BY <3>1, <4>1 DEF Book1, Gone1
      <4>. QED
        BY <1>1, <1>2, <1>3, <1>6, <2>1, <4>2, BookSteps
    <3>. QED
      BY <1>10, <2>3, <3>1, <3>3, <3>4 DEF WriteRequest, SetReflect, tables
  <2>. QED
    BY <2>2, <2>3
<1>. QED
  BY <1>1, <1>7, <1>8, <1>9, <1>10 DEF WriteRequest, Mutator

(* Every step of the backend is a step of the book, or leaves it as it is. *)
LEMMA StepRefines == SInv /\ [Next]_vars => [Book!Next]_Book!book
<1>. SUFFICES ASSUME SInv, [Next]_vars PROVE [Book!Next]_Book!book
  OBVIOUS
<1>1. ASSUME NEW t \in Thread, NEW c, Begin(t, c)
      PROVE  UNCHANGED Book!book
  <2>1. ~Busy /\ account' = account /\ reflect' = reflect
    BY <1>1 DEF Begin, Busy, tables
  <2>2. before'.account = account /\ before'.reflect = reflect
    BY <1>1 DEF Begin
  <2>. QED
    BY <2>1, <2>2 DEF Book!book
<1>2. ASSUME Busy, Busy', UNCHANGED before
      PROVE  UNCHANGED Book!book
  BY <1>2 DEF Book!book
<1>3. ASSUME ~Busy, ~Busy', UNCHANGED tables
      PROVE  UNCHANGED Book!book
  BY <1>3 DEF Book!book, tables
<1>4. ASSUME NEW t \in Thread, StoreStep(t), UNCHANGED before
      PROVE  [Book!Next]_Book!book
  <2>1. Running(t) /\ (UNCHANGED tables \/ WriteRequest(t))
    BY <1>4, StepOfOne DEF SInv
  <2>2. Busy
    BY <2>1 DEF Busy
  <2>. QED
    BY <1>2, <1>4, <2>1, <2>2, Outcome
<1>5. CASE ProcessExit /\ UNCHANGED before
  <2>1. ~Busy' /\ UNCHANGED tables
    BY <1>5 DEF ProcessExit, Busy, NoCall
  <2>2. Busy => \E t \in Thread : Running(t)
    BY DEF Busy
  <2>. QED
    BY <1>3, <1>5, <2>1, <2>2, Outcome
<1>6. CASE UNCHANGED vars
  <2>1. UNCHANGED before /\ UNCHANGED tables /\ op' = op
    BY <1>6 DEF vars, tables
  <2>2. Busy' <=> Busy
    BY <2>1 DEF Busy
  <2>. QED
    BY <1>2, <1>3, <2>1, <2>2
<1>. QED
  BY <1>1, <1>4, <1>5, <1>6 DEF Next

(* The backend, with the variables of the book read from it, behaves as    *)
(* ContactBook allows (db_firestore/account.go, its mutators).             *)
THEOREM BookImplemented == Spec => Book!Spec
<1>1. Init => SInv
  BY InitTraced
<1>2. SInv /\ [Next]_vars => SInv'
  BY NextTraced
<1>3. Init => Book!Init
  <2>. SUFFICES ASSUME Init PROVE Book!Init
    OBVIOUS
  <2>1. account = [a \in Address |-> NoDoc] /\ reflect = [e \in Email |-> NoAddress]
    BY DEF Init, StoreInit
  <2>2. ~Busy
    BY DEF Init, StoreInit, NoCall, Busy
  <2>. QED
    BY <2>1, <2>2 DEF Book!Init, NoDoc, Book!NoDoc
<1>4. SInv /\ [Next]_vars => [Book!Next]_Book!book
  BY StepRefines
<1>. QED
  BY <1>1, <1>2, <1>3, <1>4, PTL DEF Spec, Book!Spec

-----------------------------------------------------------------------------
(* What the book keeps, and what success means.                            *)

(* The book changes only when the running call ends.                       *)
LEMMA ChangesAtEnd ==
    SInv /\ [Next]_vars => UNCHANGED Book!book \/ (BeforeTyped /\ Busy /\ ~Busy' /\ Book!Next)
<1>. SUFFICES ASSUME SInv, [Next]_vars, ~UNCHANGED Book!book
              PROVE  BeforeTyped /\ Busy /\ ~Busy' /\ Book!Next
  OBVIOUS
<1>1. Book!Next /\ BeforeTyped
  BY StepRefines DEF SInv
<1>2. ASSUME NEW t \in Thread, NEW c, Begin(t, c)
      PROVE  FALSE
  BY <1>2 DEF Begin, Busy, tables, Book!book
<1>3. UNCHANGED before
  BY <1>2 DEF Next, vars
<1>4. ~(Busy /\ Busy')
  BY <1>3 DEF Book!book
<1>5. ASSUME ~Busy PROVE FALSE
  <2>1. ASSUME NEW t \in Thread, StoreStep(t) PROVE FALSE
    BY <1>5, <2>1, StepOfOne DEF SInv, Busy
  <2>2. CASE ProcessExit
    BY <1>5, <2>2 DEF ProcessExit, NoCall, Busy, tables, Book!book
  <2>3. CASE UNCHANGED vars
    BY <2>3 DEF vars, Busy, Book!book
  <2>. QED
    BY <1>2, <2>1, <2>2, <2>3 DEF Next
<1>. QED
  BY <1>1, <1>4, <1>5

(* An account that the book does not know lists nothing.                   *)
BookAccount == IF Busy THEN before.account ELSE account
KnownList == \A a \in Address : BookAccount[a].found \/ BookAccount[a].emails = {}

LEMMA KnownListKept == SInv /\ KnownList /\ [Next]_vars => KnownList'
<1>. SUFFICES ASSUME SInv, KnownList, [Next]_vars PROVE KnownList'
  OBVIOUS
<1>1. CASE UNCHANGED Book!book
  BY <1>1 DEF Book!book, KnownList, BookAccount
<1>2. CASE BeforeTyped /\ Busy /\ ~Busy' /\ Book!Next
  <2>1. /\ before.account \in [Address -> Doc] /\ BookAccount = before.account
        /\ BookAccount' = account'
    BY <1>2 DEF BeforeTyped, BookAccount
  <2>2. ASSUME NEW a \in Address, NEW doc, doc.found \/ doc.emails = {},
               account' = [before.account EXCEPT ![a] = doc]
        PROVE  KnownList'
    BY <2>1, <2>2 DEF KnownList
  <2>3. ASSUME NEW a \in Address, NEW e \in Email,
               Book!Bind(a, e) \/ Book!BindFails(a, e) \/ Book!Unbind(a, e) \/ Book!UnbindFails(a, e)
        PROVE  KnownList'
    <3>1. ASSUME NEW b \in Address
          PROVE  account'[b].found = before.account[b].found
      <4>1. ASSUME NEW accounts \in [Address -> Doc], NEW c \in Address
            PROVE  /\ Book!Listed(accounts, c, e) \in [Address -> Doc]
                   /\ Book!Listed(accounts, c, e)[b].found = accounts[b].found
                   /\ Book!Unlisted(accounts, c, e)[b].found = accounts[b].found
        BY DEF Book!Listed, Book!Unlisted, Doc
      <4>2. \/ account' = Book!Listed(before.account, a, e)
            \/ account' = Book!Unlisted(before.account, a, e)
            \/ \E old \in Address : account' = Book!Unlisted(Book!Listed(before.account, a, e), old, e)
        BY <1>2, <2>1, <2>3 DEF Book!Bind, Book!BindFails, Book!Unbind, Book!UnbindFails, BeforeTyped
      <4>3. ASSUME NEW old \in Address, account' = Book!Unlisted(Book!Listed(before.account, a, e), old, e)
            PROVE  account'[b].found = before.account[b].found
        <5>. DEFINE listed == Book!Listed(before.account, a, e)
        <5>1. listed \in [Address -> Doc] /\ listed[b].found = before.account[b].found
          BY <2>1, <4>1
        <5>. HIDE DEF listed
        <5>2. Book!Unlisted(listed, old, e)[b].found = listed[b].found
          BY <4>1, <5>1
        <5>. QED
          BY <4>3, <5>1, <5>2 DEF listed
      <4>. QED
        BY <2>1, <4>1, <4>2, <4>3
    <3>2. ASSUME NEW b \in Address, ~before.account[b].found
          PROVE  account'[b].emails \subseteq before.account[b].emails
      BY <1>2, <2>1, <2>3, <3>2 DEF Book!Bind, Book!BindFails, Book!Unbind, Book!UnbindFails,
         Book!Listed, Book!Unlisted, Doc
    <3>. QED
      BY <2>1, <3>1, <3>2 DEF KnownList
  <2>4. ASSUME NEW a \in Address,
               Book!Uninstall(a) \/ Book!UninstallFails(a) \/ Book!Delete(a) \/ Book!DeleteFails(a)
        PROVE  KnownList'
    <3>1. \/ account' = [before.account EXCEPT ![a].emails = {}]
          \/ account' = [before.account EXCEPT ![a] = NoDoc]
          \/ account' = before.account
      BY <1>2, <2>4 DEF Book!Uninstall, Book!UninstallFails, Book!Delete, Book!DeleteFails, NoDoc, Book!NoDoc
    <3>. QED
      BY <2>1, <3>1 DEF KnownList, Doc, NoDoc
  <2>5. ASSUME NEW a \in Address, NEW l \in Level, Book!Activate(a, l) \/ Book!SetLevel(a, l)
        PROVE  KnownList'
    <3>1. \/ account' = [before.account EXCEPT ![a] = NewDoc(l)]
          \/ account' = [before.account EXCEPT ![a].level = l]
      BY <1>2, <2>5 DEF Book!Activate, Book!SetLevel, NewDoc, Book!NewDoc
    <3>. QED
      BY <2>1, <3>1 DEF KnownList, Doc, NewDoc
  <2>. QED
    BY <1>2, <2>3, <2>4, <2>5 DEF Book!Next, Book!Fails
<1>. QED
  BY <1>1, <1>2, ChangesAtEnd

(* The whole effects of the methods keep a consistent book consistent,     *)
(* unless the e-mail that is unbound is another account's.                 *)
LEMMA WholeKeepsConsistent ==
    ASSUME BeforeTyped, KnownList, Busy, ~Busy', Book!Consistent, Book!Next
    PROVE  Book!Consistent' \/ Book!Fails \/ Book!ForeignUnbind
<1>1. /\ before.account \in [Address -> Doc]
      /\ before.reflect \in [Email -> Address \cup {NoAddress}]
  BY DEF BeforeTyped
<1>2. \A a \in Address, e \in Email : e \in before.account[a].emails <=> before.reflect[e] = a
  BY DEF Book!Consistent
<1>3. Book!Consistent' <=>
         \A a \in Address, e \in Email : e \in account'[a].emails <=> reflect'[e] = a
  BY DEF Book!Consistent
<1>4. ASSUME NEW a \in Address, NEW e \in Email, Book!Bind(a, e) PROVE Book!Consistent'
  <2>. DEFINE old == before.reflect[e]
  <2>1. reflect' = [before.reflect EXCEPT ![e] = a]
    BY <1>4 DEF Book!Bind, Book!Mapped
  <2>2. ASSUME NEW b \in Address, NEW x \in Email
        PROVE  x \in account'[b].emails <=>
                  IF x = e THEN b = a ELSE x \in before.account[b].emails
    <3>1. CASE old \in {a, NoAddress} /\ account' = [before.account EXCEPT ![a].emails = @ \cup {e}]
      <4>1. b # a => e \notin before.account[b].emails
        BY <1>2, <3>1, NoAddressAssumption
      <4>2. account'[b].emails = (IF b = a THEN before.account[a].emails \cup {e}
                                           ELSE before.account[b].emails)
        BY <1>1, <3>1 DEF Doc
      <4>. QED
        BY <4>1, <4>2
    <3>2. CASE /\ old \notin {a, NoAddress}
               /\ account' = [[before.account EXCEPT ![a].emails = @ \cup {e}]
                              EXCEPT ![old].emails = @ \ {e}]
      <4>1. b # old => e \notin before.account[b].emails
        BY <1>2, <3>2
      <4>2. CASE b = a
        BY <1>1, <3>2, <4>2 DEF Doc
      <4>3. CASE b # a /\ b = old
        BY <1>1, <3>2, <4>3 DEF Doc
      <4>4. CASE b # a /\ b # old
        BY <1>1, <3>2, <4>1, <4>4 DEF Doc
      <4>. QED
        BY <4>2, <4>3, <4>4
    <3>. QED
      BY <1>4, <3>1, <3>2 DEF Book!Bind, Book!Listed, Book!Unlisted
  <2>3. \A x \in Email : reflect'[x] = IF x = e THEN a ELSE before.reflect[x]
    BY <1>1, <2>1
  <2>. QED
    BY <1>2, <1>3, <2>2, <2>3
<1>5. ASSUME NEW a \in Address, NEW e \in Email, Book!Unbind(a, e), ~Book!ForeignUnbind
      PROVE  Book!Consistent'
  <2>1. before.reflect[e] \in {a, NoAddress}
    BY <1>5 DEF Book!ForeignUnbind
  <2>2. /\ reflect' = [x \in Email |-> IF x \in {e} THEN NoAddress ELSE before.reflect[x]]
        /\ account' = [before.account EXCEPT ![a].emails = @ \ {e}]
    BY <1>5 DEF Book!Unbind, Book!Unmapped, Book!Unlisted
  <2>. QED
    BY <1>1, <1>2, <1>3, <2>1, <2>2, NoAddressAssumption DEF Doc
<1>6. ASSUME NEW a \in Address, Book!Uninstall(a) \/ Book!Delete(a)
      PROVE  Book!Consistent'
  <2>1. reflect' = [x \in Email |-> IF x \in before.account[a].emails THEN NoAddress
                                                                    ELSE before.reflect[x]]
    BY <1>6 DEF Book!Uninstall, Book!Delete, Book!Unmapped
  <2>2. \/ account' = [before.account EXCEPT ![a].emails = {}]
        \/ account' = [before.account EXCEPT ![a] = NoDoc]
    BY <1>6 DEF Book!Uninstall, Book!Delete, NoDoc, Book!NoDoc
  <2>3. ASSUME NEW b \in Address
        PROVE  account'[b].emails = IF b = a THEN {} ELSE before.account[b].emails
    <3>1. CASE account' = [before.account EXCEPT ![a].emails = {}]
      BY <1>1, <3>1 DEF Doc
    <3>2. CASE account' = [before.account EXCEPT ![a] = NoDoc]
      BY <1>1, <3>2 DEF NoDoc
    <3>. QED
      BY <2>2, <3>1, <3>2
  <2>. QED
    BY <1>1, <1>2, <1>3, <2>1, <2>3, NoAddressAssumption
<1>7. ASSUME NEW a \in Address, NEW l \in Level, Book!Activate(a, l) \/ Book!SetLevel(a, l)
      PROVE  Book!Consistent'
  <2>1. reflect' = before.reflect
    BY <1>7 DEF Book!Activate, Book!SetLevel
  <2>2. \/ ~before.account[a].found /\ account' = [before.account EXCEPT ![a] = NewDoc(l)]
        \/ account' = [before.account EXCEPT ![a].level = l]
    BY <1>7 DEF Book!Activate, Book!SetLevel, NewDoc, Book!NewDoc
  <2>3. ASSUME NEW b \in Address
        PROVE  account'[b].emails = before.account[b].emails
    <3>1. CASE ~before.account[a].found /\ account' = [before.account EXCEPT ![a] = NewDoc(l)]
      BY <1>1, <3>1 DEF NewDoc, KnownList, BookAccount
    <3>2. CASE account' = [before.account EXCEPT ![a].level = l]
      BY <1>1, <3>2 DEF Doc
    <3>. QED
      BY <2>2, <3>1, <3>2
  <2>. QED
    BY <1>2, <1>3, <2>1, <2>3
<1>. QED
  BY <1>4, <1>5, <1>6, <1>7 DEF Book!Next

(* BookStaysConsistent: a consistent book becomes inconsistent only by a   *)
(* call that fails half way, or by an unbind of another account's e-mail.  *)
THEOREM ConsistencyKept == Spec => BookStaysConsistent
<1>1. Init => SInv /\ KnownList
  <2>1. Init => \A a \in Address : account[a].emails = {} /\ before.account[a].emails = {}
    BY DEF Init, StoreInit, NoDoc
  <2>. QED
    BY <2>1, InitTraced DEF KnownList, BookAccount
<1>2. SInv /\ KnownList /\ [Next]_vars => (SInv /\ KnownList)'
  BY NextTraced, KnownListKept
<1>3. SInv /\ KnownList /\ [Next]_vars =>
         [Book!Consistent /\ ~Book!Consistent' => Book!Fails \/ Book!ForeignUnbind]_Book!book
  BY ChangesAtEnd, WholeKeepsConsistent
<1>. QED
  BY <1>1, <1>2, <1>3, PTL DEF Spec, BookStaysConsistent, Book!StaysConsistent

(* The step in which a call returns with success.                          *)
LEMMA SuccessStep ==
    ASSUME SInv, NEW t \in Thread, StoreStep(t), UNCHANGED before,
           op'[t].pc = "done", op'[t].res = "ok"
    PROVE  Whole(op[t])
<1>. DEFINE c == op[t]
            d == op'[t]
            a == c.addr
            e == c.email
            had == before.account[a]
<1>1. Running(t) /\ (UNCHANGED tables \/ WriteRequest(t)) /\ \A u \in Thread \ {t} : op'[u] = op[u]
  BY StepOfOne DEF SInv
<1>2. Busy /\ ~Busy'
  BY <1>1 DEF SInv, Busy
<1>3. /\ GoodCall(c) /\ Traced(c) /\ a \in Address /\ GoodStore /\ BeforeTyped
  BY <1>1 DEF SInv, GoodStore, GoodCall, Traced, TakesAddress
<1>4. /\ account \in [Address -> Doc] /\ before.account \in [Address -> Doc]
      /\ reflect \in [Email -> Address \cup {NoAddress}]
      /\ before.reflect \in [Email -> Address \cup {NoAddress}]
      /\ op \in [Thread -> Call(Request)] /\ c \in Call(Request)
  BY <1>3 DEF GoodStore, StoreTypeOK, BeforeTyped
<1>5. c.name \in {"UpdateBinding", "DeleteBinding"} => e \in Email
  BY <1>3 DEF GoodCall, TakesEmail
<1>6. (account' = before.account /\ reflect' = before.reflect) => UNCHANGED Book!book
  BY <1>2 DEF Book!book
<1>7. ASSUME c.pc = "begin", UNCHANGED tables, ~account[a].found,
             c.name \in {"DeleteBinding", "UninstallByUser", "DeleteAccount"}
      PROVE  Whole(c)
  BY <1>3, <1>6, <1>7 DEF Traced, Whole, tables
<1>8. CASE ActiveAccountGet(t)
  <2>1. CASE account[a].found
    BY <1>3, <1>6, <1>8, <2>1 DEF ActiveAccountGet, Traced, Whole, tables
  <2>2. CASE Store(t, "setAccount", NewDoc(c.level))
    BY <1>3, <2>2, StoreFields
  <2>. QED
    BY <1>8, <2>1, <2>2 DEF ActiveAccountGet
<1>9. CASE UpdateAccountLevelGet(t)
  BY <1>3, <1>9, ReturnFields, StoreFields DEF UpdateAccountLevelGet
<1>10. CASE UpdateBindingGet(t)
  BY <1>3, <1>10, ReturnFields, StoreFields DEF UpdateBindingGet
<1>11. CASE UpdateBindingGetOld(t)
  BY <1>3, <1>11, ReturnFields, StoreFields DEF UpdateBindingGetOld
<1>12. CASE RequestFails(t)
  BY <1>3, <1>12, ReturnFields DEF RequestFails
<1>13. CASE DeleteBindingGet(t)
  <2>1. CASE op' = [op EXCEPT ![t].pc = "setAccount",
                             ![t].doc = [account[a] EXCEPT !.emails = @ \ {op[t].email}],
                             ![t].todo = {op[t].email}]
    <3>. DEFINE new == [account[a] EXCEPT !.emails = @ \ {op[t].email}]
    <3>. HIDE DEF new
    <3>1. d.pc = "setAccount"
      BY <1>4, <2>1 DEF Call, new
    <3>. QED
      BY <3>1
  <2>. QED
    BY <1>7, <1>13, <2>1 DEF DeleteBindingGet
<1>14. CASE UninstallByUserGet(t)
  <2>1. CASE op' = [op EXCEPT ![t].pc = "setAccount",
                             ![t].doc = [account[a] EXCEPT !.emails = {}],
                             ![t].todo = account[a].emails]
    <3>. DEFINE new == [account[a] EXCEPT !.emails = {}]
    <3>. HIDE DEF new
    <3>1. d.pc = "setAccount"
      BY <1>4, <2>1 DEF Call, new
    <3>. QED
      BY <3>1
  <2>. QED
    BY <1>7, <1>14, <2>1 DEF UninstallByUserGet
<1>15. CASE DeleteAccountGet(t)
  <2>1. CASE DeleteReflects(t, account[a].emails)
    BY <1>3, <1>15, <2>1, DeleteReflectsFields DEF DeleteAccountGet
  <2>. QED
    BY <1>7, <1>15, <2>1 DEF DeleteAccountGet
<1>16. CASE SaveAccount(t)
  <2>1. Planned(c) /\ Book1(a, c.doc) /\ reflect' = before.reflect
    BY <1>3, <1>16 DEF SaveAccount, Traced, WriteRequest, SetAccount, Book1
  <2>2. CASE c.name \in {"ActiveAccount", "UpdateAccountLevel"}
    <3>1. Book!Activate(a, c.level) \/ c.name = "UpdateAccountLevel"
      BY <1>2, <1>3, <2>1, <2>2, BookLevels DEF Planned, Had
    <3>2. Book!SetLevel(a, c.level) \/ c.name = "ActiveAccount"
      BY <1>2, <1>3, <2>1, <2>2, BookLevels DEF Planned, Had
    <3>. QED
      BY <2>2, <3>1, <3>2 DEF Whole
  <2>3. CASE c.name = "UpdateBinding"
    <3>1. Store(t, "getReflect", NoDoc)
      BY <1>16, <2>3 DEF SaveAccount
    <3>. QED
      BY <1>3, <3>1, StoreFields
  <2>4. CASE c.name \in {"DeleteBinding", "UninstallByUser"}
    <3>1. DeleteReflects(t, c.todo)
      BY <1>16, <2>4 DEF SaveAccount
    <3>2. c.todo = {}
      BY <1>3, <3>1, DeleteReflectsFields
    <3>3. c.name = "UninstallByUser" /\ had.found /\ had.emails = {} /\ c.doc = WithEmails(had, {})
      BY <2>1, <2>4, <3>2 DEF Planned, Had
    <3>4. Gone1(had.emails)
      BY <1>4, <2>1, <3>3 DEF Gone1
    <3>5. Book!Uninstall(a)
      BY <1>2, <1>3, <2>1, <3>3, <3>4, BookSteps
    <3>. QED
      BY <3>3, <3>5 DEF Whole
  <2>. QED
    BY <2>1, <2>2, <2>3, <2>4 DEF Planned
<1>17. ASSUME c.pc \in {"getReflect", "setReflect", "getOld", "setOld"}
       PROVE  /\ TracedBind(c) /\ c.name = "UpdateBinding" /\ e \in Email
              /\ had.found /\ account = [before.account EXCEPT ![a] = Plus(c)]
  BY <1>3, <1>5, <1>17 DEF Traced, GoodCall, TracedBind, Had, Saved
<1>18. ASSUME c.name = "UpdateBinding", e \in Email, had.found, account = [before.account EXCEPT ![a] = Plus(c)],
              account' = account, reflect' = [before.reflect EXCEPT ![e] = a],
              before.reflect[e] \in {a, NoAddress}
       PROVE  Whole(c)
  <2>1. Book1(a, WithEmails(had, had.emails \cup {e}))
    BY <1>18 DEF Book1, Plus, Had
  <2>2. Book!Bind(a, e)
    BY <1>2, <1>3, <1>18, <2>1, BookBindings
  <2>. QED
    BY <1>18, <2>2 DEF Whole
<1>19. CASE UpdateBindingGetReflect(t)
  <2>1. c.pc = "getReflect" /\ UNCHANGED tables /\ reflect = before.reflect
    BY <1>17, <1>19 DEF UpdateBindingGetReflect, TracedBind
  <2>2. CASE reflect[e] # a
    BY <1>4, <1>19, <2>2 DEF UpdateBindingGetReflect, Call
  <2>3. CASE reflect[e] = a
    <3>1. reflect' = [before.reflect EXCEPT ![e] = a]
      BY <1>4, <1>17, <2>1, <2>3 DEF tables
    <3>. QED
      BY <1>17, <1>18, <2>1, <2>3, <3>1 DEF tables
  <2>. QED
    BY <2>2, <2>3
<1>20. CASE UpdateBindingSetReflect(t)
  <2>1. /\ c.pc = "setReflect" /\ account' = account
        /\ reflect' = [before.reflect EXCEPT ![e] = a] /\ c.owner = before.reflect[e]
    BY <1>17, <1>20 DEF UpdateBindingSetReflect, WriteRequest, SetReflect, TracedBind
  <2>2. CASE c.owner = NoAddress
    BY <1>17, <1>18, <2>1, <2>2
  <2>3. CASE Store(t, "getOld", NoDoc)
    BY <1>3, <2>3, StoreFields
  <2>. QED
    BY <1>20, <2>2, <2>3 DEF UpdateBindingSetReflect
<1>21. CASE UpdateBindingSetOld(t)
  <2>1. c.pc = "setOld" /\ account' = [account EXCEPT ![c.owner] = c.doc] /\ reflect' = reflect
    BY <1>21 DEF UpdateBindingSetOld, WriteRequest, SetAccount
  <2>2. /\ c.owner = before.reflect[e] /\ c.owner \notin {a, NoAddress}
        /\ before.account[c.owner].found /\ reflect' = [before.reflect EXCEPT ![e] = a]
        /\ c.doc = WithEmails(before.account[c.owner], before.account[c.owner].emails \ {e})
    BY <1>17, <2>1 DEF TracedBind
  <2>3. account' = [before.account EXCEPT
            ![a] = WithEmails(had, had.emails \cup {e}),
            ![c.owner] = WithEmails(before.account[c.owner], before.account[c.owner].emails \ {e})]
    BY <1>17, <2>1, <2>2 DEF Plus, Had
  <2>4. Book!Bind(a, e)
    <3>. DEFINE old == before.reflect[e]
    <3>1. /\ old \notin {a, NoAddress} /\ before.account[old].found
          /\ reflect' = [before.reflect EXCEPT ![e] = a]
          /\ account' = [before.account EXCEPT
                ![a] = WithEmails(had, had.emails \cup {e}),
                ![old] = WithEmails(before.account[old], before.account[old].emails \ {e})]
      BY <2>2, <2>3
    <3>2. e \in Email /\ had.found
      BY <1>17, <2>1
    <3>. QED
      BY <1>2, <1>3, <3>1, <3>2, BookBindings
  <2>. QED
    BY <1>17, <2>1, <2>4 DEF Whole
<1>22. CASE DeleteEmailReflect(t)
  <2>1. PICK x \in c.todo : SetReflect(x, NoAddress) /\ DeleteReflects(t, c.todo \ {x})
    BY <1>22 DEF DeleteEmailReflect
  <2>2. /\ account' = account /\ reflect' = [reflect EXCEPT ![x] = NoAddress]
        /\ c.todo \ {x} = {} /\ c.name # "DeleteAccount"
        /\ TracedDelete(c) /\ had.found
    BY <1>3, <1>22, <2>1, DeleteReflectsFields DEF DeleteEmailReflect, SetReflect, Traced, TracedDelete, Had
  <2>3. CASE c.name = "DeleteBinding"
    <3>1. x = e /\ Book1(a, WithEmails(had, had.emails \ {e})) /\ e \in Email
      BY <1>5, <2>1, <2>2, <2>3 DEF TracedDelete, Saved, Minus, Had, Book1
    <3>2. Gone1({e})
      BY <1>4, <2>2, <2>3, <3>1 DEF TracedDelete, Gone1
    <3>3. Book!Unbind(a, e)
      BY <1>2, <1>3, <2>2, <3>1, <3>2, BookBindings
    <3>. QED
      BY <2>3, <3>3 DEF Whole
  <2>4. CASE c.name = "UninstallByUser"
    <3>1. /\ Book1(a, WithEmails(had, {})) /\ x \in had.emails
          /\ Unmapped(had.emails \ {x})
      BY <2>1, <2>2, <2>4 DEF TracedDelete, Saved, Had, Book1
    <3>2. Gone1(had.emails)
      BY <1>4, <2>2, <3>1 DEF Unmapped, Gone1
    <3>3. Book!Uninstall(a)
      BY <1>2, <1>3, <2>2, <3>1, <3>2, BookSteps
    <3>. QED
      BY <2>4, <3>3 DEF Whole
  <2>. QED
    BY <2>2, <2>3, <2>4 DEF TracedDelete
<1>23. CASE DeleteAccountDelete(t)
  <2>1. /\ c.name = "DeleteAccount" /\ c.pc = "delAccount" /\ TracedDelete(c)
        /\ account' = [account EXCEPT ![a] = NoDoc] /\ reflect' = reflect
    BY <1>3, <1>23 DEF DeleteAccountDelete, WriteRequest, SetAccount, Traced
  <2>2. had.found /\ account = before.account /\ Unmapped(had.emails \ {})
    BY <2>1 DEF TracedDelete, Had
  <2>3. Book1(a, NoDoc) /\ Gone1(had.emails)
    BY <2>1, <2>2 DEF Unmapped, Gone1, Book1
  <2>4. Book!Delete(a)
    BY <1>2, <1>3, <2>2, <2>3, BookSteps
  <2>. QED
    BY <2>1, <2>4 DEF Whole
<1>24. c.name \in Mutator \cup {"none"} /\ c.pc # "setLink"
  BY <1>3 DEF GoodCall, Traced, Mutator
<1>. QED
  BY <1>8, <1>9, <1>10, <1>11, <1>12, <1>13, <1>14, <1>15, <1>16, <1>19, <1>20, <1>21, <1>22,
     <1>23, <1>24
  DEF StoreStep, QueryAccountGet, QueryReflectGet, QueryReflectsGet, CreateActiveLinkGet,
     CreateActiveLinkSet, GetActiveLinkGet, RemoveActiveLinkDelete, Mutator

(* SuccessIsWhole: a mutator that returns no error has done all it was     *)
(* called for since it was called, or had nothing to do.                   *)
THEOREM SuccessWhole == Spec => SuccessIsWhole
<1>1. Init => SInv
  BY InitTraced
<1>2. SInv /\ [Next]_vars => SInv'
  BY NextTraced
<1>3. ASSUME SInv, [Next]_vars, NEW t \in Thread, Running(t), op'[t].pc = "done", op'[t].res = "ok"
      PROVE  Whole(op[t])
  <2>1. op'[t] # op[t]
    BY <1>3
  <2>2. ASSUME NEW u \in Thread, NEW c, Begin(u, c) PROVE FALSE
    BY <1>3, <2>2 DEF Begin
  <2>3. ~ProcessExit
    BY <1>3 DEF ProcessExit, NoCall
  <2>4. PICK u \in Thread : StoreStep(u) /\ UNCHANGED before
    <3>1. CASE UNCHANGED vars
      BY <2>1, <3>1 DEF vars
    <3>2. CASE Next
      BY <2>2, <2>3, <3>2 DEF Next
    <3>. QED
      BY <1>3, <3>1, <3>2
  <2>5. u = t
    BY <1>3, <2>1, <2>4, StepOfOne DEF SInv
  <2>. QED
    BY <1>3, <2>4, <2>5, SuccessStep
<1>4. SInv /\ [Next]_vars =>
         [\A t \in Thread :
             Running(t) /\ op'[t].pc = "done" /\ op'[t].res = "ok" => Whole(op[t])]_vars
  BY <1>3
<1>. QED
  BY <1>1, <1>2, <1>4, PTL DEF Spec, SuccessIsWhole

(* ImplementsBook: each call of the Firestore backend is a call of the     *)
(* contact book, a partial one only if it is not reported as a success.    *)
THEOREM Refinement == Spec => ImplementsBook
BY BookImplemented, SuccessWhole, PTL DEF ImplementsBook

=============================================================================
