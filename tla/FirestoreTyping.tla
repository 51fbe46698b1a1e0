--------------------------- MODULE FirestoreTyping ---------------------------
(***************************************************************************)
(* The calls of the Firestore backend, one step at a time: what the locals *)
(* of a call are at each place (GoodCall), and what a step does to them.   *)
(* The lemmas hold of the methods whoever calls them; the modules of the   *)
(* callers (FirestoreClients, FirestoreSequential) are proved from them.   *)
(* They speak of one call record at a time, so a step is judged by the one *)
(* record c that it puts in the place of op[t].                            *)
(***************************************************************************)
EXTENDS FirestoreStore, TLAPS

(* The methods that are called with an address, an e-mail or a token.      *)
TakesAddress == Mutator \cup {"QueryAccount", "CreateActiveLink"}
TakesEmail == {"UpdateBinding", "DeleteBinding", "QueryReflectByOneEmail", "CreateActiveLink"}
TakesToken == {"CreateActiveLink", "GetActiveLink", "RemoveActiveLink"}

(* The arguments and locals that a call has at each place.                 *)
GoodCall(c) ==
    /\ c \in Call(Request)
    /\ c.pc \notin {"idle", "done"} => c.name # "none"
    /\ c.name \in TakesAddress => c.addr \in Address
    /\ c.name \in TakesEmail => c.email \in Email
    /\ c.name \in TakesToken => c.token \in Token
    /\ c.pc \in {"getOld", "setOld"} => c.owner \in Address
    /\ c.pc \in {"getReflect", "setReflect", "getOld", "setOld"} => c.name = "UpdateBinding"
    /\ c.pc = "setLink" => c.name = "CreateActiveLink"
    /\ c.pc \in {"setAccount", "delReflect", "delAccount"} => c.name \in Mutator

GoodStore == StoreTypeOK /\ \A t \in Thread : GoodCall(op[t])

USE DEF Running, Returned, At

-----------------------------------------------------------------------------
(* The records that steps put into op.                                     *)

(* The documents that the methods build are documents.                     *)
LEMMA DocTyped ==
    /\ NoDoc \in Doc
    /\ \A l \in StoredLevel : NewDoc(l) \in Doc
    /\ \A doc \in Doc : doc.emails \in SUBSET Email /\ doc.level \in StoredLevel
    /\ \A doc \in Doc, s \in SUBSET Email : [doc EXCEPT !.emails = s] \in Doc
    /\ \A doc \in Doc, l \in StoredLevel : [doc EXCEPT !.level = l] \in Doc
<1>1. NoDoc \in Doc
  BY DEF NoDoc, Doc, StoredLevel
<1>2. ASSUME NEW l \in StoredLevel PROVE NewDoc(l) \in Doc
  BY DEF NewDoc, Doc
<1>3. ASSUME NEW doc \in Doc PROVE doc.emails \in SUBSET Email /\ doc.level \in StoredLevel
  BY DEF Doc
<1>4. ASSUME NEW doc \in Doc, NEW s \in SUBSET Email PROVE [doc EXCEPT !.emails = s] \in Doc
  BY DEF Doc
<1>5. ASSUME NEW doc \in Doc, NEW l \in StoredLevel PROVE [doc EXCEPT !.level = l] \in Doc
  BY DEF Doc
<1>. QED
  BY <1>1, <1>2, <1>3, <1>4, <1>5

(* A goroutine that is in no call.                                         *)
LEMMA NoCallGood == GoodCall(NoCall)
<1>1. NoCall \in Call(Request)
  <2>1. NoDoc \in Doc
    BY DocTyped
  <2>2. {} \in Answer
    BY DEF Answer
  <2>. QED
    BY <2>1, <2>2 DEF NoCall, Call, StoredLevel
<1>2. NoCall.name = "none" /\ NoCall.pc = "idle"
  BY DEF NoCall
<1>. QED
  BY <1>1, <1>2 DEF GoodCall, TakesAddress, TakesEmail, TakesToken, Mutator

(* A call at another place, with other mappings to delete or another owner.*)
LEMMA CallMoved ==
    ASSUME NEW c \in Call(Request), NEW place \in Request
    PROVE  /\ \A rest \in SUBSET Email : [c EXCEPT !.pc = place, !.todo = rest] \in Call(Request)
           /\ \A owner \in Address \cup {NoAddress} :
                 /\ [c EXCEPT !.pc = place, !.owner = owner] \in Call(Request)
                 /\ [c EXCEPT !.pc = "done", !.res = "ok", !.owner = owner] \in Call(Request)
<1>1. ASSUME NEW rest \in SUBSET Email
      PROVE  [c EXCEPT !.pc = place, !.todo = rest] \in Call(Request)
  BY DEF Call
<1>2. ASSUME NEW owner \in Address \cup {NoAddress}
      PROVE  [c EXCEPT !.pc = place, !.owner = owner] \in Call(Request)
  BY DEF Call
<1>3. ASSUME NEW owner \in Address \cup {NoAddress}
      PROVE  [c EXCEPT !.pc = "done", !.res = "ok", !.owner = owner] \in Call(Request)
  BY DEF Call
<1>. QED
  BY <1>1, <1>2, <1>3

(* A call is good when a client makes it.                                  *)
LEMMA BeginGood ==
    /\ \A a \in Address, e \in Email :
          GoodCall(UpdateBinding(a, e)) /\ GoodCall(DeleteBinding(a, e))
    /\ \A a \in Address : GoodCall(UninstallByUser(a)) /\ GoodCall(DeleteAccount(a))
    /\ \A a \in Address, l \in StoredLevel :
          GoodCall(ActiveAccount(a, l)) /\ GoodCall(UpdateAccountLevel(a, l))
<1>1. NoCall \in Call(Request)
  BY NoCallGood DEF GoodCall
<1>2. ASSUME NEW n \in Mutator
      PROVE  Calling(n) \in Call(Request) /\ Calling(n).name = n /\ Calling(n).pc = "begin"
  BY <1>1 DEF Calling, Call, Method, NoCall
<1>3. ASSUME NEW a \in Address, NEW e \in Email PROVE GoodCall(UpdateBinding(a, e))
  <2>1. UpdateBinding(a, e) \in Call(Request)
    BY <1>2, ZenonT(60) DEF UpdateBinding, Call, Mutator
  <2>. QED
    BY <2>1, <1>2
    DEF GoodCall, UpdateBinding, Mutator, Calling, NoCall, TakesAddress, TakesEmail, TakesToken
<1>4. ASSUME NEW a \in Address, NEW e \in Email PROVE GoodCall(DeleteBinding(a, e))
  <2>1. DeleteBinding(a, e) \in Call(Request)
    BY <1>2, ZenonT(60) DEF DeleteBinding, Call, Mutator
  <2>. QED
    BY <2>1, <1>2
    DEF GoodCall, DeleteBinding, Mutator, Calling, NoCall, TakesAddress, TakesEmail, TakesToken
<1>5. ASSUME NEW a \in Address PROVE GoodCall(UninstallByUser(a))
  <2>1. UninstallByUser(a) \in Call(Request)
    BY <1>2 DEF UninstallByUser, Call, Mutator
  <2>. QED
    BY <2>1, <1>2
    DEF GoodCall, UninstallByUser, Mutator, Calling, NoCall, TakesAddress, TakesEmail,
        TakesToken
<1>6. ASSUME NEW a \in Address PROVE GoodCall(DeleteAccount(a))
  <2>1. DeleteAccount(a) \in Call(Request)
    BY <1>2 DEF DeleteAccount, Call, Mutator
  <2>. QED
    BY <2>1, <1>2
    DEF GoodCall, DeleteAccount, Mutator, Calling, NoCall, TakesAddress, TakesEmail, TakesToken
<1>7. ASSUME NEW a \in Address, NEW l \in StoredLevel PROVE GoodCall(ActiveAccount(a, l))
  <2>1. ActiveAccount(a, l) \in Call(Request)
    BY <1>2, ZenonT(60) DEF ActiveAccount, Call, Mutator
  <2>. QED
    BY <2>1, <1>2
    DEF GoodCall, ActiveAccount, Mutator, Calling, NoCall, TakesAddress, TakesEmail, TakesToken
<1>8. ASSUME NEW a \in Address, NEW l \in StoredLevel PROVE GoodCall(UpdateAccountLevel(a, l))
  <2>1. UpdateAccountLevel(a, l) \in Call(Request)
    BY <1>2, ZenonT(60) DEF UpdateAccountLevel, Call, Mutator
  <2>. QED
    BY <2>1, <1>2
    DEF GoodCall, UpdateAccountLevel, Mutator, Calling, NoCall, TakesAddress, TakesEmail,
        TakesToken
<1>. QED
  BY <1>3, <1>4, <1>5, <1>6, <1>7, <1>8

(* The record after Return, and after Store.                               *)
Ended(c, res) == [c EXCEPT !.pc = "done", !.res = res, !.doc = NoDoc, !.todo = {}]
Stored(c, place, doc) == [c EXCEPT !.pc = place, !.doc = doc]

(* A call that has returned is good.                                       *)
LEMMA EndedGood ==
    ASSUME NEW c, GoodCall(c), NEW res \in {"ok", "err"}
    PROVE  GoodCall(Ended(c, res))
<1>1. Ended(c, res) \in Call(Request)
  <2>1. NoDoc \in Doc
    BY DocTyped
  <2>. QED
    BY <2>1 DEF Ended, GoodCall, Call
<1>. QED
  BY <1>1 DEF Ended, GoodCall, Call

(* A place that the method of a call has, and that its locals allow.       *)
FitsPlace(c, place) ==
    /\ place \in {"getOld", "setOld"} => c.owner \in Address
    /\ place \in {"getReflect", "setReflect", "getOld", "setOld"} => c.name = "UpdateBinding"
    /\ place = "setLink" => c.name = "CreateActiveLink"
    /\ place \in {"setAccount", "delReflect", "delAccount"} => c.name \in Mutator

(* A call that goes on at another place with another document.             *)
LEMMA StoredGood ==
    ASSUME NEW c, GoodCall(c), NEW doc \in Doc, NEW place \in Request, FitsPlace(c, place)
    PROVE  GoodCall(Stored(c, place, doc))
<1>1. Stored(c, place, doc) \in Call(Request)
  BY DEF Stored, GoodCall, Call
<1>2. /\ Stored(c, place, doc).name = c.name /\ Stored(c, place, doc).addr = c.addr
      /\ Stored(c, place, doc).email = c.email /\ Stored(c, place, doc).token = c.token
      /\ Stored(c, place, doc).owner = c.owner /\ Stored(c, place, doc).pc = place
  BY DEF Stored, GoodCall, Call
<1>3. c.name # "none"
  BY DEF FitsPlace, Request, Mutator
<1>. QED
  BY <1>1, <1>2, <1>3 DEF GoodCall, FitsPlace

(* A call that goes on to save an account, with mappings to delete then.   *)
LEMMA SavingGood ==
    ASSUME NEW c, GoodCall(c), c.name \in Mutator,
           NEW doc \in Doc, NEW rest \in SUBSET Email
    PROVE  GoodCall([c EXCEPT !.pc = "setAccount", !.doc = doc, !.todo = rest])
<1>. DEFINE d == [c EXCEPT !.pc = "setAccount", !.doc = doc, !.todo = rest]
<1>1. c \in Call(Request) /\ "setAccount" \in Request
  BY DEF GoodCall, Request
<1>2. d \in Call(Request)
  BY <1>1 DEF Call
<1>3. /\ d.name = c.name /\ d.addr = c.addr /\ d.email = c.email /\ d.token = c.token
      /\ d.pc = "setAccount"
  BY <1>1 DEF Call
<1>. HIDE DEF d
<1>4. GoodCall(d)
  BY <1>2, <1>3 DEF GoodCall, Mutator
<1>. QED
  BY <1>4 DEF d

(* A query that goes on or is done, with what it has read.                 *)
LEMMA QueriedGood ==
    ASSUME NEW c, GoodCall(c), NEW d \in Call(Request),
           d.pc = "done" \/ (d.pc = "begin" /\ c.pc = "begin"),
           d.name = c.name, d.token = c.token,
           c.name \in TakesAddress => d.addr = c.addr,
           c.name \in TakesEmail => d.email = c.email
    PROVE  GoodCall(d)
BY DEF GoodCall

-----------------------------------------------------------------------------
(* GoodStore is inductive.                                                 *)

(* A step puts one good record into op.                                    *)
LEMMA OneCall ==
    ASSUME GoodStore, NEW t \in Thread, NEW c, op' = [op EXCEPT ![t] = c], GoodCall(c)
    PROVE  op' \in [Thread -> Call(Request)] /\ \A u \in Thread : GoodCall(op'[u])
<1>1. c \in Call(Request) /\ op \in [Thread -> Call(Request)]
  BY DEF GoodCall, GoodStore, StoreTypeOK
<1>2. op' \in [Thread -> Call(Request)]
  BY <1>1
<1>3. ASSUME NEW u \in Thread PROVE GoodCall(op'[u])
  <2>1. op'[u] = op[u] \/ op'[u] = c
    BY <1>1
  <2>. QED
    BY <2>1 DEF GoodStore
<1>. QED
  BY <1>2, <1>3

TablesTyped ==
    /\ account \in [Address -> Doc]
    /\ reflect \in [Email -> Address \cup {NoAddress}]
    /\ link \in [Token -> LinkData]

(* The collections and the calls together.                                 *)
LEMMA StoreSplit ==
    ASSUME TablesTyped', op' \in [Thread -> Call(Request)], \A u \in Thread : GoodCall(op'[u])
    PROVE  GoodStore'
BY DEF GoodStore, StoreTypeOK, TablesTyped, GoodCall

(* What GoodStore says of the call of one goroutine.                       *)
LEMMA CallFacts ==
    ASSUME GoodStore, NEW t \in Thread
    PROVE  /\ GoodCall(op[t])
           /\ op[t].name \in Method \cup {"none"}
           /\ op[t].addr \in Address \cup {NoAddress}
           /\ op[t].email \in Email \cup {NoEmail}
           /\ op[t].owner \in Address \cup {NoAddress}
           /\ op[t].doc \in Doc /\ op[t].todo \in SUBSET Email
           /\ op[t].level \in StoredLevel /\ op[t].token \in Token \cup {NoToken}
           /\ op[t].name \in Mutator => op[t].addr \in Address
           /\ op[t].name \in {"UpdateBinding", "DeleteBinding"} => op[t].email \in Email
BY DEF GoodStore, GoodCall, Call, TakesAddress, TakesEmail

(* A write request keeps the collections typed.                            *)
LEMMA WriteTyped ==
    ASSUME GoodStore, NEW t \in Thread, WriteRequest(t)
    PROVE  TablesTyped'
<1>. USE CallFacts, DocTyped
<1>1. TablesTyped
  BY DEF GoodStore, StoreTypeOK, TablesTyped
<1>2. CASE op[t].pc = "setAccount" /\ SetAccount(op[t].addr, op[t].doc)
  BY <1>1, <1>2 DEF SetAccount, TablesTyped
<1>3. CASE op[t].pc = "setOld" /\ SetAccount(op[t].owner, op[t].doc)
  BY <1>1, <1>3 DEF SetAccount, TablesTyped
<1>4. CASE op[t].pc = "delAccount" /\ SetAccount(op[t].addr, NoDoc)
  BY <1>1, <1>4 DEF SetAccount, TablesTyped
<1>5. CASE op[t].pc = "setReflect" /\ SetReflect(op[t].email, op[t].addr)
  BY <1>1, <1>5 DEF SetReflect, TablesTyped
<1>6. CASE \E e \in op[t].todo : SetReflect(e, NoAddress)
  BY <1>1, <1>6 DEF SetReflect, TablesTyped
<1>7. ASSUME NEW k \in Token, NEW data \in LinkData, SetLink(k, data) PROVE TablesTyped'
  BY <1>1, <1>7 DEF SetLink, TablesTyped
<1>8. CASE /\ op[t].pc = "setLink"
           /\ SetLink(op[t].token, [found |-> TRUE, addr |-> op[t].addr,
                                    email |-> op[t].email, unbind |-> op[t].unbind])
  <2>1. op[t].token \in Token /\ op[t].unbind \in BOOLEAN
    BY <1>8 DEF GoodCall, TakesToken, Call
  <2>2. [found |-> TRUE, addr |-> op[t].addr, email |-> op[t].email, unbind |-> op[t].unbind]
           \in LinkData
    BY <2>1 DEF LinkData
  <2>. QED
    BY <1>7, <1>8, <2>1, <2>2
<1>9. CASE At(t, "RemoveActiveLink", "begin") /\ SetLink(op[t].token, NoLink)
  <2>1. op[t].token \in Token /\ NoLink \in LinkData
    BY <1>9 DEF GoodCall, TakesToken, NoLink, LinkData
  <2>. QED
    BY <1>7, <1>9, <2>1
<1>. QED
  BY <1>2, <1>3, <1>4, <1>5, <1>6, <1>8, <1>9 DEF WriteRequest

(* Return puts a good record into op.                                      *)
LEMMA ReturnGood ==
    ASSUME GoodStore, NEW t \in Thread, NEW res \in {"ok", "err"}, Return(t, res)
    PROVE  op' \in [Thread -> Call(Request)] /\ \A u \in Thread : GoodCall(op'[u])
<1>1. op' = [op EXCEPT ![t] = Ended(op[t], res)]
  BY DEF Return, Ended, GoodStore, StoreTypeOK
<1>. QED
  BY <1>1, CallFacts, EndedGood, OneCall

(* Store does so when the place and the document fit the call.             *)
LEMMA StoreGood ==
    ASSUME GoodStore, NEW t \in Thread, NEW doc \in Doc, NEW place \in Request,
           FitsPlace(op[t], place), Store(t, place, doc)
    PROVE  op' \in [Thread -> Call(Request)] /\ \A u \in Thread : GoodCall(op'[u])
<1>1. op' = [op EXCEPT ![t] = Stored(op[t], place, doc)]
  BY DEF Store, Stored, GoodStore, StoreTypeOK
<1>2. GoodCall(Stored(op[t], place, doc))
  BY CallFacts, StoredGood
<1>. QED
  BY <1>1, <1>2, OneCall

(* So does the loop over the mappings, at every turn.                      *)
LEMMA DeleteReflectsGood ==
    ASSUME GoodStore, NEW t \in Thread, op[t].name \in Mutator,
           NEW rest \in SUBSET Email, DeleteReflects(t, rest)
    PROVE  op' \in [Thread -> Call(Request)] /\ \A u \in Thread : GoodCall(op'[u])
<1>1. ASSUME NEW place \in {"delReflect", "delAccount"},
             op' = [op EXCEPT ![t].pc = place, ![t].todo = rest]
      PROVE  op' \in [Thread -> Call(Request)] /\ \A u \in Thread : GoodCall(op'[u])
  <2>. DEFINE c == [op[t] EXCEPT !.pc = place, !.todo = rest]
  <2>1. op' = [op EXCEPT ![t] = c]
    BY <1>1 DEF GoodStore, StoreTypeOK
  <2>2. c \in Call(Request)
    <3>1. op[t] \in Call(Request) /\ place \in Request
      BY CallFacts DEF GoodCall, Request
    <3>. QED
      BY <3>1, CallMoved
  <2>3. /\ c.pc = place /\ c.name = op[t].name /\ c.addr = op[t].addr
        /\ c.email = op[t].email /\ c.token = op[t].token
    BY CallFacts DEF GoodCall, Call
  <2>4. GoodCall(op[t])
    BY CallFacts
  <2>. HIDE DEF c
  <2>5. GoodCall(c)
    BY <2>2, <2>3, <2>4 DEF GoodCall, Mutator
  <2>. QED
    BY <2>1, <2>5, OneCall
<1>. QED
  BY <1>1, ReturnGood DEF DeleteReflects

(* The steps of the queries and of the methods about links.                *)
Querying(t) ==
    \/ QueryAccountGet(t) \/ QueryReflectGet(t) \/ QueryReflectsGet(t)
    \/ CreateActiveLinkGet(t) \/ CreateActiveLinkSet(t)
    \/ GetActiveLinkGet(t) \/ RemoveActiveLinkDelete(t)

LEMMA QueryGood ==
    ASSUME GoodStore, NEW t \in Thread, Querying(t)
    PROVE  GoodStore'
<1>. DEFINE OpGood == op' \in [Thread -> Call(Request)] /\ \A u \in Thread : GoodCall(op'[u])
<1>1. TablesTyped /\ op \in [Thread -> Call(Request)]
  BY DEF GoodStore, StoreTypeOK, TablesTyped
<1>2. UNCHANGED tables => TablesTyped'
  BY <1>1 DEF tables, TablesTyped
<1>3. GoodCall(op[t]) /\ op[t] \in Call(Request)
  BY CallFacts DEF GoodCall
<1>4. CASE QueryAccountGet(t)
  <2>. DEFINE doc == account[op[t].addr]
              d == [op[t] EXCEPT !.pc = "done", !.res = "ok", !.doc = doc]
  <2>1. doc \in Doc /\ op' = [op EXCEPT ![t] = d]
    BY <1>1, <1>3, <1>4 DEF QueryAccountGet, TablesTyped, GoodCall, TakesAddress
  <2>. HIDE DEF doc
  <2>2. d \in Call(Request)
    BY <1>3, <2>1, ZenonT(60) DEF Call
  <2>3. /\ d.pc = "done" /\ d.name = op[t].name /\ d.token = op[t].token
        /\ d.addr = op[t].addr /\ d.email = op[t].email
    BY <1>3 DEF Call
  <2>4. GoodCall(d)
    BY <1>3, <2>2, <2>3, QueriedGood
  <2>5. OpGood
    BY <2>1, <2>4, OneCall
  <2>. QED
    BY <1>2, <1>4, <2>5, StoreSplit DEF QueryAccountGet
<1>5. CASE QueryReflectGet(t)
  <2>. DEFINE owner == reflect[op[t].email]
              d == [op[t] EXCEPT !.pc = "done", !.res = "ok", !.owner = owner]
  <2>1. owner \in Address \cup {NoAddress} /\ op' = [op EXCEPT ![t] = d]
    BY <1>1, <1>3, <1>5 DEF QueryReflectGet, TablesTyped, GoodCall, TakesEmail
  <2>. HIDE DEF owner
  <2>2. d \in Call(Request)
    BY <1>3, <2>1, CallMoved DEF Request
  <2>3. /\ d.pc = "done" /\ d.name = op[t].name /\ d.token = op[t].token
        /\ d.addr = op[t].addr /\ d.email = op[t].email
    BY <1>3 DEF Call
  <2>4. GoodCall(d)
    BY <1>3, <2>2, <2>3, QueriedGood
  <2>5. OpGood
    BY <2>1, <2>4, OneCall
  <2>. QED
    BY <1>2, <1>5, <2>5, StoreSplit DEF QueryReflectGet
<1>6. CASE QueryReflectsGet(t)
  <2>1. PICK e \in op[t].todo :
           op' = [op EXCEPT ![t].todo = @ \ {e},
                            ![t].answer = @ \cup ({<<e, reflect[e]>>} \ {<<e, NoAddress>>}),
                            ![t].pc = IF op[t].todo = {e} THEN "done" ELSE "begin",
                            ![t].res = IF op[t].todo = {e} THEN "ok" ELSE "none"]
    BY <1>6 DEF QueryReflectsGet
  <2>. DEFINE rest == op[t].todo \ {e}
              answer == op[t].answer \cup ({<<e, reflect[e]>>} \ {<<e, NoAddress>>})
              pc == IF op[t].todo = {e} THEN "done" ELSE "begin"
              res == IF op[t].todo = {e} THEN "ok" ELSE "none"
              d == [op[t] EXCEPT !.todo = rest, !.answer = answer, !.pc = pc, !.res = res]
  <2>2. op' = [op EXCEPT ![t] = d]
    BY <1>1, <2>1
  <2>3. rest \in SUBSET Email
    BY <1>3, <2>1 DEF Call
  <2>4. answer \in Answer
    <3>1. e \in Email /\ reflect[e] \in Address \cup {NoAddress}
      BY <1>1, <1>3, <2>1 DEF Call, TablesTyped
    <3>2. op[t].answer \in SUBSET (Email \X Address)
      BY <1>3 DEF Call, Answer
    <3>. QED
      BY <3>1, <3>2 DEF Answer
  <2>5. pc \in {"begin", "done"} /\ res \in {"ok", "none"}
    OBVIOUS
  <2>. HIDE DEF rest, answer, pc, res
  <2>6. d \in Call(Request)
    BY <1>3, <2>3, <2>4, <2>5, ZenonT(60) DEF Call
  <2>7. /\ d.pc = pc /\ d.name = op[t].name /\ d.token = op[t].token
        /\ d.addr = op[t].addr /\ d.email = op[t].email
    BY <1>3 DEF Call
  <2>8. op[t].pc = "begin"
    BY <1>6 DEF QueryReflectsGet
  <2>9. GoodCall(d)
    BY <1>3, <2>5, <2>6, <2>7, <2>8, QueriedGood
  <2>10. OpGood
    BY <2>2, <2>9, OneCall
  <2>. QED
    BY <1>2, <1>6, <2>10, StoreSplit DEF QueryReflectsGet
<1>7. CASE CreateActiveLinkGet(t)
  <2>1. OpGood
    BY <1>7, DocTyped, ReturnGood, StoreGood DEF CreateActiveLinkGet, FitsPlace, Request
  <2>. QED
    BY <1>2, <1>7, <2>1, StoreSplit DEF CreateActiveLinkGet
<1>8. CASE GetActiveLinkGet(t)
  <2>. DEFINE data == link[op[t].token]
              a == data.addr
              e == data.email
              b == data.unbind
              res == IF data.found THEN "ok" ELSE "err"
              d == [op[t] EXCEPT !.pc = "done", !.res = res, !.addr = a, !.email = e, !.unbind = b]
  <2>1. data \in LinkData
    BY <1>1, <1>3, <1>8 DEF GetActiveLinkGet, TablesTyped, GoodCall, TakesToken
  <2>2. a \in Address \cup {NoAddress} /\ e \in Email \cup {NoEmail} /\ b \in BOOLEAN
    BY <2>1 DEF LinkData
  <2>3. op' = [op EXCEPT ![t] = d] /\ res \in {"ok", "err"}
    BY <1>1, <1>8 DEF GetActiveLinkGet
  <2>. HIDE DEF data, a, e, b, res
  <2>4. d \in Call(Request)
    BY <1>3, <2>2, <2>3, ZenonT(60) DEF Call
  <2>5. d.pc = "done" /\ d.name = op[t].name /\ d.token = op[t].token
    BY <1>3 DEF Call
  <2>6. op[t].name \notin TakesAddress \cup TakesEmail
    BY <1>8 DEF GetActiveLinkGet, TakesAddress, TakesEmail, Mutator
  <2>7. GoodCall(d)
    BY <1>3, <2>4, <2>5, <2>6, QueriedGood
  <2>8. OpGood
    BY <2>3, <2>7, OneCall
  <2>. QED
    BY <1>2, <1>8, <2>8, StoreSplit DEF GetActiveLinkGet
<1>9. CASE CreateActiveLinkSet(t) \/ RemoveActiveLinkDelete(t)
  BY <1>9, WriteTyped, ReturnGood, StoreSplit DEF CreateActiveLinkSet, RemoveActiveLinkDelete
<1>. QED
  BY <1>4, <1>5, <1>6, <1>7, <1>8, <1>9 DEF Querying

(* A step of a method keeps the collections and the calls typed.           *)
LEMMA StepGood ==
    ASSUME GoodStore, NEW t \in Thread, StoreStep(t)
    PROVE  GoodStore'
<1>. DEFINE OpGood == op' \in [Thread -> Call(Request)] /\ \A u \in Thread : GoodCall(op'[u])
<1>1. TablesTyped /\ op \in [Thread -> Call(Request)]
  BY DEF GoodStore, StoreTypeOK, TablesTyped
<1>2. UNCHANGED tables => TablesTyped'
  BY <1>1 DEF tables, TablesTyped
<1>3. op[t].name \in Mutator => op[t].addr \in Address /\ account[op[t].addr] \in Doc
  BY <1>1, CallFacts DEF TablesTyped
<1>4. op[t].name \in {"UpdateBinding", "DeleteBinding"} => op[t].email \in Email
  BY CallFacts
<1>5. CASE Querying(t)
  BY <1>5, QueryGood
<1>6. CASE ActiveAccountGet(t)
  <2>1. NewDoc(op[t].level) \in Doc
    BY CallFacts, DocTyped
  <2>2. OpGood
    BY <1>6, <1>3, <2>1, ReturnGood, StoreGood DEF ActiveAccountGet, FitsPlace, Request, Mutator
  <2>. QED
    BY <1>6, <1>2, <2>2, StoreSplit DEF ActiveAccountGet
<1>7. CASE UpdateAccountLevelGet(t)
  <2>1. [account[op[t].addr] EXCEPT !.level = op[t].level] \in Doc
    BY <1>3, <1>7, CallFacts, DocTyped DEF UpdateAccountLevelGet, Mutator
  <2>2. OpGood
    BY <1>7, <1>3, <2>1, ReturnGood, StoreGood DEF UpdateAccountLevelGet, FitsPlace, Request,
       Mutator
  <2>. QED
    BY <1>7, <1>2, <2>2, StoreSplit DEF UpdateAccountLevelGet
<1>8. CASE UpdateBindingGet(t)
  <2>. DEFINE doc == account[op[t].addr]
  <2>1. doc \in Doc /\ doc.emails \cup {op[t].email} \in SUBSET Email
    BY <1>8, <1>3, <1>4, DocTyped DEF UpdateBindingGet, Mutator
  <2>2. [doc EXCEPT !.emails = @ \cup {op[t].email}] \in Doc
    BY <2>1, DocTyped
  <2>3. OpGood
    BY <1>8, <1>3, <2>2, ReturnGood, StoreGood DEF UpdateBindingGet, FitsPlace, Request, Mutator
  <2>. QED
    BY <1>8, <1>2, <2>3, StoreSplit DEF UpdateBindingGet
<1>9. CASE UpdateBindingGetReflect(t)
  <2>. DEFINE owner == reflect[op[t].email]
  <2>1. owner \in Address \cup {NoAddress} /\ op[t].name = "UpdateBinding" /\ op[t].addr \in Address
    BY <1>9, <1>1, <1>3, <1>4 DEF UpdateBindingGetReflect, TablesTyped, Mutator
  <2>2. ASSUME op' = [op EXCEPT ![t].pc = "done", ![t].res = "ok", ![t].owner = owner]
        PROVE  OpGood
    <3>. DEFINE c == [op[t] EXCEPT !.pc = "done", !.res = "ok", !.owner = owner]
    <3>1. op' = [op EXCEPT ![t] = c]
      BY <1>1, <2>2
    <3>2. c \in Call(Request)
      <4>1. op[t] \in Call(Request) /\ "setReflect" \in Request
        BY CallFacts DEF GoodCall, Request
      <4>. HIDE DEF owner
      <4>2. owner \in Address \cup {NoAddress}
        BY <2>1
      <4>. QED
        BY <4>1, <4>2, CallMoved
    <3>3. GoodCall(c)
      BY <2>1, <3>2, CallFacts DEF GoodCall, Call
    <3>. QED
      BY <3>1, <3>3, OneCall
  <2>3. ASSUME op' = [op EXCEPT ![t].pc = "setReflect", ![t].owner = owner]
        PROVE  OpGood
    <3>. DEFINE c == [op[t] EXCEPT !.pc = "setReflect", !.owner = owner]
    <3>1. op' = [op EXCEPT ![t] = c]
      BY <1>1, <2>3
    <3>2. c \in Call(Request)
      <4>1. op[t] \in Call(Request) /\ "setReflect" \in Request
        BY CallFacts DEF GoodCall, Request
      <4>. HIDE DEF owner
      <4>2. owner \in Address \cup {NoAddress}
        BY <2>1
      <4>. QED
        BY <4>1, <4>2, CallMoved
    <3>3. GoodCall(c)
      BY <2>1, <3>2, CallFacts DEF GoodCall, Call
    <3>. QED
      BY <3>1, <3>3, OneCall
  <2>. QED
    BY <1>9, <1>2, <2>2, <2>3, StoreSplit DEF UpdateBindingGetReflect
<1>10. CASE UpdateBindingSetReflect(t)
  <2>1. OpGood
    <3>1. CASE Return(t, "ok")
      BY <3>1, ReturnGood
    <3>2. CASE op[t].owner # NoAddress /\ Store(t, "getOld", NoDoc)
      BY <1>10, <3>2, <1>3, CallFacts, DocTyped, StoreGood
      DEF UpdateBindingSetReflect, FitsPlace, Request
    <3>. QED
      BY <1>10, <3>1, <3>2 DEF UpdateBindingSetReflect
  <2>. QED
    BY <1>10, <2>1, WriteTyped, StoreSplit DEF UpdateBindingSetReflect
<1>11. CASE UpdateBindingGetOld(t)
  <2>. DEFINE doc == account[op[t].owner]
  <2>1. op[t].owner \in Address /\ doc \in Doc
    BY <1>11, <1>1, CallFacts DEF UpdateBindingGetOld, GoodCall, TablesTyped
  <2>2. [doc EXCEPT !.emails = @ \ {op[t].email}] \in Doc
    BY <2>1, DocTyped
  <2>3. OpGood
    BY <1>11, <1>3, <2>1, <2>2, ReturnGood, StoreGood DEF UpdateBindingGetOld, FitsPlace,
       Request, Mutator
  <2>. QED
    BY <1>11, <1>2, <2>3, StoreSplit DEF UpdateBindingGetOld
<1>12. CASE UpdateBindingSetOld(t)
  BY <1>12, WriteTyped, ReturnGood, StoreSplit DEF UpdateBindingSetOld
<1>13. CASE DeleteBindingGet(t)
  <2>. DEFINE doc == account[op[t].addr]
              c == [op[t] EXCEPT !.pc = "setAccount",
                                 !.doc = [doc EXCEPT !.emails = @ \ {op[t].email}],
                                 !.todo = {op[t].email}]
  <2>1. doc \in Doc /\ op[t].email \in Email /\ op[t].name \in Mutator
    BY <1>13, <1>3, <1>4 DEF DeleteBindingGet, Mutator
  <2>2. [doc EXCEPT !.emails = @ \ {op[t].email}] \in Doc
    BY <2>1, DocTyped
  <2>3. GoodCall(c)
    BY <2>1, <2>2, CallFacts, SavingGood
  <2>4. OpGood
    <3>1. CASE Return(t, "ok")
      BY <3>1, ReturnGood
    <3>2. CASE op' = [op EXCEPT ![t] = c]
      BY <3>2, <2>3, OneCall
    <3>. QED
      BY <1>13, <1>1, <3>1, <3>2 DEF DeleteBindingGet
  <2>. QED
    BY <1>13, <1>2, <2>4, StoreSplit DEF DeleteBindingGet
<1>14. CASE UninstallByUserGet(t)
  <2>. DEFINE doc == account[op[t].addr]
              c == [op[t] EXCEPT !.pc = "setAccount",
                                 !.doc = [doc EXCEPT !.emails = {}],
                                 !.todo = doc.emails]
  <2>1. doc \in Doc /\ op[t].name \in Mutator
    BY <1>14, <1>3 DEF UninstallByUserGet, Mutator
  <2>2. [doc EXCEPT !.emails = {}] \in Doc /\ doc.emails \in SUBSET Email
    BY <2>1, DocTyped
  <2>3. GoodCall(c)
    BY <2>1, <2>2, CallFacts, SavingGood
  <2>4. OpGood
    <3>1. CASE Return(t, "ok")
      BY <3>1, ReturnGood
    <3>2. CASE op' = [op EXCEPT ![t] = c]
      BY <3>2, <2>3, OneCall
    <3>. QED
      BY <1>14, <1>1, <3>1, <3>2 DEF UninstallByUserGet
  <2>. QED
    BY <1>14, <1>2, <2>4, StoreSplit DEF UninstallByUserGet
<1>15. CASE DeleteAccountGet(t)
  <2>1. op[t].name \in Mutator /\ account[op[t].addr].emails \in SUBSET Email
    BY <1>15, <1>3, DocTyped DEF DeleteAccountGet, Mutator
  <2>2. OpGood
    BY <1>15, <2>1, ReturnGood, DeleteReflectsGood DEF DeleteAccountGet
  <2>. QED
    BY <1>15, <1>2, <2>2, StoreSplit DEF DeleteAccountGet
<1>16. CASE DeleteAccountDelete(t)
  BY <1>16, WriteTyped, ReturnGood, StoreSplit DEF DeleteAccountDelete
<1>17. CASE SaveAccount(t)
  <2>1. op[t].name \in Mutator
    BY <1>17, CallFacts DEF SaveAccount, GoodCall
  <2>2. OpGood
    <3>1. CASE Return(t, "ok")
      BY <3>1, ReturnGood
    <3>2. CASE op[t].name = "UpdateBinding" /\ Store(t, "getReflect", NoDoc)
      BY <3>2, <2>1, DocTyped, StoreGood DEF FitsPlace, Request
    <3>3. CASE DeleteReflects(t, op[t].todo)
      BY <3>3, <2>1, CallFacts, DeleteReflectsGood
    <3>. QED
      BY <1>17, <3>1, <3>2, <3>3 DEF SaveAccount
  <2>. QED
    BY <1>17, <2>2, WriteTyped, StoreSplit DEF SaveAccount
<1>18. CASE DeleteEmailReflect(t)
  <2>1. op[t].name \in Mutator
    BY <1>18, CallFacts DEF DeleteEmailReflect, GoodCall
  <2>2. PICK e \in op[t].todo : SetReflect(e, NoAddress) /\ DeleteReflects(t, op[t].todo \ {e})
    BY <1>18 DEF DeleteEmailReflect
  <2>3. OpGood
    BY <2>1, <2>2, CallFacts, DeleteReflectsGood
  <2>4. TablesTyped'
    BY <1>18, <2>2, WriteTyped DEF DeleteEmailReflect, WriteRequest
  <2>. QED
    BY <2>3, <2>4, StoreSplit
<1>19. CASE RequestFails(t)
  BY <1>19, <1>2, WriteTyped, ReturnGood, StoreSplit DEF RequestFails
<1>. QED
  BY <1>5, <1>6, <1>7, <1>8, <1>9, <1>10, <1>11, <1>12, <1>13, <1>14, <1>15, <1>16, <1>17,
     <1>18, <1>19 DEF StoreStep, Querying

-----------------------------------------------------------------------------
(* What a step leaves as it is.                                            *)

(* The locals that the steps of a method leave alone.                      *)
SameArguments(c, d) ==
    d.name = c.name /\ d.addr = c.addr /\ d.email = c.email /\ d.level = c.level

LEMMA ReturnFields ==
    ASSUME GoodStore, NEW t \in Thread, NEW res, Return(t, res)
    PROVE  /\ op'[t].pc = "done" /\ op'[t].res = res
           /\ SameArguments(op[t], op'[t]) /\ op'[t].owner = op[t].owner
BY DEF GoodStore, StoreTypeOK, Return, SameArguments, Call

LEMMA StoreFields ==
    ASSUME GoodStore, NEW t \in Thread, NEW place, NEW doc, Store(t, place, doc)
    PROVE  /\ op'[t].pc = place /\ op'[t].doc = doc
           /\ SameArguments(op[t], op'[t])
           /\ op'[t].owner = op[t].owner /\ op'[t].todo = op[t].todo
BY DEF GoodStore, StoreTypeOK, Store, SameArguments, Call

LEMMA DeleteReflectsFields ==
    ASSUME GoodStore, NEW t \in Thread, NEW rest, DeleteReflects(t, rest)
    PROVE  /\ SameArguments(op[t], op'[t])
           /\ \/ op'[t].pc = "delReflect" /\ rest # {} /\ op'[t].todo = rest
              \/ /\ op'[t].pc = "delAccount" /\ op[t].name = "DeleteAccount"
                 /\ rest = {} /\ op'[t].todo = {}
              \/ op'[t].pc = "done" /\ rest = {} /\ op[t].name # "DeleteAccount"
<1>1. op[t] \in Call(Request) /\ op \in [Thread -> Call(Request)]
  BY DEF GoodStore, StoreTypeOK
<1>2. CASE rest # {} /\ op' = [op EXCEPT ![t].pc = "delReflect", ![t].todo = rest]
  BY <1>1, <1>2 DEF SameArguments, Call
<1>3. CASE /\ rest = {} /\ op[t].name = "DeleteAccount"
           /\ op' = [op EXCEPT ![t].pc = "delAccount", ![t].todo = rest]
  BY <1>1, <1>3 DEF SameArguments, Call
<1>4. CASE rest = {} /\ op[t].name # "DeleteAccount" /\ Return(t, "ok")
  BY <1>4, ReturnFields
<1>. QED
  BY <1>2, <1>3, <1>4 DEF DeleteReflects

(* The queries and the methods about links leave accounts and mappings     *)
(* alone, and come to no place of the mutators.                            *)
LEMMA QueryingFields ==
    ASSUME GoodStore, NEW t \in Thread, Querying(t)
    PROVE  /\ op[t].name \notin Mutator \cup {"none"} /\ op'[t].name = op[t].name
           /\ op'[t].pc \in {"begin", "setLink", "done"}
           /\ UNCHANGED <<account, reflect>>
<1>1. op \in [Thread -> Call(Request)] /\ op[t] \in Call(Request)
  BY DEF GoodStore, StoreTypeOK
<1>2. op[t].name \notin Mutator \cup {"none"} /\ UNCHANGED <<account, reflect>>
  BY DEF Querying, QueryAccountGet, QueryReflectGet, QueryReflectsGet, CreateActiveLinkGet,
     CreateActiveLinkSet, GetActiveLinkGet, RemoveActiveLinkDelete, tables, Mutator,
     WriteRequest, SetLink
<1>3. CASE QueryAccountGet(t)
  BY <1>1, <1>2, <1>3 DEF QueryAccountGet, Call
<1>4. CASE QueryReflectGet(t)
  BY <1>1, <1>2, <1>4 DEF QueryReflectGet, Call
<1>5. CASE QueryReflectsGet(t)
  <2>1. PICK e \in op[t].todo :
           op' = [op EXCEPT ![t].todo = @ \ {e},
                            ![t].answer = @ \cup ({<<e, reflect[e]>>} \ {<<e, NoAddress>>}),
                            ![t].pc = IF op[t].todo = {e} THEN "done" ELSE "begin",
                            ![t].res = IF op[t].todo = {e} THEN "ok" ELSE "none"]
    BY <1>5 DEF QueryReflectsGet
  <2>. QED
    BY <1>1, <1>2, <2>1 DEF Call
<1>6. CASE CreateActiveLinkGet(t)
  BY <1>2, <1>6, ReturnFields, StoreFields DEF CreateActiveLinkGet, SameArguments
<1>7. CASE CreateActiveLinkSet(t) \/ RemoveActiveLinkDelete(t)
  BY <1>2, <1>7, ReturnFields DEF CreateActiveLinkSet, RemoveActiveLinkDelete, SameArguments
<1>8. CASE GetActiveLinkGet(t)
  BY <1>1, <1>2, <1>8 DEF GetActiveLinkGet, Call
<1>. QED
  BY <1>3, <1>4, <1>5, <1>6, <1>7, <1>8 DEF Querying

(* Only a call that runs makes a step, one request at a time, and no step  *)
(* touches the call of another goroutine.                                  *)
LEMMA StepOfOne ==
    ASSUME GoodStore, NEW t \in Thread, StoreStep(t)
    PROVE  /\ Running(t)
           /\ UNCHANGED tables \/ WriteRequest(t)
           /\ \A u \in Thread \ {t} : op'[u] = op[u]
<1>1. op \in [Thread -> Call(Request)] /\ GoodCall(op[t])
  BY DEF GoodStore, StoreTypeOK
<1>2. Running(t)
  BY DEF StoreStep, QueryAccountGet, QueryReflectGet, QueryReflectsGet, ActiveAccountGet,
     UpdateAccountLevelGet, UpdateBindingGet, UpdateBindingGetReflect, UpdateBindingSetReflect,
     UpdateBindingGetOld, UpdateBindingSetOld, DeleteBindingGet, UninstallByUserGet,
     DeleteAccountGet, DeleteAccountDelete, SaveAccount, DeleteEmailReflect,
     CreateActiveLinkGet,
     CreateActiveLinkSet, GetActiveLinkGet, RemoveActiveLinkDelete, RequestFails
<1>3. UNCHANGED tables \/ WriteRequest(t)
  BY DEF StoreStep, QueryAccountGet, QueryReflectGet, QueryReflectsGet, ActiveAccountGet,
     UpdateAccountLevelGet, UpdateBindingGet, UpdateBindingGetReflect, UpdateBindingSetReflect,
     UpdateBindingGetOld, UpdateBindingSetOld, DeleteBindingGet, UninstallByUserGet,
     DeleteAccountGet, DeleteAccountDelete, SaveAccount, DeleteEmailReflect,
     CreateActiveLinkGet,
     CreateActiveLinkSet, GetActiveLinkGet, RemoveActiveLinkDelete, RequestFails, WriteRequest
<1>4. \E c : op' = [op EXCEPT ![t] = c]
  <2>1. ASSUME NEW res, Return(t, res) PROVE \E c : op' = [op EXCEPT ![t] = c]
    BY <1>1, <2>1 DEF Return
  <2>2. ASSUME NEW place, NEW doc, Store(t, place, doc) PROVE \E c : op' = [op EXCEPT ![t] = c]
    BY <1>1, <2>2 DEF Store
  <2>3. ASSUME NEW rest, DeleteReflects(t, rest) PROVE \E c : op' = [op EXCEPT ![t] = c]
    BY <1>1, <2>1, <2>3 DEF DeleteReflects
  <2>4. CASE QueryAccountGet(t) \/ QueryReflectGet(t) \/ QueryReflectsGet(t) \/ GetActiveLinkGet(t)
    <3>1. CASE QueryAccountGet(t)
      BY <1>1, <3>1 DEF QueryAccountGet
    <3>2. CASE QueryReflectGet(t)
      BY <1>1, <3>2 DEF QueryReflectGet
    <3>3. CASE QueryReflectsGet(t)
      <4>1. PICK e \in op[t].todo :
               op' = [op EXCEPT ![t].todo = @ \ {e},
                                ![t].answer = @ \cup ({<<e, reflect[e]>>} \ {<<e, NoAddress>>}),
                                ![t].pc = IF op[t].todo = {e} THEN "done" ELSE "begin",
                                ![t].res = IF op[t].todo = {e} THEN "ok" ELSE "none"]
        BY <3>3 DEF QueryReflectsGet
      <4>. QED
        BY <1>1, <4>1
    <3>4. CASE GetActiveLinkGet(t)
      <4>. DEFINE data == link[op[t].token]
                  c == [op[t] EXCEPT !.pc = "done", !.res = IF data.found THEN "ok" ELSE "err",
                                     !.addr = data.addr, !.email = data.email,
                                     !.unbind = data.unbind]
      <4>1. op' = [op EXCEPT ![t] = c]
        BY <1>1, <3>4 DEF GetActiveLinkGet
      <4>. QED
        BY <4>1
    <3>. QED
      BY <2>4, <3>1, <3>2, <3>3, <3>4
  <2>5. CASE UpdateBindingGetReflect(t) \/ DeleteBindingGet(t) \/ UninstallByUserGet(t)
    <3>1. CASE UpdateBindingGetReflect(t)
      BY <1>1, <3>1 DEF UpdateBindingGetReflect
    <3>2. CASE DeleteBindingGet(t)
      BY <1>1, <2>1, <3>2 DEF DeleteBindingGet
    <3>3. CASE UninstallByUserGet(t)
      BY <1>1, <2>1, <3>3 DEF UninstallByUserGet
    <3>. QED
      BY <2>5, <3>1, <3>2, <3>3
  <2>6. CASE ActiveAccountGet(t) \/ UpdateAccountLevelGet(t) \/ UpdateBindingGet(t)
             \/ UpdateBindingSetReflect(t) \/ UpdateBindingGetOld(t) \/ UpdateBindingSetOld(t)
    BY <2>1, <2>2, <2>6, Zenon DEF ActiveAccountGet, UpdateAccountLevelGet, UpdateBindingGet,
       UpdateBindingSetReflect, UpdateBindingGetOld, UpdateBindingSetOld
  <2>7. CASE DeleteAccountGet(t) \/ DeleteAccountDelete(t) \/ SaveAccount(t)
             \/ DeleteEmailReflect(t) \/ RequestFails(t)
    BY <2>1, <2>2, <2>3, <2>7, Zenon DEF DeleteAccountGet, DeleteAccountDelete, SaveAccount,
       DeleteEmailReflect, RequestFails
  <2>8. CASE CreateActiveLinkGet(t) \/ CreateActiveLinkSet(t) \/ RemoveActiveLinkDelete(t)
    BY <2>1, <2>2, <2>8, Zenon DEF CreateActiveLinkGet, CreateActiveLinkSet,
       RemoveActiveLinkDelete
  <2>. QED
    BY <2>4, <2>5, <2>6, <2>7, <2>8 DEF StoreStep
<1>. QED
  BY <1>1, <1>2, <1>3, <1>4

-----------------------------------------------------------------------------
(* What a step does to the call as its caller sees it.                     *)

(* A method keeps the arguments it was called with (GetActiveLink answers  *)
(* in their place), and never panics.                                      *)
LEMMA CallKept ==
    ASSUME GoodStore, NEW t \in Thread, StoreStep(t)
    PROVE  /\ op'[t].name = op[t].name /\ op'[t].token = op[t].token
           /\ op[t].name # "GetActiveLink" =>
                 op'[t].addr = op[t].addr /\ op'[t].email = op[t].email
           /\ op'[t].pc # "idle"
           /\ op'[t].pc = "done" => op'[t].res \in {"ok", "err"}
<1>. DEFINE Goal == /\ op'[t].name = op[t].name /\ op'[t].token = op[t].token
                    /\ op[t].name # "GetActiveLink" =>
                          op'[t].addr = op[t].addr /\ op'[t].email = op[t].email
                    /\ op'[t].pc # "idle"
                    /\ op'[t].pc = "done" => op'[t].res \in {"ok", "err"}
<1>1. op \in [Thread -> Call(Request)] /\ op[t] \in Call(Request)
  BY DEF GoodStore, StoreTypeOK
<1>2. ASSUME NEW res \in {"ok", "err"}, Return(t, res) PROVE Goal
  BY <1>1, <1>2 DEF Return, Call
<1>3. ASSUME NEW place \in Request, NEW doc, Store(t, place, doc) PROVE Goal
  BY <1>1, <1>3 DEF Store, Call, Request
<1>4. ASSUME NEW rest, DeleteReflects(t, rest) PROVE Goal
  BY <1>1, <1>2, <1>4 DEF DeleteReflects, Call
<1>5. CASE QueryAccountGet(t) \/ QueryReflectGet(t)
  <2>1. CASE QueryAccountGet(t)
    BY <1>1, <2>1 DEF QueryAccountGet, Call
  <2>2. CASE QueryReflectGet(t)
    BY <1>1, <2>2 DEF QueryReflectGet, Call
  <2>. QED
    BY <1>5, <2>1, <2>2
<1>6. CASE QueryReflectsGet(t)
  <2>1. PICK e \in op[t].todo :
           op' = [op EXCEPT ![t].todo = @ \ {e},
                            ![t].answer = @ \cup ({<<e, reflect[e]>>} \ {<<e, NoAddress>>}),
                            ![t].pc = IF op[t].todo = {e} THEN "done" ELSE "begin",
                            ![t].res = IF op[t].todo = {e} THEN "ok" ELSE "none"]
    BY <1>6 DEF QueryReflectsGet
  <2>. QED
    BY <1>1, <2>1 DEF Call
<1>7. CASE GetActiveLinkGet(t)
  BY <1>1, <1>7 DEF GetActiveLinkGet, Call
<1>8. CASE UpdateBindingGetReflect(t) \/ DeleteBindingGet(t) \/ UninstallByUserGet(t)
  <2>1. CASE UpdateBindingGetReflect(t)
    BY <1>1, <2>1 DEF UpdateBindingGetReflect, Call
  <2>2. CASE DeleteBindingGet(t)
    BY <1>1, <1>2, <2>2 DEF DeleteBindingGet, Call
  <2>3. CASE UninstallByUserGet(t)
    BY <1>1, <1>2, <2>3 DEF UninstallByUserGet, Call
  <2>. QED
    BY <1>8, <2>1, <2>2, <2>3
<1>9. CASE ActiveAccountGet(t) \/ UpdateAccountLevelGet(t) \/ UpdateBindingGet(t)
           \/ UpdateBindingSetReflect(t) \/ UpdateBindingGetOld(t) \/ UpdateBindingSetOld(t)
  BY <1>2, <1>3, <1>9 DEF ActiveAccountGet, UpdateAccountLevelGet, UpdateBindingGet,
     UpdateBindingSetReflect, UpdateBindingGetOld, UpdateBindingSetOld, Request
<1>10. CASE DeleteAccountGet(t) \/ DeleteAccountDelete(t) \/ SaveAccount(t)
            \/ DeleteEmailReflect(t) \/ RequestFails(t)
  BY <1>2, <1>3, <1>4, <1>10 DEF DeleteAccountGet, DeleteAccountDelete, SaveAccount,
     DeleteEmailReflect, RequestFails, Request
<1>11. CASE CreateActiveLinkGet(t) \/ CreateActiveLinkSet(t) \/ RemoveActiveLinkDelete(t)
  BY <1>2, <1>3, <1>11 DEF CreateActiveLinkGet, CreateActiveLinkSet, RemoveActiveLinkDelete,
     Request
<1>. QED
  BY <1>5, <1>6, <1>7, <1>8, <1>9, <1>10, <1>11 DEF StoreStep

(* The document that a query reads next goes to its answer.                *)
Answers(c, d) ==
    \E e \in c.todo :
        /\ d.todo = c.todo \ {e}
        /\ d.answer = c.answer \cup ({<<e, reflect[e]>>} \ {<<e, NoAddress>>})
        /\ d.pc = "done" \/ d.res = "ok" => d.todo = {}

(* A query answers what is stored when it reads it, or with an error.      *)
LEMMA QueryAnswers ==
    ASSUME GoodStore, NEW t \in Thread, StoreStep(t),
           op[t].name \in {"QueryAccount", "QueryReflectByOneEmail", "QueryReflectsByEmails",
                           "GetActiveLink"}
    PROVE  LET c == op[t]
               d == op'[t]
           IN  /\ UNCHANGED tables
               /\ \/ d.pc = "done" /\ d.res = "err"
                  \/ c.name = "QueryAccount" /\ d.doc = account[c.addr]
                  \/ c.name = "QueryReflectByOneEmail" /\ d.owner = reflect[c.email]
                  \/ c.name = "QueryReflectsByEmails" /\ Answers(c, d)
                  \/ /\ c.name = "GetActiveLink" /\ link[c.token].found
                     /\ d.addr = link[c.token].addr /\ d.email = link[c.token].email
<1>. DEFINE c == op[t]
            d == op'[t]
<1>1. op \in [Thread -> Call(Request)] /\ c \in Call(Request) /\ GoodCall(c)
  BY DEF GoodStore, StoreTypeOK
<1>2. ~WriteRequest(t)
  BY <1>1 DEF WriteRequest, GoodCall, Mutator
<1>3. UNCHANGED tables
  BY <1>2, StepOfOne
<1>4. ASSUME NEW res, Return(t, res) PROVE d.pc = "done" /\ d.res = res
  BY <1>4, ReturnFields
<1>5. CASE QueryAccountGet(t)
  BY <1>1, <1>3, <1>5 DEF QueryAccountGet, Call
<1>6. CASE QueryReflectGet(t)
  BY <1>1, <1>3, <1>6 DEF QueryReflectGet, Call
<1>7. CASE QueryReflectsGet(t)
  <2>1. PICK e \in c.todo :
           op' = [op EXCEPT ![t].todo = @ \ {e},
                            ![t].answer = @ \cup ({<<e, reflect[e]>>} \ {<<e, NoAddress>>}),
                            ![t].pc = IF c.todo = {e} THEN "done" ELSE "begin",
                            ![t].res = IF c.todo = {e} THEN "ok" ELSE "none"]
    BY <1>7 DEF QueryReflectsGet
  <2>2. /\ d.todo = c.todo \ {e}
        /\ d.answer = c.answer \cup ({<<e, reflect[e]>>} \ {<<e, NoAddress>>})
        /\ d.pc = IF c.todo = {e} THEN "done" ELSE "begin"
        /\ d.res = IF c.todo = {e} THEN "ok" ELSE "none"
    BY <1>1, <2>1 DEF Call
  <2>3. Answers(c, d)
    BY <2>2 DEF Answers
  <2>. QED
    BY <1>3, <1>7, <2>3 DEF QueryReflectsGet
<1>8. CASE GetActiveLinkGet(t)
  <2>1. /\ c.name = "GetActiveLink" /\ d.pc = "done"
        /\ d.res = IF link[c.token].found THEN "ok" ELSE "err"
        /\ d.addr = link[c.token].addr /\ d.email = link[c.token].email
    BY <1>1, <1>8 DEF GetActiveLinkGet, Call
  <2>. QED
    BY <1>3, <2>1
<1>9. CASE RequestFails(t)
  BY <1>3, <1>4, <1>9 DEF RequestFails
<1>. QED
  BY <1>1, <1>5, <1>6, <1>7, <1>8, <1>9
  DEF StoreStep, ActiveAccountGet, UpdateAccountLevelGet, UpdateBindingGet,
      UpdateBindingGetReflect,
      UpdateBindingSetReflect, UpdateBindingGetOld, UpdateBindingSetOld, DeleteBindingGet,
      UninstallByUserGet, DeleteAccountGet, DeleteAccountDelete, SaveAccount,
      DeleteEmailReflect,
      CreateActiveLinkGet, CreateActiveLinkSet, RemoveActiveLinkDelete, GoodCall, Mutator

(* A link is stored by the CreateActiveLink of its token, which does not   *)
(* succeed without, and goes only by its RemoveActiveLink.                 *)
LEMMA LinkMoves ==
    ASSUME GoodStore, NEW t \in Thread, StoreStep(t)
    PROVE  LET c == op[t]
           IN  /\ \A k \in Token \ {c.token} : link'[k] = link[k]
               /\ c.name \notin {"CreateActiveLink", "RemoveActiveLink"} => UNCHANGED link
               /\ c.name = "CreateActiveLink" =>
                     \/ UNCHANGED link /\ ~Returned(t, "CreateActiveLink", "ok")'
                     \/ link'[c.token] = [found |-> TRUE, addr |-> c.addr, email |-> c.email,
                                          unbind |-> c.unbind]
               /\ c.name = "RemoveActiveLink" => UNCHANGED link \/ link'[c.token] = NoLink
<1>. DEFINE c == op[t]
            data == [found |-> TRUE, addr |-> c.addr, email |-> c.email, unbind |-> c.unbind]
<1>1. op \in [Thread -> Call(Request)] /\ c \in Call(Request) /\ GoodCall(c)
      /\ link \in [Token -> LinkData]
  BY DEF GoodStore, StoreTypeOK
<1>2. \/ UNCHANGED link
      \/ c.name = "CreateActiveLink" /\ link' = [link EXCEPT ![c.token] = data]
      \/ c.name = "RemoveActiveLink" /\ link' = [link EXCEPT ![c.token] = NoLink]
  BY <1>1, StepOfOne DEF WriteRequest, SetAccount, SetReflect, SetLink, tables, GoodCall
<1>3. ASSUME c.name = "CreateActiveLink", Returned(t, "CreateActiveLink", "ok")'
      PROVE  link' = [link EXCEPT ![c.token] = data]
  <2>1. ASSUME NEW res, Return(t, res) PROVE op'[t].res = res
    BY <2>1, ReturnFields
  <2>2. ~RequestFails(t) /\ ~CreateActiveLinkGet(t)
    <3>1. ASSUME Store(t, "setLink", NoDoc) PROVE FALSE
      BY <1>3, <3>1, StoreFields
    <3>. QED
      BY <1>3, <2>1, <3>1 DEF RequestFails, CreateActiveLinkGet
  <2>3. CreateActiveLinkSet(t)
    BY <1>1, <1>3, <2>2
    DEF StoreStep, QueryAccountGet, QueryReflectGet, QueryReflectsGet, ActiveAccountGet,
        UpdateAccountLevelGet, UpdateBindingGet, UpdateBindingGetReflect,
        UpdateBindingSetReflect,
        UpdateBindingGetOld, UpdateBindingSetOld, DeleteBindingGet, UninstallByUserGet,
        DeleteAccountGet, DeleteAccountDelete, SaveAccount, DeleteEmailReflect,
        GetActiveLinkGet,
        RemoveActiveLinkDelete, GoodCall, Mutator
  <2>. QED
    BY <2>3 DEF CreateActiveLinkSet, WriteRequest, SetLink
<1>4. c.name \in {"CreateActiveLink", "RemoveActiveLink"} => c.token \in Token
  BY <1>1 DEF GoodCall, TakesToken
<1>. HIDE DEF data
<1>5. \A k \in Token \ {c.token} : link'[k] = link[k]
  BY <1>1, <1>2
<1>6. c.name = "CreateActiveLink" =>
         (UNCHANGED link /\ ~Returned(t, "CreateActiveLink", "ok")') \/ link'[c.token] = data
  BY <1>1, <1>2, <1>3, <1>4
<1>7. c.name = "RemoveActiveLink" => UNCHANGED link \/ link'[c.token] = NoLink
  BY <1>1, <1>2, <1>4
<1>. QED
  BY <1>2, <1>5, <1>6, <1>7 DEF data

=============================================================================
