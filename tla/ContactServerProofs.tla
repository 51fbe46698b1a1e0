------------------------- MODULE ContactServerProofs -------------------------
EXTENDS ContactServer, FiniteSetTheorems, TLAPS

-----------------------------------------------------------------------------
(* The calls of the handlers, as the backends see them.                    *)

TakesAddress == Mutator \cup {"QueryAccount", "CreateActiveLink"}
TakesEmail == {"UpdateBinding", "DeleteBinding", "QueryReflectByOneEmail", "CreateActiveLink"}
TakesToken == {"CreateActiveLink", "GetActiveLink", "RemoveActiveLink"}

(* A call just made, of this method.                                       *)
Begun(c, name) ==
    /\ c \in Call({}) /\ c.pc = "begin" /\ c.res = "none" /\ c.name = name
    /\ c.owner = NoAddress /\ c.answer = {} /\ c.doc = NoDoc

(* A call of this method with these arguments, as far as it takes them.    *)
Fits(c, name, a, e, k) ==
    /\ c.name = name
    /\ name \in TakesAddress => c.addr = a /\ a \in Address
    /\ name \in TakesEmail => c.email = e /\ e \in Email
    /\ name \in TakesToken => c.token = k /\ k \in Token

LEMMA NoCallTyped == NoCall \in Call({}) /\ NoDoc \in Doc
BY DEF NoCall, Call, NoDoc, Doc, StoredLevel, Answer

LEMMA CallingBegun == \A name \in Method : Begun(Calling(name), name)
BY NoCallTyped DEF Begun, Calling, Call, NoCall


(* The calls that the handlers make.                                       *)
LEMMA CallsBegin ==
    /\ \A a \in Address :
          /\ Begun(QueryAccount(a), "QueryAccount")
          /\ \A y, z : Fits(QueryAccount(a), "QueryAccount", a, y, z)
    /\ \A a \in Address, l \in StoredLevel :
          /\ Begun(ActiveAccount(a, l), "ActiveAccount")
          /\ \A y, z : Fits(ActiveAccount(a, l), "ActiveAccount", a, y, z)
    /\ \A a \in Address :
          /\ Begun(DeleteAccount(a), "DeleteAccount")
          /\ \A y, z : Fits(DeleteAccount(a), "DeleteAccount", a, y, z)
    /\ \A a \in Address, l \in StoredLevel :
          /\ Begun(UpdateAccountLevel(a, l), "UpdateAccountLevel")
          /\ \A y, z : Fits(UpdateAccountLevel(a, l), "UpdateAccountLevel", a, y, z)
    /\ \A a \in Address :
          /\ Begun(UninstallByUser(a), "UninstallByUser")
          /\ \A y, z : Fits(UninstallByUser(a), "UninstallByUser", a, y, z)
    /\ \A a \in Address, e \in Email :
          /\ Begun(UpdateBinding(a, e), "UpdateBinding")
          /\ \A z : Fits(UpdateBinding(a, e), "UpdateBinding", a, e, z)
    /\ \A a \in Address, e \in Email :
          /\ Begun(DeleteBinding(a, e), "DeleteBinding")
          /\ \A z : Fits(DeleteBinding(a, e), "DeleteBinding", a, e, z)
    /\ \A a \in Address, k \in Token, e \in Email, unbind \in BOOLEAN :
          /\ Begun(CreateActiveLink(k, a, e, unbind), "CreateActiveLink")
          /\ Fits(CreateActiveLink(k, a, e, unbind), "CreateActiveLink", a, e, k)
    /\ \A e \in Email :
          /\ Begun(QueryReflectByOneEmail(e), "QueryReflectByOneEmail")
          /\ \A x, z : Fits(QueryReflectByOneEmail(e), "QueryReflectByOneEmail", x, e, z)
    /\ \A k \in Token :
          /\ Begun(GetActiveLink(k), "GetActiveLink")
          /\ \A x, y : Fits(GetActiveLink(k), "GetActiveLink", x, y, k)
    /\ \A k \in Token :
          /\ Begun(RemoveActiveLink(k), "RemoveActiveLink")
          /\ \A x, y : Fits(RemoveActiveLink(k), "RemoveActiveLink", x, y, k)
    /\ \A es \in SUBSET Email :
          /\ Begun(QueryReflectsByEmails(es), "QueryReflectsByEmails")
          /\ \A x, y, z : Fits(QueryReflectsByEmails(es), "QueryReflectsByEmails", x, y, z)
          /\ QueryReflectsByEmails(es).todo = es
<1>1. ASSUME NEW a \in Address
      PROVE  /\ Begun(QueryAccount(a), "QueryAccount")
             /\ \A y, z : Fits(QueryAccount(a), "QueryAccount", a, y, z)
  <2>1. Begun(Calling("QueryAccount"), "QueryAccount")
    BY CallingBegun DEF Method, Mutator
  <2>2. QueryAccount(a) \in Call({})
    BY <2>1, ZenonT(60) DEF QueryAccount, Begun, Call
  <2>3. /\ Begun(QueryAccount(a), "QueryAccount")
        /\ QueryAccount(a).addr = a
    BY <2>1, <2>2 DEF QueryAccount, Begun, Call
  <2>. QED
    BY <2>3 DEF Begun, Fits, TakesAddress, TakesEmail, TakesToken, Mutator
<1>2. ASSUME NEW a \in Address, NEW l \in StoredLevel
      PROVE  /\ Begun(ActiveAccount(a, l), "ActiveAccount")
             /\ \A y, z : Fits(ActiveAccount(a, l), "ActiveAccount", a, y, z)
  <2>1. Begun(Calling("ActiveAccount"), "ActiveAccount")
    BY CallingBegun DEF Method, Mutator
  <2>2. ActiveAccount(a, l) \in Call({})
    BY <2>1, ZenonT(60) DEF ActiveAccount, Begun, Call
  <2>3. /\ Begun(ActiveAccount(a, l), "ActiveAccount")
        /\ ActiveAccount(a, l).addr = a
    BY <2>1, <2>2 DEF ActiveAccount, Begun, Call
  <2>. QED
    BY <2>3 DEF Begun, Fits, TakesAddress, TakesEmail, TakesToken, Mutator
<1>3. ASSUME NEW a \in Address
      PROVE  /\ Begun(DeleteAccount(a), "DeleteAccount")
             /\ \A y, z : Fits(DeleteAccount(a), "DeleteAccount", a, y, z)
  <2>1. Begun(Calling("DeleteAccount"), "DeleteAccount")
    BY CallingBegun DEF Method, Mutator
  <2>2. DeleteAccount(a) \in Call({})
    BY <2>1, ZenonT(60) DEF DeleteAccount, Begun, Call
  <2>3. /\ Begun(DeleteAccount(a), "DeleteAccount")
        /\ DeleteAccount(a).addr = a
    BY <2>1, <2>2 DEF DeleteAccount, Begun, Call
  <2>. QED
    BY <2>3 DEF Begun, Fits, TakesAddress, TakesEmail, TakesToken, Mutator
<1>4. ASSUME NEW a \in Address, NEW l \in StoredLevel
      PROVE  /\ Begun(UpdateAccountLevel(a, l), "UpdateAccountLevel")
             /\ \A y, z : Fits(UpdateAccountLevel(a, l), "UpdateAccountLevel", a, y, z)
  <2>1. Begun(Calling("UpdateAccountLevel"), "UpdateAccountLevel")
    BY CallingBegun DEF Method, Mutator
  <2>2. UpdateAccountLevel(a, l) \in Call({})
    BY <2>1, ZenonT(60) DEF UpdateAccountLevel, Begun, Call
  <2>3. /\ Begun(UpdateAccountLevel(a, l), "UpdateAccountLevel")
        /\ UpdateAccountLevel(a, l).addr = a
    BY <2>1, <2>2 DEF UpdateAccountLevel, Begun, Call
  <2>. QED
    BY <2>3 DEF Begun, Fits, TakesAddress, TakesEmail, TakesToken, Mutator
<1>5. ASSUME NEW a \in Address
      PROVE  /\ Begun(UninstallByUser(a), "UninstallByUser")
             /\ \A y, z : Fits(UninstallByUser(a), "UninstallByUser", a, y, z)
  <2>1. Begun(Calling("UninstallByUser"), "UninstallByUser")
    BY CallingBegun DEF Method, Mutator
  <2>2. UninstallByUser(a) \in Call({})
    BY <2>1, ZenonT(60) DEF UninstallByUser, Begun, Call
  <2>3. /\ Begun(UninstallByUser(a), "UninstallByUser")
        /\ UninstallByUser(a).addr = a
    BY <2>1, <2>2 DEF UninstallByUser, Begun, Call
  <2>. QED
    BY <2>3 DEF Begun, Fits, TakesAddress, TakesEmail, TakesToken, Mutator
<1>6. ASSUME NEW a \in Address, NEW e \in Email
      PROVE  /\ Begun(UpdateBinding(a, e), "UpdateBinding")
             /\ \A z : Fits(UpdateBinding(a, e), "UpdateBinding", a, e, z)
  <2>1. Begun(Calling("UpdateBinding"), "UpdateBinding")
    BY CallingBegun DEF Method, Mutator
  <2>2. UpdateBinding(a, e) \in Call({})
    BY <2>1, ZenonT(60) DEF UpdateBinding, Begun, Call
  <2>3. /\ Begun(UpdateBinding(a, e), "UpdateBinding")
        /\ UpdateBinding(a, e).addr = a
        /\ UpdateBinding(a, e).email = e
    BY <2>1, <2>2 DEF UpdateBinding, Begun, Call
  <2>. QED
    BY <2>3 DEF Begun, Fits, TakesAddress, TakesEmail, TakesToken, Mutator
<1>7. ASSUME NEW a \in Address, NEW e \in Email
      PROVE  /\ Begun(DeleteBinding(a, e), "DeleteBinding")
             /\ \A z : Fits(DeleteBinding(a, e), "DeleteBinding", a, e, z)
  <2>1. Begun(Calling("DeleteBinding"), "DeleteBinding")
    BY CallingBegun DEF Method, Mutator
  <2>2. DeleteBinding(a, e) \in Call({})
    BY <2>1, ZenonT(60) DEF DeleteBinding, Begun, Call
  <2>3. /\ Begun(DeleteBinding(a, e), "DeleteBinding")
        /\ DeleteBinding(a, e).addr = a
        /\ DeleteBinding(a, e).email = e
    BY <2>1, <2>2 DEF DeleteBinding, Begun, Call
  <2>. QED
    BY <2>3 DEF Begun, Fits, TakesAddress, TakesEmail, TakesToken, Mutator
<1>8. ASSUME NEW a \in Address, NEW k \in Token, NEW e \in Email, NEW unbind \in BOOLEAN
      PROVE  /\ Begun(CreateActiveLink(k, a, e, unbind), "CreateActiveLink")
             /\ Fits(CreateActiveLink(k, a, e, unbind), "CreateActiveLink", a, e, k)
  <2>1. Begun(Calling("CreateActiveLink"), "CreateActiveLink")
    BY CallingBegun DEF Method, Mutator
  <2>2. CreateActiveLink(k, a, e, unbind) \in Call({})
    BY <2>1, ZenonT(60) DEF CreateActiveLink, Begun, Call
  <2>3. /\ Begun(CreateActiveLink(k, a, e, unbind), "CreateActiveLink")
        /\ CreateActiveLink(k, a, e, unbind).addr = a
        /\ CreateActiveLink(k, a, e, unbind).token = k
        /\ CreateActiveLink(k, a, e, unbind).email = e
    BY <2>1, <2>2 DEF CreateActiveLink, Begun, Call
  <2>. QED
    BY <2>3 DEF Begun, Fits, TakesAddress, TakesEmail, TakesToken, Mutator
<1>9. ASSUME NEW e \in Email
      PROVE  /\ Begun(QueryReflectByOneEmail(e), "QueryReflectByOneEmail")
             /\ \A x, z : Fits(QueryReflectByOneEmail(e), "QueryReflectByOneEmail", x, e, z)
  <2>1. Begun(Calling("QueryReflectByOneEmail"), "QueryReflectByOneEmail")
    BY CallingBegun DEF Method, Mutator
  <2>2. QueryReflectByOneEmail(e) \in Call({})
    BY <2>1, ZenonT(60) DEF QueryReflectByOneEmail, Begun, Call
  <2>3. /\ Begun(QueryReflectByOneEmail(e), "QueryReflectByOneEmail")
        /\ QueryReflectByOneEmail(e).email = e
    BY <2>1, <2>2 DEF QueryReflectByOneEmail, Begun, Call
  <2>. QED
    BY <2>3 DEF Begun, Fits, TakesAddress, TakesEmail, TakesToken, Mutator
<1>10. ASSUME NEW k \in Token
      PROVE  /\ Begun(GetActiveLink(k), "GetActiveLink")
             /\ \A x, y : Fits(GetActiveLink(k), "GetActiveLink", x, y, k)
  <2>1. Begun(Calling("GetActiveLink"), "GetActiveLink")
    BY CallingBegun DEF Method, Mutator
  <2>2. GetActiveLink(k) \in Call({})
    BY <2>1, ZenonT(60) DEF GetActiveLink, Begun, Call
  <2>3. /\ Begun(GetActiveLink(k), "GetActiveLink")
        /\ GetActiveLink(k).token = k
    BY <2>1, <2>2 DEF GetActiveLink, Begun, Call
  <2>. QED
    BY <2>3 DEF Begun, Fits, TakesAddress, TakesEmail, TakesToken, Mutator
<1>11. ASSUME NEW k \in Token
      PROVE  /\ Begun(RemoveActiveLink(k), "RemoveActiveLink")
             /\ \A x, y : Fits(RemoveActiveLink(k), "RemoveActiveLink", x, y, k)
  <2>1. Begun(Calling("RemoveActiveLink"), "RemoveActiveLink")
    BY CallingBegun DEF Method, Mutator
  <2>2. RemoveActiveLink(k) \in Call({})
    BY <2>1, ZenonT(60) DEF RemoveActiveLink, Begun, Call
  <2>3. /\ Begun(RemoveActiveLink(k), "RemoveActiveLink")
        /\ RemoveActiveLink(k).token = k
    BY <2>1, <2>2 DEF RemoveActiveLink, Begun, Call
  <2>. QED
    BY <2>3 DEF Begun, Fits, TakesAddress, TakesEmail, TakesToken, Mutator
<1>12. ASSUME NEW es \in SUBSET Email
      PROVE  /\ Begun(QueryReflectsByEmails(es), "QueryReflectsByEmails")
             /\ \A x, y, z : Fits(QueryReflectsByEmails(es), "QueryReflectsByEmails", x, y, z)
             /\ QueryReflectsByEmails(es).todo = es
  <2>1. Begun(Calling("QueryReflectsByEmails"), "QueryReflectsByEmails")
    BY CallingBegun DEF Method, Mutator
  <2>2. QueryReflectsByEmails(es) \in Call({})
    BY <2>1, ZenonT(60) DEF QueryReflectsByEmails, Begun, Call
  <2>3. /\ Begun(QueryReflectsByEmails(es), "QueryReflectsByEmails")
        /\ QueryReflectsByEmails(es).todo = es
    BY <2>1, <2>2 DEF QueryReflectsByEmails, Begun, Call
  <2>. QED
    BY <2>3 DEF Begun, Fits, TakesAddress, TakesEmail, TakesToken, Mutator
<1>. QED
  BY <1>1, <1>2, <1>3, <1>4, <1>5, <1>6, <1>7, <1>8, <1>9, <1>10, <1>11, <1>12

-----------------------------------------------------------------------------
(* The requests, and the calls they wait for.                              *)

(* The call whose return a handler waits for at its places.                *)
MethodOf(r) ==
    CASE r.pc \in {"rights", "receivers"} -> "QueryAccount"
      [] r.pc = "owner" -> "QueryReflectByOneEmail"
      [] r.pc \in {"link", "created", "mail"} -> "CreateActiveLink"
      [] r.pc = "verify" -> "GetActiveLink"
      [] r.pc = "activated" -> "ActiveAccount"
      [] r.pc = "bound" -> "UpdateBinding"
      [] OTHER ->
            CASE r.handler = "AccountActive" -> "ActiveAccount"
              [] r.handler = "BindAccount" -> "UpdateBinding"
              [] r.handler = "UnbindAccount" -> "DeleteBinding"
              [] r.handler = "UninstallByUser" -> "UninstallByUser"
              [] r.handler = "updateUserLevel" -> "UpdateAccountLevel"
              [] r.handler = "deleteUser" -> "DeleteAccount"
              [] r.handler \in {"QueryAccount", "queryUserLevel"} -> "QueryAccount"
              [] r.handler = "queryEmailReflect" -> "QueryReflectByOneEmail"
              [] r.handler = "QueryReflectByEmailArray" -> "QueryReflectsByEmails"
              [] OTHER -> "RemoveActiveLink"

Waits(r, c) ==
    /\ r.pc = "idle" => c = NoCall
    /\ r.pc # "idle" => c.pc # "idle" /\ Fits(c, MethodOf(r), r.addr, r.email, r.token)
    /\ r.pc = "mail" => c.pc = "done" /\ c.res = "ok"
    /\ c.name = "GetActiveLink" /\ c.pc = "done" /\ c.res = "ok" =>
          c.addr \in Address /\ c.email \in Email

(* The places of each handler, and what it has been called with.           *)
Serves(r) ==
    /\ r.pc = "rights" => r.handler \in {"BindAccount", "ActiveVerify"}
    /\ r.pc \in {"owner", "link"} => r.handler = "BindAccount"
    /\ r.pc = "created" => r.handler = "ActiveByEmail"
    /\ r.pc = "mail" => r.handler \in {"BindAccount", "ActiveByEmail"}
    /\ r.pc \in {"verify", "activated", "bound"} => r.handler = "ActiveVerify"
    /\ r.pc = "receivers" => r.handler = "DecryptByAdmin"
    /\ r.pc = "result" => r.handler \in Handler \ {"ActiveByEmail", "DecryptByAdmin"}
    /\ r.handler \in {"BindAccount", "UnbindAccount"} =>
          r.addr \in Address /\ r.email \in conf.email
    /\ r.handler = "UninstallByUser" => r.addr \in Address
    /\ r.handler = "ActiveVerify" =>
          /\ r.token \in Token
          /\ r.pc \notin {"idle", "verify"} => r.addr \in Address /\ r.email \in Email
    /\ r.handler = "BindAccount" /\ r.pc \in {"link", "mail"} => r.reply = "confirm"

(* What a goroutine does to its request and its call, from one place of    *)
(* the handler to the next.                                                *)
Goes(t, r, c) ==
    LET q == req[t]
        d == op[t]
        arrived == q.pc = "idle"
        on == d.pc = "done" /\ r.handler = q.handler /\ r.addr = q.addr /\ r.email = q.email
        same == on /\ r.token = q.token
        right == d.res = "ok" /\ HasRight(d.doc)
    IN  /\ r.pc = "idle" =>
              /\ same /\ q.pc # "idle"
              /\ r.reply = "ok" =>
                    \/ q.pc = "result" /\ d.res = "ok"
                    \/ q.pc = "owner" /\ d.res = "ok" /\ d.owner = q.addr
                    \/ q.pc = "receivers"
                    \/ q.pc = "mail" /\ q.reply = "ok"
        /\ r.pc = "rights" =>
              \/ arrived /\ r.handler = "BindAccount"
              \/ same /\ q.pc = "activated" /\ d.res = "ok"
        /\ r.pc = "owner" => same /\ q.pc = "rights" /\ right
        /\ r.pc = "link" =>
              on /\ q.pc = "owner" /\ d.res = "ok" /\ d.owner \notin {NoAddress, r.addr}
        /\ r.pc \in {"created", "verify", "receivers"} => arrived
        /\ r.pc = "mail" => same /\ q.pc \in {"link", "created"} /\ d.res = "ok" /\ c = d
        /\ r.pc = "verify" => r.token \in inbox
        /\ r.pc = "activated" =>
              /\ q.pc = "verify" /\ d.pc = "done" /\ d.res = "ok"
              /\ r.token = q.token /\ r.addr = d.addr /\ r.email = d.email
        /\ r.pc = "bound" => same /\ q.pc = "rights" /\ right
        /\ r.pc = "result" =>
              \/ arrived /\ r.handler \notin {"BindAccount", "ActiveVerify"}
              \/ same /\ q.pc = "owner" /\ d.res = "ok" /\ d.owner = NoAddress
              \/ same /\ q.pc = "bound" /\ d.res = "ok"
        /\ r.pc \notin {"idle", "mail"} => Begun(c, c.name)
        /\ c.name = "QueryReflectByOneEmail" => c.email \in conf.email
        /\ c.name = "QueryReflectsByEmails" => c.todo = r.emails /\ r.emails \subseteq conf.email
        /\ IF r.pc \in {"link", "created"}
           THEN r.token \in Token \ issued /\ issued' = issued \cup {r.token}
           ELSE issued' = issued
        /\ inbox' = inbox \/ (q.pc = "mail" /\ inbox' = inbox \cup {q.token})
        /\ expired' = expired

Configured ==
    /\ conf.database_typ \in Int /\ conf.levels \subseteq Int /\ conf.served \subseteq Handler
    /\ conf.thread \subseteq Thread /\ conf.address \subseteq Address /\ conf.email \subseteq Email

Service ==
    /\ Configured /\ ServiceTypeOK
    /\ op = [t \in Thread |-> op[t]]
    /\ \A t \in Thread : Waits(req[t], op[t]) /\ Serves(req[t])
    /\ \A t \in Thread \ conf.thread : req[t].pc = "idle"

-----------------------------------------------------------------------------
(* One step of a handler.                                                  *)

Turns(t) ==
    \E r, c :
        /\ r \in Req
        /\ req' = [req EXCEPT ![t] = r] /\ op' = [op EXCEPT ![t] = c]
        /\ Waits(r, c) /\ Serves(r) /\ Goes(t, r, c)

LEMMA NoReqTyped == NoReq \in Req
BY DEF NoReq, Req

LEMMA RequestFacts ==
    ASSUME Service, NEW t \in conf.thread
    PROVE  /\ t \in Thread /\ req \in [Thread -> Req] /\ req[t] \in Req
           /\ op = [u \in Thread |-> op[u]]
           /\ Waits(req[t], op[t]) /\ Serves(req[t]) /\ Configured
           /\ inbox \subseteq Token /\ issued \subseteq Token
BY DEF Service, Configured, ServiceTypeOK

(* A request arrives and makes its first call.                             *)
LEMMA Arrives ==
    ASSUME Service, NEW t \in conf.thread, req[t].pc = "idle",
           NEW r, NEW c, r \in Req, req' = [req EXCEPT ![t] = r], Invoke(t, c),
           r.pc \in {"rights", "created", "verify", "receivers", "result"},
           Serves(r), Begun(c, c.name), Fits(c, MethodOf(r), r.addr, r.email, r.token),
           r.pc = "rights" => r.handler = "BindAccount",
           r.pc = "verify" => r.token \in inbox,
           r.pc = "result" => r.handler \notin {"BindAccount", "ActiveVerify"},
           c.name = "QueryReflectByOneEmail" => c.email \in conf.email,
           c.name = "QueryReflectsByEmails" => c.todo = r.emails /\ r.emails \subseteq conf.email,
           IF r.pc = "created" THEN r.token \in Token \ issued /\ issued' = issued \cup {r.token}
                               ELSE issued' = issued,
           UNCHANGED <<inbox, expired>>
    PROVE  Turns(t)
<1>1. op' = [op EXCEPT ![t] = c]
  BY DEF Invoke
<1>2. Waits(r, c)
  BY DEF Waits, Begun
<1>3. Goes(t, r, c)
  BY DEF Goes
<1>. QED
  BY <1>1, <1>2, <1>3 DEF Turns

(* The handler is done.                                                    *)
LEMMA Finishes ==
    ASSUME Service, NEW t \in conf.thread, req[t].pc # "idle", op[t].pc = "done",
           NEW reply \in {"none", "ok", "confirm", "err"}, Finish(t, reply),
           reply = "ok" =>
              \/ req[t].pc = "result" /\ op[t].res = "ok"
              \/ req[t].pc = "owner" /\ op[t].res = "ok" /\ op[t].owner = req[t].addr
              \/ req[t].pc = "receivers"
              \/ req[t].pc = "mail" /\ req[t].reply = "ok",
           inbox' = inbox \/ (req[t].pc = "mail" /\ inbox' = inbox \cup {req[t].token}),
           UNCHANGED <<issued, expired>>
    PROVE  Turns(t)
<1>. DEFINE r == [req[t] EXCEPT !.pc = "idle", !.reply = reply]
<1>1. req' = [req EXCEPT ![t] = r] /\ op' = [op EXCEPT ![t] = NoCall]
  BY DEF Finish
<1>2. /\ r \in Req /\ r.pc = "idle" /\ r.reply = reply /\ r.handler = req[t].handler
      /\ r.addr = req[t].addr /\ r.email = req[t].email /\ r.token = req[t].token
  BY RequestFacts DEF Req
<1>. HIDE DEF r
<1>3. NoCall.name = "none" /\ NoCall.pc = "idle"
  BY DEF NoCall
<1>4. Waits(r, NoCall)
  BY <1>2, <1>3 DEF Waits
<1>5. Serves(r)
  BY <1>2, RequestFacts DEF Serves, Handler
<1>6. Goes(t, r, NoCall)
  BY <1>2, <1>3 DEF Goes
<1>. QED
  BY <1>1, <1>2, <1>4, <1>5, <1>6 DEF Turns

(* The handler makes its next call.                                        *)
LEMMA Proceeds ==
    ASSUME Service, NEW t \in conf.thread, op[t].pc = "done",
           NEW place \in {"rights", "owner", "bound", "result"}, NEW c, Proceed(t, place, c),
           Begun(c, c.name),
           \A r \in Req : r.pc = place /\ r.handler = req[t].handler =>
                             Fits(c, MethodOf(r), req[t].addr, req[t].email, req[t].token),
           \/ /\ place = "rights" /\ req[t].pc = "activated" /\ op[t].res = "ok"
           \/ /\ place = "owner" /\ req[t].pc = "rights" /\ req[t].handler = "BindAccount"
              /\ RightsGranted(t)
           \/ /\ place = "bound" /\ req[t].pc = "rights" /\ req[t].handler = "ActiveVerify"
              /\ RightsGranted(t)
           \/ place = "result" /\ req[t].pc = "owner" /\ op[t].res = "ok" /\ op[t].owner = NoAddress
           \/ place = "result" /\ req[t].pc = "bound" /\ op[t].res = "ok",
           c.name # "QueryReflectsByEmails",
           c.name = "QueryReflectByOneEmail" => c.email \in conf.email,
           UNCHANGED <<inbox, issued, expired>>
    PROVE  Turns(t)
<1>. DEFINE r == [req[t] EXCEPT !.pc = place]
<1>1. req' = [req EXCEPT ![t] = r] /\ op' = [op EXCEPT ![t] = c]
  BY DEF Proceed, Invoke
<1>2. /\ r \in Req /\ r.pc = place /\ r.reply = req[t].reply /\ r.handler = req[t].handler
      /\ r.addr = req[t].addr /\ r.email = req[t].email /\ r.token = req[t].token
  BY RequestFacts DEF Req
<1>. HIDE DEF r
<1>3. Fits(c, MethodOf(r), r.addr, r.email, r.token)
  BY <1>2
<1>4. Waits(r, c)
  BY <1>2, <1>3 DEF Waits, Begun
<1>5. Serves(r)
  BY <1>2, RequestFacts DEF Serves, Handler
<1>6. Goes(t, r, c)
  BY <1>2, <1>3, RequestFacts DEF Goes, Serves, RightsGranted, Succeeded
<1>. QED
  BY <1>1, <1>2, <1>4, <1>5, <1>6 DEF Turns


LEMMA LevelsStored == UserLevelFree \in StoredLevel /\ \A l \in Int : Int8(l) \in StoredLevel
BY DEF UserLevelFree, StoredLevel, Int8

(* Every request that arrives.                                             *)
LEMMA AccountActiveArrives ==
    ASSUME Service, NEW t \in conf.thread, NEW a \in conf.address,
           AccountActive(t, a), UNCHANGED <<inbox, issued, expired>>
    PROVE  Turns(t)
<1>. DEFINE r == [At1(a) EXCEPT !.handler = "AccountActive"]
            c == ActiveAccount(a, UserLevelFree)
<1>1. /\ req[t].pc = "idle" /\ req' = [req EXCEPT ![t] = r] /\ Invoke(t, c)
  BY DEF AccountActive, Arrive
<1>2. a \in Address
  BY RequestFacts, LevelsStored DEF Configured
<1>3. r \in Req /\ r.pc = "result" /\ r.handler = "AccountActive" /\ r.addr = a
  BY <1>2, NoReqTyped DEF At1, NoReq, Req, Handler
<1>4. Begun(c, "ActiveAccount") /\ Fits(c, "ActiveAccount", a, r.email, r.token)
  BY <1>2, CallsBegin, LevelsStored
<1>. HIDE DEF r, c
<1>5. Serves(r)
  BY <1>2, <1>3, RequestFacts DEF Serves, Handler
<1>6. MethodOf(r) = "ActiveAccount" /\ c.name = "ActiveAccount"
  BY <1>3, <1>4 DEF MethodOf, Begun
<1>7. c.name = "QueryReflectByOneEmail" => c.email \in conf.email
  BY <1>3, <1>4, <1>6 DEF Fits, TakesEmail
<1>. QED
  BY <1>1, <1>2, <1>3, <1>4, <1>5, <1>6, <1>7, Arrives

LEMMA UninstallUserArrives ==
    ASSUME Service, NEW t \in conf.thread, NEW a \in conf.address,
           UninstallUser(t, a), UNCHANGED <<inbox, issued, expired>>
    PROVE  Turns(t)
<1>. DEFINE r == [At1(a) EXCEPT !.handler = "UninstallByUser"]
            c == UninstallByUser(a)
<1>1. /\ req[t].pc = "idle" /\ req' = [req EXCEPT ![t] = r] /\ Invoke(t, c)
  BY DEF UninstallUser, Arrive
<1>2. a \in Address
  BY RequestFacts, LevelsStored DEF Configured
<1>3. r \in Req /\ r.pc = "result" /\ r.handler = "UninstallByUser" /\ r.addr = a
  BY <1>2, NoReqTyped DEF At1, NoReq, Req, Handler
<1>4. Begun(c, "UninstallByUser") /\ Fits(c, "UninstallByUser", a, r.email, r.token)
  BY <1>2, CallsBegin, LevelsStored
<1>. HIDE DEF r, c
<1>5. Serves(r)
  BY <1>2, <1>3, RequestFacts DEF Serves, Handler
<1>6. MethodOf(r) = "UninstallByUser" /\ c.name = "UninstallByUser"
  BY <1>3, <1>4 DEF MethodOf, Begun
<1>7. c.name = "QueryReflectByOneEmail" => c.email \in conf.email
  BY <1>3, <1>4, <1>6 DEF Fits, TakesEmail
<1>. QED
  BY <1>1, <1>2, <1>3, <1>4, <1>5, <1>6, <1>7, Arrives

LEMMA deleteUserArrives ==
    ASSUME Service, NEW t \in conf.thread, NEW a \in conf.address,
           deleteUser(t, a), UNCHANGED <<inbox, issued, expired>>
    PROVE  Turns(t)
<1>. DEFINE r == [At1(a) EXCEPT !.handler = "deleteUser"]
            c == DeleteAccount(a)
<1>1. /\ req[t].pc = "idle" /\ req' = [req EXCEPT ![t] = r] /\ Invoke(t, c)
  BY DEF deleteUser, Arrive
<1>2. a \in Address
  BY RequestFacts, LevelsStored DEF Configured
<1>3. r \in Req /\ r.pc = "result" /\ r.handler = "deleteUser" /\ r.addr = a
  BY <1>2, NoReqTyped DEF At1, NoReq, Req, Handler
<1>4. Begun(c, "DeleteAccount") /\ Fits(c, "DeleteAccount", a, r.email, r.token)
  BY <1>2, CallsBegin, LevelsStored
<1>. HIDE DEF r, c
<1>5. Serves(r)
  BY <1>2, <1>3, RequestFacts DEF Serves, Handler
<1>6. MethodOf(r) = "DeleteAccount" /\ c.name = "DeleteAccount"
  BY <1>3, <1>4 DEF MethodOf, Begun
<1>7. c.name = "QueryReflectByOneEmail" => c.email \in conf.email
  BY <1>3, <1>4, <1>6 DEF Fits, TakesEmail
<1>. QED
  BY <1>1, <1>2, <1>3, <1>4, <1>5, <1>6, <1>7, Arrives

LEMMA QueryAnAccountArrives ==
    ASSUME Service, NEW t \in conf.thread, NEW a \in conf.address,
           QueryAnAccount(t, a), UNCHANGED <<inbox, issued, expired>>
    PROVE  Turns(t)
<1>. DEFINE r == [At1(a) EXCEPT !.handler = "QueryAccount"]
            c == QueryAccount(a)
<1>1. /\ req[t].pc = "idle" /\ req' = [req EXCEPT ![t] = r] /\ Invoke(t, c)
  BY DEF QueryAnAccount, Arrive
<1>2. a \in Address
  BY RequestFacts, LevelsStored DEF Configured
<1>3. r \in Req /\ r.pc = "result" /\ r.handler = "QueryAccount" /\ r.addr = a
  BY <1>2, NoReqTyped DEF At1, NoReq, Req, Handler
<1>4. Begun(c, "QueryAccount") /\ Fits(c, "QueryAccount", a, r.email, r.token)
  BY <1>2, CallsBegin, LevelsStored
<1>. HIDE DEF r, c
<1>5. Serves(r)
  BY <1>2, <1>3, RequestFacts DEF Serves, Handler
<1>6. MethodOf(r) = "QueryAccount" /\ c.name = "QueryAccount"
  BY <1>3, <1>4 DEF MethodOf, Begun
<1>7. c.name = "QueryReflectByOneEmail" => c.email \in conf.email
  BY <1>3, <1>4, <1>6 DEF Fits, TakesEmail
<1>. QED
  BY <1>1, <1>2, <1>3, <1>4, <1>5, <1>6, <1>7, Arrives

LEMMA queryUserLevelArrives ==
    ASSUME Service, NEW t \in conf.thread, NEW a \in conf.address,
           queryUserLevel(t, a), UNCHANGED <<inbox, issued, expired>>
    PROVE  Turns(t)
<1>. DEFINE r == [At1(a) EXCEPT !.handler = "queryUserLevel"]
            c == QueryAccount(a)
<1>1. /\ req[t].pc = "idle" /\ req' = [req EXCEPT ![t] = r] /\ Invoke(t, c)
  BY DEF queryUserLevel, Arrive
<1>2. a \in Address
  BY RequestFacts, LevelsStored DEF Configured
<1>3. r \in Req /\ r.pc = "result" /\ r.handler = "queryUserLevel" /\ r.addr = a
  BY <1>2, NoReqTyped DEF At1, NoReq, Req, Handler
<1>4. Begun(c, "QueryAccount") /\ Fits(c, "QueryAccount", a, r.email, r.token)
  BY <1>2, CallsBegin, LevelsStored
<1>. HIDE DEF r, c
<1>5. Serves(r)
  BY <1>2, <1>3, RequestFacts DEF Serves, Handler
<1>6. MethodOf(r) = "QueryAccount" /\ c.name = "QueryAccount"
  BY <1>3, <1>4 DEF MethodOf, Begun
<1>7. c.name = "QueryReflectByOneEmail" => c.email \in conf.email
  BY <1>3, <1>4, <1>6 DEF Fits, TakesEmail
<1>. QED
  BY <1>1, <1>2, <1>3, <1>4, <1>5, <1>6, <1>7, Arrives

LEMMA queryEmailReflectArrives ==
    ASSUME Service, NEW t \in conf.thread, NEW e \in conf.email,
           queryEmailReflect(t, e), UNCHANGED <<inbox, issued, expired>>
    PROVE  Turns(t)
<1>. DEFINE r == [[At1(NoAddress) EXCEPT !.email = e] EXCEPT !.handler = "queryEmailReflect"]
            c == QueryReflectByOneEmail(e)
<1>1. /\ req[t].pc = "idle" /\ req' = [req EXCEPT ![t] = r] /\ Invoke(t, c)
  BY DEF queryEmailReflect, Arrive
<1>2. e \in Email
  BY RequestFacts, LevelsStored DEF Configured
<1>3. r \in Req /\ r.pc = "result" /\ r.handler = "queryEmailReflect" /\ r.email = e
  BY <1>2, NoReqTyped DEF At1, NoReq, Req, Handler
<1>4. Begun(c, "QueryReflectByOneEmail") /\ Fits(c, "QueryReflectByOneEmail", r.addr, e, r.token)
  BY <1>2, CallsBegin, LevelsStored
<1>. HIDE DEF r, c
<1>5. Serves(r)
  BY <1>2, <1>3, RequestFacts DEF Serves, Handler
<1>6. MethodOf(r) = "QueryReflectByOneEmail" /\ c.name = "QueryReflectByOneEmail"
  BY <1>3, <1>4 DEF MethodOf, Begun
<1>7. c.name = "QueryReflectByOneEmail" => c.email \in conf.email
  BY <1>3, <1>4, <1>6 DEF Fits, TakesEmail
<1>. QED
  BY <1>1, <1>2, <1>3, <1>4, <1>5, <1>6, <1>7, Arrives

LEMMA QueryReflectByEmailArrayArrives ==
    ASSUME Service, NEW t \in conf.thread, NEW es \in SUBSET conf.email,
           QueryReflectByEmailArray(t, es), UNCHANGED <<inbox, issued, expired>>
    PROVE  Turns(t)
<1>. DEFINE r == [[At1(NoAddress) EXCEPT !.emails = es]
                     EXCEPT !.handler = "QueryReflectByEmailArray"]
            c == QueryReflectsByEmails(es)
<1>1. /\ req[t].pc = "idle" /\ req' = [req EXCEPT ![t] = r] /\ Invoke(t, c)
  BY DEF QueryReflectByEmailArray, Arrive
<1>2. es \in SUBSET Email
  BY RequestFacts, LevelsStored DEF Configured
<1>3. r \in Req /\ r.pc = "result" /\ r.handler = "QueryReflectByEmailArray" /\ r.emails = es
  BY <1>2, NoReqTyped DEF At1, NoReq, Req, Handler
<1>4. /\ Begun(c, "QueryReflectsByEmails") /\ c.todo = es
      /\ Fits(c, "QueryReflectsByEmails", r.addr, r.email, r.token)
  BY <1>2, CallsBegin, LevelsStored
<1>. HIDE DEF r, c
<1>5. Serves(r)
  BY <1>2, <1>3, RequestFacts DEF Serves, Handler
<1>6. MethodOf(r) = "QueryReflectsByEmails" /\ c.name = "QueryReflectsByEmails"
  BY <1>3, <1>4 DEF MethodOf, Begun
<1>7. c.name = "QueryReflectByOneEmail" => c.email \in conf.email
  BY <1>3, <1>4, <1>6 DEF Fits, TakesEmail
<1>. QED
  BY <1>1, <1>2, <1>3, <1>4, <1>5, <1>6, <1>7, Arrives

LEMMA DecryptByAdminArrives ==
    ASSUME Service, NEW t \in conf.thread, NEW a \in conf.address, NEW es \in SUBSET conf.email,
           DecryptByAdmin(t, a, es), UNCHANGED <<inbox, issued, expired>>
    PROVE  Turns(t)
<1>. DEFINE r == [[NoReq EXCEPT !.pc = "receivers", !.addr = a, !.emails = es]
                     EXCEPT !.handler = "DecryptByAdmin"]
            c == QueryAccount(a)
<1>1. /\ req[t].pc = "idle" /\ req' = [req EXCEPT ![t] = r] /\ Invoke(t, c)
  BY DEF DecryptByAdmin, Arrive
<1>2. a \in Address /\ es \in SUBSET Email
  BY RequestFacts, LevelsStored DEF Configured
<1>3. r \in Req /\ r.pc = "receivers" /\ r.handler = "DecryptByAdmin" /\ r.addr = a /\ r.emails = es
  BY <1>2, NoReqTyped DEF At1, NoReq, Req, Handler
<1>4. Begun(c, "QueryAccount") /\ Fits(c, "QueryAccount", a, r.email, r.token)
  BY <1>2, CallsBegin, LevelsStored
<1>. HIDE DEF r, c
<1>5. Serves(r)
  BY <1>2, <1>3, RequestFacts DEF Serves, Handler
<1>6. MethodOf(r) = "QueryAccount" /\ c.name = "QueryAccount"
  BY <1>3, <1>4 DEF MethodOf, Begun
<1>7. c.name = "QueryReflectByOneEmail" => c.email \in conf.email
  BY <1>3, <1>4, <1>6 DEF Fits, TakesEmail
<1>. QED
  BY <1>1, <1>2, <1>3, <1>4, <1>5, <1>6, <1>7, Arrives

LEMMA UnbindAccountArrives ==
    ASSUME Service, NEW t \in conf.thread, NEW a \in conf.address, NEW e \in conf.email,
           UnbindAccount(t, a, e), UNCHANGED <<inbox, issued, expired>>
    PROVE  Turns(t)
<1>. DEFINE r == [[At1(a) EXCEPT !.email = e] EXCEPT !.handler = "UnbindAccount"]
            c == DeleteBinding(a, e)
<1>1. /\ req[t].pc = "idle" /\ req' = [req EXCEPT ![t] = r] /\ Invoke(t, c)
  BY DEF UnbindAccount, Arrive
<1>2. a \in Address /\ e \in Email
  BY RequestFacts, LevelsStored DEF Configured
<1>3. r \in Req /\ r.pc = "result" /\ r.handler = "UnbindAccount" /\ r.addr = a /\ r.email = e
  BY <1>2, NoReqTyped DEF At1, NoReq, Req, Handler
<1>4. Begun(c, "DeleteBinding") /\ Fits(c, "DeleteBinding", a, e, r.token)
  BY <1>2, CallsBegin, LevelsStored
<1>. HIDE DEF r, c
<1>5. Serves(r)
  BY <1>2, <1>3, RequestFacts DEF Serves, Handler
<1>6. MethodOf(r) = "DeleteBinding" /\ c.name = "DeleteBinding"
  BY <1>3, <1>4 DEF MethodOf, Begun
<1>7. c.name = "QueryReflectByOneEmail" => c.email \in conf.email
  BY <1>3, <1>4, <1>6 DEF Fits, TakesEmail
<1>. QED
  BY <1>1, <1>2, <1>3, <1>4, <1>5, <1>6, <1>7, Arrives

LEMMA BindAccountArrives ==
    ASSUME Service, NEW t \in conf.thread, NEW a \in conf.address, NEW e \in conf.email,
           BindAccount(t, a, e), UNCHANGED <<inbox, issued, expired>>
    PROVE  Turns(t)
<1>. DEFINE r == [[NoReq EXCEPT !.pc = "rights", !.addr = a, !.email = e]
                     EXCEPT !.handler = "BindAccount"]
            c == QueryAccount(a)
<1>1. /\ req[t].pc = "idle" /\ req' = [req EXCEPT ![t] = r] /\ Invoke(t, c)
  BY DEF BindAccount, Arrive
<1>2. a \in Address /\ e \in Email
  BY RequestFacts, LevelsStored DEF Configured
<1>3. r \in Req /\ r.pc = "rights" /\ r.handler = "BindAccount" /\ r.addr = a /\ r.email = e
  BY <1>2, NoReqTyped DEF At1, NoReq, Req, Handler
<1>4. Begun(c, "QueryAccount") /\ Fits(c, "QueryAccount", a, e, r.token)
  BY <1>2, CallsBegin, LevelsStored
<1>. HIDE DEF r, c
<1>5. Serves(r)
  BY <1>2, <1>3, RequestFacts DEF Serves, Handler
<1>6. MethodOf(r) = "QueryAccount" /\ c.name = "QueryAccount"
  BY <1>3, <1>4 DEF MethodOf, Begun
<1>7. c.name = "QueryReflectByOneEmail" => c.email \in conf.email
  BY <1>3, <1>4, <1>6 DEF Fits, TakesEmail
<1>. QED
  BY <1>1, <1>2, <1>3, <1>4, <1>5, <1>6, <1>7, Arrives

LEMMA updateUserLevelArrives ==
    ASSUME Service, NEW t \in conf.thread, NEW a \in conf.address, NEW l \in conf.levels,
           updateUserLevel(t, a, l), UNCHANGED <<inbox, issued, expired>>
    PROVE  Turns(t)
<1>. DEFINE r == [At1(a) EXCEPT !.handler = "updateUserLevel"]
            c == UpdateAccountLevel(a, Int8(l))
<1>1. /\ req[t].pc = "idle" /\ req' = [req EXCEPT ![t] = r] /\ Invoke(t, c)
  BY DEF updateUserLevel, Arrive
<1>2. a \in Address /\ Int8(l) \in StoredLevel
  BY RequestFacts, LevelsStored DEF Configured
<1>3. r \in Req /\ r.pc = "result" /\ r.handler = "updateUserLevel" /\ r.addr = a
  BY <1>2, NoReqTyped DEF At1, NoReq, Req, Handler
<1>4. Begun(c, "UpdateAccountLevel") /\ Fits(c, "UpdateAccountLevel", a, r.email, r.token)
  BY <1>2, CallsBegin, LevelsStored
<1>. HIDE DEF r, c
<1>5. Serves(r)
  BY <1>2, <1>3, RequestFacts DEF Serves, Handler
<1>6. MethodOf(r) = "UpdateAccountLevel" /\ c.name = "UpdateAccountLevel"
  BY <1>3, <1>4 DEF MethodOf, Begun
<1>7. c.name = "QueryReflectByOneEmail" => c.email \in conf.email
  BY <1>3, <1>4, <1>6 DEF Fits, TakesEmail
<1>. QED
  BY <1>1, <1>2, <1>3, <1>4, <1>5, <1>6, <1>7, Arrives

LEMMA ActiveVerifyArrives ==
    ASSUME Service, NEW t \in conf.thread, NEW k \in Token,
           ActiveVerify(t, k), UNCHANGED <<inbox, issued, expired>>
    PROVE  Turns(t)
<1>. DEFINE r == [[NoReq EXCEPT !.pc = "verify", !.token = k] EXCEPT !.handler = "ActiveVerify"]
            c == GetActiveLink(k)
<1>1. /\ req[t].pc = "idle" /\ req' = [req EXCEPT ![t] = r] /\ Invoke(t, c)
      /\ k \in inbox
  BY DEF ActiveVerify, Arrive
<1>2. k \in Token
  BY RequestFacts, LevelsStored DEF Configured
<1>3. r \in Req /\ r.pc = "verify" /\ r.handler = "ActiveVerify" /\ r.token = k
  BY <1>2, NoReqTyped DEF At1, NoReq, Req, Handler
<1>4. Begun(c, "GetActiveLink") /\ Fits(c, "GetActiveLink", r.addr, r.email, k)
  BY <1>2, CallsBegin, LevelsStored
<1>. HIDE DEF r, c
<1>5. Serves(r)
  BY <1>2, <1>3, RequestFacts DEF Serves, Handler
<1>6. MethodOf(r) = "GetActiveLink" /\ c.name = "GetActiveLink"
  BY <1>3, <1>4 DEF MethodOf, Begun
<1>7. c.name = "QueryReflectByOneEmail" => c.email \in conf.email
  BY <1>3, <1>4, <1>6 DEF Fits, TakesEmail
<1>. QED
  BY <1>1, <1>2, <1>3, <1>4, <1>5, <1>6, <1>7, Arrives


LEMMA ActiveByEmailArrives ==
    ASSUME Service, NEW t \in conf.thread, NEW a \in conf.address, NEW e \in conf.email,
           NEW unbind \in BOOLEAN, ActiveByEmail(t, a, e, unbind), UNCHANGED <<inbox, expired>>
    PROVE  Turns(t)
<1>1. PICK k \in Token \ issued :
         /\ issued' = issued \cup {k}
         /\ Arrive(t, "ActiveByEmail",
                   [NoReq EXCEPT !.pc = "created", !.addr = a, !.email = e, !.token = k],
                   CreateActiveLink(k, a, e, unbind))
  BY DEF ActiveByEmail
<1>. DEFINE r == [[NoReq EXCEPT !.pc = "created", !.addr = a, !.email = e, !.token = k]
                     EXCEPT !.handler = "ActiveByEmail"]
            c == CreateActiveLink(k, a, e, unbind)
<1>2. req[t].pc = "idle" /\ req' = [req EXCEPT ![t] = r] /\ Invoke(t, c)
  BY <1>1 DEF Arrive
<1>3. a \in Address /\ e \in Email
  BY RequestFacts DEF Configured
<1>4. /\ r \in Req /\ r.pc = "created" /\ r.handler = "ActiveByEmail"
      /\ r.addr = a /\ r.email = e /\ r.token = k
  BY <1>3, NoReqTyped DEF NoReq, Req, Handler
<1>5. Begun(c, "CreateActiveLink") /\ Fits(c, "CreateActiveLink", a, e, k)
  BY <1>3, CallsBegin
<1>. HIDE DEF r, c
<1>6. Serves(r)
  BY <1>4 DEF Serves
<1>7. MethodOf(r) = "CreateActiveLink" /\ c.name = "CreateActiveLink"
  BY <1>4, <1>5 DEF MethodOf, Begun
<1>. QED
  BY <1>1, <1>2, <1>4, <1>5, <1>6, <1>7, Arrives

(* Handlers that wait for one call, or are at their last.                  *)
LEMMA LastCallTurns ==
    ASSUME Service, NEW t \in conf.thread,
           ReplyResult(t) \/ DecryptByAdminReceivers(t) \/ SendActiveMail(t)
    PROVE  Turns(t)
<1>1. CASE ReplyResult(t)
  <2>1. /\ req[t].pc = "result" /\ op[t].pc = "done" /\ UNCHANGED <<inbox, issued, expired>>
        /\ Finish(t, IF op[t].res = "ok" THEN "ok" ELSE "err")
    BY <1>1 DEF ReplyResult, Await, Succeeded
  <2>. QED
    BY <2>1, Finishes
<1>2. CASE DecryptByAdminReceivers(t)
  <2>1. /\ req[t].pc = "receivers" /\ op[t].pc = "done" /\ UNCHANGED <<inbox, issued, expired>>
        /\ Finish(t, "err") \/ Finish(t, "ok")
    BY <1>2 DEF DecryptByAdminReceivers, Await
  <2>. QED
    BY <2>1, Finishes
<1>3. CASE SendActiveMail(t)
  <2>1. /\ req[t].pc = "mail" /\ UNCHANGED <<issued, expired>>
        /\ inbox' = inbox \/ inbox' = inbox \cup {req[t].token}
        /\ Finish(t, req[t].reply)
    BY <1>3 DEF SendActiveMail
  <2>2. op[t].pc = "done" /\ req[t].reply \in {"none", "ok", "confirm", "err"}
    BY <2>1, RequestFacts DEF Waits, Req
  <2>. QED
    BY <2>1, <2>2, Finishes
<1>. QED
  BY <1>1, <1>2, <1>3

LEMMA BindAccountRightsTurns ==
    ASSUME Service, NEW t \in conf.thread, BindAccountRights(t)
    PROVE  Turns(t)
<1>1. /\ req[t].pc = "rights" /\ req[t].handler = "BindAccount" /\ op[t].pc = "done"
      /\ UNCHANGED <<inbox, issued, expired>>
  BY DEF BindAccountRights, Await
<1>2. CASE Finish(t, "err")
  BY <1>1, <1>2, Finishes
<1>3. CASE RightsGranted(t) /\ Proceed(t, "owner", QueryReflectByOneEmail(req[t].email))
  <2>. DEFINE c == QueryReflectByOneEmail(req[t].email)
  <2>1. req[t].email \in conf.email /\ req[t].email \in Email
    BY <1>1, RequestFacts DEF Serves, Configured
  <2>2. /\ Begun(c, "QueryReflectByOneEmail")
        /\ Fits(c, "QueryReflectByOneEmail", req[t].addr, req[t].email, req[t].token)
    BY <2>1, CallsBegin
  <2>3. c.name = "QueryReflectByOneEmail" /\ c.email = req[t].email
    BY <2>2 DEF Begun, Fits, TakesEmail
  <2>. HIDE DEF c
  <2>4. \A r \in Req : r.pc = "owner" => MethodOf(r) = "QueryReflectByOneEmail"
    BY DEF MethodOf
  <2>. QED
    BY <1>1, <1>3, <2>1, <2>2, <2>3, <2>4, Proceeds DEF c
<1>. QED
  BY <1>2, <1>3 DEF BindAccountRights

LEMMA BindAccountOwnerTurns ==
    ASSUME Service, NEW t \in conf.thread, BindAccountOwner(t)
    PROVE  Turns(t)
<1>1. /\ req[t].pc = "owner" /\ req[t].handler = "BindAccount" /\ op[t].pc = "done"
      /\ UNCHANGED <<inbox, expired>>
  BY DEF BindAccountOwner, Await
<1>2. req[t].addr \in Address /\ req[t].email \in Email /\ req[t].email \in conf.email
  BY <1>1, RequestFacts DEF Serves, Configured
<1>3. ASSUME UNCHANGED issued, Finish(t, "err") \/ Finish(t, "confirm")
      PROVE  Turns(t)
  BY <1>1, <1>3, Finishes
<1>4. ASSUME UNCHANGED issued, Succeeded(t), op[t].owner = req[t].addr, Finish(t, "ok")
      PROVE  Turns(t)
  BY <1>1, <1>4, Finishes DEF Succeeded
<1>5. ASSUME UNCHANGED issued, Succeeded(t), op[t].owner = NoAddress,
             Proceed(t, "result", UpdateBinding(req[t].addr, req[t].email))
      PROVE  Turns(t)
  <2>. DEFINE c == UpdateBinding(req[t].addr, req[t].email)
  <2>1. /\ Begun(c, "UpdateBinding")
        /\ Fits(c, "UpdateBinding", req[t].addr, req[t].email, req[t].token)
    BY <1>2, CallsBegin
  <2>2. c.name = "UpdateBinding"
    BY <2>1 DEF Begun
  <2>. HIDE DEF c
  <2>3. \A r \in Req :
           r.pc = "result" /\ r.handler = "BindAccount" => MethodOf(r) = "UpdateBinding"
    BY DEF MethodOf
  <2>. QED
    BY <1>1, <1>5, <2>1, <2>2, <2>3, Proceeds DEF c, Succeeded
<1>6. ASSUME NEW k \in Token \ issued, issued' = issued \cup {k},
             Succeeded(t), op[t].owner \notin {NoAddress, req[t].addr},
             req' = [req EXCEPT ![t].pc = "link", ![t].reply = "confirm", ![t].token = k],
             Invoke(t, CreateActiveLink(k, req[t].addr, req[t].email, FALSE))
      PROVE  Turns(t)
  <2>. DEFINE r == [req[t] EXCEPT !.pc = "link", !.reply = "confirm", !.token = k]
              c == CreateActiveLink(k, req[t].addr, req[t].email, FALSE)
  <2>1. req' = [req EXCEPT ![t] = r] /\ op' = [op EXCEPT ![t] = c]
    BY <1>6 DEF Invoke
  <2>2. /\ r \in Req /\ r.pc = "link" /\ r.reply = "confirm" /\ r.token = k
        /\ r.handler = "BindAccount" /\ r.addr = req[t].addr /\ r.email = req[t].email
    BY <1>1, RequestFacts DEF Req
  <2>3. /\ Begun(c, "CreateActiveLink")
        /\ Fits(c, "CreateActiveLink", req[t].addr, req[t].email, k)
    BY <1>2, CallsBegin
  <2>. HIDE DEF r, c
  <2>4. Waits(r, c)
    BY <2>2, <2>3 DEF Waits, Begun, MethodOf
  <2>5. Serves(r)
    BY <1>2, <2>2 DEF Serves
  <2>6. Goes(t, r, c)
    BY <1>1, <1>6, <2>2, <2>3 DEF Goes, Succeeded, Begun
  <2>. QED
    BY <2>1, <2>2, <2>4, <2>5, <2>6 DEF Turns
<1>. QED
  BY <1>3, <1>4, <1>5, <1>6 DEF BindAccountOwner

(* The link is stored, and the mail is next.                               *)
LEMMA MailTurns ==
    ASSUME Service, NEW t \in conf.thread, ConfirmLinkCreated(t) \/ ActiveByEmailCreated(t)
    PROVE  Turns(t)
<1>1. /\ req[t].pc \in {"link", "created"} /\ op[t].pc = "done"
      /\ UNCHANGED <<inbox, issued, expired>>
      /\ req[t].pc = "link" => req[t].handler = "BindAccount" /\ req[t].reply = "confirm"
      /\ req[t].pc = "created" => req[t].handler = "ActiveByEmail"
  BY RequestFacts DEF ConfirmLinkCreated, ActiveByEmailCreated, Await, Serves
<1>2. ASSUME NEW reply \in {"err", "confirm"}, Finish(t, reply) PROVE Turns(t)
  BY <1>1, <1>2, Finishes
<1>3. ASSUME NEW r \in Req, req' = [req EXCEPT ![t] = r], UNCHANGED op, Succeeded(t),
             r.pc = "mail", r.handler = req[t].handler, r.addr = req[t].addr,
             r.email = req[t].email, r.token = req[t].token,
             req[t].pc = "link" => r.reply = "confirm"
      PROVE  Turns(t)
  <2>1. op' = [op EXCEPT ![t] = op[t]]
    BY <1>3, RequestFacts
  <2>2. Fits(op[t], "CreateActiveLink", r.addr, r.email, r.token)
    BY <1>1, <1>3, RequestFacts DEF Waits, MethodOf
  <2>3. op[t].name = "CreateActiveLink"
    BY <2>2 DEF Fits
  <2>4. Waits(r, op[t])
    BY <1>1, <1>3, <2>2, <2>3 DEF Waits, MethodOf, Succeeded
  <2>5. Serves(r)
    BY <1>1, <1>3, RequestFacts DEF Serves
  <2>6. Goes(t, r, op[t])
    BY <1>1, <1>3, <2>3 DEF Goes, Succeeded
  <2>. QED
    BY <1>3, <2>1, <2>4, <2>5, <2>6 DEF Turns
<1>4. CASE ConfirmLinkCreated(t)
  <2>1. Await(t, {"BindAccount"}, "link")
    BY <1>4 DEF ConfirmLinkCreated
  <2>. DEFINE r == [req[t] EXCEPT !.pc = "mail"]
  <2>2. /\ r \in Req /\ r.pc = "mail" /\ r.reply = req[t].reply /\ r.handler = req[t].handler
        /\ r.addr = req[t].addr /\ r.email = req[t].email /\ r.token = req[t].token
    BY RequestFacts DEF Req
  <2>. QED
    BY <1>1, <1>2, <1>3, <1>4, <2>1, <2>2 DEF ConfirmLinkCreated, Await
<1>5. CASE ActiveByEmailCreated(t)
  <2>1. Await(t, {"ActiveByEmail"}, "created")
    BY <1>5 DEF ActiveByEmailCreated
  <2>. DEFINE r == [req[t] EXCEPT !.pc = "mail", !.reply = "ok"]
  <2>2. /\ r \in Req /\ r.pc = "mail" /\ r.handler = req[t].handler
        /\ r.addr = req[t].addr /\ r.email = req[t].email /\ r.token = req[t].token
    BY RequestFacts DEF Req
  <2>. QED
    BY <1>1, <1>2, <1>3, <1>5, <2>1, <2>2 DEF ActiveByEmailCreated, Await
<1>. QED
  BY <1>4, <1>5


(* ActiveVerify, from its link to its end.                                 *)
LEMMA VerifyTurns ==
    ASSUME Service, NEW t \in conf.thread,
           \/ ActiveVerifyLink(t) \/ ActiveVerifyActivated(t)
           \/ ActiveVerifyRights(t) \/ ActiveVerifyBound(t)
    PROVE  Turns(t)
<1>1. /\ req[t].pc \in {"verify", "activated", "rights", "bound"} /\ op[t].pc = "done"
      /\ req[t].handler = "ActiveVerify" /\ UNCHANGED <<inbox, issued, expired>>
  BY DEF ActiveVerifyLink, ActiveVerifyActivated, ActiveVerifyRights, ActiveVerifyBound, Await
<1>2. ASSUME Finish(t, "err") PROVE Turns(t)
  BY <1>1, <1>2, Finishes
<1>3. /\ req[t].token \in Token
      /\ req[t].pc # "verify" => req[t].addr \in Address /\ req[t].email \in Email
  BY <1>1, RequestFacts DEF Serves
<1>4. CASE ActiveVerifyLink(t)
  <2>1. CASE ~Finish(t, "err")
    <3>. DEFINE r == [req[t] EXCEPT !.pc = "activated", !.addr = op[t].addr, !.email = op[t].email]
                c == ActiveAccount(op[t].addr, UserLevelFree)
    <3>1. /\ req[t].pc = "verify" /\ op[t].res = "ok"
          /\ req' = [req EXCEPT ![t] = r] /\ Invoke(t, c)
      BY <1>4, <2>1 DEF ActiveVerifyLink, Await, Succeeded
    <3>2. op[t].addr \in Address /\ op[t].email \in Email
      BY <1>1, <3>1, RequestFacts DEF Waits, Fits, MethodOf
    <3>3. op' = [op EXCEPT ![t] = c]
      BY <3>1 DEF Invoke
    <3>4. /\ r \in Req /\ r.pc = "activated" /\ r.handler = "ActiveVerify"
          /\ r.addr = op[t].addr /\ r.email = op[t].email /\ r.token = req[t].token
      BY <1>1, <3>2, RequestFacts DEF Req
    <3>5. Begun(c, "ActiveAccount") /\ Fits(c, "ActiveAccount", r.addr, r.email, r.token)
      BY <3>2, <3>4, CallsBegin, LevelsStored
    <3>. HIDE DEF r, c
    <3>6. Waits(r, c)
      BY <3>4, <3>5 DEF Waits, Begun, MethodOf
    <3>7. Serves(r)
      BY <1>3, <3>2, <3>4 DEF Serves
    <3>8. Goes(t, r, c)
      BY <1>1, <3>1, <3>4, <3>5 DEF Goes, Begun
    <3>. QED
      BY <3>1, <3>3, <3>4, <3>6, <3>7, <3>8 DEF Turns
  <2>. QED
    BY <1>2, <2>1
<1>5. CASE ActiveVerifyActivated(t)
  <2>. DEFINE c == QueryAccount(req[t].addr)
  <2>1. req[t].pc = "activated" /\ (Finish(t, "err") \/ (Succeeded(t) /\ Proceed(t, "rights", c)))
    BY <1>5 DEF ActiveVerifyActivated, Await
  <2>2. /\ Begun(c, "QueryAccount")
        /\ Fits(c, "QueryAccount", req[t].addr, req[t].email, req[t].token)
    BY <1>3, <2>1, CallsBegin
  <2>3. \A r \in Req : r.pc = "rights" => MethodOf(r) = "QueryAccount"
    BY DEF MethodOf
  <2>4. c.name = "QueryAccount"
    BY <2>2 DEF Begun
  <2>. HIDE DEF c
  <2>. QED
    BY <1>1, <1>2, <2>1, <2>2, <2>3, <2>4, Proceeds DEF Succeeded
<1>6. CASE ActiveVerifyRights(t)
  <2>. DEFINE c == UpdateBinding(req[t].addr, req[t].email)
  <2>1. /\ req[t].pc = "rights"
        /\ Finish(t, "err") \/ (RightsGranted(t) /\ Proceed(t, "bound", c))
    BY <1>6 DEF ActiveVerifyRights, Await
  <2>2. /\ Begun(c, "UpdateBinding")
        /\ Fits(c, "UpdateBinding", req[t].addr, req[t].email, req[t].token)
    BY <1>3, <2>1, CallsBegin
  <2>3. \A r \in Req : r.pc = "bound" => MethodOf(r) = "UpdateBinding"
    BY DEF MethodOf
  <2>4. c.name = "UpdateBinding"
    BY <2>2 DEF Begun
  <2>. HIDE DEF c
  <2>. QED
    BY <1>1, <1>2, <2>1, <2>2, <2>3, <2>4, Proceeds
<1>7. CASE ActiveVerifyBound(t)
  <2>. DEFINE c == RemoveActiveLink(req[t].token)
  <2>1. req[t].pc = "bound" /\ (Finish(t, "err") \/ (Succeeded(t) /\ Proceed(t, "result", c)))
    BY <1>7 DEF ActiveVerifyBound, Await
  <2>2. /\ Begun(c, "RemoveActiveLink")
        /\ Fits(c, "RemoveActiveLink", req[t].addr, req[t].email, req[t].token)
    BY <1>3, <2>1, CallsBegin
  <2>3. \A r \in Req : r.pc = "result" /\ r.handler = "ActiveVerify" =>
                          MethodOf(r) = "RemoveActiveLink"
    BY DEF MethodOf
  <2>4. c.name = "RemoveActiveLink"
    BY <2>2 DEF Begun
  <2>. HIDE DEF c
  <2>. QED
    BY <1>1, <1>2, <2>1, <2>2, <2>3, <2>4, Proceeds DEF Succeeded
<1>. QED
  BY <1>4, <1>5, <1>6, <1>7

LEMMA ServeTurns ==
    ASSUME Service, NEW t \in conf.thread, Serve(t)
    PROVE  Turns(t)
<1>1. ASSUME UNCHANGED <<inbox, issued, expired>>, NEW a \in conf.address,
             \/ AccountActive(t, a) \/ UninstallUser(t, a) \/ deleteUser(t, a)
             \/ QueryAnAccount(t, a) \/ queryUserLevel(t, a)
      PROVE  Turns(t)
  BY <1>1, AccountActiveArrives, UninstallUserArrives, deleteUserArrives, QueryAnAccountArrives,
     queryUserLevelArrives
<1>2. ASSUME UNCHANGED <<inbox, issued, expired>>, NEW e \in conf.email, queryEmailReflect(t, e)
      PROVE  Turns(t)
  BY <1>2, queryEmailReflectArrives
<1>3. ASSUME UNCHANGED <<inbox, issued, expired>>, NEW es \in SUBSET conf.email,
             \/ QueryReflectByEmailArray(t, es)
             \/ \E a \in conf.address : DecryptByAdmin(t, a, es)
      PROVE  Turns(t)
  BY <1>3, QueryReflectByEmailArrayArrives, DecryptByAdminArrives
<1>4. ASSUME UNCHANGED <<inbox, issued, expired>>, NEW a \in conf.address, NEW e \in conf.email,
             UnbindAccount(t, a, e) \/ BindAccount(t, a, e)
      PROVE  Turns(t)
  BY <1>4, UnbindAccountArrives, BindAccountArrives
<1>5. ASSUME UNCHANGED <<inbox, issued, expired>>, NEW a \in conf.address, NEW l \in conf.levels,
             updateUserLevel(t, a, l)
      PROVE  Turns(t)
  BY <1>5, updateUserLevelArrives
<1>6. ASSUME UNCHANGED <<inbox, issued, expired>>, NEW k \in Token, ActiveVerify(t, k)
      PROVE  Turns(t)
  BY <1>6, ActiveVerifyArrives
<1>7. ASSUME NEW a \in conf.address, NEW e \in conf.email, NEW unbind \in BOOLEAN,
             ActiveByEmail(t, a, e, unbind), UNCHANGED <<inbox, expired>>
      PROVE  Turns(t)
  BY <1>7, ActiveByEmailArrives
<1>. QED
  BY <1>1, <1>2, <1>3, <1>4, <1>5, <1>6, <1>7, LastCallTurns, BindAccountRightsTurns,
     BindAccountOwnerTurns, MailTurns, VerifyTurns DEF Serve

-----------------------------------------------------------------------------
(* The database in use, and the call of a goroutine to it.                 *)

(* A call just made, with the arguments that its method takes.             *)
Begins(c) ==
    c.name \in Method /\ Begun(c, c.name) /\ Fits(c, c.name, c.addr, c.email, c.token)

LEMMA MethodOfTyped == \A r : MethodOf(r) \in Method
BY DEF MethodOf, Method, Mutator

LEMMA GoesBegins ==
    ASSUME NEW t, NEW r, NEW c, Waits(r, c), Goes(t, r, c)
    PROVE  c = NoCall \/ c = op[t] \/ Begins(c)
<1>1. CASE r.pc = "idle"
  BY <1>1 DEF Waits
<1>2. CASE r.pc = "mail"
  BY <1>2 DEF Goes
<1>3. CASE r.pc \notin {"idle", "mail"}
  <2>1. Begun(c, c.name) /\ Fits(c, MethodOf(r), r.addr, r.email, r.token)
    BY <1>3 DEF Waits, Goes
  <2>. QED
    BY <2>1, MethodOfTyped DEF Begins, Fits
<1>. QED
  BY <1>1, <1>2, <1>3

LEMMA CallMade ==
    ASSUME NEW c, c = NoCall \/ Begins(c)
    PROVE  /\ c \in Call({}) /\ c.pc \in {"idle", "begin"} /\ (c.pc # "idle" => c.name # "none")
           /\ c.name \in TakesAddress => c.addr \in Address
           /\ c.name \in TakesEmail => c.email \in Email
           /\ c.name \in TakesToken => c.token \in Token
           /\ c.owner = NoAddress /\ c.answer = {} /\ c.doc = NoDoc /\ c.res = "none"
<1>1. CASE c = NoCall
  <2>1. NoCall.name = "none" /\ NoCall.pc = "idle"
    BY DEF NoCall
  <2>2. "none" \notin TakesAddress \cup TakesEmail \cup TakesToken
    BY DEF TakesAddress, TakesEmail, TakesToken, Mutator
  <2>. QED
    BY <1>1, <2>1, <2>2, NoCallTyped DEF NoCall
<1>2. CASE Begins(c)
  <2>1. "none" \notin Method
    BY DEF Method, Mutator
  <2>. QED
    BY <1>2, <2>1 DEF Begins, Begun, Fits
<1>. QED
  BY <1>1, <1>2

(* The goroutine that has the process to itself, if there is one.          *)
Alone == IF OneAtATime THEN conf.thread ELSE {}

(* Who has the process to itself is never overtaken.                       *)
Quiet == Alone \subseteq Thread /\ \A t \in Alone : \A u \in Thread \ {t} : op[u].pc = "idle"

LEMMA AloneQuiet == Service => Quiet
<1>1. ASSUME Service, NEW t \in Alone, NEW u \in Thread \ {t}
      PROVE  op[u].pc = "idle"
  <2>1. conf.thread = {t}
    BY <1>1 DEF Alone, OneAtATime
  <2>2. req[u].pc = "idle"
    BY <1>1, <2>1 DEF Service
  <2>. QED
    BY <1>1, <2>2 DEF Service, Waits, NoCall
<1>. QED
  BY <1>1 DEF Quiet, Service, Configured, Alone

LEMMA AloneSame ==
    ASSUME UNCHANGED conf
    PROVE  UNCHANGED Alone
BY DEF Alone, OneAtATime

(* A step of the database on a call: the call stays the one that the       *)
(* handler waits for.                                                      *)
Kept(c, d) ==
    /\ c.pc \notin {"idle", "done"} /\ d.pc # "idle" /\ d.name = c.name
    /\ c.name \in TakesAddress => d.addr = c.addr
    /\ c.name \in TakesEmail => d.email = c.email
    /\ c.name \in TakesToken => d.token = c.token
    /\ d.name = "GetActiveLink" /\ d.pc = "done" /\ d.res = "ok" =>
          d.addr \in Address /\ d.email \in Email

LEMMA KeptServes ==
    ASSUME Service, NEW t \in conf.thread, op' = [u \in Thread |-> op'[u]],
           \A u \in Thread \ {t} : op'[u] = op[u], Kept(op[t], op'[t]), UNCHANGED serviceVars
    PROVE  Service'
<1>1. /\ op[t].pc \notin {"idle", "done"} /\ Waits(req[t], op[t])
      /\ op'[t].pc # "idle" /\ op'[t].name = op[t].name
  BY RequestFacts DEF Kept
<1>2. req[t].pc \notin {"idle", "mail"}
  BY <1>1 DEF Waits, NoCall
<1>3. Fits(op'[t], MethodOf(req[t]), req[t].addr, req[t].email, req[t].token)
  <2>1. Fits(op[t], MethodOf(req[t]), req[t].addr, req[t].email, req[t].token)
    BY <1>1, <1>2 DEF Waits
  <2>. QED
    BY <2>1 DEF Fits, Kept
<1>4. Waits(req[t], op'[t])
  BY <1>1, <1>2, <1>3 DEF Waits, Kept
<1>5. ASSUME NEW u \in Thread PROVE Waits(req'[u], op'[u]) /\ Serves(req[u])'
  BY <1>4 DEF Service, Serves, serviceVars
<1>. QED
  BY <1>5 DEF Service, Configured, ServiceTypeOK, serviceVars

(* The call of a goroutine is replaced only once it has returned.          *)
LEMMA GoesFrom ==
    ASSUME Service, NEW t \in conf.thread, NEW r \in Req, NEW c, Goes(t, r, c)
    PROVE  c = op[t] \/ op[t].pc \in {"idle", "done"}
<1>1. req[t].pc = "idle" => op[t].pc = "idle"
  BY RequestFacts DEF Waits, NoCall
<1>2. r.pc \in {"idle", "rights", "owner", "link", "created", "mail", "verify", "activated",
                "bound", "receivers", "result"}
  BY DEF Req
<1>. QED
  BY <1>1, <1>2 DEF Goes

-----------------------------------------------------------------------------
(* Firestore under the handlers. *)

FP == INSTANCE FirestoreProofs WITH
    Level <- StoredLevel, asked <- Address \X Email, alone <- Alone

LEMMA FirestoreAssumed == NoAddress \notin Address /\ StoredLevel \subseteq FP!StoredLevel
BY NoAddressAssumption DEF StoredLevel, FP!StoredLevel

LEMMA SameFirestore ==
    /\ \A t : Firestore!StoreStep(t) <=> FP!StoreStep(t)
    /\ Firestore!ProcessExit <=> FP!ProcessExit
    /\ Firestore!StoreInit <=> FP!StoreInit
    /\ Firestore!StoreTypeOK <=> FP!StoreTypeOK
BY DEF Firestore!StoreInit, FP!StoreInit, Firestore!StoreStep, FP!StoreStep,
   Firestore!ProcessExit, FP!ProcessExit,
   Firestore!StoreTypeOK, FP!StoreTypeOK, Firestore!NoCall, FP!NoCall,
   Firestore!QueryAccountGet, FP!QueryAccountGet, Firestore!QueryReflectGet,
   FP!QueryReflectGet, Firestore!QueryReflectsGet, FP!QueryReflectsGet,
   Firestore!ActiveAccountGet, FP!ActiveAccountGet, Firestore!UpdateAccountLevelGet,
   FP!UpdateAccountLevelGet, Firestore!UpdateBindingGet, FP!UpdateBindingGet,
   Firestore!UpdateBindingGetReflect, FP!UpdateBindingGetReflect,
   Firestore!UpdateBindingSetReflect, FP!UpdateBindingSetReflect,
   Firestore!UpdateBindingGetOld, FP!UpdateBindingGetOld, Firestore!UpdateBindingSetOld,
   FP!UpdateBindingSetOld, Firestore!DeleteBindingGet, FP!DeleteBindingGet,
   Firestore!UninstallByUserGet, FP!UninstallByUserGet, Firestore!DeleteAccountGet,
   FP!DeleteAccountGet, Firestore!DeleteAccountDelete, FP!DeleteAccountDelete,
   Firestore!SaveAccount, FP!SaveAccount, Firestore!DeleteEmailReflect, FP!DeleteEmailReflect,
   Firestore!CreateActiveLinkGet, FP!CreateActiveLinkGet, Firestore!CreateActiveLinkSet,
   FP!CreateActiveLinkSet, Firestore!GetActiveLinkGet, FP!GetActiveLinkGet,
   Firestore!RemoveActiveLinkDelete, FP!RemoveActiveLinkDelete, Firestore!RequestFails,
   FP!RequestFails, Firestore!tables, FP!tables, Firestore!Doc, FP!Doc, Firestore!LinkData,
   FP!LinkData, Firestore!Call, FP!Call, Firestore!Request, FP!Request, Firestore!NoDoc,
   FP!NoDoc, Firestore!At, FP!At, Firestore!Return, FP!Return, Firestore!Store, FP!Store,
   Firestore!NewDoc, FP!NewDoc, Firestore!WriteRequest, FP!WriteRequest,
   Firestore!DeleteReflects, FP!DeleteReflects, Firestore!SetReflect, FP!SetReflect,
   Firestore!Running, FP!Running, Firestore!StoredLevel, FP!StoredLevel, Firestore!Method,
   FP!Method, Firestore!Answer, FP!Answer, Firestore!SetAccount, FP!SetAccount,
   Firestore!SetLink, FP!SetLink, Firestore!NoLink, FP!NoLink, Firestore!Mutator, FP!Mutator

(* The backends find it good.                                              *)
LEMMA FirestoreAccepts ==
    ASSUME NEW c, c = NoCall \/ Begins(c)
    PROVE  FP!GoodCall(c) /\ c \in FP!Call(FP!Request)
<1>1. c \in FP!Call(FP!Request)
  <2>1. /\ FP!Doc = Doc /\ FP!Answer = Answer /\ FP!Method = Method
        /\ FP!StoredLevel = StoredLevel
    BY DEF FP!Doc, Doc, FP!Answer, Answer, FP!Method, Method, FP!Mutator, Mutator,
       FP!StoredLevel, StoredLevel
  <2>. QED
    BY <2>1, CallMade DEF Call, FP!Call
<1>. QED
  BY <1>1, CallMade
  DEF FP!GoodCall, FP!TakesAddress, FP!TakesEmail, FP!TakesToken, TakesAddress, TakesEmail,
      TakesToken, FP!Mutator, Mutator

LinksGood == \A k \in Token : link[k].found => link[k].addr \in Address /\ link[k].email \in Email

NoPanic == \A t \in Thread : op[t].pc = "done" => op[t].res # "panic"

OnFirestore == FP!AInv /\ LinksGood /\ NoPanic

(* The process starts on an empty database.                                *)
LEMMA FirestoreStarts ==
    ASSUME Firestore!StoreInit, Alone \subseteq Thread
    PROVE  OnFirestore
<1>1. FP!AInv
  BY SameFirestore, FP!StartAlone, FirestoreAssumed
<1>2. LinksGood /\ NoPanic
  BY SameFirestore DEF FP!StoreInit, FP!NoLink, FP!NoCall, LinksGood, NoPanic
<1>. QED
  BY <1>1, <1>2 DEF OnFirestore

(* A handler makes a call, or drops the one it has made.                   *)
LEMMA FirestoreServes ==
    ASSUME Service, OnFirestore, NEW t \in Thread, NEW c, c = NoCall \/ c = op[t] \/ Begins(c),
           op' = [op EXCEPT ![t] = c], UNCHANGED <<conf, stored, levelVars>>, Service'
    PROVE  OnFirestore'
<1>. USE DEF OnFirestore, stored
<1>1. FP!TInv /\ FP!StoreTypeOK /\ op \in [Thread -> FP!Call(FP!Request)]
  BY DEF FP!AInv, FP!TInv, FP!TypeOK, FP!StoreTypeOK
<1>2. FP!GoodCall(c) /\ c \in FP!Call(FP!Request)
  BY <1>1, FirestoreAccepts DEF FP!TInv, FP!GoodStore
<1>3. op' \in [Thread -> FP!Call(FP!Request)] /\ op'[t] = c
      /\ \A u \in Thread \ {t} : op'[u] = op[u]
  BY <1>1, <1>2
<1>4. FP!TInv'
  <2>1. FP!StoreTypeOK'
    BY <1>1, <1>3 DEF FP!StoreTypeOK
  <2>2. \A u \in Thread : FP!GoodCall(op[u])'
    BY <1>1, <1>2, <1>3 DEF FP!TInv, FP!GoodStore
  <2>3. (Alone \subseteq Thread)'
    BY DEF Service, Configured, Alone
  <2>. QED
    BY <2>1, <2>2, <2>3 DEF FP!TInv, FP!TypeOK, FP!GoodStore
<1>5. FP!FoundOnly'
  BY <1>2, <1>3, CallMade DEF FP!AInv, FP!FoundOnly
<1>6. FP!OnlyOne'
  <2>1. (Service => Quiet)'
    BY AloneQuiet, PTL
  <2>. QED
    BY <2>1 DEF Quiet, FP!OnlyOne, FP!Running
<1>7. \A u \in Alone' : FP!Knows(op[u])'
  <2>. SUFFICES ASSUME NEW u \in Alone, u \in Thread
                PROVE  FP!Knows(op[u])'
    BY AloneSame DEF Service, Configured, Alone
  <2>1. FP!Knows(op[u])
    BY DEF FP!AInv
  <2>2. CASE op'[u] = op[u]
    BY <2>1, <2>2
    DEF FP!Knows, FP!KnowsSetAccount, FP!KnowsBind, FP!KnowsDelete, FP!KnowsQuery,
        FP!Healed, FP!Cleared
  <2>3. CASE u = t /\ c.pc \in {"idle", "begin"}
    BY <1>3, <2>3 DEF FP!Knows
  <2>. QED
    BY <1>3, <2>2, <2>3, CallMade
<1>8. LinksGood' /\ NoPanic'
  BY <1>3, CallMade DEF LinksGood, NoPanic
<1>. QED
  BY <1>4, <1>5, <1>6, <1>7, <1>8 DEF FP!AInv


(* A step of a method, and the end of the process.                         *)
LEMMA FirestoreSteps ==
    ASSUME OnFirestore, NEW t \in Thread, Firestore!StoreStep(t), UNCHANGED conf
    PROVE  OnFirestore'
<1>1. FP!AInv /\ FP!GoodStore /\ FP!StoreStep(t)
  BY SameFirestore DEF OnFirestore, FP!AInv, FP!TInv
<1>2. UNCHANGED <<Address \X Email, Alone>>
  BY AloneSame
<1>3. FP!AInv'
  BY <1>1, <1>2, FP!NextAlone, FirestoreAssumed DEF FP!Next
<1>4. LinksGood'
  <2>. SUFFICES ASSUME NEW k \in Token, link'[k].found
                PROVE  link'[k].addr \in Address /\ link'[k].email \in Email
    BY DEF LinksGood
  <2>1. CASE link'[k] = link[k]
    BY <2>1 DEF OnFirestore, LinksGood
  <2>2. CASE link'[k] # link[k]
    <3>1. k = op[t].token /\ op[t].name \in {"CreateActiveLink", "RemoveActiveLink"}
      BY <1>1, <2>2, FP!LinkMoves, FirestoreAssumed
    <3>2. op[t].name = "CreateActiveLink" =>
             link'[k] = [found |-> TRUE, addr |-> op[t].addr, email |-> op[t].email,
                         unbind |-> op[t].unbind]
      BY <1>1, <2>2, <3>1, FP!LinkMoves, FirestoreAssumed
    <3>3. op[t].name = "RemoveActiveLink" => link'[k] = FP!NoLink
      BY <1>1, <2>2, <3>1, FP!LinkMoves, FirestoreAssumed
    <3>4. op[t].name = "CreateActiveLink"
      BY <3>1, <3>3 DEF FP!NoLink
    <3>5. op[t].addr \in Address /\ op[t].email \in Email
      BY <1>1, <3>4 DEF FP!GoodStore, FP!GoodCall, FP!TakesAddress, FP!TakesEmail
    <3>. QED
      BY <3>2, <3>4, <3>5
  <2>. QED
    BY <2>1, <2>2
<1>5. NoPanic'
  <2>1. op'[t].pc = "done" => op'[t].res \in {"ok", "err"}
    BY <1>1, FP!CallKept, FirestoreAssumed
  <2>2. \A u \in Thread \ {t} : op'[u] = op[u]
    BY <1>1, FP!StepOfOne, FirestoreAssumed
  <2>. QED
    BY <2>1, <2>2 DEF OnFirestore, NoPanic
<1>. QED
  BY <1>3, <1>4, <1>5 DEF OnFirestore

LEMMA FirestoreExits ==
    ASSUME OnFirestore, Firestore!ProcessExit, UNCHANGED conf
    PROVE  OnFirestore'
<1>1. FP!AInv /\ FP!ProcessExit /\ UNCHANGED <<Address \X Email, Alone>>
  BY SameFirestore, AloneSame DEF OnFirestore
<1>2. FP!AInv'
  BY <1>1, FP!NextAlone, FirestoreAssumed DEF FP!Next
<1>3. LinksGood' /\ NoPanic'
  BY DEF Firestore!ProcessExit, Firestore!tables, Firestore!NoCall, OnFirestore, LinksGood,
     NoPanic
<1>. QED
  BY <1>2, <1>3 DEF OnFirestore

(* The call stays the call that the handler waits for.                     *)
LEMMA FirestoreKeeps ==
    ASSUME OnFirestore, NEW t \in Thread, Firestore!StoreStep(t), UNCHANGED conf
    PROVE  /\ op' = [u \in Thread |-> op'[u]] /\ \A u \in Thread \ {t} : op'[u] = op[u]
           /\ Kept(op[t], op'[t])
<1>1. FP!GoodStore /\ FP!StoreStep(t)
  BY SameFirestore DEF OnFirestore, FP!AInv, FP!TInv
<1>2. /\ \A u \in Thread \ {t} : op'[u] = op[u]
      /\ FP!Running(t)
  BY <1>1, FP!StepOfOne, FirestoreAssumed
<1>3. /\ op'[t].name = op[t].name /\ op'[t].token = op[t].token
      /\ op[t].name # "GetActiveLink" =>
            op'[t].addr = op[t].addr /\ op'[t].email = op[t].email
      /\ op'[t].pc # "idle" /\ (op'[t].pc = "done" => op'[t].res \in {"ok", "err"})
  BY <1>1, FP!CallKept, FirestoreAssumed
<1>4. op[t].name = "GetActiveLink" /\ op'[t].pc = "done" /\ op'[t].res = "ok" =>
         op'[t].addr \in Address /\ op'[t].email \in Email
  <2>. SUFFICES ASSUME op[t].name = "GetActiveLink", op'[t].pc = "done", op'[t].res = "ok"
                PROVE  op'[t].addr \in Address /\ op'[t].email \in Email
    OBVIOUS
  <2>1. /\ link[op[t].token].found
        /\ op'[t].addr = link[op[t].token].addr /\ op'[t].email = link[op[t].token].email
    BY <1>1, FP!QueryAnswers, FirestoreAssumed
  <2>2. op[t].token \in Token
    BY <1>1 DEF FP!GoodStore, FP!GoodCall, FP!TakesToken
  <2>. QED
    BY <2>1, <2>2 DEF OnFirestore, LinksGood
<1>5. op' = [u \in Thread |-> op'[u]]
  BY FirestoreSteps DEF OnFirestore, FP!AInv, FP!TInv, FP!GoodStore, FP!StoreTypeOK
<1>. QED
  BY <1>2, <1>3, <1>4, <1>5 DEF Kept, FP!Running, TakesAddress, TakesEmail, Mutator
LP == INSTANCE LevelDBProofs WITH
    Level <- StoredLevel, alone <- Alone, crowded <- LevelDB!Holder

LEMMA SameLevelDB ==
    /\ \A t : LevelDB!StoreStep(t) <=> LP!StoreStep(t)
    /\ LevelDB!ProcessExit <=> LP!ProcessExit
    /\ LevelDB!StoreInit([a \in Address |-> NoDoc]) <=> LP!StoreInit([a \in Address |-> LP!NoDoc])
    /\ LevelDB!StoreTypeOK <=> LP!StoreTypeOK
BY DEF LevelDB!StoreInit, LP!StoreInit, NoDoc, LevelDB!StoreStep, LP!StoreStep,
   LevelDB!ProcessExit, LP!ProcessExit, LevelDB!StoreTypeOK,
   LP!StoreTypeOK, LevelDB!NoCall, LP!NoCall, LevelDB!LockStep, LP!LockStep, LevelDB!QueryStep,
   LP!QueryStep, LevelDB!BindStep, LP!BindStep, LevelDB!UnbindStep, LP!UnbindStep,
   LevelDB!LevelStep, LP!LevelStep, LevelDB!AccessFails, LP!AccessFails, LevelDB!ReturnNil,
   LP!ReturnNil, LevelDB!Panic, LP!Panic, LevelDB!NoDoc, LP!NoDoc, LevelDB!Key, LP!Key,
   LevelDB!Holder, LP!Holder, LevelDB!data, LP!data, LevelDB!Doc, LP!Doc, LevelDB!Call,
   LP!Call, LevelDB!Section, LP!Section, LevelDB!AskLock, LP!AskLock, LevelDB!AskEmailLock,
   LP!AskEmailLock, LevelDB!TakeLock, LP!TakeLock, LevelDB!Unlock, LP!Unlock,
   LevelDB!DropOuter, LP!DropOuter, LevelDB!DropInner, LP!DropInner, LevelDB!QueryAccountRead,
   LP!QueryAccountRead, LevelDB!ReadReflect, LP!ReadReflect, LevelDB!ReadReflectOf,
   LP!ReadReflectOf, LevelDB!UpdateBindingRead, LP!UpdateBindingRead, LevelDB!ReadEmail,
   LP!ReadEmail, LevelDB!WriteEmail, LP!WriteEmail, LevelDB!ReadOld, LP!ReadOld,
   LevelDB!WriteOld, LP!WriteOld, LevelDB!UpdateBindingWrite, LP!UpdateBindingWrite,
   LevelDB!DeleteBindingRead, LP!DeleteBindingRead, LevelDB!DeleteEmail, LP!DeleteEmail,
   LevelDB!DeleteBindingWrite, LP!DeleteBindingWrite, LevelDB!ActiveAccountRead,
   LP!ActiveAccountRead, LevelDB!ActiveAccountWrite, LP!ActiveAccountWrite,
   LevelDB!UpdateAccountLevelRead, LP!UpdateAccountLevelRead, LevelDB!UpdateAccountLevelWrite,
   LP!UpdateAccountLevelWrite, LevelDB!Outer, LP!Outer, LevelDB!Leave, LP!Leave, LevelDB!Inner,
   LP!Inner, LevelDB!locks, LP!locks, LevelDB!Stub, LP!Stub, LevelDB!Unsupported,
   LP!Unsupported, LevelDB!StoredLevel, LP!StoredLevel, LevelDB!Method, LP!Method,
   LevelDB!Answer, LP!Answer, LevelDB!ManyLocks, LP!ManyLocks, LevelDB!OuterKey, LP!OuterKey,
   LevelDB!InnerKey, LP!InnerKey, LevelDB!At, LP!At, LevelDB!EmailKey, LP!EmailKey,
   LevelDB!Listed, LP!Listed, LevelDB!HasOuter, LP!HasOuter, LevelDB!AccountFound,
   LP!AccountFound, LevelDB!Load, LP!Load, LevelDB!HasInner, LP!HasInner, LevelDB!WriteAccount,
   LP!WriteAccount, LevelDB!NewDoc, LP!NewDoc, LevelDB!Mutator, LP!Mutator, LevelDB!AccountKey,
   LP!AccountKey, LevelDB!Locks!LoadOrStore, LP!Locks!LoadOrStore, LevelDB!Locks!Lock,
   LP!Locks!Lock, LevelDB!Locks!Unlock, LP!Locks!Unlock, LevelDB!Locks!Delete, LP!Locks!Delete,
   LevelDB!Locks!Fresh, LP!Locks!Fresh, LevelDB!Locks!TypeOK, LP!Locks!TypeOK,
   LevelDB!Locks!Place, LP!Locks!Place

LEMMA LevelDBAccepts ==
    ASSUME NEW c, c = NoCall \/ Begins(c)
    PROVE  LP!GoodCall(c) /\ c \in LP!Call(LP!Section)
<1>1. c \in LP!Call(LP!Section)
  <2>1. /\ LP!Doc = Doc /\ LP!Answer = Answer /\ LP!Method = Method
        /\ LP!StoredLevel = StoredLevel
    BY DEF LP!Doc, Doc, LP!Answer, Answer, LP!Method, Method, LP!Mutator, Mutator,
       LP!StoredLevel, StoredLevel
  <2>. QED
    BY <2>1, CallMade DEF Call, LP!Call
<1>. QED
  BY <1>1, CallMade
  DEF LP!GoodCall, LP!TakesAddress, LP!TakesEmail, LP!TakesToken, TakesAddress, TakesEmail,
      TakesToken, LP!Mutator, Mutator

LEMMA LevelDBAssumed ==
    /\ NoAddress \notin Address /\ StoredLevel \subseteq LP!StoredLevel
    /\ NoHolder \notin LP!Holder /\ NoMutex \notin Mutex /\ NoKey \notin LP!Key
BY NoAddressAssumption, LockAssumption DEF StoredLevel, LP!StoredLevel, LP!Holder,
   LevelDB!Holder,
   LP!Key, LevelDB!Key

OnLevelDB == LP!LInv /\ LP!FoundOnly /\ \A t \in Alone : LP!Knows(t)

(* The process starts on an empty store.                                   *)
LEMMA LevelDBStarts ==
    ASSUME LevelDB!StoreInit([a \in Address |-> NoDoc]), Alone \subseteq Thread
    PROVE  OnLevelDB
<1>1. LP!StoreInit([a \in Address |-> LP!NoDoc]) /\ LevelDB!Holder \subseteq LP!Holder
  BY SameLevelDB DEF LP!Holder, LevelDB!Holder
<1>2. LP!LInv
  BY <1>1, LP!StartInv, LevelDBAssumed
<1>3. LP!FoundOnly /\ \A t \in Thread : LP!Knows(t)
  BY <1>1, LP!StartKnown, LevelDBAssumed
<1>. QED
  BY <1>2, <1>3 DEF OnLevelDB

(* A handler makes a call, or drops the one it has made.                   *)
LEMMA LevelDBServes ==
    ASSUME Service, OnLevelDB, NEW t \in Thread, NEW c, op' = [op EXCEPT ![t] = c],
           c = op[t] \/ (op[t].pc \in {"idle", "done"} /\ (c = NoCall \/ Begins(c))),
           UNCHANGED <<conf, stored, levelVars>>, Service'
    PROVE  OnLevelDB'
<1>. USE DEF OnLevelDB, stored, levelVars
<1>1. UNCHANGED <<Alone, LevelDB!Holder>> /\ Alone \subseteq Thread
  BY AloneSame, AloneQuiet DEF Quiet
<1>2. op \in [Thread -> LP!Call(LP!Section)]
  BY DEF LP!LInv, LP!TypeOK, LP!StoreTypeOK
<1>3. CASE c = op[t]
  <2>1. UNCHANGED op
    BY <1>2, <1>3
  <2>2. LP!LInv'
    BY <1>1, <2>1, LP!NextInv, LevelDBAssumed DEF LP!vars
  <2>. QED
    BY <1>1, <2>1, <2>2
    DEF LP!FoundOnly, LP!Knows, LP!KnowsQuery, LP!KnowsBind, LP!KnowsUnbind, LP!Healed,
        LP!Cleared
<1>4. CASE op[t].pc \in {"idle", "done"} /\ (c = NoCall \/ Begins(c))
  <2>1. LP!GoodCall(c) /\ c \in LP!Call(LP!Section) /\ c.pc \in {"idle", "begin"}
        /\ c.owner = NoAddress
    BY <1>4, LevelDBAccepts, CallMade
  <2>2. op'[t] = c /\ \A u \in Thread \ {t} : op'[u] = op[u]
    BY <1>2, <2>1
  <2>3. LP!LInv'
    BY <1>1, <1>4, <2>1, LP!CallInv, LevelDBAssumed DEF LP!locks, LP!Running
  <2>4. LP!FoundOnly'
    BY <2>1, <2>2 DEF LP!FoundOnly, LP!Inside
  <2>5. ASSUME NEW u \in Alone PROVE LP!Knows(u)'
    <3>1. CASE u = t
      BY <2>1, <2>2, <3>1 DEF LP!Knows, LP!KnowsQuery, LP!KnowsBind, LP!KnowsUnbind, LP!Inside
    <3>2. CASE u # t
      <4>1. op'[u] = op[u] /\ LP!Knows(u)
        BY <1>1, <2>2, <2>5, <3>2
      <4>. QED
        BY <4>1 DEF LP!Knows, LP!KnowsQuery, LP!KnowsBind, LP!KnowsUnbind, LP!Healed, LP!Cleared
    <3>. QED
      BY <3>1, <3>2
  <2>. QED
    BY <1>1, <2>3, <2>4, <2>5
<1>. QED
  BY <1>3, <1>4

(* A step of a method, and the end of the process.                         *)
LEMMA LevelDBSteps ==
    ASSUME Service, OnLevelDB, NEW t \in Thread, LevelDB!StoreStep(t), UNCHANGED conf
    PROVE  OnLevelDB'
<1>1. LP!LInv /\ LP!FoundOnly /\ LP!StoreStep(t)
  BY SameLevelDB DEF OnLevelDB
<1>2. UNCHANGED <<Alone, LevelDB!Holder>> /\ Alone \subseteq Thread
  BY AloneSame, AloneQuiet DEF Quiet
<1>3. LP!LInv'
  <2>1. LP!Holder = LevelDB!Holder
    BY DEF LP!Holder, LevelDB!Holder
  <2>2. LP!Shared' \subseteq LevelDB!Holder
    BY <2>1 DEF LP!Shared
  <2>. QED
    BY <1>1, <1>2, <2>1, <2>2, LP!StepInv, LevelDBAssumed
<1>4. LP!FoundOnly'
  BY <1>1, LP!StepFound, LevelDBAssumed
<1>5. ASSUME NEW u \in Alone PROVE LP!Knows(u)'
  <2>1. op[t].pc # "idle"
    BY <1>1, LP!StepRuns, LevelDBAssumed DEF LP!Running
  <2>2. u = t
    BY <1>2, <2>1, <1>5, AloneQuiet DEF Quiet
  <2>3. LP!Knows(t)
    BY <1>5, <2>2 DEF OnLevelDB
  <2>. QED
    BY <1>1, <2>2, <2>3, LP!StepKnows, LevelDBAssumed
<1>. QED
  BY <1>2, <1>3, <1>4, <1>5 DEF OnLevelDB

LEMMA LevelDBExits ==
    ASSUME Service, OnLevelDB, LevelDB!ProcessExit, UNCHANGED conf
    PROVE  OnLevelDB'
<1>1. /\ LP!LInv /\ LP!FoundOnly /\ LP!ProcessExit
      /\ UNCHANGED <<Alone, LevelDB!Holder>> /\ Alone \subseteq Thread
  BY SameLevelDB, AloneSame, AloneQuiet DEF OnLevelDB, Quiet
<1>2. LP!LInv'
  <2>1. LevelDB!Holder \subseteq LP!Holder
    BY DEF LP!Holder, LevelDB!Holder
  <2>. QED
    BY <1>1, <2>1, LP!ExitInv, LevelDBAssumed
<1>3. op' = [u \in Thread |-> NoCall] /\ UNCHANGED <<account, reflect>>
  BY DEF LevelDB!ProcessExit, LevelDB!data, LevelDB!NoCall, NoCall, LevelDB!NoDoc, NoDoc
<1>4. NoCall.pc = "idle" /\ NoCall.name = "none"
  BY DEF NoCall
<1>5. LP!FoundOnly'
  BY <1>1, <1>3, <1>4 DEF LP!FoundOnly, LP!Inside
<1>6. \A u \in Thread : LP!Knows(u)'
  BY <1>3, <1>4 DEF LP!Knows, LP!KnowsQuery, LP!Inside
<1>. QED
  BY <1>1, <1>2, <1>5, <1>6 DEF OnLevelDB

(* The call stays the call that the handler waits for.                     *)
LEMMA LevelDBKeeps ==
    ASSUME OnLevelDB, NEW t \in Thread, LevelDB!StoreStep(t)
    PROVE  /\ op' = [u \in Thread |-> op'[u]] /\ \A u \in Thread \ {t} : op'[u] = op[u]
           /\ Kept(op[t], op'[t])
<1>1. LP!LInv /\ LP!StoreStep(t)
  BY SameLevelDB DEF OnLevelDB
<1>2. /\ LP!Calls' /\ \A u \in Thread \ {t} : op'[u] = op[u]
      /\ LP!Keeps(op[t], op'[t]) /\ LP!GoodCall(op'[t]) /\ op'[t].pc # "idle"
      /\ LP!Running(t)
  BY <1>1, LP!StepGood, LP!StepRuns, LevelDBAssumed DEF LP!GoodCall, LP!KeyOf
<1>3. op' = [u \in Thread |-> op'[u]]
  BY <1>2 DEF LP!Calls
<1>. QED
  BY <1>2, <1>3 DEF Kept, LP!Running, LP!Keeps, LP!GoodCall, LP!ManyLocks, LP!Unsupported,
     TakesAddress, TakesEmail, Mutator
RP == INSTANCE RedisProofs WITH
    Level <- StoredLevel, asked <- Address \X Email, alone <- Alone


LEMMA SameRedis ==
    /\ \A t : Redis!StoreStep(t) <=> RP!StoreStep(t)
    /\ Redis!ProcessExit <=> RP!ProcessExit
    /\ Redis!StoreInit <=> RP!StoreInit
    /\ Redis!StoreTypeOK <=> RP!StoreTypeOK
BY DEF Redis!StoreInit, RP!StoreInit, Redis!StoreStep, RP!StoreStep, Redis!ProcessExit,
   RP!ProcessExit, Redis!StoreTypeOK,
   RP!StoreTypeOK, Redis!NoCall, RP!NoCall, Redis!QueryAccountHGetAll, RP!QueryAccountHGetAll,
   Redis!QueryReflectGet, RP!QueryReflectGet, Redis!QueryReflectsMGet, RP!QueryReflectsMGet,
   Redis!ActiveAccountHSet, RP!ActiveAccountHSet, Redis!UpdateAccountLevelExists,
   RP!UpdateAccountLevelExists, Redis!UpdateAccountLevelHSet, RP!UpdateAccountLevelHSet,
   Redis!UpdateBindingExists, RP!UpdateBindingExists, Redis!UpdateBindingGet,
   RP!UpdateBindingGet, Redis!UpdateBindingHGetOld, RP!UpdateBindingHGetOld,
   Redis!UpdateBindingHSetOld, RP!UpdateBindingHSetOld, Redis!UpdateBindingSet,
   RP!UpdateBindingSet, Redis!UpdateBindingHGet, RP!UpdateBindingHGet, Redis!UpdateBindingHSet,
   RP!UpdateBindingHSet, Redis!DeleteBindingExists, RP!DeleteBindingExists,
   Redis!DeleteBindingGet, RP!DeleteBindingGet, Redis!DeleteBindingDel, RP!DeleteBindingDel,
   Redis!DeleteBindingHGet, RP!DeleteBindingHGet, Redis!DeleteBindingHSet,
   RP!DeleteBindingHSet, Redis!UninstallByUserNil, RP!UninstallByUserNil,
   Redis!LinkMethodPanics, RP!LinkMethodPanics, Redis!DeleteAccountExists,
   RP!DeleteAccountExists, Redis!DeleteAccountHGet, RP!DeleteAccountHGet,
   Redis!DeleteAccountDelMapping, RP!DeleteAccountDelMapping, Redis!DeleteAccountDel,
   RP!DeleteAccountDel, Redis!CommandFails, RP!CommandFails, Redis!tables, RP!tables,
   Redis!Doc, RP!Doc, Redis!Call, RP!Call, Redis!Command, RP!Command, Redis!NoDoc, RP!NoDoc,
   Redis!At, RP!At, Redis!Return, RP!Return, Redis!WriteCommand, RP!WriteCommand, Redis!Exists,
   RP!Exists, Redis!GoWithList, RP!GoWithList, Redis!Go, RP!Go, Redis!DeleteMappings,
   RP!DeleteMappings, Redis!SetMapping, RP!SetMapping, Redis!Running, RP!Running,
   Redis!StoredLevel, RP!StoredLevel, Redis!Method, RP!Method, Redis!Answer, RP!Answer,
   Redis!HSetLevel, RP!HSetLevel, Redis!HSetList, RP!HSetList, Redis!SetHash, RP!SetHash,
   Redis!NewDoc, RP!NewDoc, Redis!Mutator, RP!Mutator

LEMMA RedisAccepts ==
    ASSUME NEW c, c = NoCall \/ Begins(c)
    PROVE  RP!GoodCall(c) /\ c \in RP!Call(RP!Command) /\ RP!Sourced(c)
<1>1. c \in RP!Call(RP!Command)
  <2>1. /\ RP!Doc = Doc /\ RP!Answer = Answer /\ RP!Method = Method
        /\ RP!StoredLevel = StoredLevel
    BY DEF RP!Doc, Doc, RP!Answer, Answer, RP!Method, Method, RP!Mutator, Mutator,
       RP!StoredLevel, StoredLevel
  <2>. QED
    BY <2>1, CallMade DEF Call, RP!Call
<1>2. RP!GoodCall(c)
  BY CallMade
  DEF RP!GoodCall, RP!TakesAddress, RP!TakesEmail, RP!TakesToken, TakesAddress, TakesEmail,
      TakesToken, RP!Mutator, Mutator
<1>3. RP!Sourced(c)
  BY CallMade DEF RP!Sourced, TakesAddress, TakesEmail, Mutator
<1>. QED
  BY <1>1, <1>2, <1>3

LEMMA RedisAssumed == NoAddress \notin Address /\ StoredLevel \subseteq RP!StoredLevel
BY NoAddressAssumption DEF StoredLevel, RP!StoredLevel

(* No query finds an owner, and a call about links panics.                 *)
RedisCall(c) ==
    /\ c.answer = {}
    /\ c.name = "QueryReflectByOneEmail" => c.owner = NoAddress
    /\ c.pc = "done" => c.res # "none"
    /\ c.pc = "done" /\ c.res = "panic" => c.name \in TakesToken
    /\ c.pc = "done" /\ c.res = "ok" => c.name \notin TakesToken

OnRedis == RP!RInv /\ \A t \in Thread : RedisCall(op[t])

(* The process starts on an empty database.                                *)
LEMMA RedisStarts ==
    ASSUME Redis!StoreInit, Alone \subseteq Thread
    PROVE  OnRedis
<1>1. RP!RInv
  BY SameRedis, RP!StartHolds, RedisAssumed
<1>2. \A t \in Thread : RedisCall(op[t])
  BY SameRedis DEF RP!StoreInit, RP!NoCall, RedisCall, TakesToken
<1>. QED
  BY <1>1, <1>2 DEF OnRedis

(* A handler makes a call, or drops the one it has made.                   *)
LEMMA RedisServes ==
    ASSUME Service, OnRedis, NEW t \in Thread, NEW c, c = NoCall \/ c = op[t] \/ Begins(c),
           op' = [op EXCEPT ![t] = c], UNCHANGED <<conf, stored, levelVars>>, Service'
    PROVE  OnRedis'
<1>. USE DEF OnRedis, stored
<1>1. RP!StoreTypeOK /\ op \in [Thread -> RP!Call(RP!Command)]
  BY DEF RP!RInv, RP!TypeOK, RP!StoreTypeOK
<1>2. RP!GoodCall(c) /\ c \in RP!Call(RP!Command) /\ RP!Sourced(c) /\ RedisCall(c)
  <2>1. CASE c = op[t]
    BY <1>1, <2>1 DEF RP!RInv
  <2>2. CASE c = NoCall \/ Begins(c)
    BY <2>2, RedisAccepts, CallMade DEF RedisCall
  <2>. QED
    BY <2>1, <2>2
<1>3. op' \in [Thread -> RP!Call(RP!Command)] /\ op'[t] = c
      /\ \A u \in Thread \ {t} : op'[u] = op[u]
  BY <1>1, <1>2
<1>4. UNCHANGED Alone /\ Alone \subseteq Thread
  BY AloneSame, AloneQuiet DEF Quiet
<1>5. RP!TypeOK' /\ RP!Database'
  BY <1>1, <1>3, <1>4 DEF RP!RInv, RP!TypeOK, RP!StoreTypeOK, RP!Database, RP!FoundOnly,
     RP!Provenance
<1>6. \A u \in Thread : RP!GoodCall(op[u])' /\ RP!Sourced(op[u])' /\ RedisCall(op'[u])
  BY <1>2, <1>3 DEF RP!RInv, RP!Sourced, RP!Allowed
<1>7. RP!OnlyOne'
  <2>1. (Service => Quiet)'
    BY AloneQuiet, PTL
  <2>. QED
    BY <2>1 DEF Quiet, RP!OnlyOne, RP!Running
<1>8. ASSUME NEW u \in Alone PROVE RP!Knows(op[u])'
  <2>1. RP!Knows(op[u])
    BY <1>8 DEF RP!RInv
  <2>2. CASE op'[u] = op[u]
    BY <2>1, <2>2
    DEF RP!Knows, RP!KnowsBind, RP!KnowsUnbind, RP!KnowsDelete, RP!KnowsQuery,
        RP!Healed, RP!Cleared
  <2>3. CASE u = t /\ c.pc \in {"idle", "begin"}
    BY <1>3, <2>3 DEF RP!Knows, RP!KnowsBind, RP!KnowsUnbind, RP!KnowsDelete, RP!KnowsQuery
  <2>. QED
    BY <1>3, <1>4, <1>8, <2>2, <2>3, CallMade
<1>. QED
  BY <1>4, <1>5, <1>6, <1>7, <1>8 DEF RP!RInv

(* A step of a method, and the end of the process.                         *)
LEMMA RedisSteps ==
    ASSUME OnRedis, NEW t \in Thread, Redis!StoreStep(t), UNCHANGED conf
    PROVE  OnRedis'
<1>1. RP!RInv /\ RP!StoreStep(t) /\ UNCHANGED <<Address \X Email, Alone>>
  BY SameRedis, AloneSame DEF OnRedis
<1>2. RP!RInv'
  BY <1>1, RP!NextHolds, RedisAssumed DEF RP!Next
<1>3. RedisCall(op'[t])
  <2>1. /\ RP!SameArguments(op[t], op'[t]) /\ op'[t].answer = op[t].answer
        /\ op'[t].pc = "done" =>
              op'[t].res \in
                 (IF op[t].name \in RP!TakesToken THEN {"err", "panic"} ELSE {"ok", "err"})
    BY <1>1, RP!CallKept, RedisAssumed
  <2>2. op[t].name = "QueryReflectByOneEmail" => op'[t].owner = op[t].owner
    BY <1>1, RP!QueryAnswers, RedisAssumed
  <2>3. RedisCall(op[t])
    BY DEF OnRedis
  <2>. QED
    BY <2>1, <2>2, <2>3 DEF RedisCall, RP!SameArguments, RP!TakesToken, TakesToken
<1>4. \A u \in Thread \ {t} : op'[u] = op[u]
  BY <1>1, RP!StepCall, RedisAssumed
<1>. QED
  BY <1>2, <1>3, <1>4 DEF OnRedis

LEMMA RedisExits ==
    ASSUME OnRedis, Redis!ProcessExit, UNCHANGED conf
    PROVE  OnRedis'
<1>1. RP!RInv /\ RP!ProcessExit /\ UNCHANGED <<Address \X Email, Alone>>
  BY SameRedis, AloneSame DEF OnRedis
<1>2. RP!RInv'
  BY <1>1, RP!NextHolds, RedisAssumed DEF RP!Next
<1>3. op' = [t \in Thread |-> NoCall]
  BY DEF Redis!ProcessExit, Redis!NoCall, NoCall, Redis!NoDoc, NoDoc
<1>4. RedisCall(NoCall)
  BY DEF RedisCall, NoCall
<1>. QED
  BY <1>2, <1>3, <1>4 DEF OnRedis

(* The call stays the call that the handler waits for.                     *)
LEMMA RedisKeeps ==
    ASSUME OnRedis, NEW t \in Thread, Redis!StoreStep(t), UNCHANGED conf
    PROVE  /\ op' = [u \in Thread |-> op'[u]] /\ \A u \in Thread \ {t} : op'[u] = op[u]
           /\ Kept(op[t], op'[t])
<1>1. RP!RInv /\ RP!StoreStep(t) /\ UNCHANGED <<Address \X Email, Alone>>
  BY SameRedis, AloneSame DEF OnRedis
<1>2. /\ RP!Calls' /\ \A u \in Thread \ {t} : op'[u] = op[u]
      /\ RP!SameArguments(op[t], op'[t]) /\ op'[t].pc # "idle" /\ RP!Running(t)
  BY <1>1, RP!StepCall, RP!CallKept, RP!StepRuns, RedisAssumed
<1>3. RedisCall(op'[t])
  BY RedisSteps DEF OnRedis
<1>4. op' = [u \in Thread |-> op'[u]]
  BY <1>2 DEF RP!Calls
<1>. QED
  BY <1>2, <1>3, <1>4 DEF Kept, RP!Running, RP!SameArguments, RedisCall, TakesToken

-----------------------------------------------------------------------------
(* No database: a call panics.                                             *)

OnNothing ==
    /\ op \in [Thread -> Call({})]
    /\ \A t \in Thread : op[t].pc = "done" => op[t].res = "panic"

LEMMA NothingServes ==
    ASSUME OnNothing, NEW t \in Thread, NEW c, c = NoCall \/ c = op[t] \/ Begins(c),
           op' = [op EXCEPT ![t] = c]
    PROVE  OnNothing'
<1>1. c \in Call({}) /\ (c.pc = "done" => c.res = "panic")
  BY CallMade DEF OnNothing
<1>. QED
  BY <1>1 DEF OnNothing

LEMMA NothingSteps ==
    ASSUME OnNothing, NEW t \in Thread, NilCall(t)
    PROVE  /\ OnNothing' /\ op' = [u \in Thread |-> op'[u]]
           /\ \A u \in Thread \ {t} : op'[u] = op[u]
           /\ Kept(op[t], op'[t])
<1>. DEFINE c == [op[t] EXCEPT !.pc = "done", !.res = "panic", !.doc = NoDoc, !.todo = {}]
<1>1. op[t] \in Call({}) /\ op[t].pc = "begin" /\ op' = [op EXCEPT ![t] = c]
  BY DEF NilCall, Return, OnNothing
<1>2. c \in Call({})
  BY <1>1, NoCallTyped, ZenonT(60) DEF Call
<1>3. /\ c.pc = "done" /\ c.res = "panic" /\ c.name = op[t].name /\ c.addr = op[t].addr
      /\ c.email = op[t].email /\ c.token = op[t].token
  BY <1>1 DEF Call
<1>. HIDE DEF c
<1>4. Kept(op[t], c)
  BY <1>1, <1>3 DEF Kept
<1>. QED
  BY <1>1, <1>2, <1>3, <1>4 DEF OnNothing

-----------------------------------------------------------------------------
(* The invariant of the server: what a handler and its call have to do     *)
(* with each other (Service), on whatever database there is.               *)

Database ==
    /\ Uses(DBTypFirestore) => OnFirestore
    /\ Uses(DBTypLevelDB) => OnLevelDB
    /\ Uses(DBTypRedis) => OnRedis
    /\ NoDatabase => OnNothing

(* The token of a link is new to the mailboxes until it is mailed, and no  *)
(* two requests make the same link; a link that is opened was mailed.      *)
Mailing(r) == r.pc \in {"link", "created", "mail"}
Tokens ==
    /\ \A t \in Thread : Mailing(req[t]) => req[t].token \in issued \ inbox
    /\ \A t, u \in Thread :
          Mailing(req[t]) /\ Mailing(req[u]) /\ req[t].token = req[u].token => t = u
    /\ \A t \in Thread :
          req[t].pc # "idle" /\ req[t].handler = "ActiveVerify" => req[t].token \in inbox

Inv == Service /\ Tokens /\ Database

LEMMA InitService ==
    ASSUME Init
    PROVE  Service /\ op = [t \in Thread |-> NoCall] /\ req = [t \in Thread |-> NoReq]
<1>1. PICK d \in Deployments : conf \in Deployed(d)
  BY DEF Init, ServiceInit
<1>. DEFINE chosen == CHOOSE T \in SUBSET Thread : Cardinality(T) = d.threads
<1>2. chosen \in SUBSET Thread
  BY <1>1, DeploymentsAssumption
<1>3. kSubset(d.addresses, Address) \subseteq SUBSET Address
      /\ kSubset(d.emails, Email) \subseteq SUBSET Email
  BY DEF kSubset
<1>4. /\ conf.database_typ = d.database_typ /\ conf.served = d.served /\ conf.levels = d.levels
      /\ conf.thread = chosen /\ conf.address \in kSubset(d.addresses, Address)
      /\ conf.email \in kSubset(d.emails, Email)
  BY <1>1 DEF Deployed
<1>5. Configured
  BY <1>1, <1>2, <1>3, <1>4, DeploymentsAssumption DEF Configured
<1>6. op = [t \in Thread |-> NoCall] /\ req = [t \in Thread |-> NoReq]
  BY DEF Init, ServiceInit, Redis!StoreInit, Redis!NoCall, NoCall, Redis!NoDoc, NoDoc
<1>7. ServiceTypeOK
  BY <1>6, NoReqTyped DEF Init, ServiceInit, ServiceTypeOK
<1>8. Waits(NoReq, NoCall) /\ Serves(NoReq)
  BY DEF Waits, Serves, NoReq, NoCall
<1>. QED
  BY <1>5, <1>6, <1>7, <1>8 DEF Service, NoReq

LEMMA InitInv == Init => Inv
<1>. SUFFICES ASSUME Init PROVE Inv
  OBVIOUS
<1>1. Service /\ Alone \subseteq Thread
  BY InitService, AloneQuiet DEF Quiet
<1>2. /\ Firestore!StoreInit /\ Redis!StoreInit
      /\ LevelDB!StoreInit([a \in Address |-> NoDoc])
  BY DEF Init
<1>3. OnNothing
  <2>1. NoCall.pc = "idle"
    BY DEF NoCall
  <2>. QED
    BY <2>1, InitService, NoCallTyped DEF OnNothing
<1>4. Tokens
  BY InitService DEF Tokens, Mailing, NoReq
<1>. QED
  BY <1>1, <1>2, <1>3, <1>4, FirestoreStarts, LevelDBStarts, RedisStarts DEF Inv, Database

(* A step of a handler.                                                    *)
LEMMA TurnsTokens ==
    ASSUME Service, Tokens, NEW t \in conf.thread, Turns(t), UNCHANGED conf
    PROVE  Service' /\ Tokens'
<1>1. PICK r \in Req, c \in {op'[t]} :
         /\ req' = [req EXCEPT ![t] = r] /\ op' = [op EXCEPT ![t] = c]
         /\ Waits(r, c) /\ Serves(r) /\ Goes(t, r, c)
  BY RequestFacts DEF Turns
<1>2. /\ op' = [u \in Thread |-> op'[u]] /\ op'[t] = c /\ req'[t] = r /\ req' \in [Thread -> Req]
      /\ \A u \in Thread \ {t} : op'[u] = op[u] /\ req'[u] = req[u]
  BY <1>1, RequestFacts
<1>3. /\ req[t].pc = "mail" => req[t].token \in issued \ inbox
      /\ expired' = expired /\ inbox \subseteq issued /\ issued \subseteq Token
      /\ expired \subseteq inbox /\ t \in Thread
  BY <1>1, RequestFacts DEF Tokens, Mailing, Service, ServiceTypeOK, Goes
<1>4. /\ issued \subseteq issued' /\ issued' \subseteq Token
      /\ inbox' = inbox \/ (Mailing(req[t]) /\ ~Mailing(r) /\ inbox' = inbox \cup {req[t].token})
      /\ Mailing(r) => \/ r.token \in issued' \ issued
                       \/ Mailing(req[t]) /\ r.token = req[t].token
  BY <1>1, <1>3 DEF Goes, Mailing
<1>5. r.pc # "idle" /\ r.handler = "ActiveVerify" =>
         \/ r.token \in inbox
         \/ req[t].pc # "idle" /\ req[t].handler = "ActiveVerify" /\ r.token = req[t].token
  <2>1. r.pc # "idle" /\ r.handler = "ActiveVerify" =>
           r.pc \in {"rights", "verify", "activated", "bound", "result"}
    BY <1>1 DEF Serves, Req
  <2>2. r.pc = "activated" => req[t].handler = "ActiveVerify"
    BY <1>1, RequestFacts DEF Goes, Serves
  <2>. QED
    BY <1>1, <2>1, <2>2 DEF Goes
<1>6. Service'
  <2>1. (inbox \subseteq issued /\ issued \subseteq Token /\ expired \subseteq inbox)'
    BY <1>3, <1>4 DEF Tokens
  <2>. QED
    BY <1>1, <1>2, <2>1 DEF Service, ServiceTypeOK, Configured, Serves
<1>7. \A u \in Thread : Mailing(req'[u]) => req'[u].token \in issued' \ inbox'
  <2>. SUFFICES ASSUME NEW u \in Thread, Mailing(req'[u])
                PROVE  req'[u].token \in issued' \ inbox'
    OBVIOUS
  <2>1. CASE u = t
    BY <1>2, <1>3, <1>4, <2>1 DEF Tokens, Service, ServiceTypeOK
  <2>2. CASE u # t
    BY <1>2, <1>3, <1>4, <2>2 DEF Tokens
  <2>. QED
    BY <2>1, <2>2
<1>8. \A u, v \in Thread :
         Mailing(req'[u]) /\ Mailing(req'[v]) /\ req'[u].token = req'[v].token => u = v
  BY <1>2, <1>3, <1>4 DEF Tokens
<1>9. \A u \in Thread :
         req'[u].pc # "idle" /\ req'[u].handler = "ActiveVerify" => req'[u].token \in inbox'
  BY <1>2, <1>3, <1>4, <1>5 DEF Tokens
<1>. QED
  BY <1>6, <1>7, <1>8, <1>9 DEF Tokens

(* The process ends: no request is left, and what is stored remains.       *)
LEMMA EndsTokens ==
    ASSUME Service, Tokens, ProcessEnds
    PROVE  /\ Service' /\ Tokens' /\ UNCHANGED conf /\ op' = [u \in Thread |-> NoCall]
           /\ LevelDB!ProcessExit /\ Firestore!ProcessExit /\ Redis!ProcessExit
<1>1. /\ op' = [u \in Thread |-> NoCall] /\ req' = [u \in Thread |-> NoReq]
      /\ LevelDB!ProcessExit /\ UNCHANGED <<account, reflect, link, noList>>
      /\ UNCHANGED <<conf, inbox, issued, expired>>
  BY DEF ProcessEnds, RequestsLost, LevelDB!ProcessExit, LevelDB!data, LevelDB!NoCall, NoCall,
     LevelDB!NoDoc, NoDoc
<1>2. Firestore!ProcessExit /\ Redis!ProcessExit
  BY <1>1 DEF Firestore!ProcessExit, Redis!ProcessExit, Firestore!tables, Redis!tables,
     Firestore!NoCall, Redis!NoCall, NoCall, Firestore!NoDoc, Redis!NoDoc, NoDoc
<1>3. Waits(NoReq, NoCall) /\ NoReq.pc = "idle"
  BY DEF Waits, NoReq, NoCall
<1>4. Serves(NoReq)'
  BY DEF Serves, NoReq
<1>5. Service'
  BY <1>1, <1>3, <1>4, NoReqTyped DEF Service, ServiceTypeOK, Configured
<1>6. Tokens'
  BY <1>1, <1>3 DEF Tokens, Mailing
<1>. QED
  BY <1>1, <1>2, <1>5, <1>6


-----------------------------------------------------------------------------
(* The invariant is inductive.                                             *)

(* One database is in use.                                                 *)
LEMMA Backends ==
    /\ Uses(DBTypFirestore) => ~Uses(DBTypLevelDB) /\ ~Uses(DBTypRedis) /\ ~NoDatabase
    /\ Uses(DBTypLevelDB) => ~Uses(DBTypFirestore) /\ ~Uses(DBTypRedis) /\ ~NoDatabase
    /\ Uses(DBTypRedis) => ~Uses(DBTypFirestore) /\ ~Uses(DBTypLevelDB) /\ ~NoDatabase
    /\ NoDatabase => ~Uses(DBTypFirestore) /\ ~Uses(DBTypLevelDB) /\ ~Uses(DBTypRedis)
    /\ Uses(DBTypFirestore) \/ Uses(DBTypLevelDB) \/ Uses(DBTypRedis) \/ NoDatabase
BY DEF Uses, NoDatabase, DBTypFirestore, DBTypLevelDB, DBTypRedis

LEMMA BackendsSame ==
    ASSUME UNCHANGED conf
    PROVE  /\ UNCHANGED <<Uses(DBTypFirestore), Uses(DBTypLevelDB), Uses(DBTypRedis)>>
           /\ UNCHANGED NoDatabase
BY DEF Uses, NoDatabase, DBTypFirestore, DBTypLevelDB, DBTypRedis

(* What every step of the database does.                                   *)
LEMMA StepsKeep ==
    ASSUME Inv, NEW t \in conf.thread, DatabaseStep(t), UNCHANGED serviceVars
    PROVE  Inv' /\ Kept(op[t], op'[t]) /\ \A u \in Thread \ {t} : op'[u] = op[u]
<1>. DEFINE Moves == /\ op' = [u \in Thread |-> op'[u]]
                     /\ \A u \in Thread \ {t} : op'[u] = op[u]
                     /\ Kept(op[t], op'[t])
<1>1. t \in Thread /\ UNCHANGED conf
  BY RequestFacts DEF Inv, serviceVars
<1>2. Database' /\ Moves
  <2>1. CASE Uses(DBTypFirestore) /\ Firestore!StoreStep(t)
    <3>1. OnFirestore
      BY <2>1 DEF Inv, Database
    <3>2. OnFirestore' /\ Moves
      BY <1>1, <2>1, <3>1, FirestoreSteps, FirestoreKeeps
    <3>. QED
      BY <1>1, <2>1, <3>2, Backends, BackendsSame DEF Database
  <2>2. CASE Uses(DBTypLevelDB) /\ LevelDB!StoreStep(t)
    <3>1. OnLevelDB
      BY <2>2 DEF Inv, Database
    <3>2. OnLevelDB' /\ Moves
      BY <1>1, <2>2, <3>1, LevelDBSteps, LevelDBKeeps DEF Inv
    <3>. QED
      BY <1>1, <2>2, <3>2, Backends, BackendsSame DEF Database
  <2>3. CASE Uses(DBTypRedis) /\ Redis!StoreStep(t)
    <3>1. OnRedis
      BY <2>3 DEF Inv, Database
    <3>2. OnRedis' /\ Moves
      BY <1>1, <2>3, <3>1, RedisSteps, RedisKeeps
    <3>. QED
      BY <1>1, <2>3, <3>2, Backends, BackendsSame DEF Database
  <2>4. CASE NoDatabase /\ NilCall(t)
    <3>1. OnNothing
      BY <2>4 DEF Inv, Database
    <3>2. OnNothing' /\ Moves
      BY <1>1, <2>4, <3>1, NothingSteps
    <3>. QED
      BY <1>1, <2>4, <3>2, Backends, BackendsSame DEF Database
  <2>. QED
    BY <2>1, <2>2, <2>3, <2>4 DEF DatabaseStep
<1>3. Service'
  BY <1>1, <1>2, KeptServes DEF Inv
<1>4. Tokens'
  BY DEF Inv, Tokens, serviceVars
<1>. QED
  BY <1>2, <1>3, <1>4 DEF Inv

(* A step of a handler leaves the database to the steps of its calls.      *)
LEMMA TurnsKeep ==
    ASSUME Inv, NEW t \in conf.thread, Serve(t), UNCHANGED <<conf, stored, levelVars>>
    PROVE  Inv'
<1>1. /\ Service /\ t \in Thread /\ Turns(t)
      /\ Service' /\ Tokens'
  BY ServeTurns, TurnsTokens, RequestFacts DEF Inv
<1>2. PICK r \in Req, c \in {op'[t]} :
         req' = [req EXCEPT ![t] = r] /\ op' = [op EXCEPT ![t] = c]
         /\ Waits(r, c) /\ Goes(t, r, c)
  BY <1>1, RequestFacts DEF Turns
<1>3. c = NoCall \/ c = op[t] \/ Begins(c)
  BY <1>2, GoesBegins
<1>4. c = op[t] \/ (op[t].pc \in {"idle", "done"} /\ (c = NoCall \/ Begins(c)))
  BY <1>1, <1>2, <1>3, GoesFrom
<1>. HIDE DEF Inv
<1>5. Uses(DBTypFirestore) => OnFirestore'
  BY <1>1, <1>2, <1>3, FirestoreServes DEF Inv, Database
<1>6. Uses(DBTypLevelDB) => OnLevelDB'
  BY <1>1, <1>2, <1>4, LevelDBServes DEF Inv, Database
<1>7. Uses(DBTypRedis) => OnRedis'
  BY <1>1, <1>2, <1>3, RedisServes DEF Inv, Database
<1>8. NoDatabase => OnNothing'
  BY <1>1, <1>2, <1>3, NothingServes DEF Inv, Database
<1>. QED
  BY <1>1, <1>5, <1>6, <1>7, <1>8, BackendsSame DEF Inv, Database

LEMMA EndsKeep ==
    ASSUME Inv, ProcessEnds
    PROVE  Inv'
<1>1. Service' /\ Tokens' /\ UNCHANGED conf /\ op' = [u \in Thread |-> NoCall]
  BY EndsTokens DEF Inv
<1>2. Uses(DBTypFirestore) => OnFirestore'
  BY <1>1, EndsTokens, FirestoreExits DEF Inv, Database
<1>3. Uses(DBTypLevelDB) => OnLevelDB'
  BY <1>1, EndsTokens, LevelDBExits DEF Inv, Database
<1>4. Uses(DBTypRedis) => OnRedis'
  BY <1>1, EndsTokens, RedisExits DEF Inv, Database
<1>5. OnNothing'
  <2>1. NoCall.pc = "idle"
    BY DEF NoCall
  <2>. QED
    BY <1>1, <2>1, NoCallTyped DEF OnNothing
<1>. QED
  BY <1>1, <1>2, <1>3, <1>4, <1>5, BackendsSame DEF Inv, Database

LEMMA SameKeeps ==
    ASSUME Inv, UNCHANGED <<stored, levelVars, op, conf, req, inbox, issued>>,
           expired' \subseteq inbox
    PROVE  Inv'
<1>1. Service' /\ Tokens'
  BY DEF Inv, Service, Tokens, Configured, ServiceTypeOK, Serves
<1>2. UNCHANGED Alone
  BY AloneSame
<1>3. OnFirestore => OnFirestore'
  <2>1. FP!AInv /\ UNCHANGED FP!vars => FP!AInv'
    BY <1>2, FP!NextAlone, FirestoreAssumed
  <2>2. UNCHANGED FP!vars
    BY <1>2 DEF FP!vars, stored
  <2>3. LinksGood /\ NoPanic => LinksGood' /\ NoPanic'
    BY DEF LinksGood, NoPanic, stored
  <2>. QED
    BY <2>1, <2>2, <2>3 DEF OnFirestore
<1>4. OnLevelDB => OnLevelDB'
  <2>1. LP!LInv /\ UNCHANGED LP!vars => LP!LInv'
    BY <1>2, LP!NextInv, LevelDBAssumed
  <2>2. UNCHANGED LP!vars
    BY <1>2 DEF LP!vars, LP!data, LP!locks, stored, levelVars, LevelDB!Holder
  <2>3. LP!FoundOnly => LP!FoundOnly'
    BY DEF stored, levelVars, LP!FoundOnly
  <2>4. \A t : LP!Knows(t) => LP!Knows(t)'
    BY DEF stored, levelVars, LP!Knows, LP!KnowsQuery, LP!KnowsBind, LP!KnowsUnbind, LP!Healed,
       LP!Cleared
  <2>. QED
    BY <1>2, <2>1, <2>2, <2>3, <2>4 DEF OnLevelDB
<1>5. OnRedis => OnRedis'
  <2>1. RP!RInv /\ UNCHANGED RP!vars => RP!RInv'
    BY <1>2, RP!NextHolds, RedisAssumed
  <2>. QED
    BY <1>2, <2>1 DEF OnRedis, RP!vars, RP!tables, stored
<1>6. OnNothing => OnNothing'
  BY DEF OnNothing
<1>. QED
  BY <1>1, <1>3, <1>4, <1>5, <1>6, BackendsSame DEF Inv, Database

LEMMA NextInv == Inv /\ [Next]_vars => Inv'
<1>. SUFFICES ASSUME Inv, [Next]_vars PROVE Inv'
  OBVIOUS
<1>1. ASSUME NEW t \in conf.thread, Serve(t), UNCHANGED <<conf, stored, levelVars>>
      PROVE  Inv'
  BY <1>1, TurnsKeep
<1>2. ASSUME NEW t \in conf.thread, DatabaseStep(t), UNCHANGED serviceVars
      PROVE  Inv'
  BY <1>2, StepsKeep
<1>3. CASE ProcessEnds
  BY <1>3, EndsKeep
<1>4. CASE LinkExpires /\ UNCHANGED <<stored, levelVars>>
  BY <1>4, SameKeeps DEF LinkExpires, Inv, Service, ServiceTypeOK
<1>5. CASE UNCHANGED vars
  BY <1>5, SameKeeps DEF vars, Inv, Service, ServiceTypeOK
<1>. QED
  BY <1>1, <1>2, <1>3, <1>4, <1>5 DEF Next, Step, Crash

(* What the process does with requests and calls is always in order.       *)
THEOREM ServerInv == Spec => []Inv
BY InitInv, NextInv, PTL DEF Spec

(* TypeOK is an invariant.                                                 *)
THEOREM ServerTyped == Spec => []TypeOK
<1>1. Inv => TypeOK
  <2>1. OnFirestore => Firestore!StoreTypeOK
    BY SameFirestore DEF OnFirestore, FP!AInv, FP!TInv, FP!TypeOK
  <2>2. OnLevelDB => LevelDB!StoreTypeOK
    BY SameLevelDB DEF OnLevelDB, LP!LInv, LP!TypeOK
  <2>3. OnRedis => Redis!StoreTypeOK
    BY SameRedis DEF OnRedis, RP!RInv, RP!TypeOK
  <2>4. Service => ServiceTypeOK /\ \A t \in Thread : req[t].pc = "idle" => op[t].pc = "idle"
    BY DEF Service, Waits, NoCall
  <2>. QED
    BY <2>1, <2>2, <2>3, <2>4 DEF Inv, Database, TypeOK
<1>. QED
  BY <1>1, ServerInv, PTL

-----------------------------------------------------------------------------
(* Links and their mails.                                                  *)

(* A link whose creation has succeeded stays stored until it is mailed:    *)
(* nobody can open it before, and its token is nobody else's.              *)
Created(t) == Mailing(req[t]) /\ op[t].pc = "done" /\ op[t].res = "ok"
LinkHeld == \A t \in Thread : Created(t) => Uses(DBTypFirestore) /\ link[req[t].token].found

(* What the handlers call about links.                                     *)
LEMMA LinkCalls ==
    ASSUME Inv, NEW t \in Thread
    PROVE  /\ Mailing(req[t]) => op[t].name = "CreateActiveLink" /\ op[t].token = req[t].token
           /\ op[t].name = "RemoveActiveLink" => op[t].token \in inbox
<1>1. Waits(req[t], op[t]) /\ Serves(req[t]) /\ req[t] \in Req
  BY DEF Inv, Service, ServiceTypeOK
<1>2. Mailing(req[t]) => op[t].name = "CreateActiveLink" /\ op[t].token = req[t].token
  BY <1>1 DEF Mailing, Waits, MethodOf, Fits, TakesToken
<1>3. ASSUME op[t].name = "RemoveActiveLink" PROVE op[t].token \in inbox
  <2>1. req[t].pc # "idle"
    BY <1>1, <1>3 DEF Waits, NoCall
  <2>2. Fits(op[t], MethodOf(req[t]), req[t].addr, req[t].email, req[t].token)
    BY <1>1, <2>1 DEF Waits
  <2>3. MethodOf(req[t]) = "RemoveActiveLink" /\ op[t].token = req[t].token
    BY <1>3, <2>2 DEF Fits, TakesToken
  <2>4. req[t].handler = "ActiveVerify"
    BY <1>1, <2>1, <2>3 DEF MethodOf, Serves, Req, Handler
  <2>. QED
    BY <2>1, <2>3, <2>4 DEF Inv, Tokens
<1>. QED
  BY <1>2, <1>3

LEMMA HeldServes ==
    ASSUME Inv, LinkHeld, NEW t \in conf.thread, Serve(t), UNCHANGED <<conf, stored, levelVars>>
    PROVE  LinkHeld'
<1>1. Service /\ t \in Thread /\ Turns(t) /\ UNCHANGED Uses(DBTypFirestore)
  BY ServeTurns, RequestFacts, BackendsSame DEF Inv
<1>2. PICK r \in Req, c \in {op'[t]} :
         /\ req' = [req EXCEPT ![t] = r] /\ op' = [op EXCEPT ![t] = c]
         /\ Goes(t, r, c)
  BY <1>1, RequestFacts DEF Turns
<1>3. /\ op'[t] = c /\ req'[t] = r
      /\ \A u \in Thread \ {t} : op'[u] = op[u] /\ req'[u] = req[u]
  BY <1>1, <1>2, RequestFacts
<1>4. Mailing(r) /\ c.pc = "done" => Mailing(req[t]) /\ r.token = req[t].token /\ c = op[t]
  BY <1>2 DEF Goes, Mailing, Begun
<1>. QED
  BY <1>1, <1>3, <1>4 DEF LinkHeld, Created, stored

LEMMA HeldSteps ==
    ASSUME Inv, LinkHeld, NEW t \in conf.thread, DatabaseStep(t), UNCHANGED serviceVars
    PROVE  LinkHeld'
<1>1. /\ t \in Thread /\ UNCHANGED <<req, conf>> /\ Kept(op[t], op'[t]) /\ Inv'
      /\ \A u \in Thread \ {t} : op'[u] = op[u]
      /\ UNCHANGED Uses(DBTypFirestore)
  BY StepsKeep, RequestFacts, BackendsSame DEF Inv, serviceVars
<1>2. ASSUME Created(t)'
      PROVE  op[t].name = "CreateActiveLink" /\ op[t].token = req[t].token /\ req[t].token \in Token
  BY <1>1, <1>2, LinkCalls DEF Created, Mailing, Tokens, Inv, Service, ServiceTypeOK
<1>3. CASE Uses(DBTypFirestore)
  <2>1. Firestore!StoreStep(t) /\ OnFirestore
    BY <1>3, Backends DEF DatabaseStep, Inv, Database
  <2>2. FP!GoodStore /\ FP!StoreStep(t)
    BY <2>1, SameFirestore DEF OnFirestore, FP!AInv, FP!TInv
  <2>. DEFINE c == op[t]
  <2>3. /\ \A k \in Token \ {c.token} : link'[k] = link[k]
        /\ c.name \notin {"CreateActiveLink", "RemoveActiveLink"} => UNCHANGED link
        /\ c.name = "CreateActiveLink" =>
              \/ UNCHANGED link /\ ~FP!Returned(t, "CreateActiveLink", "ok")'
              \/ link'[c.token] = [found |-> TRUE, addr |-> c.addr, email |-> c.email,
                                   unbind |-> c.unbind]
    BY <1>1, <2>2, FP!LinkMoves, FirestoreAssumed DEF FP!Returned
  <2>4. ASSUME NEW u \in Thread \ {t}, Created(u) PROVE link'[req[u].token].found
    <3>1. link[req[u].token].found /\ req[u].token \in issued \ inbox /\ req[u].token \in Token
      BY <2>4 DEF LinkHeld, Created, Inv, Tokens, Service, ServiceTypeOK
    <3>2. c.name = "RemoveActiveLink" => c.token # req[u].token
      BY <1>1, <3>1, LinkCalls
    <3>. QED
      BY <2>3, <3>1, <3>2
  <2>5. ASSUME Created(t)' PROVE link'[req[t].token].found
    <3>1. FP!Returned(t, "CreateActiveLink", "ok")'
      BY <1>1, <1>2, <2>5 DEF Created, Kept, FP!Returned
    <3>. QED
      BY <1>2, <2>3, <2>5, <3>1
  <2>. QED
    BY <1>1, <1>3, <2>4, <2>5 DEF LinkHeld, Created
<1>4. CASE ~Uses(DBTypFirestore)
  <2>1. ~Created(t)'
    <3>1. op[t].name = "CreateActiveLink" => op'[t].pc # "done" \/ op'[t].res # "ok"
      <4>1. CASE Uses(DBTypLevelDB)
        <5>1. OnLevelDB'
          BY <1>1, <4>1, BackendsSame DEF Inv, Database
        <5>. QED
          BY <1>1, <5>1 DEF OnLevelDB, LP!LInv, LP!GoodCall, LP!Unsupported, Kept
      <4>2. CASE Uses(DBTypRedis)
        <5>1. OnRedis'
          BY <1>1, <4>2, BackendsSame DEF Inv, Database
        <5>. QED
          BY <1>1, <5>1 DEF OnRedis, RedisCall, TakesToken, Kept
      <4>3. CASE NoDatabase
        <5>1. OnNothing'
          BY <1>1, <4>3, BackendsSame DEF Inv, Database
        <5>. QED
          BY <1>1, <5>1 DEF OnNothing
      <4>. QED
        BY <1>4, <4>1, <4>2, <4>3, Backends
    <3>. QED
      BY <1>2, <3>1 DEF Created
  <2>. QED
    BY <1>1, <1>4, <2>1 DEF LinkHeld, Created
<1>. QED
  BY <1>3, <1>4

LEMMA HeldNext == Inv /\ LinkHeld /\ [Next]_vars => LinkHeld'
<1>. SUFFICES ASSUME Inv, LinkHeld, [Next]_vars PROVE LinkHeld'
  OBVIOUS
<1>1. ASSUME NEW t \in conf.thread, Serve(t), UNCHANGED <<conf, stored, levelVars>>
      PROVE  LinkHeld'
  BY <1>1, HeldServes
<1>2. ASSUME NEW t \in conf.thread, DatabaseStep(t), UNCHANGED serviceVars
      PROVE  LinkHeld'
  BY <1>2, HeldSteps
<1>3. CASE ProcessEnds
  BY <1>3, EndsTokens DEF Inv, LinkHeld, Created, NoCall
<1>4. ASSUME UNCHANGED <<stored, op, conf, req>> PROVE LinkHeld'
  BY <1>4 DEF LinkHeld, Created, stored, Uses
<1>. QED
  BY <1>1, <1>2, <1>3, <1>4 DEF Next, Step, Crash, LinkExpires, vars

LEMMA AlwaysHeld == Spec => [](Inv /\ LinkHeld)
<1>1. Init => LinkHeld
  BY InitService DEF LinkHeld, Created, NoCall
<1>. QED
  BY <1>1, InitInv, NextInv, HeldNext, PTL DEF Spec

(* Only the link of a request that is being mailed gets into a mailbox.    *)
LEMMA MailStep ==
    ASSUME Inv, LinkHeld, [Next]_vars, NEW k \in Token, k \in inbox' \ inbox
    PROVE  link[k].found
<1>1. PICK t \in conf.thread : Serve(t)
  BY DEF Next, Step, Crash, LinkExpires, vars, serviceVars, ProcessEnds, RequestsLost
<1>2. t \in Thread /\ Turns(t) /\ Waits(req[t], op[t])
  BY <1>1, ServeTurns, RequestFacts DEF Inv
<1>3. req[t].pc = "mail" /\ inbox' = inbox \cup {req[t].token}
  BY <1>2 DEF Turns, Goes
<1>4. Created(t)
  BY <1>2, <1>3 DEF Created, Mailing, Waits
<1>. QED
  BY <1>2, <1>3, <1>4 DEF LinkHeld

(* MailedLinkStored: nobody is mailed a link that the server does not know.*)
THEOREM MailedLinks == Spec => MailedLinkStored
<1>. DEFINE A == \A k \in Token : k \in inbox' \ inbox => link[k].found
<1>1. Inv /\ LinkHeld /\ [Next]_vars => [A]_vars
  BY MailStep
<1>2. Spec => [][A]_vars
  BY <1>1, AlwaysHeld, PTL DEF Spec
<1>. QED
  BY <1>2 DEF MailedLinkStored

-----------------------------------------------------------------------------
(* The requests that end the process.                                      *)

(* A confirmation is sent only where an e-mail can be found to resolve to  *)
(* somebody else; and who has LevelDB to itself has found what is stored.  *)
TakeoverHeld ==
    /\ \A t \in Thread : req[t].pc = "link" => Uses(DBTypFirestore) \/ Uses(DBTypLevelDB)
    /\ \A t \in Alone : Uses(DBTypLevelDB) /\ req[t].pc = "link" =>
          reflect[req[t].email] \notin {NoAddress, req[t].addr}

LEMMA TakeoverServes ==
    ASSUME Inv, TakeoverHeld, NEW t \in conf.thread, Serve(t),
           UNCHANGED <<conf, stored, levelVars>>
    PROVE  TakeoverHeld'
<1>1. /\ Service /\ t \in Thread /\ Turns(t) /\ Waits(req[t], op[t]) /\ UNCHANGED reflect
      /\ UNCHANGED <<Uses(DBTypFirestore), Uses(DBTypLevelDB)>>
  BY ServeTurns, RequestFacts, BackendsSame DEF Inv, stored
<1>2. PICK r \in Req, c \in {op'[t]} :
         req' = [req EXCEPT ![t] = r] /\ op' = [op EXCEPT ![t] = c] /\ Goes(t, r, c)
  BY <1>1, RequestFacts DEF Turns
<1>3. req'[t] = r /\ \A u \in Thread \ {t} : req'[u] = req[u]
  BY <1>1, <1>2, RequestFacts
<1>4. UNCHANGED Alone /\ Alone \subseteq Thread
  BY <1>1, AloneSame, AloneQuiet DEF Quiet
<1>5. ASSUME r.pc = "link"
      PROVE  /\ Uses(DBTypFirestore) \/ Uses(DBTypLevelDB)
             /\ Uses(DBTypLevelDB) /\ t \in Alone => reflect[r.email] \notin {NoAddress, r.addr}
  <2>1. /\ op[t].pc = "done" /\ op[t].res = "ok" /\ req[t].pc = "owner"
        /\ op[t].owner \notin {NoAddress, r.addr} /\ r.email = req[t].email
    BY <1>2, <1>5 DEF Goes
  <2>2. op[t].name = "QueryReflectByOneEmail" /\ op[t].email = r.email
    BY <1>1, <2>1 DEF Waits, MethodOf, Fits, TakesEmail
  <2>3. ~Uses(DBTypRedis)
    BY <1>1, <2>1, <2>2 DEF Inv, Database, OnRedis, RedisCall
  <2>4. ~NoDatabase
    BY <1>1, <2>1 DEF Inv, Database, OnNothing
  <2>5. Uses(DBTypLevelDB) /\ t \in Alone => op[t].owner = reflect[op[t].email]
    <3>1. Uses(DBTypLevelDB) /\ t \in Alone => LP!Knows(t)
      BY DEF Inv, Database, OnLevelDB
    <3>. QED
      BY <2>1, <2>2, <3>1 DEF LP!Knows, LP!KnowsQuery
  <2>. QED
    BY <2>1, <2>2, <2>3, <2>4, <2>5, Backends
<1>. QED
  BY <1>1, <1>3, <1>4, <1>5 DEF TakeoverHeld

LEMMA TakeoverSteps ==
    ASSUME Inv, TakeoverHeld, NEW t \in conf.thread, DatabaseStep(t), UNCHANGED serviceVars
    PROVE  TakeoverHeld'
<1>1. /\ t \in Thread /\ UNCHANGED <<req, conf>> /\ UNCHANGED Alone /\ Alone \subseteq Thread
      /\ op[t].pc # "idle" /\ Quiet
      /\ UNCHANGED <<Uses(DBTypFirestore), Uses(DBTypLevelDB)>>
  BY StepsKeep, RequestFacts, BackendsSame, AloneSame, AloneQuiet DEF Inv, serviceVars, Kept,
     Quiet
<1>2. ASSUME NEW u \in Alone, Uses(DBTypLevelDB), req[u].pc = "link"
      PROVE  UNCHANGED reflect
  <2>1. Waits(req[u], op[u]) /\ u \in Thread
    BY <1>1 DEF Inv, Service
  <2>2. op[u].pc # "idle" /\ op[u].name = "CreateActiveLink"
    BY <1>2, <2>1 DEF Waits, MethodOf, Fits
  <2>3. u = t
    BY <1>1, <2>1, <2>2 DEF Quiet
  <2>4. LP!StoreStep(t) /\ LP!LInv
    BY <1>2, Backends, SameLevelDB DEF DatabaseStep, Inv, Database, OnLevelDB
  <2>5. op[t].pc \in {"idle", "begin", "done"}
    BY <1>1, <2>2, <2>3, <2>4 DEF LP!LInv, LP!GoodCall, LP!Unsupported
  <2>. QED
    BY <1>1, <2>2, <2>3, <2>4, <2>5, LP!StepWrites, LevelDBAssumed
    DEF LP!data, LP!ActiveAccountWrite, LP!UpdateAccountLevelWrite, LP!UpdateBindingWrite,
        LP!DeleteBindingWrite, LP!WriteAccount
<1>. QED
  BY <1>1, <1>2 DEF TakeoverHeld

LEMMA TakeoverNext == Inv /\ TakeoverHeld /\ [Next]_vars => TakeoverHeld'
<1>. SUFFICES ASSUME Inv, TakeoverHeld, [Next]_vars PROVE TakeoverHeld'
  OBVIOUS
<1>1. ASSUME NEW t \in conf.thread, Serve(t), UNCHANGED <<conf, stored, levelVars>>
      PROVE  TakeoverHeld'
  BY <1>1, TakeoverServes
<1>2. ASSUME NEW t \in conf.thread, DatabaseStep(t), UNCHANGED serviceVars
      PROVE  TakeoverHeld'
  BY <1>2, TakeoverSteps
<1>3. CASE ProcessEnds
  <2>1. /\ req' = [u \in Thread |-> NoReq] /\ UNCHANGED conf /\ UNCHANGED Alone
        /\ Alone \subseteq Thread
    BY <1>3, AloneSame, AloneQuiet DEF ProcessEnds, RequestsLost, Quiet, Inv
  <2>. QED
    BY <2>1 DEF TakeoverHeld, NoReq
<1>4. ASSUME UNCHANGED <<stored, conf, req>> PROVE TakeoverHeld'
  BY <1>4, AloneSame DEF TakeoverHeld, stored, Uses
<1>. QED
  BY <1>1, <1>2, <1>3, <1>4 DEF Next, Step, Crash, LinkExpires, vars

(* OnlyTakeoverCrashes: no request ends the process, except a BindAccount  *)
(* on LevelDB that finds the e-mail to resolve to somebody else.           *)
THEOREM TakeoverCrashes == Spec => []OnlyTakeoverCrashes
<1>1. Inv /\ TakeoverHeld => OnlyTakeoverCrashes
  <2>. SUFFICES ASSUME Inv, TakeoverHeld, NEW t \in conf.thread, Dying(t)
                PROVE  /\ Uses(DBTypLevelDB) /\ req[t].handler = "BindAccount"
                       /\ OneAtATime => reflect[req[t].email] \notin {NoAddress, req[t].addr}
    BY DEF OnlyTakeoverCrashes
  <2>1. t \in Thread /\ Serves(req[t]) /\ req[t].pc = "link" /\ op[t].pc = "done"
        /\ op[t].res = "panic"
    BY RequestFacts DEF Inv, Dying
  <2>2. Uses(DBTypLevelDB)
    BY <2>1 DEF TakeoverHeld, Inv, Database, OnFirestore, NoPanic
  <2>3. OneAtATime => t \in Alone
    BY DEF Alone
  <2>. QED
    BY <2>1, <2>2, <2>3 DEF TakeoverHeld, Serves
<1>2. Init => TakeoverHeld
  <2>1. Init => Alone \subseteq Thread
    BY InitService, AloneQuiet DEF Quiet
  <2>. QED
    BY <2>1, InitService DEF TakeoverHeld, NoReq
<1>. QED
  BY <1>1, <1>2, InitInv, NextInv, TakeoverNext, PTL DEF Spec

-----------------------------------------------------------------------------
(* What queries answer.                                                    *)

(* The e-mails that a query of an array has read so far are in its answer, *)
(* or resolved to nobody when it read them.                                *)
Covered(t) ==
    \A e \in req[t].emails \ op[t].todo :
        <<e, NoAddress>> \in seen[t] \/ \E p \in op[t].answer : p[1] = e

SeenOne(t) ==
    op[t].name = "QueryReflectByOneEmail" /\ op[t].pc # "idle" =>
        /\ op[t].email \in conf.email
        /\ op[t].res = "ok" => <<op[t].email, op[t].owner>> \in seen[t]
SeenMany(t) ==
    /\ op[t].name = "QueryReflectsByEmails" /\ op[t].pc # "idle"
    /\ op[t].pc # "done" \/ op[t].res = "ok"
    /\ ~Uses(DBTypRedis)
    => /\ op[t].todo \subseteq conf.email /\ op[t].answer \subseteq seen[t]
       /\ Covered(t)
       /\ op[t].res = "ok" => op[t].todo = {}
SeenHeld == \A t \in Thread : SeenOne(t) /\ SeenMany(t)

(* What there is, a query that runs has seen.                              *)
LEMMA Recorded ==
    ASSUME Record, NEW t \in Thread, Looking(op[t])'
    PROVE  /\ Mappings' \subseteq seen'[t]
           /\ Looking(op[t]) => seen[t] \subseteq seen'[t]
BY DEF Record, Looking

(* The calls of the others have what they had.                             *)
LEMMA SeenOthers ==
    ASSUME Record, NEW t \in Thread, SeenOne(t) /\ SeenMany(t),
           op'[t] = op[t], req'[t] = req[t], UNCHANGED conf
    PROVE  SeenOne(t)' /\ SeenMany(t)'
<1>1. CASE ~Looking(op[t])
  BY <1>1 DEF Looking, SeenOne, SeenMany
<1>2. CASE Looking(op[t])
  <2>1. Looking(op[t])' /\ seen[t] \subseteq seen'[t]
    BY <1>2, Recorded DEF Looking
  <2>. QED
    BY <2>1 DEF SeenOne, SeenMany, Covered, Uses
<1>. QED
  BY <1>1, <1>2

LEMMA SeenServes ==
    ASSUME Inv, SeenHeld, Record, NEW t \in conf.thread, Serve(t),
           UNCHANGED <<conf, stored, levelVars>>
    PROVE  SeenHeld'
<1>1. Service /\ t \in Thread /\ Turns(t)
  BY ServeTurns, RequestFacts DEF Inv
<1>2. PICK r \in Req, c \in {op'[t]} :
         /\ req' = [req EXCEPT ![t] = r] /\ op' = [op EXCEPT ![t] = c]
         /\ Waits(r, c) /\ Goes(t, r, c)
  BY <1>1, RequestFacts DEF Turns
<1>3. /\ op'[t] = c /\ req'[t] = r
      /\ \A u \in Thread \ {t} : op'[u] = op[u] /\ req'[u] = req[u]
  BY <1>1, <1>2, RequestFacts
<1>4. c.name \in {"QueryReflectByOneEmail", "QueryReflectsByEmails"} => Begun(c, c.name)
  <2>1. r.pc = "idle" => c.name = "none"
    BY <1>2 DEF Waits, NoCall
  <2>2. r.pc = "mail" => c.name = "CreateActiveLink"
    BY <1>2 DEF Waits, MethodOf, Fits
  <2>. QED
    BY <1>2, <2>1, <2>2 DEF Goes
<1>5. SeenOne(t)'
  BY <1>2, <1>3, <1>4 DEF SeenOne, Goes, Begun
<1>6. SeenMany(t)'
  BY <1>2, <1>3, <1>4 DEF SeenMany, Goes, Begun, Covered
<1>. QED
  BY <1>3, <1>5, <1>6, SeenOthers DEF SeenHeld

(* A step of a query that reads no mapping, or fails.                      *)
LEMMA SeenStays ==
    ASSUME Record, NEW t \in Thread, SeenOne(t) /\ SeenMany(t), Looking(op[t]),
           op[t].pc # "done", op'[t].pc # "idle", op'[t].name = op[t].name,
           op[t].name = "QueryReflectByOneEmail" => op'[t].email = op[t].email,
           UNCHANGED <<conf, req>>,
           \/ /\ op'[t].todo = op[t].todo /\ op'[t].answer = op[t].answer
              /\ op'[t].owner = op[t].owner /\ op'[t].res \in {op[t].res, "err"}
           \/ op'[t].pc = "done" /\ op'[t].res \in {"err", "panic"}
    PROVE  SeenOne(t)' /\ SeenMany(t)'
<1>1. seen[t] \subseteq seen'[t]
  BY Recorded DEF Looking
<1>2. SeenOne(t)'
  BY <1>1 DEF SeenOne, Looking
<1>3. SeenMany(t)'
  BY <1>1 DEF SeenMany, Covered, Uses, Looking
<1>. QED
  BY <1>2, <1>3

(* A step of a query that reads a mapping.                                 *)
LEMMA SeenReads ==
    ASSUME Record, NEW t \in Thread, SeenOne(t) /\ SeenMany(t), Looking(op[t]),
           op[t].pc # "done", op'[t].pc # "idle", op'[t].name = op[t].name,
           op[t].name = "QueryReflectByOneEmail" =>
              op'[t].email = op[t].email /\ op'[t].owner = reflect[op[t].email],
           op[t].name = "QueryReflectsByEmails" =>
              \E e \in op[t].todo :
                 /\ op'[t].todo = op[t].todo \ {e}
                 /\ op'[t].answer = op[t].answer \cup ({<<e, reflect[e]>>} \ {<<e, NoAddress>>})
                 /\ op'[t].res = "ok" => op'[t].todo = {},
           UNCHANGED <<conf, req, reflect>>
    PROVE  SeenOne(t)' /\ SeenMany(t)'
<1>1. /\ seen[t] \subseteq seen'[t]
      /\ \A e \in conf.email : <<e, reflect[e]>> \in seen'[t]
  BY Recorded DEF Looking, Mappings
<1>2. SeenOne(t)'
  BY <1>1 DEF SeenOne, Looking
<1>3. ASSUME op[t].name = "QueryReflectsByEmails", ~Uses(DBTypRedis) PROVE SeenMany(t)'
  <2>1. PICK e \in op[t].todo :
           /\ op'[t].todo = op[t].todo \ {e}
           /\ op'[t].answer = op[t].answer \cup ({<<e, reflect[e]>>} \ {<<e, NoAddress>>})
           /\ op'[t].res = "ok" => op'[t].todo = {}
    BY <1>3
  <2>2. /\ op[t].todo \subseteq conf.email /\ op[t].answer \subseteq seen[t] /\ Covered(t)
        /\ <<e, reflect[e]>> \in seen'[t]
    BY <1>1, <1>3 DEF SeenMany, Looking
  <2>3. ASSUME NEW x \in req[t].emails, x \notin op'[t].todo
        PROVE  <<x, NoAddress>> \in seen'[t] \/ \E p \in op'[t].answer : p[1] = x
    <3>1. CASE x = e /\ <<e, reflect[e]>> = <<e, NoAddress>>
      BY <2>2, <3>1
    <3>2. CASE x = e /\ <<e, reflect[e]>> # <<e, NoAddress>>
      <4>1. <<e, reflect[e]>> \in op'[t].answer /\ <<e, reflect[e]>>[1] = e
        BY <2>1, <3>2
      <4>. QED
        BY <3>2, <4>1
    <3>3. CASE x # e
      BY <1>1, <2>1, <2>2, <2>3, <3>3 DEF Covered
    <3>. QED
      BY <3>1, <3>2, <3>3
  <2>. QED
    BY <1>1, <1>3, <2>1, <2>2, <2>3 DEF SeenMany, Covered
<1>. QED
  BY <1>2, <1>3 DEF SeenMany, Uses

LEMMA SeenSteps ==
    ASSUME Inv, SeenHeld, Record, NEW t \in conf.thread, DatabaseStep(t), UNCHANGED serviceVars
    PROVE  SeenHeld'
<1>1. /\ t \in Thread /\ UNCHANGED <<conf, req>> /\ Kept(op[t], op'[t])
      /\ \A u \in Thread \ {t} : op'[u] = op[u]
      /\ SeenOne(t) /\ SeenMany(t) /\ Inv'
  BY StepsKeep, RequestFacts DEF Inv, serviceVars, SeenHeld
<1>2. /\ op[t].pc # "done" /\ op[t].pc # "idle" /\ op'[t].pc # "idle"
      /\ op'[t].name = op[t].name
      /\ op[t].name = "QueryReflectByOneEmail" => op'[t].email = op[t].email
  BY <1>1 DEF Kept, TakesEmail
<1>3. ~Looking(op[t]) => SeenOne(t)' /\ SeenMany(t)'
  BY <1>1, <1>2 DEF SeenOne, SeenMany, Looking
<1>4. ASSUME Looking(op[t]) PROVE SeenOne(t)' /\ SeenMany(t)'
  <2>1. op[t].name \in {"QueryReflectByOneEmail", "QueryReflectsByEmails"}
    BY <1>4 DEF Looking
  <2>2. CASE Uses(DBTypFirestore)
    <3>1. FP!GoodStore /\ FP!StoreStep(t)
      BY <2>2, Backends, SameFirestore
      DEF DatabaseStep, Inv, Database, OnFirestore, FP!AInv, FP!TInv
    <3>2. /\ UNCHANGED reflect
          /\ \/ op'[t].pc = "done" /\ op'[t].res = "err"
             \/ op[t].name = "QueryReflectByOneEmail" /\ op'[t].owner = reflect[op[t].email]
             \/ op[t].name = "QueryReflectsByEmails" /\ FP!Answers(op[t], op'[t])
      BY <1>1, <2>1, <3>1, FP!QueryAnswers, FirestoreAssumed DEF FP!tables
    <3>3. CASE op'[t].pc = "done" /\ op'[t].res = "err"
      BY <1>1, <1>2, <1>4, <3>3, SeenStays
    <3>. QED
      BY <1>1, <1>2, <1>4, <2>1, <3>2, <3>3, SeenReads DEF FP!Answers
  <2>3. CASE Uses(DBTypLevelDB)
    <3>1. LP!LInv /\ LP!StoreStep(t)
      BY <2>3, Backends, SameLevelDB DEF DatabaseStep, Inv, Database, OnLevelDB
    <3>2. /\ UNCHANGED reflect
          /\ \/ /\ op'[t].todo = op[t].todo /\ op'[t].answer = op[t].answer
                /\ op'[t].owner = op[t].owner /\ op'[t].res \in {op[t].res, "err"}
             \/ op[t].name = "QueryReflectByOneEmail" /\ op'[t].owner = reflect[op[t].email]
             \/ op[t].name = "QueryReflectsByEmails" /\ LP!Answers(op[t], op'[t])
      BY <1>1, <2>1, <3>1, LP!QueryAnswers, LevelDBAssumed
    <3>. QED
      BY <1>1, <1>2, <1>4, <2>1, <3>2, SeenStays, SeenReads DEF LP!Answers
  <2>4. CASE Uses(DBTypRedis)
    <3>1. RP!RInv /\ RP!StoreStep(t)
      BY <2>4, Backends, SameRedis DEF DatabaseStep, Inv, Database, OnRedis
    <3>2. /\ UNCHANGED reflect /\ op'[t].owner = op[t].owner
          /\ op[t].name = "QueryReflectByOneEmail" /\ op'[t].res = "ok" =>
                reflect[op[t].email] = NoAddress
      BY <1>1, <2>1, <3>1, RP!QueryAnswers, RedisAssumed DEF RP!tables
    <3>3. op[t].name = "QueryReflectByOneEmail" => op[t].owner = NoAddress
      BY <1>1, <2>4 DEF Inv, Database, OnRedis, RedisCall
    <3>4. \A e \in conf.email : <<e, reflect[e]>> \in seen'[t]
      BY <1>1, <1>2, <1>4, <3>2, Recorded DEF Looking, Mappings
    <3>5. SeenOne(t)'
      BY <1>1, <1>2, <3>2, <3>3, <3>4 DEF SeenOne
    <3>6. SeenMany(t)'
      BY <1>1, <2>4 DEF SeenMany, Uses
    <3>. QED
      BY <3>5, <3>6
  <2>5. CASE NoDatabase
    <3>1. NilCall(t) /\ op \in [Thread -> Call({})]
      BY <2>5, Backends DEF DatabaseStep, Inv, Database, OnNothing
    <3>2. op'[t].pc = "done" /\ op'[t].res = "panic"
      BY <1>1, <3>1 DEF NilCall, Return, Call
    <3>. QED
      BY <1>1, <1>2, <1>4, <3>2, SeenStays
  <2>. QED
    BY <2>2, <2>3, <2>4, <2>5, Backends
<1>5. ASSUME NEW u \in Thread \ {t} PROVE SeenOne(u)' /\ SeenMany(u)'
  BY <1>1, SeenOthers DEF SeenHeld
<1>. QED
  BY <1>3, <1>4, <1>5 DEF SeenHeld

LEMMA SeenNext == Inv /\ SeenHeld /\ [Next]_vars => SeenHeld'
<1>. SUFFICES ASSUME Inv, SeenHeld, [Next]_vars PROVE SeenHeld'
  OBVIOUS
<1>1. ASSUME Record, NEW t \in conf.thread, Serve(t), UNCHANGED <<conf, stored, levelVars>>
      PROVE  SeenHeld'
  BY <1>1, SeenServes
<1>2. ASSUME Record, NEW t \in conf.thread, DatabaseStep(t), UNCHANGED serviceVars
      PROVE  SeenHeld'
  BY <1>2, SeenSteps
<1>3. CASE ProcessEnds
  BY <1>3, EndsTokens DEF Inv, SeenHeld, SeenOne, SeenMany, NoCall
<1>4. CASE Record /\ LinkExpires
  BY <1>4, SeenOthers DEF LinkExpires, SeenHeld
<1>5. CASE UNCHANGED vars
  BY <1>5 DEF vars, SeenHeld, SeenOne, SeenMany, Covered, Uses
<1>. QED
  BY <1>1, <1>2, <1>3, <1>4, <1>5 DEF Next, Step, Crash

(* AnswersSeen: what a query of e-mails answers was so while it ran.       *)
THEOREM QueriesTrue == Spec => []AnswersSeen
<1>1. Inv /\ SeenHeld => AnswersSeen
  <2>. SUFFICES ASSUME Inv, SeenHeld, NEW t \in Thread
                PROVE  /\ Returned(t, "QueryReflectByOneEmail", "ok") =>
                              <<op[t].email, op[t].owner>> \in seen[t]
                       /\ Returned(t, "QueryReflectsByEmails", "ok") =>
                              IF Uses(DBTypRedis) THEN op[t].answer = {}
                              ELSE /\ op[t].answer \subseteq seen[t]
                                   /\ \A e \in req[t].emails :
                                         \/ <<e, NoAddress>> \in seen[t]
                                         \/ \E p \in op[t].answer : p[1] = e
    BY DEF AnswersSeen
  <2>1. SeenOne(t) /\ SeenMany(t)
    BY DEF SeenHeld
  <2>2. Uses(DBTypRedis) => op[t].answer = {}
    BY DEF Inv, Database, OnRedis, RedisCall
  <2>. QED
    BY <2>1, <2>2 DEF SeenOne, SeenMany, Covered, Returned
<1>2. Init => SeenHeld
  BY InitService DEF SeenHeld, SeenOne, SeenMany, NoCall
<1>. QED
  BY <1>1, <1>2, InitInv, NextInv, SeenNext, PTL DEF Spec

-----------------------------------------------------------------------------
(* What the answer "ok" says.                                              *)

(* What a goroutine that has the process to itself knows when its call has *)
(* returned without an error.                                              *)
Known(c) ==
    /\ c.name = "UpdateBinding" =>
          reflect[c.email] = c.addr /\ c.email \in account[c.addr].emails
    /\ c.name = "DeleteBinding" /\ ~Uses(DBTypRedis) => c.email \notin account[c.addr].emails
    /\ c.name = "UninstallByUser" /\ Uses(DBTypFirestore) => account[c.addr].emails = {}
    /\ c.name = "QueryAccount" => c.doc = account[c.addr]
    /\ c.name = "QueryReflectByOneEmail" => c.owner = reflect[c.email]
    /\ c.name = "GetActiveLink" =>
          /\ Uses(DBTypFirestore)
          /\ c.addr = link[c.token].addr /\ c.email = link[c.token].email

LEMMA AloneKnows ==
    ASSUME Inv, NEW t \in Alone, op[t].pc = "done", op[t].res = "ok"
    PROVE  Known(op[t])
<1>1. t \in Thread
  BY AloneQuiet DEF Quiet, Inv
<1>2. CASE Uses(DBTypFirestore)
  <2>1. FP!Knows(op[t])
    BY <1>2 DEF Inv, Database, OnFirestore, FP!AInv
  <2>. QED
    BY <1>2, <2>1 DEF Known, FP!Knows, FP!Healed, FP!Cleared, FP!KnowsQuery
<1>3. CASE Uses(DBTypLevelDB)
  <2>1. LP!Knows(t) /\ LP!GoodCall(op[t])
    BY <1>1, <1>3 DEF Inv, Database, OnLevelDB, LP!LInv
  <2>2. op[t].name # "GetActiveLink"
    BY <2>1 DEF LP!GoodCall, LP!Unsupported
  <2>. QED
    BY <1>3, <2>1, <2>2, Backends
    DEF Known, LP!Knows, LP!KnowsBind, LP!KnowsUnbind, LP!KnowsQuery, LP!Healed, LP!Cleared
<1>4. CASE Uses(DBTypRedis)
  <2>1. RP!Knows(op[t]) /\ RedisCall(op[t])
    BY <1>1, <1>4 DEF Inv, Database, OnRedis, RP!RInv
  <2>. QED
    BY <1>4, <2>1, Backends
    DEF Known, RP!Knows, RP!KnowsBind, RP!KnowsQuery, RP!Healed, RP!Mutator, RedisCall,
        TakesToken
<1>5. CASE NoDatabase
  BY <1>1, <1>5 DEF Inv, Database, OnNothing
<1>. QED
  BY <1>2, <1>3, <1>4, <1>5, Backends

(* The last request of a goroutine that has the process to itself has been *)
(* answered with the truth.                                                *)
Truthful(t) ==
    req[t].pc = "idle" /\ req[t].reply = "ok" =>
        /\ req[t].handler = "BindAccount" => reflect[req[t].email] = req[t].addr
        /\ req[t].handler = "UnbindAccount" /\ ~Uses(DBTypRedis) =>
              req[t].email \notin account[req[t].addr].emails
        /\ req[t].handler = "UninstallByUser" /\ Uses(DBTypFirestore) =>
              account[req[t].addr].emails = {}

ReplyHeld ==
    /\ \A t \in Thread \ conf.thread : req[t] = NoReq
    /\ \A t \in Alone : Truthful(t)

LEMMA ReplyServes ==
    ASSUME Inv, ReplyHeld, NEW t \in conf.thread, Serve(t),
           UNCHANGED <<conf, stored, levelVars>>
    PROVE  ReplyHeld'
<1>1. /\ Service /\ t \in Thread /\ Turns(t) /\ Waits(req[t], op[t]) /\ Serves(req[t])
      /\ UNCHANGED <<account, reflect>> /\ req[t] \in Req
      /\ UNCHANGED <<Uses(DBTypFirestore), Uses(DBTypRedis)>>
  BY ServeTurns, RequestFacts, BackendsSame DEF Inv, stored
<1>2. PICK r \in Req, c \in {op'[t]} :
         /\ req' = [req EXCEPT ![t] = r] /\ op' = [op EXCEPT ![t] = c]
         /\ Goes(t, r, c)
  BY <1>1, RequestFacts DEF Turns
<1>3. req'[t] = r /\ \A u \in Thread \ {t} : req'[u] = req[u]
  BY <1>1, <1>2, RequestFacts
<1>4. UNCHANGED Alone /\ Alone \subseteq Thread
  BY <1>1, AloneSame, AloneQuiet DEF Quiet
<1>5. ASSUME t \in Alone, r.pc = "idle", r.reply = "ok"
      PROVE  /\ r.handler = "BindAccount" => reflect[r.email] = r.addr
             /\ r.handler = "UnbindAccount" /\ ~Uses(DBTypRedis) =>
                   r.email \notin account[r.addr].emails
             /\ r.handler = "UninstallByUser" /\ Uses(DBTypFirestore) =>
                   account[r.addr].emails = {}
  <2>1. /\ op[t].pc = "done" /\ r.handler = req[t].handler /\ r.addr = req[t].addr
        /\ r.email = req[t].email /\ req[t].pc # "idle"
        /\ Fits(op[t], MethodOf(req[t]), r.addr, r.email, req[t].token)
    BY <1>1, <1>2, <1>5 DEF Goes, Waits
  <2>2. \/ req[t].pc = "result" /\ op[t].res = "ok"
        \/ req[t].pc = "owner" /\ op[t].res = "ok" /\ op[t].owner = r.addr
        \/ req[t].pc = "receivers"
        \/ req[t].pc = "mail" /\ req[t].reply = "ok"
    BY <1>2, <1>5, <2>1 DEF Goes
  <2>3. op[t].res = "ok" => Known(op[t])
    BY <1>5, <2>1, AloneKnows
  <2>4. CASE req[t].pc = "result" /\ op[t].res = "ok"
    <3>1. r.handler = "BindAccount" => MethodOf(req[t]) = "UpdateBinding"
      BY <2>1, <2>4 DEF MethodOf
    <3>2. r.handler = "UnbindAccount" => MethodOf(req[t]) = "DeleteBinding"
      BY <2>1, <2>4 DEF MethodOf
    <3>3. r.handler = "UninstallByUser" => MethodOf(req[t]) = "UninstallByUser"
      BY <2>1, <2>4 DEF MethodOf
    <3>. QED
      BY <2>1, <2>3, <2>4, <3>1, <3>2, <3>3
      DEF Fits, Known, TakesAddress, TakesEmail, Mutator
  <2>5. CASE req[t].pc = "owner" /\ op[t].res = "ok" /\ op[t].owner = r.addr
    <3>1. r.handler = "BindAccount" /\ r.addr \in Address
      BY <1>1, <2>1, <2>5 DEF Serves
    <3>2. op[t].name = "QueryReflectByOneEmail" /\ op[t].email = r.email
      BY <2>1, <2>5 DEF MethodOf, Fits, TakesEmail
    <3>. QED
      BY <2>3, <2>5, <3>1, <3>2, NoAddressAssumption DEF Known
  <2>6. CASE req[t].pc = "receivers" \/ (req[t].pc = "mail" /\ req[t].reply = "ok")
    BY <1>1, <2>1, <2>6 DEF Serves
  <2>. QED
    BY <2>2, <2>4, <2>5, <2>6
<1>. QED
  BY <1>1, <1>3, <1>4, <1>5 DEF ReplyHeld, Truthful

LEMMA ReplySteps ==
    ASSUME Inv, ReplyHeld, NEW t \in conf.thread, DatabaseStep(t), UNCHANGED serviceVars
    PROVE  ReplyHeld'
<1>1. /\ t \in Thread /\ UNCHANGED <<req, conf>> /\ UNCHANGED Alone /\ Quiet
      /\ op[t].pc # "idle"
  BY StepsKeep, RequestFacts, AloneSame, AloneQuiet DEF Inv, serviceVars, Kept
<1>2. ASSUME NEW u \in Alone PROVE req[u].pc # "idle"
  <2>1. u \in Thread /\ Waits(req[u], op[u])
    BY <1>1 DEF Quiet, Inv, Service
  <2>2. u = t
    BY <1>1, <1>2, <2>1 DEF Quiet
  <2>. QED
    BY <1>1, <2>1, <2>2 DEF Waits, NoCall
<1>. QED
  BY <1>1, <1>2 DEF ReplyHeld, Truthful

LEMMA ReplyNext == Inv /\ ReplyHeld /\ [Next]_vars => ReplyHeld'
<1>. SUFFICES ASSUME Inv, ReplyHeld, [Next]_vars PROVE ReplyHeld'
  OBVIOUS
<1>1. ASSUME NEW t \in conf.thread, Serve(t), UNCHANGED <<conf, stored, levelVars>>
      PROVE  ReplyHeld'
  BY <1>1, ReplyServes
<1>2. ASSUME NEW t \in conf.thread, DatabaseStep(t), UNCHANGED serviceVars
      PROVE  ReplyHeld'
  BY <1>2, ReplySteps
<1>3. CASE ProcessEnds
  <2>1. /\ req' = [u \in Thread |-> NoReq] /\ UNCHANGED conf /\ UNCHANGED Alone
        /\ Alone \subseteq Thread
    BY <1>3, AloneSame, AloneQuiet DEF ProcessEnds, RequestsLost, Quiet, Inv
  <2>. QED
    BY <2>1 DEF ReplyHeld, Truthful, NoReq
<1>4. ASSUME UNCHANGED <<stored, conf, req>> PROVE ReplyHeld'
  BY <1>4, AloneSame DEF ReplyHeld, Truthful, stored, Uses
<1>. QED
  BY <1>1, <1>2, <1>3, <1>4 DEF Next, Step, Crash, LinkExpires, vars

(* ReplyTruth: with one goroutine, "ok" says that the binding, the         *)
(* unbinding or the removal that was asked for is stored.                  *)
THEOREM RepliesTrue == Spec => []ReplyTruth
<1>1. ReplyHeld => ReplyTruth
  <2>. SUFFICES ASSUME ReplyHeld, NEW t \in Thread, OneAtATime,
                       req[t].pc = "idle", req[t].reply = "ok"
                PROVE  /\ req[t].handler = "BindAccount" => reflect[req[t].email] = req[t].addr
                       /\ req[t].handler = "UnbindAccount" /\ ~Uses(DBTypRedis) =>
                             req[t].email \notin account[req[t].addr].emails
                       /\ req[t].handler = "UninstallByUser" /\ Uses(DBTypFirestore) =>
                             account[req[t].addr].emails = {}
    BY DEF ReplyTruth
  <2>1. t \in conf.thread
    BY DEF ReplyHeld, NoReq
  <2>. QED
    BY <2>1 DEF ReplyHeld, Truthful, Alone
<1>2. Init => ReplyHeld
  <2>1. Init => Alone \subseteq Thread
    BY InitService, AloneQuiet DEF Quiet
  <2>. QED
    BY <2>1, InitService DEF ReplyHeld, Truthful, NoReq
<1>. QED
  BY <1>1, <1>2, InitInv, NextInv, ReplyNext, PTL DEF Spec

-----------------------------------------------------------------------------
(* What a goroutine that has the process to itself is entitled to write.   *)

(* A step of its call writes nothing for a query; only UpdateBinding lists *)
(* an e-mail, its own for its account, or maps one.                        *)
OwnWrites(c) ==
    LET emails == account[c.addr].emails
    IN  /\ c.name \notin Mutator => UNCHANGED <<account, reflect>>
        /\ \A a \in Address :
              \/ account'[a].emails \subseteq account[a].emails
              \/ c.name = "UpdateBinding" /\ a = c.addr
        /\ c.name = "UpdateBinding" =>
              /\ account'[c.addr].emails \in {emails, emails \cup {c.email}}
              /\ account'[c.addr].level = account[c.addr].level
        /\ \A e \in Email :
              \/ reflect'[e] \in {reflect[e], NoAddress}
              \/ c.name = "UpdateBinding" /\ e = c.email /\ reflect'[e] = c.addr

LEMMA AloneWrites ==
    ASSUME Inv, NEW t \in conf.thread, t \in Alone, DatabaseStep(t)
    PROVE  OwnWrites(op[t])
<1>1. t \in Thread
  BY RequestFacts DEF Inv
<1>2. CASE Uses(DBTypFirestore)
  <2>1. FP!AInv /\ FP!StoreStep(t)
    BY <1>2, Backends, SameFirestore DEF DatabaseStep, Inv, Database, OnFirestore
  <2>2. FP!OwnWrites(op[t])
    BY <1>1, <2>1, FP!AloneWrites, FirestoreAssumed
  <2>. QED
    BY <2>2 DEF OwnWrites, FP!OwnWrites, Mutator, FP!Mutator
<1>3. CASE Uses(DBTypLevelDB)
  <2>1. LP!LInv /\ LP!Knows(t) /\ LP!StoreStep(t)
    BY <1>3, Backends, SameLevelDB DEF DatabaseStep, Inv, Database, OnLevelDB
  <2>2. LP!OwnWrites(op[t])
    BY <1>1, <2>1, LP!AloneWrites, LevelDBAssumed
  <2>. QED
    BY <2>2 DEF OwnWrites, LP!OwnWrites, Mutator, LP!Mutator
<1>4. CASE Uses(DBTypRedis)
  <2>1. RP!RInv /\ RP!StoreStep(t)
    BY <1>4, Backends, SameRedis DEF DatabaseStep, Inv, Database, OnRedis
  <2>2. RP!OwnWrites(op[t])
    BY <1>1, <2>1, RP!AloneWrites, RedisAssumed
  <2>. QED
    BY <2>2 DEF OwnWrites, RP!OwnWrites, Mutator, RP!Mutator
<1>5. CASE NoDatabase
  BY <1>5, Backends DEF DatabaseStep, stored, OwnWrites
<1>. QED
  BY <1>2, <1>3, <1>4, <1>5, Backends

(* How a step of the database changes links: only on Firestore.            *)
LEMMA LinkWrites ==
    ASSUME Inv, NEW t \in conf.thread, DatabaseStep(t), NEW k \in Token
    PROVE  \/ link'[k] = link[k]
           \/ op[t].name = "CreateActiveLink" /\ link'[k].found
           \/ /\ op[t].name = "RemoveActiveLink" /\ k = op[t].token
              /\ ~link'[k].found /\ Uses(DBTypFirestore)
<1>1. t \in Thread
  BY RequestFacts DEF Inv
<1>2. CASE Uses(DBTypFirestore)
  <2>1. FP!GoodStore /\ FP!StoreStep(t)
    BY <1>2, Backends, SameFirestore DEF DatabaseStep, Inv, Database, OnFirestore, FP!AInv,
       FP!TInv
  <2>. DEFINE c == op[t]
  <2>2. /\ \A x \in Token \ {c.token} : link'[x] = link[x]
        /\ c.name \notin {"CreateActiveLink", "RemoveActiveLink"} => UNCHANGED link
        /\ c.name = "CreateActiveLink" =>
              \/ UNCHANGED link
              \/ link'[c.token] = [found |-> TRUE, addr |-> c.addr, email |-> c.email,
                                   unbind |-> c.unbind]
        /\ c.name = "RemoveActiveLink" => UNCHANGED link \/ link'[c.token] = FP!NoLink
    BY <1>1, <2>1, FP!LinkMoves, FirestoreAssumed
  <2>. QED
    BY <1>2, <2>2 DEF FP!NoLink
<1>3. CASE ~Uses(DBTypFirestore)
  BY <1>3 DEF DatabaseStep, stored
<1>. QED
  BY <1>2, <1>3

(* An e-mail is bound by a BindAccount that has found it free, or by a     *)
(* link that is stored; for an account that may have one more, or has it.  *)
(* A link is removed once the binding is there.                            *)
Entitled(t) ==
    LET r == req[t]
        c == op[t]
    IN  /\ r.pc = "owner" => HasRight(account[r.addr])
        /\ c.name = "UpdateBinding" =>
              /\ HasRight(account[c.addr]) \/ c.email \in account[c.addr].emails
              /\ r.handler = "BindAccount" => reflect[c.email] \in {NoAddress, c.addr}
        /\ r.handler = "ActiveVerify" /\ r.pc \in {"activated", "rights", "bound", "result"} =>
              /\ Uses(DBTypFirestore)
              /\ r.pc # "result" \/ link[r.token].found =>
                    link[r.token].addr = r.addr /\ link[r.token].email = r.email
              /\ r.pc = "result" =>
                    reflect[r.email] = r.addr /\ r.email \in account[r.addr].emails
Finite == \A a \in Address : IsFiniteSet(account[a].emails)
BindHeld == Alone # {} => Finite /\ \A t \in Alone : Entitled(t)

LEMMA BindServes ==
    ASSUME Inv, BindHeld, NEW t \in conf.thread, Serve(t),
           UNCHANGED <<conf, stored, levelVars>>
    PROVE  BindHeld'
<1>1. /\ Service /\ t \in Thread /\ Turns(t) /\ Waits(req[t], op[t]) /\ Serves(req[t])
      /\ UNCHANGED <<account, reflect, link>> /\ req[t] \in Req
      /\ UNCHANGED Uses(DBTypFirestore)
  BY ServeTurns, RequestFacts, BackendsSame DEF Inv, stored
<1>2. PICK r \in Req, c \in {op'[t]} :
         /\ req' = [req EXCEPT ![t] = r] /\ op' = [op EXCEPT ![t] = c]
         /\ Waits(r, c) /\ Serves(r) /\ Goes(t, r, c)
  BY <1>1, RequestFacts DEF Turns
<1>3. /\ req'[t] = r /\ op'[t] = c
      /\ \A u \in Thread \ {t} : req'[u] = req[u] /\ op'[u] = op[u]
  BY <1>1, <1>2, RequestFacts
<1>4. UNCHANGED Alone /\ Alone \subseteq Thread
  BY <1>1, AloneSame, AloneQuiet DEF Quiet
<1>5. ASSUME t \in Alone PROVE Entitled(t)'
  <2>. DEFINE q == req[t]
              d == op[t]
  <2>1. Entitled(t)
    BY <1>5 DEF BindHeld
  <2>2. q.pc # "idle" => Fits(d, MethodOf(q), q.addr, q.email, q.token)
    BY <1>1 DEF Waits
  <2>3. d.pc = "done" /\ d.res = "ok" => Known(d)
    BY <1>5, AloneKnows
  <2>4. ASSUME q.pc \in {"rights", "receivers"}, d.pc = "done", d.res = "ok"
        PROVE  d.doc = account[q.addr]
    <3>1. d.name = "QueryAccount" /\ d.addr = q.addr
      BY <2>2, <2>4 DEF MethodOf, Fits, TakesAddress
    <3>. QED
      BY <2>3, <2>4, <3>1 DEF Known
  <2>5. r.pc = "owner" => HasRight(account[r.addr])
    BY <1>2, <2>4 DEF Goes
  <2>6. ASSUME c.name = "UpdateBinding"
        PROVE  /\ HasRight(account[c.addr])
               /\ r.handler = "BindAccount" => reflect[c.email] = NoAddress
    <3>1. r.pc # "idle" /\ Fits(c, MethodOf(r), r.addr, r.email, r.token)
      BY <1>2, <2>6 DEF Waits, NoCall
    <3>2. MethodOf(r) = "UpdateBinding" /\ c.addr = r.addr /\ c.email = r.email
      BY <2>6, <3>1 DEF Fits, TakesAddress, TakesEmail, Mutator
    <3>3. r.pc = "bound" \/ (r.pc = "result" /\ r.handler = "BindAccount")
      BY <1>2, <3>1, <3>2 DEF MethodOf, Req
    <3>4. CASE r.pc = "bound"
      <4>1. HasRight(account[r.addr])
        BY <1>2, <2>4, <3>4 DEF Goes
      <4>2. r.handler # "BindAccount"
        BY <1>2, <3>4 DEF Serves
      <4>. QED
        BY <3>2, <4>1, <4>2
    <3>5. CASE r.pc = "result" /\ r.handler = "BindAccount"
      <4>1. /\ q.pc = "owner" /\ d.pc = "done" /\ d.res = "ok" /\ d.owner = NoAddress
            /\ r.addr = q.addr /\ r.email = q.email
        BY <1>1, <1>2, <3>5 DEF Goes, Serves
      <4>2. d.name = "QueryReflectByOneEmail" /\ d.email = q.email
        BY <2>2, <4>1 DEF MethodOf, Fits, TakesEmail
      <4>3. reflect[r.email] = NoAddress
        BY <2>3, <4>1, <4>2 DEF Known
      <4>. QED
        BY <2>1, <3>2, <4>1, <4>3 DEF Entitled
    <3>. QED
      BY <3>3, <3>4, <3>5
  <2>7. ASSUME r.handler = "ActiveVerify", r.pc \in {"activated", "rights", "bound", "result"}
        PROVE  /\ Uses(DBTypFirestore)
               /\ link[r.token].addr = r.addr /\ link[r.token].email = r.email
               /\ r.pc = "result" =>
                     reflect[r.email] = r.addr /\ r.email \in account[r.addr].emails
    <3>1. CASE r.pc = "activated"
      <4>1. /\ q.pc = "verify" /\ d.pc = "done" /\ d.res = "ok"
            /\ r.token = q.token /\ r.addr = d.addr /\ r.email = d.email
        BY <1>2, <3>1 DEF Goes
      <4>2. d.name = "GetActiveLink" /\ d.token = q.token
        BY <2>2, <4>1 DEF MethodOf, Fits, TakesToken
      <4>. QED
        BY <2>3, <3>1, <4>1, <4>2 DEF Known
    <3>2. CASE r.pc # "activated"
      <4>1. /\ r.pc = "rights" => q.pc = "activated"
            /\ r.pc = "bound" => q.pc = "rights"
            /\ r.pc = "result" => q.pc = "bound" /\ d.res = "ok"
            /\ r.handler = q.handler /\ r.addr = q.addr /\ r.email = q.email
            /\ r.token = q.token /\ d.pc = "done"
        BY <1>1, <1>2, <2>7, <3>2 DEF Goes, Serves
      <4>2. /\ Uses(DBTypFirestore)
            /\ link[r.token].addr = r.addr /\ link[r.token].email = r.email
        BY <2>1, <2>7, <3>2, <4>1 DEF Entitled
      <4>3. ASSUME r.pc = "result"
            PROVE  reflect[r.email] = r.addr /\ r.email \in account[r.addr].emails
        <5>1. d.name = "UpdateBinding" /\ d.addr = q.addr /\ d.email = q.email
          BY <2>2, <4>1, <4>3 DEF MethodOf, Fits, TakesAddress, TakesEmail, Mutator
        <5>. QED
          BY <2>3, <4>1, <4>3, <5>1 DEF Known
      <4>. QED
        BY <4>2, <4>3
    <3>. QED
      BY <3>1, <3>2
  <2>. HIDE DEF q, d
  <2>. QED
    BY <1>1, <1>3, <2>5, <2>6, <2>7 DEF Entitled
<1>6. ASSUME NEW u \in Alone, u # t PROVE Entitled(u)'
  BY <1>1, <1>3, <1>4, <1>6 DEF BindHeld, Entitled
<1>. QED
  BY <1>1, <1>4, <1>5, <1>6 DEF BindHeld, Finite

(* A right does not depend on more than the level and the e-mails.         *)
LEMMA SameRight ==
    ASSUME NEW x, NEW y, x.level = y.level, x.emails = y.emails
    PROVE  HasRight(x) <=> HasRight(y)
BY DEF HasRight

LEMMA WritesFinite ==
    ASSUME NEW c, Finite, OwnWrites(c)
    PROVE  Finite'
<1>. SUFFICES ASSUME NEW a \in Address PROVE IsFiniteSet(account'[a].emails)
  BY DEF Finite
<1>1. IsFiniteSet(account[a].emails)
  BY DEF Finite
<1>2. CASE account'[a].emails \subseteq account[a].emails
  BY <1>1, <1>2, FS_Subset
<1>3. CASE account'[a].emails = account[a].emails \cup {c.email}
  BY <1>1, <1>3, FS_AddElement
<1>. QED
  BY <1>2, <1>3 DEF OwnWrites

LEMMA BindSteps ==
    ASSUME Inv, BindHeld, NEW t \in conf.thread, DatabaseStep(t), UNCHANGED serviceVars
    PROVE  BindHeld'
<1>1. /\ t \in Thread /\ UNCHANGED <<req, conf>> /\ UNCHANGED Alone /\ Quiet
      /\ Kept(op[t], op'[t]) /\ Waits(req[t], op[t]) /\ Serves(req[t]) /\ req[t] \in Req
      /\ UNCHANGED Uses(DBTypFirestore)
  BY StepsKeep, RequestFacts, AloneSame, BackendsSame, AloneQuiet DEF Inv, serviceVars
<1>2. ASSUME NEW u \in Alone PROVE u = t
  BY <1>1, <1>2 DEF Quiet, Kept
<1>3. ASSUME t \in Alone PROVE Entitled(t)' /\ Finite'
  <2>. DEFINE r == req[t]
              c == op[t]
  <2>1. Entitled(t) /\ Finite /\ OwnWrites(c)
    BY <1>3, AloneWrites DEF BindHeld
  <2>2. r.pc # "idle" /\ Fits(c, MethodOf(r), r.addr, r.email, r.token)
    BY <1>1 DEF Waits, Kept, NoCall
  <2>3. r.pc = "owner" => HasRight(account'[r.addr])
    <3>1. r.pc = "owner" => c.name = "QueryReflectByOneEmail"
      BY <2>2 DEF MethodOf, Fits
    <3>2. r.pc = "owner" => UNCHANGED account
      BY <2>1, <3>1 DEF OwnWrites, Mutator
    <3>. QED
      BY <2>1, <3>2 DEF Entitled
  <2>4. ASSUME c.name = "UpdateBinding"
        PROVE  /\ HasRight(account'[c.addr]) \/ c.email \in account'[c.addr].emails
               /\ r.handler = "BindAccount" => reflect'[c.email] \in {NoAddress, c.addr}
    <3>1. c.email \in Email
      BY <2>2, <2>4 DEF Fits, TakesEmail
    <3>2. CASE account'[c.addr].emails = account[c.addr].emails
      <4>1. HasRight(account'[c.addr]) <=> HasRight(account[c.addr])
        BY <2>1, <2>4, <3>2, SameRight DEF OwnWrites
      <4>. QED
        BY <2>1, <2>4, <3>1, <3>2, <4>1 DEF Entitled, OwnWrites
    <3>3. CASE account'[c.addr].emails = account[c.addr].emails \cup {c.email}
      BY <2>1, <2>4, <3>1, <3>3 DEF Entitled, OwnWrites
    <3>. QED
      BY <2>1, <2>4, <3>2, <3>3 DEF OwnWrites
  <2>5. ASSUME r.handler = "ActiveVerify", r.pc \in {"activated", "rights", "bound", "result"}
        PROVE  /\ Uses(DBTypFirestore)
               /\ r.pc # "result" \/ link'[r.token].found =>
                     link'[r.token].addr = r.addr /\ link'[r.token].email = r.email
               /\ r.pc = "result" =>
                     reflect'[r.email] = r.addr /\ r.email \in account'[r.addr].emails
    <3>1. r.token \in Token
      BY <1>1, <2>5 DEF Serves
    <3>2. /\ c.name # "CreateActiveLink"
          /\ c.name = "RemoveActiveLink" => r.pc = "result" /\ c.token = r.token
          /\ r.pc = "result" => c.name = "RemoveActiveLink"
      BY <2>2, <2>5 DEF MethodOf, Fits, TakesToken
    <3>3. link'[r.token] = link[r.token] \/ (r.pc = "result" /\ ~link'[r.token].found)
      BY <3>1, <3>2, LinkWrites
    <3>4. r.pc = "result" => UNCHANGED <<account, reflect>>
      BY <2>1, <3>2 DEF OwnWrites, Mutator
    <3>. QED
      BY <2>1, <2>5, <3>3, <3>4 DEF Entitled
  <2>6. /\ op'[t].name = c.name
        /\ c.name = "UpdateBinding" => op'[t].addr = c.addr /\ op'[t].email = c.email
    BY <1>1 DEF Kept, TakesAddress, TakesEmail, Mutator
  <2>7. Entitled(t)'
    BY <1>1, <2>3, <2>4, <2>5, <2>6 DEF Entitled
  <2>. QED
    BY <2>1, <2>7, WritesFinite
<1>. QED
  BY <1>1, <1>2, <1>3 DEF BindHeld

LEMMA BindNext == Inv /\ BindHeld /\ [Next]_vars => BindHeld'
<1>. SUFFICES ASSUME Inv, BindHeld, [Next]_vars PROVE BindHeld'
  OBVIOUS
<1>1. ASSUME NEW t \in conf.thread, Serve(t), UNCHANGED <<conf, stored, levelVars>>
      PROVE  BindHeld'
  BY <1>1, BindServes
<1>2. ASSUME NEW t \in conf.thread, DatabaseStep(t), UNCHANGED serviceVars
      PROVE  BindHeld'
  BY <1>2, BindSteps
<1>3. CASE ProcessEnds
  <2>1. /\ req' = [u \in Thread |-> NoReq] /\ op' = [u \in Thread |-> NoCall]
        /\ UNCHANGED account /\ UNCHANGED conf /\ UNCHANGED Alone /\ Alone \subseteq Thread
    BY <1>3, AloneSame, AloneQuiet, EndsTokens
    DEF ProcessEnds, RequestsLost, Quiet, Inv, LevelDB!ProcessExit, LevelDB!data
  <2>. QED
    BY <2>1 DEF BindHeld, Finite, Entitled, NoReq, NoCall
<1>4. ASSUME UNCHANGED <<stored, op, conf, req>> PROVE BindHeld'
  BY <1>4, AloneSame DEF BindHeld, Finite, Entitled, stored, Uses
<1>. QED
  BY <1>1, <1>2, <1>3, <1>4 DEF Next, Step, Crash, LinkExpires, vars

LEMMA AlwaysBind == Spec => [](Inv /\ BindHeld)
<1>1. Init => BindHeld
  <2>. SUFFICES ASSUME Init PROVE BindHeld
    OBVIOUS
  <2>1. Alone \subseteq Thread
    BY InitService, AloneQuiet DEF Quiet
  <2>2. Finite
    BY FS_EmptySet DEF Init, Redis!StoreInit, Redis!NoDoc, Finite
  <2>. QED
    BY <2>1, <2>2, InitService DEF BindHeld, Entitled, NoReq, NoCall
<1>. QED
  BY <1>1, InitInv, NextInv, BindNext, PTL DEF Spec

(* Only the database step of a goroutine changes what is stored.           *)
LEMMA WhoWrites ==
    ASSUME Inv, [Next]_vars, account' # account \/ reflect' # reflect \/ link' # link, OneAtATime
    PROVE  \E t \in conf.thread :
              /\ t \in Alone /\ t \in Thread /\ DatabaseStep(t) /\ Waits(req[t], op[t])
              /\ op[t].pc # "idle" /\ Serves(req[t]) /\ req[t] \in Req
<1>1. PICK t \in conf.thread : DatabaseStep(t) /\ UNCHANGED serviceVars
  BY DEF Next, Step, Crash, LinkExpires, vars, stored, ProcessEnds, LevelDB!ProcessExit,
     LevelDB!data
<1>. QED
  BY <1>1, StepsKeep, RequestFacts DEF Kept, Inv, Alone

LEMMA QuotaStep ==
    ASSUME Inv, BindHeld, [Next]_vars, OneAtATime, NEW a \in Address,
           UserLevel(account'[a].level) \in Limited,
           ~(account'[a].emails \subseteq account[a].emails)
    PROVE  Cardinality(account'[a].emails) <= Limit(account'[a].level)
<1>1. PICK t \in conf.thread : t \in Alone /\ DatabaseStep(t)
  BY WhoWrites
<1>2. Entitled(t) /\ Finite /\ OwnWrites(op[t])
  BY <1>1, AloneWrites DEF BindHeld
<1>. DEFINE old_emails == account[a].emails
            e == op[t].email
            level == account[a].level
<1>3. /\ account'[a].emails = old_emails \cup {e} /\ account'[a].level = level
      /\ e \notin old_emails /\ HasRight(account[a])
  BY <1>2 DEF OwnWrites, Entitled
<1>4. /\ Cardinality(old_emails) \in Nat
      /\ Cardinality(old_emails \cup {e}) = Cardinality(old_emails) + 1
  BY <1>2, <1>3, FS_AddElement, FS_CardinalityType DEF Finite
<1>5. UserLevel(level) \in Limited
  BY <1>3
<1>6. Cardinality(old_emails) + 1 <= Limit(level)
  BY <1>3, <1>4, <1>5
  DEF HasRight, Limit, Limited, UserLevelInActive, UserLevelFree, UserLevelNormalVip,
      UserLevelPlusVip, UserLevelEnterpriseVip
<1>. QED
  BY <1>3, <1>4, <1>6

LEMMA TakeoverStep ==
    ASSUME Inv, BindHeld, [Next]_vars, OneAtATime, NEW e \in Email,
           reflect[e] # NoAddress, reflect'[e] \notin {NoAddress, reflect[e]}
    PROVE  \E k \in inbox : link[k].email = e /\ link[k].addr = reflect'[e]
<1>1. PICK t \in conf.thread :
         /\ t \in Alone /\ t \in Thread /\ DatabaseStep(t) /\ Waits(req[t], op[t])
         /\ op[t].pc # "idle" /\ Serves(req[t]) /\ req[t] \in Req
  BY WhoWrites
<1>2. Entitled(t) /\ OwnWrites(op[t])
  BY <1>1, AloneWrites DEF BindHeld
<1>. DEFINE r == req[t]
            c == op[t]
<1>3. c.name = "UpdateBinding" /\ e = c.email /\ reflect'[e] = c.addr
  BY <1>2 DEF OwnWrites
<1>4. r.handler # "BindAccount"
  BY <1>2, <1>3 DEF Entitled
<1>5. r.pc # "idle" /\ Fits(c, MethodOf(r), r.addr, r.email, r.token)
  BY <1>1, <1>3 DEF Waits, NoCall
<1>6. MethodOf(r) = "UpdateBinding" /\ c.addr = r.addr /\ c.email = r.email
  BY <1>3, <1>5 DEF Fits, TakesAddress, TakesEmail, Mutator
<1>7. r.pc = "bound" /\ r.handler = "ActiveVerify"
  BY <1>1, <1>4, <1>5, <1>6 DEF MethodOf, Serves, Req
<1>8. r.token \in inbox
  BY <1>1, <1>7 DEF Inv, Tokens
<1>9. link[r.token].addr = r.addr /\ link[r.token].email = r.email
  BY <1>2, <1>7 DEF Entitled
<1>. QED
  BY <1>3, <1>6, <1>8, <1>9

LEMMA SpentStep ==
    ASSUME Inv, BindHeld, [Next]_vars, OneAtATime, NEW k \in Token,
           link[k].found, ~link'[k].found
    PROVE  /\ reflect[link[k].email] = link[k].addr
           /\ link[k].email \in account[link[k].addr].emails
<1>1. PICK t \in conf.thread :
         /\ t \in Alone /\ t \in Thread /\ DatabaseStep(t) /\ Waits(req[t], op[t])
         /\ op[t].pc # "idle" /\ Serves(req[t]) /\ req[t] \in Req
  BY WhoWrites
<1>. DEFINE r == req[t]
            c == op[t]
<1>2. Entitled(t)
  BY <1>1 DEF BindHeld
<1>3. c.name = "RemoveActiveLink" /\ k = c.token
  BY <1>1, LinkWrites
<1>4. r.pc # "idle" /\ Fits(c, MethodOf(r), r.addr, r.email, r.token)
  BY <1>1, <1>3 DEF Waits, NoCall
<1>5. MethodOf(r) = "RemoveActiveLink" /\ c.token = r.token
  BY <1>3, <1>4 DEF Fits, TakesToken
<1>6. r.pc = "result" /\ r.handler = "ActiveVerify"
  BY <1>1, <1>4, <1>5 DEF MethodOf, Serves, Req, Handler
<1>. QED
  BY <1>2, <1>3, <1>5, <1>6 DEF Entitled

(* QuotaKept: with one goroutine, no step takes an account over the number *)
(* of e-mails of its level.  (With two, two bindings of one account may.)  *)
THEOREM QuotaHolds == Spec /\ OneAtATime => QuotaKept
<1>. DEFINE A == \A a \in Address :
                    LET before == account[a]  after == account'[a]
                    IN  UserLevel(after.level) \in Limited /\ ~(after.emails \subseteq before.emails)
                           => Cardinality(after.emails) <= Limit(after.level)
<1>1. Inv /\ BindHeld /\ OneAtATime /\ [Next]_vars => [A]_vars
  BY QuotaStep
<1>2. OneAtATime /\ [Next]_vars => OneAtATime'
  BY DEF Next, Step, Crash, LinkExpires, vars, serviceVars, ProcessEnds, RequestsLost,
     OneAtATime
<1>3. Spec /\ OneAtATime => [][A]_vars
  BY <1>1, <1>2, AlwaysBind, PTL DEF Spec
<1>. QED
  BY <1>3 DEF QuotaKept

(* TakeoverNeedsConfirm: with one goroutine, an e-mail that resolves to    *)
(* somebody goes to somebody else only by a link that was mailed to it.    *)
THEOREM TakeoversConfirmed == Spec => TakeoverNeedsConfirm
<1>. DEFINE A == \A e \in Email :
                    OneAtATime /\ reflect[e] # NoAddress /\ reflect'[e] \notin {NoAddress, reflect[e]}
                       => \E k \in inbox : link[k].email = e /\ link[k].addr = reflect'[e]
<1>1. Inv /\ BindHeld /\ [Next]_vars => [A]_vars
  BY TakeoverStep
<1>2. Spec => [][A]_vars
  BY <1>1, AlwaysBind, PTL DEF Spec
<1>. QED
  BY <1>2 DEF TakeoverNeedsConfirm

(* LinkSpentOnlyWhenBound: with one goroutine, a link is removed only once *)
(* the binding that it stands for is stored.                               *)
THEOREM SpentLinksBound == Spec => LinkSpentOnlyWhenBound
<1>. DEFINE A == \A k \in Token :
                    OneAtATime /\ link[k].found /\ ~link'[k].found =>
                       /\ reflect[link[k].email] = link[k].addr
                       /\ link[k].email \in account[link[k].addr].emails
<1>1. Inv /\ BindHeld /\ [Next]_vars => [A]_vars
  BY SpentStep
<1>2. Spec => [][A]_vars
  BY <1>1, AlwaysBind, PTL DEF Spec
<1>. QED
  BY <1>2 DEF LinkSpentOnlyWhenBound

=============================================================================
