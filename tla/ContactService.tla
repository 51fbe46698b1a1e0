--------------------------- MODULE ContactService ---------------------------
(***************************************************************************)
(* The HTTP handlers (service/http_srv.go, service/user_level.go): each    *)
(* request is served by a goroutine of its own, which calls the database   *)
(* (DatabaseCalls) and decides on what it gets back.  The state of a       *)
(* handler between two database calls is req[t].                           *)
(*                                                                         *)
(* The mail goroutine that BindAccount and ActiveByEmail start is the same *)
(* t, going on after its reply: the server has other goroutines for what   *)
(* arrives meanwhile.  Requests that fail before they reach the database   *)
(* (bad payload, signature or parameters) change nothing; they are the     *)
(* subject of module RequestGate.                                          *)
(*                                                                         *)
(* A call that panics ends the handler; the Recoverer of the router        *)
(* answers with an error.  In a mail goroutine there is no Recoverer: what *)
(* happens then is said in module ContactServer.                           *)
(***************************************************************************)
EXTENDS DatabaseCalls, FiniteSetsExt

(* What a process is configured for, and what its clients do: its database *)
(* (database_typ), how many goroutines, addresses and e-mails there are,   *)
(* the handlers that are called, and the int32 levels that are asked for.  *)
CONSTANT Deployments

Handler == {"AccountActive", "BindAccount", "UnbindAccount", "ActiveByEmail", "ActiveVerify",
            "UninstallByUser", "updateUserLevel", "deleteUser", "QueryAccount", "queryUserLevel",
            "queryEmailReflect", "QueryReflectByEmailArray", "DecryptByAdmin"}

ASSUME DeploymentsAssumption ==
    \A d \in Deployments : /\ d.database_typ \in Int /\ d.served \subseteq Handler
                           /\ d.levels \subseteq Int
                           /\ \E T \in SUBSET Thread : Cardinality(T) = d.threads

DBTypFirestore == 1
DBTypLevelDB == 2
DBTypRedis == 3

VARIABLES
    conf,       \* the deployment, with its goroutines, addresses and e-mails; never changes
    req,        \* the request each goroutine serves
    inbox,      \* external: tokens of the links in users' mailboxes
    issued,     \* tokens that uuid.NewString has returned
    expired     \* tokens created more than 24 hours ago

serviceVars == <<conf, req, inbox, issued, expired>>

Req == [handler : Handler \cup {"none"},
        pc : {"idle", "rights", "owner", "link", "created", "mail",
              "verify", "activated", "bound", "receivers", "result"},
        addr : Address \cup {NoAddress},
        email : Email \cup {NoEmail},
        emails : SUBSET Email,      \* the array of a query, or the receivers of a mail
        token : Token \cup {NoToken},
        reply : {"none", "ok", "confirm", "err"}]

NoReq == [handler |-> "none", pc |-> "idle", addr |-> NoAddress, email |-> NoEmail,
          emails |-> {}, token |-> NoToken, reply |-> "none"]

Deployed(d) ==
    [database_typ : {d.database_typ}, served : {d.served}, levels : {d.levels},
     thread : {CHOOSE T \in SUBSET Thread : Cardinality(T) = d.threads},
     address : kSubset(d.addresses, Address), email : kSubset(d.emails, Email)]

ServiceInit ==
    /\ conf \in UNION {Deployed(d) : d \in Deployments}
    /\ req = [t \in Thread |-> NoReq]
    /\ inbox = {} /\ issued = {} /\ expired = {}

-----------------------------------------------------------------------------

(* A request for handler h arrives, and its first database call is c.      *)
Arrive(t, h, r, c) ==
    /\ h \in conf.served
    /\ req[t].pc = "idle"
    /\ req' = [req EXCEPT ![t] = [r EXCEPT !.handler = h]]
    /\ Invoke(t, c)

(* The database call that t waits for at this place has returned.          *)
Await(t, handlers, place) ==
    /\ req[t].handler \in handlers /\ req[t].pc = place
    /\ op[t].pc = "done"

(* The handler makes its next call and waits for it at place.              *)
Proceed(t, place, c) == req' = [req EXCEPT ![t].pc = place] /\ Invoke(t, c)

(* The goroutine is done; the locals of its last call are gone.            *)
Finish(t, reply) ==
    /\ req' = [req EXCEPT ![t].pc = "idle", ![t].reply = reply]
    /\ op' = [op EXCEPT ![t] = NoCall]

Succeeded(t) == op[t].res = "ok"

At1(a) == [NoReq EXCEPT !.pc = "result", !.addr = a]

(* Handlers that make one call and report its outcome.                     *)
AccountActive(t, a) ==
    Arrive(t, "AccountActive", At1(a), ActiveAccount(a, UserLevelFree))
UnbindAccount(t, a, e) ==
    Arrive(t, "UnbindAccount", [At1(a) EXCEPT !.email = e], DeleteBinding(a, e))
UninstallUser(t, a) ==
    Arrive(t, "UninstallByUser", At1(a), UninstallByUser(a))
(* Mutant of updateUserLevel: the int32 is not converted.                  *)
updateUserLevelUnconverted(t, a, l) ==
    Arrive(t, "updateUserLevel", At1(a), UpdateAccountLevel(a, l))
updateUserLevel(t, a, l) ==
    Arrive(t, "updateUserLevel", At1(a), UpdateAccountLevel(a, Int8(l)))
deleteUser(t, a) ==
    Arrive(t, "deleteUser", At1(a), DeleteAccount(a))

QueryAnAccount(t, a) == Arrive(t, "QueryAccount", At1(a), QueryAccount(a))
queryUserLevel(t, a) == Arrive(t, "queryUserLevel", At1(a), QueryAccount(a))
queryEmailReflect(t, e) ==
    Arrive(t, "queryEmailReflect", [At1(NoAddress) EXCEPT !.email = e], QueryReflectByOneEmail(e))
QueryReflectByEmailArray(t, es) ==
    /\ es # {}
    /\ Arrive(t, "QueryReflectByEmailArray", [At1(NoAddress) EXCEPT !.emails = es],
              QueryReflectsByEmails(es))

(* Mutant of ReplyResult: the error of the last call is ignored.           *)
ReplyOk(t) ==
    /\ Await(t, Handler, "result")
    /\ Finish(t, "ok")
    /\ UNCHANGED <<inbox, issued, expired>>

ReplyResult(t) ==
    /\ Await(t, Handler, "result")
    /\ Finish(t, IF Succeeded(t) THEN "ok" ELSE "err")
    /\ UNCHANGED <<inbox, issued, expired>>

(* BindAccount: checkRightsOfAction reads the account first.               *)
BindAccount(t, a, e) ==
    Arrive(t, "BindAccount", [NoReq EXCEPT !.pc = "rights", !.addr = a, !.email = e],
           QueryAccount(a))

RightsGranted(t) == Succeeded(t) /\ HasRight(op[t].doc)

BindAccountRights(t) ==
    /\ Await(t, {"BindAccount"}, "rights")
    /\ \/ ~RightsGranted(t) /\ Finish(t, "err")
       \/ RightsGranted(t) /\ Proceed(t, "owner", QueryReflectByOneEmail(req[t].email))
    /\ UNCHANGED <<inbox, issued, expired>>

(* Mutant of BindAccountOwner: whoever owns the e-mail, it is bound.       *)
BindAccountTakes(t) ==
    /\ Await(t, {"BindAccount"}, "owner")
    /\ \/ ~Succeeded(t) /\ Finish(t, "err")
       \/ Succeeded(t) /\ Proceed(t, "result", UpdateBinding(req[t].addr, req[t].email))
    /\ UNCHANGED <<inbox, issued, expired>>

(* Free e-mail: bind.  Own e-mail: a duplicate, done.  Somebody else's:    *)
(* answer "confirm" and have sendBindConfirmMail create and mail a link.   *)
(* (An instance that has run out of tokens has one whose creation fails.)  *)
BindAccountOwner(t) ==
    LET owner == op[t].owner
    IN  /\ Await(t, {"BindAccount"}, "owner")
        /\ \/ ~Succeeded(t) /\ Finish(t, "err") /\ UNCHANGED issued
           \/ /\ Succeeded(t) /\ owner = NoAddress
              /\ Proceed(t, "result", UpdateBinding(req[t].addr, req[t].email))
              /\ UNCHANGED issued
           \/ /\ Succeeded(t) /\ owner = req[t].addr
              /\ Finish(t, "ok") /\ UNCHANGED issued
           \/ /\ Succeeded(t) /\ owner \notin {NoAddress, req[t].addr}
              /\ \/ issued = Token /\ Finish(t, "confirm") /\ UNCHANGED issued
                 \/ \E k \in Token \ issued :
                       /\ issued' = issued \cup {k}
                       /\ req' = [req EXCEPT ![t].pc = "link", ![t].reply = "confirm",
                                             ![t].token = k]
                       /\ Invoke(t, CreateActiveLink(k, req[t].addr, req[t].email, FALSE))
        /\ UNCHANGED <<inbox, expired>>

(* ActiveByEmail creates the link before it answers.                       *)
ActiveByEmail(t, a, e, unbind) ==
    \E k \in Token \ issued :
        /\ issued' = issued \cup {k}
        /\ Arrive(t, "ActiveByEmail",
                  [NoReq EXCEPT !.pc = "created", !.addr = a, !.email = e, !.token = k],
                  CreateActiveLink(k, a, e, unbind))

ActiveByEmailCreated(t) ==
    /\ Await(t, {"ActiveByEmail"}, "created")
    /\ \/ ~Succeeded(t) /\ Finish(t, "err")
       \/ /\ Succeeded(t)
          /\ req' = [req EXCEPT ![t].pc = "mail", ![t].reply = "ok"]
          /\ UNCHANGED op
    /\ UNCHANGED <<inbox, issued, expired>>

(* Mutant of ConfirmLinkCreated: the mail goes out in any case.            *)
ConfirmLinkMailedAnyway(t) ==
    /\ Await(t, {"BindAccount"}, "link")
    /\ req' = [req EXCEPT ![t].pc = "mail"]
    /\ UNCHANGED <<op, inbox, issued, expired>>

ConfirmLinkCreated(t) ==
    /\ Await(t, {"BindAccount"}, "link")
    /\ op[t].res # "panic"
    /\ \/ ~Succeeded(t) /\ Finish(t, req[t].reply)
       \/ Succeeded(t) /\ req' = [req EXCEPT ![t].pc = "mail"] /\ UNCHANGED op
    /\ UNCHANGED <<inbox, issued, expired>>

(* SendActiveMail: delivered by the first or the second attempt, or lost.  *)
SendActiveMail(t) ==
    /\ req[t].pc = "mail"
    /\ \/ inbox' = inbox \cup {req[t].token}
       \/ UNCHANGED inbox
    /\ Finish(t, req[t].reply)
    /\ UNCHANGED <<issued, expired>>

(* ActiveVerify: somebody opens a link that was mailed, any number of      *)
(* times and whenever.  Its signature is good: it is over the stored data. *)
ActiveVerify(t, k) ==
    /\ k \in inbox
    /\ Arrive(t, "ActiveVerify", [NoReq EXCEPT !.pc = "verify", !.token = k], GetActiveLink(k))

ActiveVerifyLink(t) ==
    LET valid == Succeeded(t) /\ req[t].token \notin expired
    IN  /\ Await(t, {"ActiveVerify"}, "verify")
        /\ \/ ~valid /\ Finish(t, "err")
           \/ /\ valid
              /\ req' = [req EXCEPT ![t].pc = "activated", ![t].addr = op[t].addr,
                                    ![t].email = op[t].email]
              /\ Invoke(t, ActiveAccount(op[t].addr, UserLevelFree))
        /\ UNCHANGED <<inbox, issued, expired>>

ActiveVerifyActivated(t) ==
    /\ Await(t, {"ActiveVerify"}, "activated")
    /\ \/ ~Succeeded(t) /\ Finish(t, "err")
       \/ Succeeded(t) /\ Proceed(t, "rights", QueryAccount(req[t].addr))
    /\ UNCHANGED <<inbox, issued, expired>>

ActiveVerifyRights(t) ==
    /\ Await(t, {"ActiveVerify"}, "rights")
    /\ \/ ~RightsGranted(t) /\ Finish(t, "err")
       \/ RightsGranted(t) /\ Proceed(t, "bound", UpdateBinding(req[t].addr, req[t].email))
    /\ UNCHANGED <<inbox, issued, expired>>

(* Mutant of ActiveVerifyBound: the error of UpdateBinding is ignored.     *)
ActiveVerifyBoundAnyway(t) ==
    /\ Await(t, {"ActiveVerify"}, "bound")
    /\ Proceed(t, "result", RemoveActiveLink(req[t].token))
    /\ UNCHANGED <<inbox, issued, expired>>

ActiveVerifyBound(t) ==
    /\ Await(t, {"ActiveVerify"}, "bound")
    /\ \/ ~Succeeded(t) /\ Finish(t, "err")
       \/ Succeeded(t) /\ Proceed(t, "result", RemoveActiveLink(req[t].token))
    /\ UNCHANGED <<inbox, issued, expired>>

(* DecryptByAdmin, for a mail to these receivers: the account must have an *)
(* e-mail bound, and DecryptAdminAesKey gives its owner the key of the     *)
(* mail if one of the receivers is bound to it.  (Whether the mail and its *)
(* key can be decrypted at all is left open.)                              *)
DecryptByAdmin(t, a, es) ==
    Arrive(t, "DecryptByAdmin", [NoReq EXCEPT !.pc = "receivers", !.addr = a, !.emails = es],
           QueryAccount(a))

(* The map of bound e-mails, which no other database than Firestore fills. *)
MailStoreObj(t) == IF conf.database_typ = DBTypFirestore THEN op[t].doc.emails ELSE {}

DecryptByAdminReceivers(t) ==
    /\ Await(t, {"DecryptByAdmin"}, "receivers")
    /\ \/ Finish(t, "err")
       \/ /\ Succeeded(t) /\ MailStoreObj(t) \cap req[t].emails # {}
          /\ Finish(t, "ok")
    /\ UNCHANGED <<inbox, issued, expired>>

Serve(t) ==
    \/ /\ \/ \E a \in conf.address : AccountActive(t, a) \/ UninstallUser(t, a) \/ deleteUser(t, a)
          \/ \E a \in conf.address : QueryAnAccount(t, a) \/ queryUserLevel(t, a)
          \/ \E e \in conf.email : queryEmailReflect(t, e)
          \/ \E es \in SUBSET conf.email : QueryReflectByEmailArray(t, es)
          \/ \E a \in conf.address, es \in SUBSET conf.email : DecryptByAdmin(t, a, es)
          \/ \E a \in conf.address, e \in conf.email : UnbindAccount(t, a, e) \/ BindAccount(t, a, e)
          \/ \E a \in conf.address, l \in conf.levels : updateUserLevel(t, a, l)
          \/ \E k \in Token : ActiveVerify(t, k)
       /\ UNCHANGED <<inbox, issued, expired>>
    \/ /\ \E a \in conf.address, e \in conf.email, unbind \in BOOLEAN : ActiveByEmail(t, a, e, unbind)
       /\ UNCHANGED <<inbox, expired>>
    \/ ReplyResult(t) \/ DecryptByAdminReceivers(t)
    \/ BindAccountRights(t) \/ BindAccountOwner(t) \/ ConfirmLinkCreated(t)
    \/ ActiveByEmailCreated(t) \/ SendActiveMail(t)
    \/ ActiveVerifyLink(t) \/ ActiveVerifyActivated(t)
    \/ ActiveVerifyRights(t) \/ ActiveVerifyBound(t)

(* A link in somebody's mailbox gets older than tokenExpiration.           *)
LinkExpires ==
    /\ \E k \in inbox \ expired : expired' = expired \cup {k}
    /\ UNCHANGED <<conf, req, op, inbox, issued>>

(* The process ends: requests and mails that are under way are lost.       *)
RequestsLost == req' = [t \in Thread |-> NoReq] /\ UNCHANGED <<conf, inbox, issued, expired>>

-----------------------------------------------------------------------------

(* The requests have their type.                                           *)
ServiceTypeOK ==
    /\ req \in [Thread -> Req]
    /\ inbox \subseteq issued /\ issued \subseteq Token /\ expired \subseteq inbox

=============================================================================
