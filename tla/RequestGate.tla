----------------------------- MODULE RequestGate -----------------------------
(***************************************************************************)
(* How the process starts (main.go, config.go, service/cfg.go), and what a *)
(* request passes before a handler runs and its reply after that           *)
(* (service/http_srv.go, service/http_io.go, proto/proto_ex.go).  What the *)
(* handlers do is ContactService's part: here one returns, fails or        *)
(* panics.  The database tool (db/db_tool/dbtool.go) is a client of the    *)
(* debug port.                                                             *)
(***************************************************************************)
EXTENDS MailWallet

(* Where the process runs: the content of its configuration file ({} if it *)
(* cannot be read or parsed), that of its wallet file, whether the database*)
(* opens, and whether the two ports are free.                              *)
CONSTANT Installations

VARIABLES
    place,      \* the installation; never changes
    proc,       \* how far the process is, its database, its wallet's key, its debug server
    served      \* the last request, its reply, and whether its handler ran

gateVars == <<place, proc, served>>

NotRunning == [pc |-> "start", database |-> 0, key |-> {}, debug |-> "off"]
NoService == [request |-> {}, reply |-> {}, ran |-> FALSE]

GateInit ==
    /\ place \in Installations
    /\ proc = NotRunning
    /\ served = NoService

-----------------------------------------------------------------------------
(* The start.                                                              *)

(* The section of the configuration that each database needs: a section    *)
(* with none of its fields in the file is a nil pointer.                   *)
Section == <<"FsCfg", "LBCfg", "RedisCfg">>

Die == proc' = [NotRunning EXCEPT !.pc = "dead"] /\ UNCHANGED served

(* initConfig, and InitConf of the packages: anything that is missing      *)
(* panics; a type that is no database's leaves the interface nil.          *)
(* (A Redis client is made without connecting: it always opens.)           *)
Configured(c) ==
    /\ {"HttpCfg", "WConf"} \subseteq c.sections
    /\ c.database_typ \in DOMAIN Section =>
          Section[c.database_typ] \in c.sections /\ (place.databaseOpens \/ c.database_typ = 3)

initConfig ==
    /\ proc.pc = "start"
    /\ \/ ~(\E c \in place.config : Configured(c)) /\ Die
       \/ \E c \in place.config :
             /\ Configured(c)
             /\ proc' = [proc EXCEPT !.pc = "configured", !.database = c.database_typ]
             /\ UNCHANGED served

(* The wallet opens before the service starts, or never.                   *)
WInst ==
    LET w == ParseWallet(place.wallet, (CHOOSE c \in place.config : TRUE).wallet_auth)
    IN  /\ proc.pc = "configured"
        /\ \/ w.res # "ok" /\ Die
           \/ /\ w.res = "ok"
              /\ proc' = [proc EXCEPT !.pc = "opened", !.key = {w.value}]
              /\ UNCHANGED served

(* Start: a goroutine of its own for the debug port, whose failure is only *)
(* printed; without the port of the service, the process ends.             *)
StartDebug ==
    /\ proc.pc \in {"opened", "serving"} /\ proc.debug = "off"
    /\ proc' = [proc EXCEPT !.debug = IF place.debugPortFree THEN "up" ELSE "failed"]
    /\ UNCHANGED served

Start ==
    /\ proc.pc = "opened"
    /\ \/ ~place.portFree /\ Die
       \/ place.portFree /\ proc' = [proc EXCEPT !.pc = "serving"] /\ UNCHANGED served

(* A signal, or a panic outside the handlers; and external: started again. *)
Ends == proc.pc # "dead" /\ Die
Restart == proc.pc = "dead" /\ proc' = NotRunning /\ served' = NoService

-----------------------------------------------------------------------------
(* Requests.                                                               *)

UnsignedRoute == {"/", "/keep_alive", "/keep_alive2", "/admin_address", "/active_verify"}
SignedRoute == {"/query_by_email_array", "/query_account", "/account_active", "/account_create",
                "/bind_account", "/unbind_account", "/active_by_email", "/decrypt_by_admin"}
DebugRoute == {"/update_user_level", "/query_user_level", "/delete_user_level", "/query_by_email"}

(* NewHttpService, and the router of the debug port.                       *)
Routed(r) ==
    \/ r.port = "main" /\ r.route \in UnsignedRoute
    \/ r.port = "main" /\ r.route \in SignedRoute /\ r.method = "POST"
    \/ r.port = "main" /\ r.route = "/uninstall_user" /\ r.method = "GET"
    \/ r.port = "debug" /\ r.route \in DebugRoute

Reply(status, success, form) == [status |-> status, success |-> success, form |-> form]
NotRouted == Reply(404, FALSE, "text")

WriteProtoResponse == Reply(200, TRUE, "proto")
WriteError == Reply(500, FALSE, "proto")
WriteJsonRequest == Reply(200, TRUE, "json")
WriteJsonError == Reply(500, FALSE, "json")
WriteText(status) == Reply(status, status = 200, "text")

(* Recoverer, the middleware of both routers.                              *)
Recovered == Reply(500, FALSE, "empty")

(* A request: outcome is what its handler will do.                         *)
Requests ==
    [port : {"main", "debug"},
     route : UnsignedRoute \cup SignedRoute \cup DebugRoute \cup {"/uninstall_user", "/other"},
     method : {"GET", "POST"},
     body : {"good"}, address : {BMailAddress(CHOOSE s \in Seed : TRUE)},
     signature : {Signed(s, m) : s \in Seed, m \in Payload}, payload : Payload,
     outcome : {"ok", "err", "panic"}]
    \cup
    [port : {"main"}, route : SignedRoute, method : {"POST"},
     body : {"unread", "junk", "good"}, address : OtherAddress,
     signature : {Signed(s, m) : s \in Seed, m \in Payload} \cup {NotEncoded(<<>>)},
     payload : Payload, outcome : {"ok"}]

(* What the handler does, if it runs: of itself it may return an error or  *)
(* panic, except that those for keep-alive and the admin's address do not. *)
(* (An error in plain text has the status 400 if a parameter is missing.)  *)
Handler(r) ==
    IF r.route \in UnsignedRoute \ {"/active_verify"} THEN Value(TRUE)
    ELSE IF r.outcome = "ok" THEN Value(TRUE) ELSE IF r.outcome = "err" THEN Error ELSE Panic

(* Body and signature.                                                     *)
ReadProtoRequest(r) == IF r.body = "good" THEN Value(r) ELSE Error
VerifyProto(r) == VerifyMessage(r.address, r.signature, r.payload)

(* Mutant of Admitted: the signature is not looked at.                     *)
AdmittedUnsigned(r) == ReadProtoRequest(r)

(* callFunc before the callback: decoded, and signed by the key of the     *)
(* address that the request names.                                         *)
Admitted(r) == Then(ReadProtoRequest(r), VerifyProto)

(* The reply of callFunc.  A body that cannot be read is answered twice,   *)
(* with the status of the first answer.                                    *)
callFunc(r) ==
    LET result == Then(Admitted(r), LAMBDA x : Handler(r))
    IN  IF r.body = "unread" THEN Reply(400, FALSE, "mixed")
        ELSE IF result.res = "panic" THEN Recovered
        ELSE IF result.res = "err" THEN WriteError ELSE WriteProtoResponse

(* The handlers of the debug port read JSON and check no signature.        *)
ReadJsonRequest(r) == IF r.body = "good" THEN Value(r) ELSE Error
DebugReply(r) ==
    LET result == Then(ReadJsonRequest(r), Handler)
    IN  IF result.res = "panic" THEN Recovered
        ELSE IF result.res = "err" THEN WriteJsonError ELSE WriteJsonRequest

PlainReply(r) ==
    LET result == Handler(r)
    IN  IF r.route = "/keep_alive2" THEN WriteProtoResponse
        ELSE IF r.route \in UnsignedRoute \ {"/active_verify"} THEN WriteJsonRequest
        ELSE IF result.res = "panic" THEN Recovered
        ELSE IF result.res = "err" THEN WriteText(500) ELSE WriteText(200)

Listening(port) == IF port = "main" THEN proc.pc = "serving" ELSE proc.debug = "up"

(* One request per process: none leaves anything behind in the process.    *)
Serve(r) ==
    /\ served = NoService
    /\ Listening(r.port)
    /\ served' =
          [request |-> {r},
           ran |-> /\ Routed(r)
                   /\ r.route \in SignedRoute => Admitted(r).res = "ok"
                   /\ r.route \in DebugRoute => ReadJsonRequest(r).res = "ok",
           reply |-> {IF ~Routed(r) THEN NotRouted
                      ELSE IF r.route \in SignedRoute THEN callFunc(r)
                      ELSE IF r.route \in DebugRoute THEN DebugReply(r)
                      ELSE PlainReply(r)}]
    /\ UNCHANGED proc

-----------------------------------------------------------------------------
(* The database tool.                                                      *)

(* The route for each action; for another one there is no URL.             *)
ToolRoute == [action \in 0 .. 3 |->
    CASE action = 0 -> "/query_user_level" [] action = 1 -> "/update_user_level"
      [] action = 2 -> "/delete_user_level" [] action = 3 -> "/query_by_email"]

(* DoHttp: whatever comes back is data, also with another status than 200. *)
DoHttp(reply) == IF reply = {} THEN Error ELSE Value(CHOOSE r \in reply : TRUE)

(* What the tool prints for the reply to its request.                      *)
ToolPrints(reply) ==
    LET rsp == DoHttp(reply)
    IN  IF rsp.res = "err" THEN "http failed"
        ELSE IF rsp.value.form # "json" THEN "parse json failed"
        ELSE IF rsp.value.success THEN "success" ELSE "failure"

-----------------------------------------------------------------------------

GateNext ==
    \/ initConfig \/ WInst \/ StartDebug \/ Start \/ Ends \/ Restart
    \/ \E r \in Requests : Serve(r)

Success(reply) == \E a \in reply : a.success

(* The routes of the service whose handlers can change what is stored and  *)
(* ask for no signature: a link that is opened, which WalletRight says is  *)
(* the server's own, and an uninstallation, for the address in the query.  *)
OpenRoute == {"/active_verify", "/uninstall_user"}

(* Only a process serves that has a database, if its configuration names   *)
(* one, and a wallet whose address is that of the key it signs with: what  *)
(* is signed before a restart is good after it.  A handler of the service  *)
(* that can change what is stored, or that answers about it, runs only for *)
(* what the address in the request has signed, with the exception of the   *)
(* two of OpenRoute, which run for every request: GET /uninstall_user can  *)
(* empty the account of an address that has signed nothing.  (The port for *)
(* debugging checks no signatures either.)  Success is answered exactly if *)
(* the handler ran and did not fail, and the database tool reports success *)
(* exactly then.                                                           *)
GateRight ==
    /\ proc.pc = "serving" \/ proc.debug = "up" =>
          /\ \E w \in place.wallet, s \in proc.key : w.address = {BMailAddress(s)}
          /\ proc.database \in {1, 2} => place.databaseOpens
    /\ \A r \in served.request :
          /\ served.ran /\ r.port = "main" =>
                \/ r.route \in OpenRoute
                \/ r.route \in {"/", "/keep_alive", "/keep_alive2", "/admin_address"}
                \/ \E s \in r.address.key : r.signature = Signed(s, r.payload)
          /\ Routed(r) /\ r.route \in OpenRoute => served.ran
          /\ Success(served.reply) <=> served.ran /\ Handler(r).res = "ok"
          /\ r.port = "debug" /\ r.route \in DebugRoute =>
                (ToolPrints(served.reply) = "success" <=> Success(served.reply))

=============================================================================
