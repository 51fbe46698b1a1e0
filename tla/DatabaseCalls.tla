---------------------------- MODULE DatabaseCalls ----------------------------
(***************************************************************************)
(* The calls of DatabaseI (service/cfg.go): what the HTTP handlers ask of  *)
(* a database backend, and how they and the backend meet.                  *)
(*                                                                         *)
(* op[t] is the method call that goroutine t is in: the method, its        *)
(* arguments, how far it is (pc: "begin", then places of the backend's own *)
(* and at last "done"), its result, and the locals of the method.  A       *)
(* handler makes a call with Invoke and waits for it to be done.           *)
(***************************************************************************)
EXTENDS ContactData

CONSTANTS
    Thread,     \* goroutines of the server
    Token,      \* tokens of activation links
    NoEmail, NoToken

VARIABLE op

Mutator == {"UpdateBinding", "DeleteBinding", "UninstallByUser", "DeleteAccount",
            "UpdateAccountLevel", "ActiveAccount"}
Method == Mutator \cup {"QueryAccount", "QueryReflectByOneEmail", "QueryReflectsByEmails",
                        "CreateActiveLink", "GetActiveLink", "RemoveActiveLink"}

(* A map[string]common.EmailReflect, as a set of pairs.                    *)
Answer == SUBSET (Email \X Address)

(* The calls a backend can be in, given its places inside the methods.     *)
Call(Place) ==
    [name : Method \cup {"none"},
     pc : Place \cup {"idle", "begin", "done"},
     res : {"none", "ok", "err", "panic"},
     addr : Address \cup {NoAddress},
     email : Email \cup {NoEmail},
     level : StoredLevel,
     token : Token \cup {NoToken},
     unbind : BOOLEAN,
     doc : Doc,                             \* an account document in memory
     owner : Address \cup {NoAddress},      \* the address read from a reflect document
     todo : SUBSET Email,                   \* reflect documents still to read or delete
     answer : Answer]                       \* what QueryReflectsByEmails returns

NoCall == [name |-> "none", pc |-> "idle", res |-> "none",
           addr |-> NoAddress, email |-> NoEmail, level |-> 0, token |-> NoToken,
           unbind |-> FALSE, doc |-> NoDoc, owner |-> NoAddress, todo |-> {},
           answer |-> {}]

Running(t) == op[t].pc \notin {"idle", "done"}
Returned(t, name, res) == op[t].pc = "done" /\ op[t].name = name /\ op[t].res = res

-----------------------------------------------------------------------------

Calling(name) == [NoCall EXCEPT !.name = name, !.pc = "begin"]

QueryAccount(a) == [Calling("QueryAccount") EXCEPT !.addr = a]
QueryReflectByOneEmail(e) == [Calling("QueryReflectByOneEmail") EXCEPT !.email = e]
QueryReflectsByEmails(es) == [Calling("QueryReflectsByEmails") EXCEPT !.todo = es]
ActiveAccount(a, l) == [Calling("ActiveAccount") EXCEPT !.addr = a, !.level = l]
DeleteAccount(a) == [Calling("DeleteAccount") EXCEPT !.addr = a]
UpdateAccountLevel(a, l) == [Calling("UpdateAccountLevel") EXCEPT !.addr = a, !.level = l]
UpdateBinding(a, e) == [Calling("UpdateBinding") EXCEPT !.addr = a, !.email = e]
DeleteBinding(a, e) == [Calling("DeleteBinding") EXCEPT !.addr = a, !.email = e]
UninstallByUser(a) == [Calling("UninstallByUser") EXCEPT !.addr = a]
CreateActiveLink(k, a, e, unbind) ==
    [Calling("CreateActiveLink") EXCEPT !.token = k, !.addr = a, !.email = e, !.unbind = unbind]
GetActiveLink(k) == [Calling("GetActiveLink") EXCEPT !.token = k]
RemoveActiveLink(k) == [Calling("RemoveActiveLink") EXCEPT !.token = k]

(* A goroutine that is in no method makes call c.                          *)
Invoke(t, c) == ~Running(t) /\ op' = [op EXCEPT ![t] = c]

(* A method is at a place, and returns: the documents it had are gone.     *)
(* The result of a method that panics is "panic".                          *)
At(t, name, place) == op[t].name = name /\ op[t].pc = place

Return(t, res) ==
    op' = [op EXCEPT ![t].pc = "done", ![t].res = res, ![t].doc = NoDoc, ![t].todo = {}]

=============================================================================
