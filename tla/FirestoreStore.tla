--------------------------- MODULE FirestoreStore ---------------------------
(***************************************************************************)
(* The Firestore backend (db/db_firestore): three collections of documents *)
(* and the methods of DbManager on them.                                   *)
(*                                                                         *)
(* Every Get, Set and Delete of a document is one atomic request to the    *)
(* service and nothing else is: no method runs in a transaction, so the    *)
(* requests of concurrent goroutines interleave freely.                    *)
(*                                                                         *)
(* A request may fail (the network, the 10 second context).  A Set or a    *)
(* Delete that is reported as failed may have been carried out all the     *)
(* same.  Every method returns the error at once.                          *)
(***************************************************************************)
EXTENDS DatabaseCalls

VARIABLES
    account,    \* collection of account documents, by BMail address
    reflect,    \* collection of reflect documents, by e-mail address
    link        \* collection of activation links, by token

tables == <<account, reflect, link>>
storeVars == <<account, reflect, link, op>>

(* ActiveLinkData of common/db_obj.go, without its token and creation time *)
(* (a link outlives its 24 hours in module ContactService).                *)
LinkData == [found : BOOLEAN, addr : Address \cup {NoAddress},
             email : Email \cup {NoEmail}, unbind : BOOLEAN]
NoLink == [found |-> FALSE, addr |-> NoAddress, email |-> NoEmail, unbind |-> FALSE]

(* The request a method makes next, when it is past its first one.         *)
Request == {"setAccount", "getReflect", "setReflect", "getOld", "setOld",
            "delReflect", "delAccount", "setLink"}

StoreInit ==
    /\ account = [a \in Address |-> NoDoc]
    /\ reflect = [e \in Email |-> NoAddress]
    /\ link = [k \in Token |-> NoLink]
    /\ op = [t \in Thread |-> NoCall]

-----------------------------------------------------------------------------
(* The write requests, and the write that goroutine t is about to make.    *)

(* Mutant of SetReflect: the e-mail is stored where the address goes.      *)
SetReflectEmail(e, a) ==
    /\ reflect' = [reflect EXCEPT ![e] = IF a = NoAddress THEN NoAddress ELSE e]
    /\ UNCHANGED <<account, link>>

SetAccount(a, doc) == account' = [account EXCEPT ![a] = doc] /\ UNCHANGED <<reflect, link>>
SetReflect(e, a) == reflect' = [reflect EXCEPT ![e] = a] /\ UNCHANGED <<account, link>>
SetLink(k, data) == link' = [link EXCEPT ![k] = data] /\ UNCHANGED <<account, reflect>>

WriteRequest(t) ==
    \/ op[t].pc = "setAccount" /\ SetAccount(op[t].addr, op[t].doc)
    \/ op[t].pc = "setOld" /\ SetAccount(op[t].owner, op[t].doc)
    \/ op[t].pc = "delAccount" /\ SetAccount(op[t].addr, NoDoc)
    \/ op[t].pc = "setReflect" /\ SetReflect(op[t].email, op[t].addr)
    \/ op[t].pc = "delReflect" /\ \E e \in op[t].todo : SetReflect(e, NoAddress)
    \/ /\ op[t].pc = "setLink"
       /\ SetLink(op[t].token, [found |-> TRUE, addr |-> op[t].addr,
                                email |-> op[t].email, unbind |-> op[t].unbind])
    \/ At(t, "RemoveActiveLink", "begin") /\ SetLink(op[t].token, NoLink)

-----------------------------------------------------------------------------
(* The steps of the methods: one request and the code up to the next one.  *)

(* The callback of databaseToObj has changed the document to doc.          *)
Store(t, place, doc) == op' = [op EXCEPT ![t].pc = place, ![t].doc = doc]

(* The loops over deleteEmailReflect, and what follows them.               *)
DeleteReflects(t, rest) ==
    \/ /\ rest # {}
       /\ op' = [op EXCEPT ![t].pc = "delReflect", ![t].todo = rest]
    \/ /\ rest = {} /\ op[t].name = "DeleteAccount"
       /\ op' = [op EXCEPT ![t].pc = "delAccount", ![t].todo = rest]
    \/ /\ rest = {} /\ op[t].name # "DeleteAccount"
       /\ Return(t, "ok")

QueryAccountGet(t) ==
    /\ At(t, "QueryAccount", "begin")
    /\ op' = [op EXCEPT ![t].pc = "done", ![t].res = "ok", ![t].doc = account[op[t].addr]]
    /\ UNCHANGED tables

QueryReflectGet(t) ==
    /\ At(t, "QueryReflectByOneEmail", "begin")
    /\ op' = [op EXCEPT ![t].pc = "done", ![t].res = "ok", ![t].owner = reflect[op[t].email]]
    /\ UNCHANGED tables

(* The next document of the array, in any order.  One that is not there    *)
(* has no entry in the answer, and any error ends the query.               *)
QueryReflectsGet(t) ==
    /\ At(t, "QueryReflectsByEmails", "begin")
    /\ \E e \in op[t].todo :
          op' = [op EXCEPT ![t].todo = @ \ {e},
                           ![t].answer = @ \cup ({<<e, reflect[e]>>} \ {<<e, NoAddress>>}),
                           ![t].pc = IF op[t].todo = {e} THEN "done" ELSE "begin",
                           ![t].res = IF op[t].todo = {e} THEN "ok" ELSE "none"]
    /\ UNCHANGED tables

ActiveAccountGet(t) ==
    /\ At(t, "ActiveAccount", "begin")
    /\ \/ account[op[t].addr].found /\ Return(t, "ok")
       \/ ~account[op[t].addr].found /\ Store(t, "setAccount", NewDoc(op[t].level))
    /\ UNCHANGED tables

(* Mutant of UpdateAccountLevelGet: an account that is not there is made.  *)
UpdateAccountLevelUpsert(t) ==
    /\ At(t, "UpdateAccountLevel", "begin")
    /\ Store(t, "setAccount", [account[op[t].addr] EXCEPT !.found = TRUE, !.level = op[t].level])
    /\ UNCHANGED tables

UpdateAccountLevelGet(t) ==
    LET doc == account[op[t].addr]
    IN  /\ At(t, "UpdateAccountLevel", "begin")
        /\ \/ ~doc.found /\ Return(t, "err")
           \/ doc.found /\ Store(t, "setAccount", [doc EXCEPT !.level = op[t].level])
        /\ UNCHANGED tables

(* Mutant of UpdateBindingGet: the e-mail is mapped but never listed.      *)
UpdateBindingUnlisted(t) ==
    /\ At(t, "UpdateBinding", "begin")
    /\ \/ ~account[op[t].addr].found /\ Return(t, "err")
       \/ account[op[t].addr].found /\ Store(t, "getReflect", NoDoc)
    /\ UNCHANGED tables

UpdateBindingGet(t) ==
    LET doc == account[op[t].addr]
    IN  /\ At(t, "UpdateBinding", "begin")
        /\ \/ ~doc.found /\ Return(t, "err")
           \/ /\ doc.found
              /\ Store(t, "setAccount", [doc EXCEPT !.emails = @ \cup {op[t].email}])
        /\ UNCHANGED tables

(* Mutants of DeleteBindingGet: the entry is set to false instead of being *)
(* deleted, which leaves it a key of the map, and the mapping is left.     *)
DeleteBindingKeepsEntry(t) ==
    LET doc == account[op[t].addr]
    IN  /\ At(t, "DeleteBinding", "begin")
        /\ \/ ~doc.found /\ Return(t, "ok")
           \/ /\ doc.found
              /\ op' = [op EXCEPT ![t].pc = "setAccount",
                                  ![t].doc = [doc EXCEPT !.emails = @ \cup {op[t].email}],
                                  ![t].todo = {op[t].email}]
        /\ UNCHANGED tables
DeleteBindingKeepsMapping(t) ==
    LET doc == account[op[t].addr]
    IN  /\ At(t, "DeleteBinding", "begin")
        /\ \/ ~doc.found /\ Return(t, "ok")
           \/ doc.found /\ Store(t, "setAccount", [doc EXCEPT !.emails = @ \ {op[t].email}])
        /\ UNCHANGED tables

DeleteBindingGet(t) ==
    LET doc == account[op[t].addr]
    IN  /\ At(t, "DeleteBinding", "begin")
        /\ \/ ~doc.found /\ Return(t, "ok")
           \/ /\ doc.found
              /\ op' = [op EXCEPT ![t].pc = "setAccount",
                                  ![t].doc = [doc EXCEPT !.emails = @ \ {op[t].email}],
                                  ![t].todo = {op[t].email}]
        /\ UNCHANGED tables

UninstallByUserGet(t) ==
    LET doc == account[op[t].addr]
    IN  /\ At(t, "UninstallByUser", "begin")
        /\ \/ ~doc.found /\ Return(t, "ok")
           \/ /\ doc.found
              /\ op' = [op EXCEPT ![t].pc = "setAccount",
                                  ![t].doc = [doc EXCEPT !.emails = {}],
                                  ![t].todo = doc.emails]
        /\ UNCHANGED tables

(* Mutant of DeleteAccountGet: the mappings are left behind.               *)
DeleteAccountKeepsMappings(t) ==
    /\ At(t, "DeleteAccount", "begin")
    /\ \/ ~account[op[t].addr].found /\ Return(t, "ok")
       \/ account[op[t].addr].found /\ DeleteReflects(t, {})
    /\ UNCHANGED tables

DeleteAccountGet(t) ==
    LET doc == account[op[t].addr]
    IN  /\ At(t, "DeleteAccount", "begin")
        /\ \/ ~doc.found /\ Return(t, "ok")
           \/ doc.found /\ DeleteReflects(t, doc.emails)
        /\ UNCHANGED tables

(* docRef.Set of the account, and the way on in each of its five callers.  *)
SaveAccount(t) ==
    /\ op[t].pc = "setAccount"
    /\ WriteRequest(t)
    /\ \/ op[t].name \in {"ActiveAccount", "UpdateAccountLevel"} /\ Return(t, "ok")
       \/ op[t].name = "UpdateBinding" /\ Store(t, "getReflect", NoDoc)
       \/ op[t].name \in {"DeleteBinding", "UninstallByUser"} /\ DeleteReflects(t, op[t].todo)

(* updateEmailReflectOnly, its Get: nothing more to do if the e-mail is    *)
(* already mapped to this address.                                         *)
UpdateBindingGetReflect(t) ==
    LET owner == reflect[op[t].email]
    IN  /\ At(t, "UpdateBinding", "getReflect")
        /\ \/ /\ owner = op[t].addr
              /\ op' = [op EXCEPT ![t].pc = "done", ![t].res = "ok", ![t].owner = owner]
           \/ /\ owner # op[t].addr
              /\ op' = [op EXCEPT ![t].pc = "setReflect", ![t].owner = owner]
        /\ UNCHANGED tables

(* Mutant of UpdateBindingSetReflect: the previous account is forgotten.   *)
UpdateBindingForgetsOld(t) ==
    /\ At(t, "UpdateBinding", "setReflect")
    /\ WriteRequest(t)
    /\ Return(t, "ok")

(* updateEmailReflectOnly, its Set; UpdateBinding goes on with the account *)
(* that had the e-mail before, if there was one.                           *)
UpdateBindingSetReflect(t) ==
    /\ At(t, "UpdateBinding", "setReflect")
    /\ WriteRequest(t)
    /\ \/ op[t].owner = NoAddress /\ Return(t, "ok")
       \/ op[t].owner # NoAddress /\ Store(t, "getOld", NoDoc)

UpdateBindingGetOld(t) ==
    LET doc == account[op[t].owner]
    IN  /\ At(t, "UpdateBinding", "getOld")
        /\ \/ ~doc.found /\ Return(t, "err")
           \/ doc.found /\ Store(t, "setOld", [doc EXCEPT !.emails = @ \ {op[t].email}])
        /\ UNCHANGED tables

UpdateBindingSetOld(t) ==
    /\ At(t, "UpdateBinding", "setOld")
    /\ WriteRequest(t)
    /\ Return(t, "ok")

(* deleteEmailReflect, for the documents of todo in the order of a Go map. *)
DeleteEmailReflect(t) ==
    /\ op[t].pc = "delReflect"
    /\ \E e \in op[t].todo :
          SetReflect(e, NoAddress) /\ DeleteReflects(t, op[t].todo \ {e})

DeleteAccountDelete(t) ==
    /\ At(t, "DeleteAccount", "delAccount")
    /\ WriteRequest(t)
    /\ Return(t, "ok")

(* A token in use is refused (a uuid never is).                            *)
CreateActiveLinkGet(t) ==
    /\ At(t, "CreateActiveLink", "begin")
    /\ IF link[op[t].token].found THEN Return(t, "err") ELSE Store(t, "setLink", NoDoc)
    /\ UNCHANGED tables

CreateActiveLinkSet(t) ==
    /\ At(t, "CreateActiveLink", "setLink")
    /\ WriteRequest(t)
    /\ Return(t, "ok")

(* GetActiveLink answers in the call record: address, e-mail, unbind flag. *)
GetActiveLinkGet(t) ==
    LET data == link[op[t].token]
    IN  /\ At(t, "GetActiveLink", "begin")
        /\ op' = [op EXCEPT ![t].pc = "done", ![t].res = IF data.found THEN "ok" ELSE "err",
                            ![t].addr = data.addr, ![t].email = data.email,
                            ![t].unbind = data.unbind]
        /\ UNCHANGED tables

RemoveActiveLinkDelete(t) ==
    /\ At(t, "RemoveActiveLink", "begin")
    /\ WriteRequest(t)
    /\ Return(t, "ok")

(* A request fails or times out; a write may have taken effect before.     *)
RequestFails(t) ==
    /\ Running(t)
    /\ UNCHANGED tables \/ WriteRequest(t)
    /\ Return(t, "err")

StoreStep(t) ==
    \/ QueryAccountGet(t) \/ QueryReflectGet(t) \/ QueryReflectsGet(t)
    \/ ActiveAccountGet(t) \/ UpdateAccountLevelGet(t)
    \/ UpdateBindingGet(t) \/ UpdateBindingGetReflect(t) \/ UpdateBindingSetReflect(t)
    \/ UpdateBindingGetOld(t) \/ UpdateBindingSetOld(t)
    \/ DeleteBindingGet(t) \/ UninstallByUserGet(t)
    \/ DeleteAccountGet(t) \/ DeleteAccountDelete(t)
    \/ SaveAccount(t) \/ DeleteEmailReflect(t)
    \/ CreateActiveLinkGet(t) \/ CreateActiveLinkSet(t)
    \/ GetActiveLinkGet(t) \/ RemoveActiveLinkDelete(t)
    \/ RequestFails(t)

(* The process ends (main.go waits for a signal and returns): every        *)
(* goroutine is gone, wherever it was.                                     *)
ProcessExit == op' = [t \in Thread |-> NoCall] /\ UNCHANGED tables

-----------------------------------------------------------------------------

(* The collections and the calls have their types.                         *)
StoreTypeOK ==
    /\ account \in [Address -> Doc]
    /\ reflect \in [Email -> Address \cup {NoAddress}]
    /\ link \in [Token -> LinkData]
    /\ op \in [Thread -> Call(Request)]

=============================================================================
