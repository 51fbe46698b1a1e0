----------------------------- MODULE RedisStore -----------------------------
(***************************************************************************)
(* The Redis backend (db/db_redis): a hash for every account, a string for *)
(* every mapped e-mail, and the methods of DbManager on them.              *)
(*                                                                         *)
(* Every command is atomic and nothing else is: the methods use no MULTI.  *)
(* A command may fail, and one that writes may have been carried out all   *)
(* the same.  HSET makes a hash that is not there, with no other fields    *)
(* than those it sets: noList has the accounts whose hash is without its   *)
(* e_mail_address field.  (A hash without user_lel reads as level 0.)      *)
(***************************************************************************)
EXTENDS DatabaseCalls

VARIABLES
    account,    \* the hashes "account:...", as documents
    noList,     \* accounts whose hash has no e_mail_address field
    reflect     \* the strings "email:..."

tables == <<account, noList, reflect>>

(* The command that a method sends next, when it is past its first one.    *)
Command == {"hsetLevel", "get", "hgetOld", "hsetOld", "set", "hget", "hset",
            "del", "delMapping", "delAccount"}

StoreInit ==
    /\ account = [a \in Address |-> NoDoc]
    /\ noList = {}
    /\ reflect = [e \in Email |-> NoAddress]
    /\ op = [t \in Thread |-> NoCall]

-----------------------------------------------------------------------------
(* The commands that write, and the one that goroutine t is about to send. *)

HSetLevel(a, level) ==
    /\ account' = [account EXCEPT ![a].found = TRUE, ![a].level = level]
    /\ noList' = IF account[a].found THEN noList ELSE noList \cup {a}
    /\ UNCHANGED reflect

HSetList(a, emails) ==
    /\ account' = [account EXCEPT ![a].found = TRUE, ![a].emails = emails]
    /\ noList' = noList \ {a}
    /\ UNCHANGED reflect

(* HSET of a new account, or DEL of an account.                            *)
SetHash(a, doc) ==
    /\ account' = [account EXCEPT ![a] = doc]
    /\ noList' = noList \ {a}
    /\ UNCHANGED reflect

(* Mutant of SetMapping: the e-mail is stored where the address goes.      *)
SetMappingEmail(e, a) ==
    /\ reflect' = [reflect EXCEPT ![e] = IF a = NoAddress THEN NoAddress ELSE e]
    /\ UNCHANGED <<account, noList>>

SetMapping(e, a) == reflect' = [reflect EXCEPT ![e] = a] /\ UNCHANGED <<account, noList>>

WriteCommand(t) ==
    \/ op[t].pc = "hsetLevel" /\ HSetLevel(op[t].addr, op[t].level)
    \/ op[t].pc = "hset" /\ HSetList(op[t].addr, op[t].doc.emails)
    \/ op[t].pc = "hsetOld" /\ HSetList(op[t].owner, op[t].doc.emails)
    \/ At(t, "ActiveAccount", "begin") /\ SetHash(op[t].addr, NewDoc(op[t].level))
    \/ op[t].pc = "delAccount" /\ SetHash(op[t].addr, NoDoc)
    \/ op[t].pc = "set" /\ SetMapping(op[t].email, op[t].addr)
    \/ op[t].pc = "del" /\ SetMapping(op[t].email, NoAddress)
    \/ op[t].pc = "delMapping" /\ \E e \in op[t].todo : SetMapping(e, NoAddress)

-----------------------------------------------------------------------------
(* The steps of the methods: one command and the code up to the next one.  *)

Go(t, place) == op' = [op EXCEPT ![t].pc = place]

(* Mutant of GoWithList: the e-mail stays in the list that is written.     *)
GoWithListAndEmail(t, place, emails) ==
    op' = [op EXCEPT ![t].pc = place,
                     ![t].doc = [NoDoc EXCEPT !.emails = emails \cup {op[t].email}]]

(* The list that the method is to write.                                   *)
GoWithList(t, place, emails) ==
    op' = [op EXCEPT ![t].pc = place, ![t].doc = [NoDoc EXCEPT !.emails = emails]]

(* EXISTS of the account, which three methods begin with.                  *)
Exists(t, name, place) ==
    /\ At(t, name, "begin")
    /\ IF account[op[t].addr].found THEN Go(t, place) ELSE Return(t, "err")
    /\ UNCHANGED tables

(* HGETALL.  An account that is not there is an error here.                *)
QueryAccountHGetAll(t) ==
    LET doc == account[op[t].addr]
    IN  /\ At(t, "QueryAccount", "begin")
        /\ op' = [op EXCEPT ![t].pc = "done", ![t].res = IF doc.found THEN "ok" ELSE "err",
                            ![t].doc = doc]
        /\ UNCHANGED tables

(* Mutant of QueryReflectGet: what cannot be parsed counts as not there.   *)
QueryReflectGetLenient(t) ==
    /\ At(t, "QueryReflectByOneEmail", "begin")
    /\ Return(t, "ok")
    /\ UNCHANGED tables

(* Mutant of QueryReflectGet: the bare address is taken for the owner.     *)
QueryReflectGetBare(t) ==
    /\ At(t, "QueryReflectByOneEmail", "begin")
    /\ op' = [op EXCEPT ![t].pc = "done", ![t].res = "ok", ![t].owner = reflect[op[t].email]]
    /\ UNCHANGED tables

(* A mapping is parsed as a JSON object, but UpdateBinding stores the bare *)
(* address, which is none.                                                 *)
QueryReflectGet(t) ==
    /\ At(t, "QueryReflectByOneEmail", "begin")
    /\ Return(t, IF reflect[op[t].email] = NoAddress THEN "ok" ELSE "err")
    /\ UNCHANGED tables

(* One MGET of all e-mails; what cannot be parsed is left out, so all is.  *)
QueryReflectsMGet(t) ==
    /\ At(t, "QueryReflectsByEmails", "begin")
    /\ Return(t, "ok")
    /\ UNCHANGED tables

(* Mutant of ActiveAccountHSet: only the level is set.                     *)
ActiveAccountLevelOnly(t) ==
    /\ At(t, "ActiveAccount", "begin")
    /\ HSetLevel(op[t].addr, op[t].level)
    /\ Return(t, "ok")

(* One HSET of all fields, over what there is.                             *)
ActiveAccountHSet(t) ==
    /\ At(t, "ActiveAccount", "begin")
    /\ WriteCommand(t)
    /\ Return(t, "ok")

(* Mutant of UpdateAccountLevelExists: the account is not looked for.      *)
UpdateAccountLevelUpsert(t) ==
    /\ At(t, "UpdateAccountLevel", "begin")
    /\ Go(t, "hsetLevel")
    /\ UNCHANGED tables

UpdateAccountLevelExists(t) == Exists(t, "UpdateAccountLevel", "hsetLevel")

UpdateAccountLevelHSet(t) ==
    /\ At(t, "UpdateAccountLevel", "hsetLevel")
    /\ WriteCommand(t)
    /\ Return(t, "ok")

(* Mutant of UpdateBindingExists: a new e-mail is listed and never mapped. *)
UpdateBindingListsFirst(t) ==
    Exists(t, "UpdateBinding", IF reflect[op[t].email] = NoAddress THEN "hget" ELSE "get")

UpdateBindingExists(t) == Exists(t, "UpdateBinding", "get")

(* Mutant of UpdateBindingGet: the previous account is forgotten.          *)
UpdateBindingForgetsOld(t) ==
    /\ At(t, "UpdateBinding", "get")
    /\ op' = [op EXCEPT ![t].pc = "set", ![t].owner = reflect[op[t].email]]
    /\ UNCHANGED tables

UpdateBindingGet(t) ==
    LET owner == reflect[op[t].email]
    IN  /\ At(t, "UpdateBinding", "get")
        /\ op' = [op EXCEPT ![t].owner = owner,
                            ![t].pc = IF owner \in {NoAddress, op[t].addr} THEN "set" ELSE "hgetOld"]
        /\ UNCHANGED tables

(* removeEmailFromAccount, for the account that had the e-mail before: a   *)
(* hash that is not there reads as an empty list.                          *)
UpdateBindingHGetOld(t) ==
    /\ At(t, "UpdateBinding", "hgetOld")
    /\ GoWithList(t, "hsetOld", account[op[t].owner].emails \ {op[t].email})
    /\ UNCHANGED tables

UpdateBindingHSetOld(t) ==
    /\ At(t, "UpdateBinding", "hsetOld")
    /\ WriteCommand(t)
    /\ Go(t, "set")

UpdateBindingSet(t) ==
    /\ At(t, "UpdateBinding", "set")
    /\ WriteCommand(t)
    /\ Go(t, "hget")

(* appendEmailToAccount.                                                   *)
UpdateBindingHGet(t) ==
    LET emails == account[op[t].addr].emails
    IN  /\ At(t, "UpdateBinding", "hget")
        /\ IF op[t].email \in emails
           THEN Return(t, "ok")
           ELSE GoWithList(t, "hset", emails \cup {op[t].email})
        /\ UNCHANGED tables

UpdateBindingHSet(t) ==
    /\ At(t, "UpdateBinding", "hset")
    /\ WriteCommand(t)
    /\ Return(t, "ok")

(* Mutant of DeleteBindingExists: the list entry goes and the mapping stays.*)
DeleteBindingListFirst(t) == Exists(t, "DeleteBinding", "hget")

DeleteBindingExists(t) == Exists(t, "DeleteBinding", "get")

(* Without a mapping there is nothing to do, whatever the list says.       *)
DeleteBindingGet(t) ==
    LET owner == reflect[op[t].email]
    IN  /\ At(t, "DeleteBinding", "get")
        /\ IF owner = NoAddress
           THEN Return(t, "ok")
           ELSE op' = [op EXCEPT ![t].pc = "del", ![t].owner = owner]
        /\ UNCHANGED tables

(* Mutant of DeleteBindingDel: the list keeps the e-mail.                  *)
DeleteBindingDelOnly(t) ==
    /\ At(t, "DeleteBinding", "del")
    /\ WriteCommand(t)
    /\ Return(t, "ok")

DeleteBindingDel(t) ==
    /\ At(t, "DeleteBinding", "del")
    /\ WriteCommand(t)
    /\ Go(t, "hget")

(* removeEmailFromAccount, for the account itself.                         *)
DeleteBindingHGet(t) ==
    /\ At(t, "DeleteBinding", "hget")
    /\ GoWithList(t, "hset", account[op[t].addr].emails \ {op[t].email})
    /\ UNCHANGED tables

DeleteBindingHSet(t) ==
    /\ At(t, "DeleteBinding", "hset")
    /\ WriteCommand(t)
    /\ Return(t, "ok")

UninstallByUserNil(t) ==
    /\ At(t, "UninstallByUser", "begin")
    /\ Return(t, "ok")
    /\ UNCHANGED tables

DeleteAccountExists(t) == Exists(t, "DeleteAccount", "hget")

DeleteMappings(t, rest) ==
    op' = [op EXCEPT ![t].todo = rest, ![t].pc = IF rest = {} THEN "delAccount" ELSE "delMapping"]

(* Here a list that is not there is an error, redis.Nil.                   *)
DeleteAccountHGet(t) ==
    LET a == op[t].addr
    IN  /\ At(t, "DeleteAccount", "hget")
        /\ IF ~account[a].found \/ a \in noList
           THEN Return(t, "err")
           ELSE DeleteMappings(t, account[a].emails)
        /\ UNCHANGED tables

(* DEL of the mappings of the list, in its order, which is left open.      *)
DeleteAccountDelMapping(t) ==
    /\ At(t, "DeleteAccount", "delMapping")
    /\ \E e \in op[t].todo : SetMapping(e, NoAddress) /\ DeleteMappings(t, op[t].todo \ {e})

DeleteAccountDel(t) ==
    /\ At(t, "DeleteAccount", "delAccount")
    /\ WriteCommand(t)
    /\ Return(t, "ok")

(* The methods about links are not supported any more.                     *)
LinkMethodPanics(t) ==
    /\ op[t].name \in {"CreateActiveLink", "GetActiveLink", "RemoveActiveLink"}
    /\ op[t].pc = "begin"
    /\ Return(t, "panic")
    /\ UNCHANGED tables

(* A command fails; every method returns the error at once.                *)
CommandFails(t) ==
    /\ Running(t)
    /\ UNCHANGED tables \/ WriteCommand(t)
    /\ Return(t, "err")

StoreStep(t) ==
    \/ QueryAccountHGetAll(t) \/ QueryReflectGet(t) \/ QueryReflectsMGet(t)
    \/ ActiveAccountHSet(t) \/ UpdateAccountLevelExists(t) \/ UpdateAccountLevelHSet(t)
    \/ UpdateBindingExists(t) \/ UpdateBindingGet(t)
    \/ UpdateBindingHGetOld(t) \/ UpdateBindingHSetOld(t)
    \/ UpdateBindingSet(t) \/ UpdateBindingHGet(t) \/ UpdateBindingHSet(t)
    \/ DeleteBindingExists(t) \/ DeleteBindingGet(t) \/ DeleteBindingDel(t)
    \/ DeleteBindingHGet(t) \/ DeleteBindingHSet(t)
    \/ UninstallByUserNil(t) \/ LinkMethodPanics(t)
    \/ DeleteAccountExists(t) \/ DeleteAccountHGet(t)
    \/ DeleteAccountDelMapping(t) \/ DeleteAccountDel(t)
    \/ CommandFails(t)

(* The process ends: Redis remains.                                        *)
ProcessExit == op' = [t \in Thread |-> NoCall] /\ UNCHANGED tables

-----------------------------------------------------------------------------

(* The database and the calls have their types, and a hash without a list  *)
(* is a hash and shows no e-mails.                                         *)
StoreTypeOK ==
    /\ account \in [Address -> Doc]
    /\ \A a \in noList : a \in Address /\ account[a].found /\ account[a].emails = {}
    /\ reflect \in [Email -> Address \cup {NoAddress}]
    /\ op \in [Thread -> Call(Command)]

=============================================================================
