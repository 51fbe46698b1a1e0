---------------------------- MODULE LevelDBStore ----------------------------
(***************************************************************************)
(* The LevelDB backend (db/db_leveldb): a key-value store inside the       *)
(* process and the methods of DbManager on it, under the locks of          *)
(* KeyedLock.                                                              *)
(*                                                                         *)
(* A method locks the account (or the e-mail) it is called for, its outer  *)
(* lock, and inside of that sometimes an e-mail or another account, its    *)
(* inner lock.  Reads and writes of the store are atomic, and so are the   *)
(* four library calls that a lock is made of.  A read or a write may fail  *)
(* (the disk); deferred releases run then as well.                         *)
(***************************************************************************)
EXTENDS DatabaseCalls

CONSTANTS Mutex, NoHolder, NoMutex, NoKey

VARIABLES
    account, reflect,                           \* the two tables of the store
    old,                                        \* the document of removeEmailFromAccount
    locker, lockOwner, lockPc, lockKey, lockMu  \* the lock table and who is where in it

data == <<account, reflect>>
locks == <<locker, lockOwner, lockPc, lockKey, lockMu>>
storeVars == <<account, reflect, old, op, locker, lockOwner, lockPc, lockKey, lockMu>>

Outer(t) == <<t, "outer">>
Inner(t) == <<t, "inner">>
Holder == Thread \X {"outer", "inner"}

AccountKey(a) == <<"account", a>>
EmailKey(e) == <<"email", e>>
Key == ({"account"} \X Address) \cup ({"email"} \X Email)

ASSUME LockAssumption == NoHolder \notin Holder /\ NoMutex \notin Mutex /\ NoKey \notin Key

Locks == INSTANCE KeyedLock WITH
    owner <- lockOwner, pc <- lockPc, key <- lockKey, mu <- lockMu

(* Where a method is, past its first read.                                 *)
Section == {"write", "email", "setEmail", "leaveEmail", "old", "setOld", "leaveOld", "release"}

(* A process starts with a fresh lock table on the accounts there are.     *)
StoreInit(stored) ==
    /\ account = stored
    /\ reflect = [e \in Email |-> NoAddress]
    /\ old = [t \in Thread |-> NoDoc]
    /\ op = [t \in Thread |-> NoCall]
    /\ locker = [k \in Key |-> NoMutex]
    /\ lockOwner = [m \in Mutex |-> NoHolder]
    /\ lockPc = [h \in Holder |-> "idle"]
    /\ lockKey = [h \in Holder |-> NoKey]
    /\ lockMu = [h \in Holder |-> NoMutex]

-----------------------------------------------------------------------------
(* getLock and releaseLock.                                                *)

OuterKey(c) ==
    IF c.name = "QueryReflectByOneEmail" THEN EmailKey(c.email) ELSE AccountKey(c.addr)

(* Mutants of InnerKey: removeEmailFromAccount locks the account that the  *)
(* e-mail moves to; or the e-mail once more.                               *)
InnerKeyOwn(c) == IF c.pc = "old" THEN AccountKey(c.addr) ELSE EmailKey(c.email)
InnerKeyEmail(c) == EmailKey(c.email)

InnerKey(c) == IF c.pc = "old" THEN AccountKey(c.owner) ELSE EmailKey(c.email)

(* UninstallByUser and RemoveActiveLink return nil at once, and the other  *)
(* methods about links, and DeleteAccount, panic.                          *)
ManyLocks == {"QueryReflectsByEmails"}
Stub == {"UninstallByUser", "RemoveActiveLink"}
Unsupported == {"DeleteAccount", "CreateActiveLink", "GetActiveLink"}

AskLock(t) ==
    /\ \/ /\ op[t].pc = "begin" /\ op[t].name \notin Stub \cup Unsupported \cup ManyLocks
          /\ Locks!LoadOrStore(Outer(t), OuterKey(op[t]))
       \/ /\ op[t].pc \in {"email", "old"}
          /\ Locks!LoadOrStore(Inner(t), InnerKey(op[t]))
    /\ UNCHANGED <<account, reflect, old, op>>

(* QueryReflectsByEmails locks one e-mail of its array after the other.    *)
AskEmailLock(t) ==
    /\ At(t, "QueryReflectsByEmails", "begin")
    /\ \E e \in op[t].todo :
          Locks!LoadOrStore(Outer(t), EmailKey(e)) /\ op' = [op EXCEPT ![t].email = e]
    /\ UNCHANGED <<account, reflect, old>>

TakeLock(t) ==
    /\ \E h \in {Outer(t), Inner(t)} : Locks!Lock(h)
    /\ UNCHANGED <<account, reflect, old, op>>

Unlock(t) ==
    /\ \/ op[t].pc = "release" /\ Locks!Unlock(Outer(t))
       \/ op[t].pc \in {"leaveEmail", "leaveOld"} /\ Locks!Unlock(Inner(t))
    /\ UNCHANGED <<account, reflect, old, op>>

(* The release of the outer lock ends the method, except between two       *)
(* e-mails of QueryReflectsByEmails.                                       *)
DropOuter(t) ==
    /\ op[t].pc = "release"
    /\ Locks!Delete(Outer(t))
    /\ op' = [op EXCEPT ![t].pc = IF op[t].res = "none" THEN "begin" ELSE "done",
                        ![t].doc = IF op[t].name = "QueryAccount" THEN @ ELSE NoDoc]
    /\ UNCHANGED <<account, reflect, old>>

(* UpdateBinding returns without a write when the account has the e-mail.  *)
(* Mutant of Listed: the test is negated.                                  *)
ListedNegated(c) == c.name = "UpdateBinding" /\ c.email \notin c.doc.emails
Listed(c) == c.name = "UpdateBinding" /\ c.email \in c.doc.emails

(* The release of the inner lock returns to the method: with an error,     *)
(* which it returns, or to go on.                                          *)
DropInner(t) ==
    LET c == op[t]
        next == IF c.res = "err" THEN "release"
                ELSE IF c.pc = "leaveEmail" /\ c.name = "UpdateBinding"
                        /\ c.owner \notin {NoAddress, c.addr} THEN "old"
                ELSE IF Listed(c) THEN "release"
                ELSE "write"
    IN  /\ c.pc \in {"leaveEmail", "leaveOld"}
        /\ Locks!Delete(Inner(t))
        /\ op' = [op EXCEPT ![t].pc = next, ![t].res = IF next = "release" /\ @ = "none" THEN "ok" ELSE @]
        /\ old' = [old EXCEPT ![t] = NoDoc]
        /\ UNCHANGED data

-----------------------------------------------------------------------------
(* Reads and writes of the store, and the code up to the next lock, read   *)
(* or write.                                                               *)

HasOuter(t, name) == At(t, name, "begin") /\ lockPc[Outer(t)] = "held"
HasInner(t, name, place) == At(t, name, place) /\ lockPc[Inner(t)] = "held"

(* The method has its result, and next runs the deferred release of a lock;*)
(* or it has the document of its account, and goes on.                     *)
Leave(t, place, res) == op' = [op EXCEPT ![t].pc = place, ![t].res = res]
Load(t, place) == op' = [op EXCEPT ![t].pc = place, ![t].doc = account[op[t].addr]]

AccountFound(t) == account[op[t].addr].found

QueryAccountRead(t) ==
    /\ HasOuter(t, "QueryAccount")
    /\ op' = [op EXCEPT ![t].pc = "release", ![t].res = "ok", ![t].doc = account[op[t].addr]]
    /\ UNCHANGED <<account, reflect, old, locks>>

(* An account that is active already stays as it is.                       *)
ActiveAccountRead(t) ==
    /\ HasOuter(t, "ActiveAccount")
    /\ \/ AccountFound(t) /\ Leave(t, "release", "ok")
       \/ ~AccountFound(t) /\ Load(t, "write")
    /\ UNCHANGED <<account, reflect, old, locks>>

UpdateAccountLevelRead(t) ==
    /\ HasOuter(t, "UpdateAccountLevel")
    /\ \/ AccountFound(t) /\ Load(t, "write")
       \/ ~AccountFound(t) /\ Leave(t, "release", "err")
    /\ UNCHANGED <<account, reflect, old, locks>>

UpdateBindingRead(t) ==
    /\ HasOuter(t, "UpdateBinding")
    /\ \/ AccountFound(t) /\ Load(t, "email")
       \/ ~AccountFound(t) /\ Leave(t, "release", "err")
    /\ UNCHANGED <<account, reflect, old, locks>>

DeleteBindingRead(t) ==
    /\ HasOuter(t, "DeleteBinding")
    /\ \/ AccountFound(t) /\ Load(t, "email")
       \/ ~AccountFound(t) /\ Leave(t, "release", "err")
    /\ UNCHANGED <<account, reflect, old, locks>>

ReadReflect(t) ==
    /\ HasOuter(t, "QueryReflectByOneEmail")
    /\ op' = [op EXCEPT ![t].pc = "release", ![t].res = "ok", ![t].owner = reflect[op[t].email]]
    /\ UNCHANGED <<account, reflect, old, locks>>

ReadReflectOf(t) ==
    LET e == op[t].email
        rest == op[t].todo \ {e}
    IN  /\ HasOuter(t, "QueryReflectsByEmails")
        /\ op' = [op EXCEPT ![t].pc = "release", ![t].todo = rest,
                            ![t].answer = @ \cup ({<<e, reflect[e]>>} \ {<<e, NoAddress>>}),
                            ![t].res = IF rest = {} THEN "ok" ELSE "none"]
        /\ UNCHANGED <<account, reflect, old, locks>>

(* Mutant of WriteAccount: the address is stored where the document goes.  *)
WriteAccountMapping(t, name, doc) ==
    /\ At(t, name, "write")
    /\ account' = [account EXCEPT ![op[t].addr] = op[t].addr]
    /\ Leave(t, "release", "ok")
    /\ UNCHANGED <<reflect, old, locks>>

(* WriteStruct of the account, at the end of method name.                  *)
WriteAccount(t, name, doc) ==
    /\ At(t, name, "write")
    /\ account' = [account EXCEPT ![op[t].addr] = doc]
    /\ Leave(t, "release", "ok")
    /\ UNCHANGED <<reflect, old, locks>>

ActiveAccountWrite(t) == WriteAccount(t, "ActiveAccount", NewDoc(op[t].level))
UpdateAccountLevelWrite(t) ==
    WriteAccount(t, "UpdateAccountLevel", [op[t].doc EXCEPT !.level = op[t].level])
UpdateBindingWrite(t) ==
    WriteAccount(t, "UpdateBinding", [op[t].doc EXCEPT !.emails = @ \cup {op[t].email}])
DeleteBindingWrite(t) ==
    WriteAccount(t, "DeleteBinding", [op[t].doc EXCEPT !.emails = @ \ {op[t].email}])

(* updateEmailReflectOnly: its read, and its write.                        *)
ReadEmail(t) ==
    LET owner == reflect[op[t].email]
    IN  /\ HasInner(t, "UpdateBinding", "email")
        /\ \/ /\ owner = op[t].addr
              /\ op' = [op EXCEPT ![t].pc = "leaveEmail"]
           \/ /\ owner # op[t].addr
              /\ op' = [op EXCEPT ![t].pc = "setEmail", ![t].owner = owner]
        /\ UNCHANGED <<account, reflect, old, locks>>

WriteEmail(t) ==
    /\ op[t].pc = "setEmail"
    /\ reflect' = [reflect EXCEPT ![op[t].email] = op[t].addr]
    /\ op' = [op EXCEPT ![t].pc = "leaveEmail"]
    /\ UNCHANGED <<account, old, locks>>

(* Mutant of DeleteEmail: the mapping stays.                               *)
DeleteEmailSkipped(t) ==
    /\ HasInner(t, "DeleteBinding", "email")
    /\ op' = [op EXCEPT ![t].pc = "leaveEmail"]
    /\ UNCHANGED <<account, reflect, old, locks>>

(* deleteEmailReflect.                                                     *)
DeleteEmail(t) ==
    /\ HasInner(t, "DeleteBinding", "email")
    /\ reflect' = [reflect EXCEPT ![op[t].email] = NoAddress]
    /\ op' = [op EXCEPT ![t].pc = "leaveEmail"]
    /\ UNCHANGED <<account, old, locks>>

(* removeEmailFromAccount: its read, and its write.                        *)
ReadOld(t) ==
    LET doc == account[op[t].owner]
    IN  /\ HasInner(t, "UpdateBinding", "old")
        /\ op' = [op EXCEPT ![t].pc = IF doc.found THEN "setOld" ELSE "leaveOld"]
        /\ old' = [old EXCEPT ![t] = doc]
        /\ UNCHANGED <<account, reflect, locks>>

WriteOld(t) ==
    /\ op[t].pc = "setOld"
    /\ account' = [account EXCEPT ![op[t].owner] = [old[t] EXCEPT !.emails = @ \ {op[t].email}]]
    /\ op' = [op EXCEPT ![t].pc = "leaveOld"]
    /\ UNCHANGED <<reflect, old, locks>>

(* A read or a write of the store fails, and the lock is released.         *)
AccessFails(t) ==
    /\ \/ op[t].pc = "begin" /\ lockPc[Outer(t)] = "held" /\ Leave(t, "release", "err")
       \/ op[t].pc = "write" /\ Leave(t, "release", "err")
       \/ op[t].pc = "email" /\ lockPc[Inner(t)] = "held" /\ Leave(t, "leaveEmail", "err")
       \/ op[t].pc = "setEmail" /\ Leave(t, "leaveEmail", "err")
       \/ op[t].pc = "old" /\ lockPc[Inner(t)] = "held" /\ Leave(t, "leaveOld", "err")
       \/ op[t].pc = "setOld" /\ Leave(t, "leaveOld", "err")
    /\ UNCHANGED <<account, reflect, old, locks>>

ReturnNil(t) ==
    /\ op[t].pc = "begin" /\ op[t].name \in Stub
    /\ Leave(t, "done", "ok")
    /\ UNCHANGED <<account, reflect, old, locks>>

(* The panic goes up to whoever has made the call.                         *)
Panic(t) ==
    /\ op[t].pc = "begin" /\ op[t].name \in Unsupported
    /\ Leave(t, "done", "panic")
    /\ UNCHANGED <<account, reflect, old, locks>>

LockStep(t) == AskLock(t) \/ AskEmailLock(t) \/ TakeLock(t) \/ Unlock(t) \/ DropOuter(t) \/ DropInner(t)
QueryStep(t) == QueryAccountRead(t) \/ ReadReflect(t) \/ ReadReflectOf(t)
BindStep(t) ==
    \/ UpdateBindingRead(t) \/ ReadEmail(t) \/ WriteEmail(t)
    \/ ReadOld(t) \/ WriteOld(t) \/ UpdateBindingWrite(t)
UnbindStep(t) == DeleteBindingRead(t) \/ DeleteEmail(t) \/ DeleteBindingWrite(t)
LevelStep(t) ==
    \/ ActiveAccountRead(t) \/ ActiveAccountWrite(t)
    \/ UpdateAccountLevelRead(t) \/ UpdateAccountLevelWrite(t)
StoreStep(t) ==
    \/ LockStep(t) \/ QueryStep(t) \/ BindStep(t) \/ UnbindStep(t) \/ LevelStep(t)
    \/ AccessFails(t) \/ ReturnNil(t) \/ Panic(t)

(* The process ends: the store remains, and the locks are gone.            *)
ProcessExit ==
    /\ op' = [t \in Thread |-> NoCall]
    /\ old' = [t \in Thread |-> NoDoc]
    /\ locker' = [k \in Key |-> NoMutex]
    /\ lockOwner' = [m \in Mutex |-> NoHolder]
    /\ lockPc' = [h \in Holder |-> "idle"]
    /\ lockKey' = [h \in Holder |-> NoKey]
    /\ lockMu' = [h \in Holder |-> NoMutex]
    /\ UNCHANGED data

-----------------------------------------------------------------------------

(* The tables, the locks and the calls have their types.                   *)
StoreTypeOK ==
    /\ account \in [Address -> Doc]
    /\ reflect \in [Email -> Address \cup {NoAddress}]
    /\ old \in [Thread -> Doc]
    /\ op \in [Thread -> Call(Section)]
    /\ Locks!TypeOK

=============================================================================
