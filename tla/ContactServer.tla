---------------------------- MODULE ContactServer ----------------------------
(***************************************************************************)
(* The contact server: the handlers of ContactService call the backend     *)
(* that the process is configured for, FirestoreStore, LevelDBStore or     *)
(* RedisStore, or none.  Database requests fail, links expire, mails get   *)
(* lost, and the process ends, by a signal or by a panic, and starts again *)
(* on what is stored.                                                      *)
(***************************************************************************)
EXTENDS ContactService

CONSTANTS Mutex, NoHolder, NoMutex, NoKey       \* of the locks of LevelDB

VARIABLES
    account, reflect,   \* what all databases store
    link,               \* Firestore
    noList,             \* Redis
    old, locker, lockOwner, lockPc, lockKey, lockMu,    \* LevelDB
    seen                \* history: the mappings there were during a goroutine's query

Firestore == INSTANCE FirestoreStore
LevelDB == INSTANCE LevelDBStore
Redis == INSTANCE RedisStore

ASSUME LockAssumption ==
    NoHolder \notin LevelDB!Holder /\ NoMutex \notin Mutex /\ NoKey \notin LevelDB!Key

levelVars == <<old, locker, lockOwner, lockPc, lockKey, lockMu>>
stored == <<account, reflect, link, noList>>
vars == <<stored, levelVars, op, conf, req, inbox, issued, expired, seen>>

Init ==
    /\ ServiceInit
    /\ Firestore!StoreInit /\ Redis!StoreInit
    /\ LevelDB!StoreInit([a \in Address |-> NoDoc])
    /\ seen = [t \in Thread |-> {}]

-----------------------------------------------------------------------------

Uses(typ) == conf.database_typ = typ
NoDatabase == conf.database_typ \notin {DBTypFirestore, DBTypLevelDB, DBTypRedis}

(* InitConf leaves the interface nil for any other type: a call panics.    *)
NilCall(t) ==
    /\ op[t].pc = "begin"
    /\ Return(t, "panic")

DatabaseStep(t) ==
    \/ Uses(DBTypFirestore) /\ Firestore!StoreStep(t) /\ UNCHANGED <<levelVars, noList>>
    \/ Uses(DBTypLevelDB) /\ LevelDB!StoreStep(t) /\ UNCHANGED <<link, noList>>
    \/ Uses(DBTypRedis) /\ Redis!StoreStep(t) /\ UNCHANGED <<levelVars, link>>
    \/ NoDatabase /\ NilCall(t) /\ UNCHANGED <<levelVars, stored>>

(* Every goroutine is gone, and the next process starts with fresh locks.  *)
ProcessEnds == LevelDB!ProcessExit /\ RequestsLost /\ UNCHANGED <<link, noList>>

(* The goroutine that BindAccount started for the confirmation has no      *)
(* Recoverer: a panic of CreateActiveLink ends the process.                *)
Dying(t) == req[t].pc = "link" /\ op[t].pc = "done" /\ op[t].res = "panic"
Crash(t) == Dying(t) /\ ProcessEnds

Step ==
    \/ \E t \in conf.thread : Serve(t) /\ UNCHANGED <<conf, stored, levelVars>>
    \/ \E t \in conf.thread : DatabaseStep(t) /\ UNCHANGED serviceVars
    \/ \E t \in conf.thread : Crash(t)
    \/ LinkExpires /\ UNCHANGED <<stored, levelVars>>
    \/ ProcessEnds

Mappings == {<<e, reflect[e]>> : e \in conf.email}
Looking(c) == c.name \in {"QueryReflectByOneEmail", "QueryReflectsByEmails"} /\ c.pc # "idle"

Record ==
    seen' = [t \in Thread |->
        IF ~Looking(op'[t]) THEN {}
        ELSE IF Looking(op[t]) THEN seen[t] \cup Mappings'
        ELSE Mappings']

Next == Step /\ Record

Spec == Init /\ [][Next]_vars

-----------------------------------------------------------------------------

(* The variables have their types, and a goroutine is in a database call   *)
(* only while it serves a request.                                         *)
TypeOK ==
    /\ ServiceTypeOK
    /\ Uses(DBTypFirestore) => Firestore!StoreTypeOK
    /\ Uses(DBTypLevelDB) => LevelDB!StoreTypeOK
    /\ Uses(DBTypRedis) => Redis!StoreTypeOK
    /\ \A t \in Thread : req[t].pc = "idle" => op[t].pc = "idle"

(* The limits of checkRightsOfAction, by level.                            *)
Limit(l) ==
    IF UserLevel(l) = UserLevelFree THEN EmailAddrNoForFree
    ELSE IF UserLevel(l) = UserLevelNormalVip THEN EmailAddrNoForNormal
    ELSE EmailAddrNoForPlus
Limited == {UserLevelFree, UserLevelNormalVip, UserLevelPlusVip}

(* No step takes an account over the number of e-mails of its level: not a *)
(* repeated request, not a link opened twice, not a retry after a failure, *)
(* on no database.                                                         *)
QuotaKept ==
    [][\A a \in Address :
          LET before == account[a]  after == account'[a]
          IN  UserLevel(after.level) \in Limited /\ ~(after.emails \subseteq before.emails) =>
                 Cardinality(after.emails) <= Limit(after.level)]_vars

(* What the requests of a process have to themselves.                      *)
OneAtATime == \E t \in Thread : conf.thread = {t}

(* An e-mail that resolves to somebody goes to somebody else only by a     *)
(* link that was mailed to it, for that account.  (Links are stored on     *)
(* Firestore only: on the other databases it never does.)                  *)
TakeoverNeedsConfirm ==
    [][\A e \in Email :
          OneAtATime /\ reflect[e] # NoAddress /\ reflect'[e] \notin {NoAddress, reflect[e]} =>
             \E k \in inbox : link[k].email = e /\ link[k].addr = reflect'[e]]_vars

(* A link is removed only once what it stands for is done.                 *)
LinkSpentOnlyWhenBound ==
    [][\A k \in Token :
          OneAtATime /\ link[k].found /\ ~link'[k].found =>
             /\ reflect[link[k].email] = link[k].addr
             /\ link[k].email \in account[link[k].addr].emails]_vars

(* Nobody is mailed a link that the server does not know, not even when    *)
(* storing the link fails or somebody else is served meanwhile.            *)
MailedLinkStored ==
    [][\A k \in Token : k \in inbox' \ inbox => link[k].found]_vars

(* BindAccount answers "ok" only when the e-mail resolves to the account   *)
(* that asked.  UnbindAccount does so only when the account does not list  *)
(* the e-mail any more, except on Redis, where a half unbinding is not     *)
(* finished.  UninstallByUser does so when nothing is left on Firestore;   *)
(* on the other databases it does nothing.                                 *)
ReplyTruth ==
    \A t \in Thread : OneAtATime /\ req[t].pc = "idle" /\ req[t].reply = "ok" =>
        /\ req[t].handler = "BindAccount" => reflect[req[t].email] = req[t].addr
        /\ req[t].handler = "UnbindAccount" /\ ~Uses(DBTypRedis) =>
              req[t].email \notin account[req[t].addr].emails
        /\ req[t].handler = "UninstallByUser" /\ Uses(DBTypFirestore) =>
              account[req[t].addr].emails = {}

(* What a query of e-mails answers was so while it ran, for each e-mail at *)
(* some moment: who it resolves to, or that it resolves to nobody, though  *)
(* bindings change between the reads of an array.  On Redis, where no      *)
(* mapping can be parsed, an array is answered with nothing and one e-mail *)
(* with an error, never with a wrong owner.                                *)
AnswersSeen ==
    \A t \in Thread :
        /\ Returned(t, "QueryReflectByOneEmail", "ok") => <<op[t].email, op[t].owner>> \in seen[t]
        /\ Returned(t, "QueryReflectsByEmails", "ok") =>
              IF Uses(DBTypRedis) THEN op[t].answer = {}
              ELSE /\ op[t].answer \subseteq seen[t]
                   /\ \A e \in req[t].emails : <<e, NoAddress>> \in seen[t]
                                              \/ \E p \in op[t].answer : p[1] = e

(* No request ends the process, except one: BindAccount, on LevelDB, for   *)
(* an e-mail that resolves to somebody else (and still does, if nobody     *)
(* else is served meanwhile).                                              *)
OnlyTakeoverCrashes ==
    \A t \in conf.thread : Dying(t) =>
        /\ Uses(DBTypLevelDB) /\ req[t].handler = "BindAccount"
        /\ OneAtATime => reflect[req[t].email] \notin {NoAddress, req[t].addr}

(* A user whose level is UserLevelInActive binds nothing.                  *)
InactiveRefused ==
    [][\A a \in Address :
          account[a].found /\ UserLevel(account[a].level) = UserLevelInActive =>
             account'[a].emails \subseteq account[a].emails]_vars

(* Opening a link that was mailed for unbinding binds nothing: an e-mail   *)
(* gets a new owner by BindAccount or by a link that is not for unbinding. *)
UnbindLinkBindsNothing ==
    [][\A e \in Email :
          reflect'[e] \notin {NoAddress, reflect[e]} =>
             \/ \E t \in Thread : req[t].handler = "BindAccount" /\ req[t].email = e
             \/ \E k \in inbox : link[k].email = e /\ ~link[k].unbind]_vars

=============================================================================
