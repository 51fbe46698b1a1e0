---------------------------- MODULE LevelDBProofs ----------------------------
(***************************************************************************)
(* What the LevelDB backend guarantees for any number of goroutines,       *)
(* accounts, e-mails and mutexes, whatever accesses to the store fail and  *)
(* whenever the process ends: no update is lost while the locks exclude,   *)
(* and what a call does that nobody overlaps.  The invariant (LInv) ties   *)
(* the place of each call (GoodCall) to the places of its two locks and    *)
(* the keys they are for (Locked).  Last, who can wait for whom: the       *)
(* circles of LevelDBMoves.                                                *)
(***************************************************************************)
EXTENDS LevelDBClients, LevelDBMoves, TLAPS

(* Inside of its outer lock, a method has the document of its account.     *)
Inside == {"write", "email", "setEmail", "leaveEmail", "old", "setOld", "leaveOld"}

(* The methods that are called with an address, an e-mail or a token.      *)
TakesAddress == Mutator \cup {"QueryAccount", "CreateActiveLink"}
TakesEmail == {"UpdateBinding", "DeleteBinding", "QueryReflectByOneEmail", "CreateActiveLink"}
TakesToken == {"CreateActiveLink", "GetActiveLink", "RemoveActiveLink"}

(* The arguments and locals that a call has at each place.  Between two    *)
(* e-mails of its array, QueryReflectsByEmails has no result yet.          *)
GoodCall(c) ==
    /\ c.pc \notin {"idle", "done"} => c.name # "none"
    /\ c.name \in TakesAddress => c.addr \in Address
    /\ c.name \in TakesEmail => c.email \in Email
    /\ c.name \in TakesToken => c.token \in Token
    /\ c.pc \in {"email", "leaveEmail"} => c.name \in {"UpdateBinding", "DeleteBinding"}
    /\ c.pc \in {"setEmail", "old", "setOld", "leaveOld"} => c.name = "UpdateBinding"
    /\ c.pc = "write" =>
          c.name \in {"UpdateBinding", "DeleteBinding", "ActiveAccount", "UpdateAccountLevel"}
    /\ c.pc \in {"old", "setOld", "leaveOld"} => c.owner \in Address /\ c.owner # c.addr
    /\ c.pc \in {"begin", "write", "email", "setEmail", "old", "setOld"} => c.res = "none"
    /\ c.pc \in {"leaveEmail", "leaveOld"} => c.res \in {"none", "err"}
    /\ c.pc = "release" => c.res \in {"ok", "err"} \/ (c.name \in ManyLocks /\ c.res = "none")
    /\ c.pc = "done" => c.res \in {"ok", "err"} \/ (c.name \in Unsupported /\ c.res = "panic")
    /\ c.name \in Unsupported => c.pc \in {"idle", "begin", "done"} /\ c.res # "ok"

(* The key of the outer lock.                                              *)
KeyOf(c) == IF c.name \in ManyLocks THEN EmailKey(c.email) ELSE OuterKey(c)

(* Where the two locks of a call are at each place, and whose they are.    *)
Locked(t) ==
    LET c == op[t]
        outer == lockPc[Outer(t)]
        inner == lockPc[Inner(t)]
    IN  /\ c.pc \in {"idle", "done"} => outer = "idle"
        /\ c.pc = "begin" => outer \in {"idle", "lock", "held"}
        /\ c.pc = "begin" /\ c.name \in Stub \cup Unsupported => outer = "idle"
        /\ c.pc \in Inside => outer = "held"
        /\ c.pc = "release" => outer \in {"held", "delete"}
        /\ c.pc \notin Inside \/ c.pc = "write" => inner = "idle"
        /\ c.pc \in {"email", "old"} => inner \in {"idle", "lock", "held"}
        /\ c.pc \in {"setEmail", "setOld"} => inner = "held"
        /\ c.pc \in {"leaveEmail", "leaveOld"} => inner \in {"held", "delete"}
        /\ outer # "idle" => lockKey[Outer(t)] = KeyOf(c)
        /\ outer # "idle" /\ c.name \in ManyLocks =>
              c.email \in Email /\ (c.pc = "begin" => c.email \in c.todo)
        /\ c.pc \in {"old", "setOld"} /\ inner # "idle" => lockKey[Inner(t)] = AccountKey(c.owner)

(* An account that is not there lists nothing, and only an account that is *)
(* there is written again.                                                 *)
FoundOnly ==
    /\ \A a \in Address : account[a].found \/ account[a].emails = {}
    /\ \A t \in Thread :
          /\ op[t].pc \in Inside /\ op[t].name # "ActiveAccount" => op[t].doc.found
          /\ op[t].pc = "setOld" => old[t].found

LInv ==
    /\ TypeOK
    /\ \A t \in Thread : GoodCall(op[t]) /\ Locked(t)
    /\ Shared \subseteq crowded
    /\ NoLostUpdate

(* While a call runs that nothing has overlapped, no other call runs.      *)
OnlyOne == \A t \in alone : \A u \in Thread \ {t} : ~Running(u)

Healed(c) ==
    /\ reflect[c.email] = c.addr
    /\ account[c.addr].found /\ c.email \in account[c.addr].emails
    /\ c.owner \notin {NoAddress, c.addr} => c.email \notin account[c.owner].emails
Cleared(c) == reflect[c.email] = NoAddress /\ c.email \notin account[c.addr].emails

(* What the locals of a call and the store have in common.                 *)
KnowsBind(t) ==
    LET c == op[t]
        taken == c.owner \notin {NoAddress, c.addr} => c.email \notin account[c.owner].emails
    IN  /\ c.pc \in {"begin", "email"} => c.owner = NoAddress
        /\ c.pc = "leaveEmail" /\ c.res = "none" => reflect[c.email] = c.addr
        /\ c.pc \in {"old", "setOld", "write"} => reflect[c.email] = c.addr
        /\ c.pc = "leaveOld" /\ c.res = "none" => reflect[c.email] = c.addr /\ taken
        /\ c.pc = "setOld" => old[t] = account[c.owner]
        /\ c.pc = "write" => taken
        /\ c.pc \in {"release", "done"} /\ c.res = "ok" => Healed(c)

KnowsUnbind(t) ==
    LET c == op[t]
    IN  /\ c.pc = "write" \/ (c.pc = "leaveEmail" /\ c.res = "none") => reflect[c.email] = NoAddress
        /\ c.pc \in {"release", "done"} /\ c.res = "ok" => Cleared(c)

(* A query answers what is stored.                                         *)
KnowsQuery(t) ==
    LET c == op[t]
    IN  c.pc \in {"release", "done"} /\ c.res = "ok" =>
           /\ c.name = "QueryAccount" => c.doc = account[c.addr]
           /\ c.name = "QueryReflectByOneEmail" => c.owner = reflect[c.email]

Knows(t) ==
    LET c == op[t]
    IN  /\ c.pc \in Inside /\ c.res = "none" => c.doc = account[c.addr]
        /\ KnowsQuery(t)
        /\ c.name = "UpdateBinding" => KnowsBind(t)
        /\ c.name = "DeleteBinding" => KnowsUnbind(t)

KInv == LInv /\ FoundOnly /\ OnlyOne /\ \A t \in alone : Knows(t)

USE DEF Running, Returned, At, Held

-----------------------------------------------------------------------------
(* The records that steps put into op.                                     *)

Calls == op \in [Thread -> Call(Section)]
SameArguments(c, d) ==
    d.name = c.name /\ d.addr = c.addr /\ d.email = c.email /\ d.token = c.token
(* The query of an array changes the e-mail that it is at.                 *)
Keeps(c, d) ==
    /\ d.name = c.name /\ d.addr = c.addr /\ d.token = c.token
    /\ c.name \notin ManyLocks => d.email = c.email
MovesTo(t, place) ==
    /\ Calls' /\ \A u \in Thread \ {t} : op'[u] = op[u]
    /\ SameArguments(op[t], op'[t]) /\ op'[t].pc = place

(* The holders of the locks of two goroutines, or of one, are different.   *)
LEMMA Holders ==
    /\ \A t \in Thread : Outer(t) \in Holder /\ Inner(t) \in Holder
    /\ \A t, u \in Thread : Outer(t) # Inner(u)
    /\ \A t, u \in Thread : Outer(t) = Outer(u) \/ Inner(t) = Inner(u) => t = u
BY DEF Outer, Inner, Holder

LEMMA DocTyped ==
    /\ NoDoc \in Doc /\ ~NoDoc.found /\ NoDoc.emails = {}
    /\ \A l \in StoredLevel : NewDoc(l) \in Doc /\ NewDoc(l).found /\ NewDoc(l).emails = {}
    /\ \A doc \in Doc : doc.emails \in SUBSET Email /\ doc.level \in StoredLevel
BY DEF NoDoc, NewDoc, Doc, StoredLevel

LEMMA EmailsTyped ==
    ASSUME NEW doc \in Doc, NEW s \in SUBSET Email
    PROVE  /\ [doc EXCEPT !.emails = s] \in Doc
           /\ [doc EXCEPT !.emails = s].found = doc.found /\ [doc EXCEPT !.emails = s].emails = s
BY DEF Doc

LEMMA LevelTyped ==
    ASSUME NEW doc \in Doc, NEW l \in StoredLevel
    PROVE  /\ [doc EXCEPT !.level = l] \in Doc
           /\ [doc EXCEPT !.level = l].found = doc.found
           /\ [doc EXCEPT !.level = l].emails = doc.emails
BY DEF Doc

LEMMA NoCallTyped ==
    /\ NoCall \in Call(Section) /\ NoCall.pc = "idle" /\ NoCall.name = "none"
    /\ GoodCall(NoCall)
<1>1. {} \in Answer
  BY DEF Answer
<1>2. NoCall \in Call(Section)
  BY <1>1, DocTyped DEF NoCall, Call, StoredLevel
<1>3. NoCall.pc = "idle" /\ NoCall.name = "none"
  BY DEF NoCall
<1>. QED
  BY <1>2, <1>3 DEF GoodCall, TakesAddress, TakesEmail, TakesToken, Mutator, Unsupported

(* A step puts one record into op.                                         *)
LEMMA OneCall ==
    ASSUME Calls, NEW t \in Thread, NEW c \in Call(Section), op' = [op EXCEPT ![t] = c]
    PROVE  Calls' /\ op'[t] = c /\ \A u \in Thread \ {t} : op'[u] = op[u]
BY DEF Calls

LEMMA LeaveMoves ==
    ASSUME Calls, NEW t \in Thread, NEW res \in {"none", "ok", "err", "panic"},
           NEW place \in Section \cup {"done"}, Leave(t, place, res)
    PROVE  /\ MovesTo(t, place) /\ op'[t].res = res
           /\ op'[t].owner = op[t].owner /\ op'[t].doc = op[t].doc
<1>. DEFINE c == [op[t] EXCEPT !.pc = place, !.res = res]
<1>1. op[t] \in Call(Section)
  BY DEF Calls
<1>2. c \in Call(Section)
  BY <1>1, ZenonT(60) DEF Call
<1>3. /\ SameArguments(op[t], c) /\ c.pc = place /\ c.res = res
      /\ c.owner = op[t].owner /\ c.doc = op[t].doc
  BY <1>1 DEF Call, SameArguments
<1>4. op' = [op EXCEPT ![t] = c]
  BY DEF Calls, Leave
<1>. QED
  BY <1>2, <1>3, <1>4, OneCall DEF MovesTo

LEMMA LoadMoves ==
    ASSUME Calls, NEW t \in Thread, NEW place \in Section, Load(t, place),
           account[op[t].addr] \in Doc
    PROVE  /\ MovesTo(t, place) /\ op'[t].res = op[t].res
           /\ op'[t].owner = op[t].owner /\ op'[t].doc = account[op[t].addr]
<1>. DEFINE doc == account[op[t].addr]
            c == [op[t] EXCEPT !.pc = place, !.doc = doc]
<1>1. op' = [op EXCEPT ![t] = c]
  BY DEF Calls, Load
<1>. HIDE DEF doc
<1>2. doc \in Doc
  BY DEF doc
<1>3. /\ c \in Call(Section) /\ SameArguments(op[t], c) /\ c.pc = place /\ c.doc = doc
      /\ c.owner = op[t].owner /\ c.res = op[t].res
  BY <1>2, ZenonT(60) DEF Calls, Call, SameArguments
<1>. QED
  BY <1>1, <1>3, OneCall DEF MovesTo, doc

LEMMA PlaceMoves ==
    ASSUME Calls, NEW t \in Thread, NEW place \in Section, op' = [op EXCEPT ![t].pc = place]
    PROVE  /\ MovesTo(t, place) /\ op'[t].res = op[t].res
           /\ op'[t].owner = op[t].owner /\ op'[t].doc = op[t].doc
BY DEF Calls, MovesTo, SameArguments, Call

LEMMA OwnerMoves ==
    ASSUME Calls, NEW t \in Thread, NEW place \in Section, NEW owner \in Address \cup {NoAddress},
           op' = [op EXCEPT ![t].pc = place, ![t].owner = owner]
    PROVE  /\ MovesTo(t, place) /\ op'[t].res = op[t].res
           /\ op'[t].owner = owner /\ op'[t].doc = op[t].doc
<1>. DEFINE c == [op[t] EXCEPT !.pc = place, !.owner = owner]
<1>1. op[t] \in Call(Section)
  BY DEF Calls
<1>2. c \in Call(Section)
  BY <1>1 DEF Call
<1>3. c.pc = place /\ c.owner = owner /\ c.res = op[t].res /\ c.doc = op[t].doc
  BY <1>1 DEF Call
<1>4. SameArguments(op[t], c)
  BY <1>1 DEF Call, SameArguments
<1>5. op' = [op EXCEPT ![t] = c]
  BY DEF Calls
<1>. QED
  BY <1>2, <1>3, <1>4, <1>5, OneCall DEF MovesTo

(* What a client begins.                                                   *)
LEMMA BeginCall ==
    ASSUME NEW t \in Thread, Begin(t)
    PROVE  \E c \in Call(Section) :
              Clients(t, c) /\ GoodCall(c) /\ c.pc = "begin" /\ c.owner = NoAddress
<1>. DEFINE Good(c) == c \in Call(Section) /\ GoodCall(c) /\ c.pc = "begin" /\ c.owner = NoAddress
            Base(c, n) == /\ c \in Call(Section) /\ c.pc = "begin" /\ c.owner = NoAddress
                          /\ c.name = n /\ c.res = "none"
<1>1. ASSUME NEW n \in Mutator \cup {"QueryReflectByOneEmail"}
      PROVE  Base(Calling(n), n)
  BY NoCallTyped DEF Calling, Call, Method, NoCall
<1>2. ASSUME NEW a \in Address, NEW e \in Email
      PROVE  Good(UpdateBinding(a, e)) /\ Good(DeleteBinding(a, e))
  <2>1. ASSUME NEW n \in Mutator, NEW c, c = [Calling(n) EXCEPT !.addr = a, !.email = e]
        PROVE  Base(c, n) /\ c.addr = a /\ c.email = e
    <3>1. Base(Calling(n), n)
      BY <1>1
    <3>. QED
      BY <2>1, <3>1 DEF Call
  <2>2. /\ Base(UpdateBinding(a, e), "UpdateBinding")
        /\ UpdateBinding(a, e).addr = a /\ UpdateBinding(a, e).email = e
    <3>1. "UpdateBinding" \in Mutator
      BY DEF Mutator
    <3>. QED
      BY <2>1, <3>1, ZenonT(40) DEF UpdateBinding
  <2>3. /\ Base(DeleteBinding(a, e), "DeleteBinding")
        /\ DeleteBinding(a, e).addr = a /\ DeleteBinding(a, e).email = e
    <3>1. "DeleteBinding" \in Mutator
      BY DEF Mutator
    <3>. QED
      BY <2>1, <3>1, ZenonT(40) DEF DeleteBinding
  <2>. QED
    BY <2>2, <2>3 DEF GoodCall, Mutator, TakesAddress, TakesEmail, TakesToken
<1>3. ASSUME NEW e \in Email PROVE Good(QueryReflectByOneEmail(e))
  <2>1. /\ Base(QueryReflectByOneEmail(e), "QueryReflectByOneEmail")
        /\ QueryReflectByOneEmail(e).email = e
    BY <1>1 DEF QueryReflectByOneEmail, Call
  <2>. QED
    BY <2>1 DEF GoodCall, Mutator, TakesAddress, TakesEmail, TakesToken
<1>4. ASSUME NEW a \in Address PROVE Good(UninstallByUser(a)) /\ Good(DeleteAccount(a))
  <2>1. Base(UninstallByUser(a), "UninstallByUser") /\ UninstallByUser(a).addr = a
    BY <1>1 DEF UninstallByUser, Call, Mutator
  <2>2. Base(DeleteAccount(a), "DeleteAccount") /\ DeleteAccount(a).addr = a
    BY <1>1 DEF DeleteAccount, Call, Mutator
  <2>. QED
    BY <2>1, <2>2 DEF GoodCall, Mutator, TakesAddress, TakesEmail, TakesToken
<1>5. ASSUME NEW a \in Address, NEW l \in Level
      PROVE  Good(ActiveAccount(a, l)) /\ Good(UpdateAccountLevel(a, l))
  <2>1. ASSUME NEW n \in Mutator, NEW c, c = [Calling(n) EXCEPT !.addr = a, !.level = l]
        PROVE  Base(c, n) /\ c.addr = a
    <3>1. Base(Calling(n), n) /\ l \in StoredLevel
      BY <1>1, LevelAssumption
    <3>. QED
      BY <2>1, <3>1 DEF Call
  <2>2. Base(ActiveAccount(a, l), "ActiveAccount") /\ ActiveAccount(a, l).addr = a
    BY <2>1 DEF ActiveAccount, Mutator
  <2>3. Base(UpdateAccountLevel(a, l), "UpdateAccountLevel") /\ UpdateAccountLevel(a, l).addr = a
    BY <2>1 DEF UpdateAccountLevel, Mutator
  <2>. QED
    BY <2>2, <2>3 DEF GoodCall, Mutator, TakesAddress, TakesEmail, TakesToken
<1>6. CASE \E a \in Address, e \in Email :
              Clients(t, UpdateBinding(a, e)) \/ Clients(t, DeleteBinding(a, e))
  BY <1>2, <1>6
<1>7. CASE \E e \in Email : Clients(t, QueryReflectByOneEmail(e))
  BY <1>3, <1>7
<1>8. CASE \E a \in Address : Clients(t, UninstallByUser(a)) \/ Clients(t, DeleteAccount(a))
  BY <1>4, <1>8
<1>9. CASE \E a \in Address, l \in Level :
              Clients(t, ActiveAccount(a, l)) \/ Clients(t, UpdateAccountLevel(a, l))
  BY <1>5, <1>9
<1>. QED
  BY <1>6, <1>7, <1>8, <1>9 DEF Begin

-----------------------------------------------------------------------------
(* What a step does to the call that makes it.                             *)

(* What the invariant says of one goroutine.                               *)
LEMMA CallFacts ==
    ASSUME LInv, NEW t \in Thread
    PROVE  /\ Calls /\ op[t] \in Call(Section) /\ GoodCall(op[t]) /\ Locked(t)
           /\ account \in [Address -> Doc] /\ old \in [Thread -> Doc]
           /\ reflect \in [Email -> Address \cup {NoAddress}]
           /\ lockPc \in [Holder -> {"idle", "lock", "held", "delete"}]
           /\ lockKey \in [Holder -> Key \cup {NoKey}]
           /\ op[t].owner \in Address \cup {NoAddress} /\ op[t].doc \in Doc
           /\ op[t].level \in StoredLevel
           /\ op[t].pc \in Section \cup {"idle", "begin", "done"}
           /\ op[t].todo \in SUBSET Email /\ op[t].answer \in Answer
           /\ op[t].name \in Mutator => op[t].addr \in Address
           /\ op[t].name \in {"UpdateBinding", "DeleteBinding"} =>
                 op[t].addr \in Address /\ op[t].email \in Email
<1>1. /\ Calls /\ GoodCall(op[t]) /\ Locked(t) /\ op[t] \in Call(Section)
      /\ account \in [Address -> Doc] /\ old \in [Thread -> Doc]
      /\ reflect \in [Email -> Address \cup {NoAddress}]
      /\ Locks!TypeOK
  BY DEF LInv, TypeOK, StoreTypeOK, Calls
<1>. QED
  BY <1>1 DEF Call, Locks!TypeOK, Locks!Place, GoodCall, TakesAddress, TakesEmail, Mutator

(* The next place of a method that releases its inner lock.                *)
AfterInner(c) ==
    IF c.res = "err" THEN "release"
    ELSE IF c.pc = "leaveEmail" /\ c.name = "UpdateBinding" /\ c.owner \notin {NoAddress, c.addr}
         THEN "old"
    ELSE IF Listed(c) THEN "release" ELSE "write"

LEMMA StepRuns ==
    ASSUME LInv, NEW t \in Thread, StoreStep(t)
    PROVE  Running(t)
<1>1. ASSUME TakeLock(t) PROVE Running(t)
  BY <1>1, CallFacts DEF TakeLock, Locks!Lock, Locked, Inside
<1>. QED
  BY <1>1 DEF StoreStep, LockStep, QueryStep, BindStep, UnbindStep, LevelStep, AskLock,
     AskEmailLock,
     Unlock, DropOuter, DropInner, QueryAccountRead, ReadReflect, ReadReflectOf,
     UpdateBindingRead,
     ReadEmail, WriteEmail, ReadOld, WriteOld, UpdateBindingWrite, DeleteBindingRead,
     DeleteEmail,
     DeleteBindingWrite, ActiveAccountRead, ActiveAccountWrite, UpdateAccountLevelRead,
     UpdateAccountLevelWrite, WriteAccount, HasOuter, HasInner, AccessFails, ReturnNil, Panic

(* The steps that move only the locks.                                     *)
LEMMA DropOuterMoves ==
    ASSUME LInv, NEW t \in Thread, DropOuter(t)
    PROVE  /\ MovesTo(t, IF op[t].res = "none" THEN "begin" ELSE "done")
           /\ op'[t].res = op[t].res /\ op'[t].owner = op[t].owner
           /\ op[t].name = "QueryAccount" => op'[t].doc = op[t].doc
<1>. USE CallFacts
<1>. DEFINE doc == IF op[t].name = "QueryAccount" THEN op[t].doc ELSE NoDoc
            place == IF op[t].res = "none" THEN "begin" ELSE "done"
            c == [op[t] EXCEPT !.pc = place, !.doc = doc]
<1>1. doc \in Doc /\ place \in {"begin", "done"}
  BY DocTyped
<1>2. op' = [op EXCEPT ![t] = c]
  BY DEF Calls, DropOuter
<1>. HIDE DEF doc, place
<1>3. c \in Call(Section) /\ SameArguments(op[t], c)
      /\ c.pc = place /\ c.res = op[t].res /\ c.owner = op[t].owner /\ c.doc = doc
  BY <1>1, ZenonT(60) DEF Call, SameArguments
<1>4. MovesTo(t, place) /\ op'[t].res = op[t].res /\ op'[t].owner = op[t].owner /\ op'[t].doc = doc
  BY <1>2, <1>3, OneCall DEF MovesTo
<1>. QED
  BY <1>4 DEF place, doc

LEMMA DropInnerMoves ==
    ASSUME LInv, NEW t \in Thread, DropInner(t)
    PROVE  /\ MovesTo(t, AfterInner(op[t])) /\ op'[t].owner = op[t].owner /\ op'[t].doc = op[t].doc
           /\ op'[t].res = IF AfterInner(op[t]) = "release" /\ op[t].res = "none" THEN "ok"
                                                                               ELSE op[t].res
<1>. USE CallFacts
<1>. DEFINE place == AfterInner(op[t])
            res == IF place = "release" /\ op[t].res = "none" THEN "ok" ELSE op[t].res
            c == [op[t] EXCEPT !.pc = place, !.res = res]
<1>1. op' = [op EXCEPT ![t] = c]
  BY DEF Calls, DropInner, AfterInner
<1>2. place \in Section
  BY DEF AfterInner, Section
<1>3. res \in {"none", "ok", "err"}
  BY DEF DropInner, GoodCall
<1>. HIDE DEF place, res
<1>4. c \in Call(Section)
  BY <1>2, <1>3, ZenonT(60) DEF Call
<1>5. /\ SameArguments(op[t], c) /\ c.pc = place /\ c.res = res
      /\ c.owner = op[t].owner /\ c.doc = op[t].doc
  BY DEF Call, SameArguments
<1>6. MovesTo(t, place) /\ op'[t].owner = op[t].owner /\ op'[t].doc = op[t].doc /\ op'[t].res = res
  BY <1>1, <1>4, <1>5, OneCall DEF MovesTo
<1>. QED
  BY <1>6 DEF place, res

LEMMA ReadReflectMoves ==
    ASSUME LInv, NEW t \in Thread, ReadReflect(t)
    PROVE  MovesTo(t, "release") /\ op'[t].res = "ok" /\ op'[t].owner = reflect[op[t].email]
<1>. USE CallFacts
<1>. DEFINE owner == reflect[op[t].email]
            c == [op[t] EXCEPT !.pc = "release", !.res = "ok", !.owner = owner]
<1>1. op' = [op EXCEPT ![t] = c] /\ owner \in Address \cup {NoAddress}
  BY DEF Calls, ReadReflect, HasOuter, GoodCall, TakesEmail
<1>. HIDE DEF owner
<1>2. c \in Call(Section) /\ SameArguments(op[t], c) /\ c.pc = "release" /\ c.res = "ok"
      /\ c.owner = owner
  BY <1>1, ZenonT(60) DEF Call, SameArguments, Section
<1>3. MovesTo(t, "release") /\ op'[t].res = "ok" /\ op'[t].owner = owner
  BY <1>1, <1>2, OneCall DEF MovesTo
<1>. QED
  BY <1>3 DEF owner

(* The steps of QueryAccount and of QueryReflectsByEmails.                 *)
LEMMA QueryMoves ==
    ASSUME LInv, NEW t \in Thread, QueryAccountRead(t) \/ ReadReflectOf(t)
    PROVE  /\ MovesTo(t, "release") /\ op[t].pc = "begin"
           /\ op'[t].res = "ok" \/ (op[t].name \in ManyLocks /\ op'[t].res = "none")
           /\ QueryAccountRead(t) => op'[t].doc = account[op[t].addr]
<1>. USE CallFacts
<1>1. CASE QueryAccountRead(t)
  <2>. DEFINE doc == account[op[t].addr]
              c == [op[t] EXCEPT !.pc = "release", !.res = "ok", !.doc = doc]
  <2>1. op' = [op EXCEPT ![t] = c] /\ doc \in Doc /\ op[t].pc = "begin"
    BY <1>1 DEF Calls, QueryAccountRead, HasOuter, GoodCall, TakesAddress
  <2>. HIDE DEF doc
  <2>2. c \in Call(Section)
    BY <2>1, ZenonT(60) DEF Call, Section
  <2>3. SameArguments(op[t], c) /\ c.pc = "release" /\ c.res = "ok" /\ c.doc = doc
    BY <2>1 DEF Call, SameArguments
  <2>. HIDE DEF c
  <2>4. MovesTo(t, "release") /\ op'[t].res = "ok" /\ op'[t].doc = doc
    BY <2>1, <2>2, <2>3, OneCall DEF MovesTo
  <2>. QED
    BY <2>1, <2>4 DEF doc
<1>2. CASE ReadReflectOf(t)
  <2>. DEFINE e == op[t].email
              rest == op[t].todo \ {e}
              answer == op[t].answer \cup ({<<e, reflect[e]>>} \ {<<e, NoAddress>>})
              res == IF rest = {} THEN "ok" ELSE "none"
              c == [op[t] EXCEPT !.pc = "release", !.todo = rest, !.answer = answer, !.res = res]
  <2>1. e \in Email /\ op[t].pc = "begin" /\ op[t].name \in ManyLocks /\ ~QueryAccountRead(t)
    BY <1>2 DEF ReadReflectOf, QueryAccountRead, HasOuter, Locked, ManyLocks
  <2>2. answer \in Answer
    BY <2>1 DEF Answer
  <2>3. op' = [op EXCEPT ![t] = c] /\ rest \in SUBSET Email /\ res \in {"ok", "none"}
    BY <1>2 DEF Calls, ReadReflectOf
  <2>. HIDE DEF rest, answer, res
  <2>4. c \in Call(Section)
    BY <2>2, <2>3, ZenonT(60) DEF Call, Section
  <2>5. SameArguments(op[t], c) /\ c.pc = "release" /\ c.res = res
    BY DEF Call, SameArguments
  <2>. QED
    BY <2>1, <2>3, <2>4, <2>5, OneCall DEF MovesTo
<1>. QED
  BY <1>1, <1>2

LEMMA AskEmailMoves ==
    ASSUME LInv, NEW t \in Thread, AskEmailLock(t)
    PROVE  /\ Calls' /\ \A u \in Thread \ {t} : op'[u] = op[u]
           /\ Keeps(op[t], op'[t]) /\ op'[t].pc = "begin" /\ op'[t].res = op[t].res
           /\ op[t].pc = "begin" /\ op[t].name \in ManyLocks
           /\ op'[t].email \in Email /\ Locks!LoadOrStore(Outer(t), EmailKey(op'[t].email))
           /\ op'[t].email \in op[t].todo /\ op'[t].todo = op[t].todo
           /\ op'[t].answer = op[t].answer
<1>. USE CallFacts
<1>1. PICK e \in op[t].todo :
         Locks!LoadOrStore(Outer(t), EmailKey(e)) /\ op' = [op EXCEPT ![t].email = e]
  BY DEF AskEmailLock
<1>. DEFINE c == [op[t] EXCEPT !.email = e]
<1>2. op' = [op EXCEPT ![t] = c] /\ e \in Email /\ op[t].pc = "begin" /\ op[t].name \in ManyLocks
  BY <1>1 DEF Calls, AskEmailLock, ManyLocks
<1>3. c \in Call(Section)
  BY <1>2, ZenonT(60) DEF Call
<1>4. /\ Keeps(op[t], c) /\ c.pc = "begin" /\ c.res = op[t].res /\ c.email = e
      /\ c.todo = op[t].todo /\ c.answer = op[t].answer
  BY <1>2 DEF Call, Keeps
<1>. HIDE DEF c
<1>5. Calls' /\ op'[t] = c /\ \A u \in Thread \ {t} : op'[u] = op[u]
  BY <1>2, <1>3, OneCall
<1>. QED
  BY <1>1, <1>2, <1>4, <1>5

(* The locals fit the place.                                               *)
LEMMA StepGood ==
    ASSUME LInv, NEW t \in Thread, StoreStep(t)
    PROVE  /\ Calls' /\ \A u \in Thread \ {t} : op'[u] = op[u]
           /\ Keeps(op[t], op'[t]) /\ GoodCall(op[t])' /\ op'[t].pc # "idle"
           /\ ~AskEmailLock(t) => SameArguments(op[t], op'[t])
<1>. DEFINE c == op[t]
            Same == /\ Calls' /\ \A u \in Thread \ {t} : op'[u] = op[u]
                    /\ SameArguments(op[t], op'[t]) /\ GoodCall(op[t])' /\ op'[t].pc # "idle"
<1>. USE CallFacts DEF Unsupported
<1>1. c.pc \notin {"idle", "done"}
  BY StepRuns
<1>20. CASE AskEmailLock(t)
  <2>1. /\ Calls' /\ (\A u \in Thread \ {t} : op'[u] = op[u]) /\ Keeps(c, op'[t])
        /\ op'[t].pc = "begin" /\ op'[t].res = "none" /\ c.name = "QueryReflectsByEmails"
    BY <1>20, AskEmailMoves DEF GoodCall, ManyLocks
  <2>2. GoodCall(op[t])'
    BY <1>1, <2>1 DEF Keeps, GoodCall, TakesAddress, TakesEmail, TakesToken, Mutator
  <2>. QED
    BY <1>20, <2>1, <2>2
<1>21. SUFFICES ASSUME ~AskEmailLock(t) PROVE Same
  BY <1>20 DEF Keeps, SameArguments
<1>2. ASSUME NEW place \in {"release", "done"}, MovesTo(t, place),
             \/ op'[t].res \in {"ok", "err"} /\ c.name \notin Unsupported
             \/ op'[t].res = "none" /\ c.name \in ManyLocks /\ place = "release"
             \/ op'[t].res = "panic" /\ c.name \in Unsupported /\ place = "done"
      PROVE  Same
  BY <1>1, <1>2 DEF MovesTo, SameArguments, GoodCall, ManyLocks
<1>3. ASSUME Leave(t, "release", "ok") \/ Leave(t, "release", "err"), c.name \notin Unsupported
      PROVE  Same
  BY <1>2, <1>3, LeaveMoves DEF Section
<1>4. c.name \in Mutator => account[c.addr] \in Doc
  OBVIOUS
<1>5. CASE AskLock(t) \/ TakeLock(t) \/ Unlock(t)
  BY <1>1, <1>5 DEF AskLock, TakeLock, Unlock, Calls, SameArguments
<1>6. CASE DropOuter(t)
  <2>1. CASE c.res = "none"
    <3>1. MovesTo(t, "begin") /\ op'[t].res = "none" /\ c.name = "QueryReflectsByEmails"
      BY <1>6, <2>1, DropOuterMoves DEF DropOuter, GoodCall, ManyLocks
    <3>. QED
      BY <1>1, <3>1
      DEF MovesTo, SameArguments, GoodCall, TakesAddress, TakesEmail, TakesToken, Mutator
  <2>2. CASE c.res # "none"
    <3>1. MovesTo(t, "done") /\ op'[t].res = c.res
      BY <1>6, <2>2, DropOuterMoves
    <3>2. c.name \notin Unsupported /\ c.res \in {"ok", "err"}
      BY <1>6, <2>2 DEF DropOuter, GoodCall
    <3>. QED
      BY <1>2, <3>1, <3>2
  <2>. QED
    BY <2>1, <2>2
<1>19. CASE QueryAccountRead(t) \/ ReadReflectOf(t)
  <2>1. c.name \in {"QueryAccount", "QueryReflectsByEmails"}
    BY <1>19 DEF QueryAccountRead, ReadReflectOf, HasOuter
  <2>. QED
    BY <1>2, <1>19, <2>1, QueryMoves
<1>7. CASE DropInner(t)
  <2>1. c.pc \in {"leaveEmail", "leaveOld"} /\ c.name \in {"UpdateBinding", "DeleteBinding"}
        /\ c.res \in {"none", "err"} /\ (c.pc = "leaveOld" => c.name = "UpdateBinding")
    BY <1>7 DEF DropInner, GoodCall
  <2>. DEFINE place == AfterInner(c)
  <2>2. /\ MovesTo(t, place) /\ op'[t].owner = c.owner
        /\ op'[t].res = IF place = "release" /\ c.res = "none" THEN "ok" ELSE c.res
    BY <1>7, DropInnerMoves
  <2>3. /\ place \in {"release", "old", "write"}
        /\ place # "release" => c.res = "none"
        /\ place = "old" => /\ c.name = "UpdateBinding" /\ c.owner \in Address /\ c.owner # c.addr
    BY <2>1 DEF AfterInner
  <2>. HIDE DEF place
  <2>4. CASE place = "release"
    BY <1>2, <2>1, <2>2, <2>4
  <2>5. CASE place = "old"
    BY <1>1, <2>1, <2>2, <2>3, <2>5 DEF MovesTo, SameArguments, GoodCall
  <2>6. CASE place = "write"
    BY <1>1, <2>1, <2>2, <2>3, <2>6 DEF MovesTo, SameArguments, GoodCall
  <2>. QED
    BY <2>3, <2>4, <2>5, <2>6
<1>8. CASE ReadReflect(t)
  BY <1>2, <1>8, ReadReflectMoves DEF ReadReflect, HasOuter
<1>9. CASE ActiveAccountRead(t) \/ UpdateAccountLevelRead(t)
  <2>1. c.name \in {"ActiveAccount", "UpdateAccountLevel"} /\ c.pc = "begin" /\ c.name \in Mutator
    BY <1>9 DEF ActiveAccountRead, UpdateAccountLevelRead, HasOuter, Mutator
  <2>2. ASSUME Load(t, "write") PROVE Same
    <3>1. MovesTo(t, "write") /\ op'[t].res = "none"
      BY <1>4, <2>1, <2>2, LoadMoves DEF Section, GoodCall
    <3>. QED
      BY <1>1, <2>1, <3>1 DEF MovesTo, SameArguments, GoodCall
  <2>. QED
    BY <1>3, <1>9, <2>1, <2>2 DEF ActiveAccountRead, UpdateAccountLevelRead
<1>10. CASE UpdateBindingRead(t) \/ DeleteBindingRead(t)
  <2>1. c.name \in {"UpdateBinding", "DeleteBinding"} /\ c.pc = "begin" /\ c.name \in Mutator
    BY <1>10 DEF UpdateBindingRead, DeleteBindingRead, HasOuter, Mutator
  <2>2. ASSUME Load(t, "email") PROVE Same
    <3>1. MovesTo(t, "email") /\ op'[t].res = "none"
      BY <1>4, <2>1, <2>2, LoadMoves DEF Section, GoodCall
    <3>. QED
      BY <1>1, <2>1, <3>1 DEF MovesTo, SameArguments, GoodCall
  <2>. QED
    BY <1>3, <1>10, <2>1, <2>2 DEF UpdateBindingRead, DeleteBindingRead
<1>11. CASE ActiveAccountWrite(t) \/ UpdateAccountLevelWrite(t) \/ UpdateBindingWrite(t)
            \/ DeleteBindingWrite(t)
  BY <1>3, <1>11 DEF ActiveAccountWrite, UpdateAccountLevelWrite, UpdateBindingWrite,
     DeleteBindingWrite, WriteAccount
<1>12. ASSUME NEW place \in {"leaveEmail", "leaveOld"}, MovesTo(t, place),
              op'[t].res \in {"none", "err"}, op'[t].owner = c.owner,
              c.pc \in (IF place = "leaveEmail" THEN {"email", "setEmail"} ELSE {"old", "setOld"})
       PROVE  Same
  BY <1>1, <1>12 DEF MovesTo, SameArguments, GoodCall
<1>13. CASE ReadEmail(t)
  <2>1. c.pc = "email" /\ c.name = "UpdateBinding" /\ c.res = "none" /\ c.email \in Email
    BY <1>13 DEF ReadEmail, HasInner, GoodCall
  <2>2. CASE op' = [op EXCEPT ![t].pc = "leaveEmail"]
    BY <1>12, <2>1, <2>2, PlaceMoves DEF Section
  <2>3. CASE op' = [op EXCEPT ![t].pc = "setEmail", ![t].owner = reflect[c.email]]
    <3>1. MovesTo(t, "setEmail") /\ op'[t].res = "none"
      BY <2>1, <2>3, OwnerMoves, ZenonT(60) DEF Section
    <3>. QED
      BY <1>1, <2>1, <3>1 DEF MovesTo, SameArguments, GoodCall
  <2>. QED
    BY <1>13, <2>2, <2>3 DEF ReadEmail
<1>14. CASE WriteEmail(t) \/ DeleteEmail(t)
  <2>1. c.pc \in {"email", "setEmail"} /\ op' = [op EXCEPT ![t].pc = "leaveEmail"] /\ c.res = "none"
    BY <1>14 DEF WriteEmail, DeleteEmail, HasInner, GoodCall
  <2>. QED
    BY <1>12, <2>1, PlaceMoves DEF Section
<1>15. CASE ReadOld(t)
  <2>1. c.pc = "old" /\ c.res = "none"
        /\ \E place \in {"setOld", "leaveOld"} : op' = [op EXCEPT ![t].pc = place]
    BY <1>15 DEF ReadOld, HasInner, GoodCall
  <2>2. PICK place \in {"setOld", "leaveOld"} : op' = [op EXCEPT ![t].pc = place]
    BY <2>1
  <2>3. MovesTo(t, place) /\ op'[t].res = "none" /\ op'[t].owner = c.owner
    BY <2>1, <2>2, PlaceMoves DEF Section
  <2>. QED
    BY <1>1, <2>1, <2>3 DEF MovesTo, SameArguments, GoodCall
<1>16. CASE WriteOld(t)
  <2>1. c.pc = "setOld" /\ op' = [op EXCEPT ![t].pc = "leaveOld"] /\ c.res = "none"
    BY <1>16 DEF WriteOld, GoodCall
  <2>. QED
    BY <1>12, <2>1, PlaceMoves DEF Section
<1>17. CASE AccessFails(t)
  <2>1. CASE c.pc \in {"email", "setEmail"} /\ Leave(t, "leaveEmail", "err")
    BY <1>12, <2>1, LeaveMoves DEF Section
  <2>2. CASE c.pc \in {"old", "setOld"} /\ Leave(t, "leaveOld", "err")
    BY <1>12, <2>2, LeaveMoves DEF Section
  <2>3. CASE Leave(t, "release", "err") /\ (c.pc = "write" \/ lockPc[Outer(t)] = "held")
    BY <1>3, <2>3 DEF GoodCall, Locked
  <2>. QED
    BY <1>17, <2>1, <2>2, <2>3 DEF AccessFails
<1>18. CASE ReturnNil(t) \/ Panic(t)
  BY <1>2, <1>18, LeaveMoves DEF ReturnNil, Panic, Stub
<1>. QED
  BY <1>5, <1>6, <1>7, <1>8, <1>9, <1>10, <1>11, <1>13, <1>14, <1>15, <1>16, <1>17, <1>18,
     <1>19, <1>21
  DEF StoreStep, LockStep, QueryStep, BindStep, UnbindStep, LevelStep

(* Reads and writes of the store, from place to place, with the locks held.*)
LEMMA DataPlaces ==
    ASSUME LInv, NEW t \in Thread, StoreStep(t), ~LockStep(t)
    PROVE  LET c == op[t]
               place == op'[t].pc
               inner == lockPc[Inner(t)] = "held"
           IN  /\ UNCHANGED locks
               /\ \/ c.pc = "begin" /\ lockPc[Outer(t)] = "held"
                     /\ place \in {"release", "write", "email"}
                  \/ c.pc = "begin" /\ lockPc[Outer(t)] = "idle" /\ place = "done"
                  \/ c.pc = "write" /\ place = "release"
                  \/ c.pc = "email" /\ inner /\ place \in {"setEmail", "leaveEmail"}
                  \/ c.pc = "setEmail" /\ place = "leaveEmail"
                  \/ /\ c.pc = "old" /\ inner /\ place \in {"setOld", "leaveOld"}
                     /\ op'[t].owner = c.owner
                  \/ c.pc = "setOld" /\ place = "leaveOld"
<1>. DEFINE c == op[t]
            place == op'[t].pc
<1>. USE CallFacts
<1>1. CASE QueryAccountRead(t) \/ ReadReflectOf(t)
  BY <1>1, QueryMoves DEF QueryAccountRead, ReadReflectOf, HasOuter, MovesTo, locks
<1>2. c.name \in Mutator => account[c.addr] \in Doc
  OBVIOUS
<1>3. ASSUME NEW p \in Section \cup {"done"}, NEW res \in {"none", "ok", "err", "panic"},
             Leave(t, p, res)
      PROVE  place = p /\ op'[t].owner = c.owner
  BY <1>3, LeaveMoves DEF MovesTo
<1>4. ASSUME NEW p \in Section, op' = [op EXCEPT ![t].pc = p]
      PROVE  place = p /\ op'[t].owner = c.owner
  BY <1>4, PlaceMoves DEF MovesTo
<1>5. CASE ReadReflect(t)
  BY <1>5, ReadReflectMoves DEF ReadReflect, HasOuter, MovesTo
<1>6. ASSUME NEW p \in {"write", "email"}, Load(t, p), c.pc = "begin", c.name \in Mutator
      PROVE  place = p
  BY <1>2, <1>6, LoadMoves DEF MovesTo, Section
<1>7. CASE ActiveAccountRead(t) \/ UpdateAccountLevelRead(t) \/ UpdateBindingRead(t)
           \/ DeleteBindingRead(t)
  BY <1>3, <1>6, <1>7 DEF ActiveAccountRead, UpdateAccountLevelRead, UpdateBindingRead,
     DeleteBindingRead, HasOuter, Mutator, Section, locks
<1>8. CASE ActiveAccountWrite(t) \/ UpdateAccountLevelWrite(t) \/ UpdateBindingWrite(t)
            \/ DeleteBindingWrite(t)
  BY <1>3, <1>8 DEF ActiveAccountWrite, UpdateAccountLevelWrite, UpdateBindingWrite,
     DeleteBindingWrite, WriteAccount, Section, locks
<1>9. CASE ReadEmail(t)
  <2>1. /\ c.pc = "email" /\ lockPc[Inner(t)] = "held"
           /\ reflect[c.email] \in Address \cup {NoAddress}
        /\ UNCHANGED locks
    BY <1>9 DEF ReadEmail, HasInner, GoodCall
  <2>2. ASSUME op' = [op EXCEPT ![t].pc = "setEmail", ![t].owner = reflect[c.email]]
        PROVE  place = "setEmail"
    BY <2>1, <2>2, OwnerMoves DEF MovesTo, Section
  <2>. QED
    BY <1>4, <1>9, <2>1, <2>2 DEF ReadEmail, Section
<1>10. CASE WriteEmail(t) \/ DeleteEmail(t) \/ WriteOld(t)
  BY <1>4, <1>10 DEF WriteEmail, DeleteEmail, WriteOld, HasInner, Section, locks
<1>11. CASE ReadOld(t)
  <2>1. \E p \in {"setOld", "leaveOld"} : op' = [op EXCEPT ![t].pc = p]
    BY <1>11 DEF ReadOld
  <2>2. place \in {"setOld", "leaveOld"} /\ op'[t].owner = c.owner
    BY <1>4, <2>1 DEF Section
  <2>. QED
    BY <1>11, <2>2 DEF ReadOld, HasInner
<1>12. CASE AccessFails(t)
  BY <1>3, <1>12 DEF AccessFails, Section
<1>13. CASE ReturnNil(t) \/ Panic(t)
  BY <1>3, <1>13 DEF ReturnNil, Panic, Locked
<1>. QED
  BY <1>1, <1>5, <1>7, <1>8, <1>9, <1>10, <1>11, <1>12, <1>13
  DEF StoreStep, LockStep, QueryStep, BindStep, UnbindStep, LevelStep

(* The keys of the locks of a call.                                        *)
LEMMA KeysTyped ==
    ASSUME NEW c \in Call(Section), GoodCall(c)
    PROVE  /\ c.pc \notin {"idle", "done"} /\ c.name \notin Stub \cup Unsupported \cup ManyLocks =>
                 OuterKey(c) \in Key
           /\ c.pc \in {"email", "old"} => InnerKey(c) \in Key
<1>1. ASSUME c.pc \notin {"idle", "done"}, c.name \notin Stub \cup Unsupported \cup ManyLocks
      PROVE  c.name \in Mutator \cup {"QueryAccount", "QueryReflectByOneEmail"}
  BY <1>1 DEF GoodCall, Call, Method, Mutator, Stub, Unsupported, ManyLocks
<1>. QED
  BY <1>1 DEF GoodCall, OuterKey, InnerKey, AccountKey, EmailKey, Key, Mutator, TakesAddress,
     TakesEmail

LEMMA EmailKeyTyped == \A e \in Email : EmailKey(e) \in Key
BY DEF EmailKey, Key

(* A step moves the locks of its own call only, and they fit its place.    *)
LEMMA StepLocked ==
    ASSUME LInv, NEW t \in Thread, StoreStep(t)
    PROVE  /\ Locks!TypeOK' /\ Locked(t)'
           /\ \A h \in Holder \ {Outer(t), Inner(t)} :
                 lockPc'[h] = lockPc[h] /\ lockKey'[h] = lockKey[h]
<1>. DEFINE c == op[t]
            Frame == \A h \in Holder \ {Outer(t), Inner(t)} :
                        lockPc'[h] = lockPc[h] /\ lockKey'[h] = lockKey[h]
<1>. USE CallFacts
<1>1. /\ Locks!TypeOK /\ Outer(t) \in Holder /\ Inner(t) \in Holder /\ Outer(t) # Inner(t)
  BY Holders DEF LInv, TypeOK, StoreTypeOK
<1>2. Keeps(c, op'[t]) /\ (~AskEmailLock(t) => SameArguments(c, op'[t]))
      /\ c.pc \notin {"idle", "done"}
  BY StepGood, StepRuns
<1>3. /\ op'[t].name = c.name
      /\ ~AskEmailLock(t) => KeyOf(op'[t]) = KeyOf(c) /\ op'[t].email = c.email
  BY <1>2 DEF Keeps, SameArguments, KeyOf, OuterKey
<1>4. CASE ~LockStep(t)
  <2>1. lockPc' = lockPc /\ lockKey' = lockKey /\ UNCHANGED locks
    BY <1>4, DataPlaces DEF locks
  <2>2. Locks!TypeOK'
    BY <1>1, <2>1 DEF Locks!TypeOK, locks
  <2>3. Locked(t)'
    BY <1>3, <1>4, <2>1, DataPlaces DEF Locked, Inside, LockStep
  <2>. QED
    BY <2>1, <2>2, <2>3
<1>5. CASE AskLock(t)
  <2>1. op' = op
    BY <1>5 DEF AskLock
  <2>2. CASE /\ c.pc = "begin" /\ c.name \notin Stub \cup Unsupported \cup ManyLocks
             /\ Locks!LoadOrStore(Outer(t), OuterKey(c))
    <3>1. /\ lockPc' = [lockPc EXCEPT ![Outer(t)] = "lock"]
          /\ lockKey' = [lockKey EXCEPT ![Outer(t)] = OuterKey(c)] /\ OuterKey(c) \in Key
      BY <2>2, KeysTyped DEF Locks!LoadOrStore
    <3>2. Locks!TypeOK'
      BY <1>1, <2>2, <3>1 DEF Locks!LoadOrStore, Locks!TypeOK, Locks!Fresh, Locks!Place
    <3>3. Locked(t)'
      BY <1>1, <2>1, <2>2, <3>1 DEF Locked, Inside, KeyOf
    <3>. QED
      BY <3>1, <3>2, <3>3
  <2>3. CASE c.pc \in {"email", "old"} /\ Locks!LoadOrStore(Inner(t), InnerKey(c))
    <3>1. /\ lockPc' = [lockPc EXCEPT ![Inner(t)] = "lock"]
          /\ lockKey' = [lockKey EXCEPT ![Inner(t)] = InnerKey(c)] /\ InnerKey(c) \in Key
      BY <2>3, KeysTyped DEF Locks!LoadOrStore
    <3>2. Locks!TypeOK'
      BY <1>1, <2>3, <3>1 DEF Locks!LoadOrStore, Locks!TypeOK, Locks!Fresh, Locks!Place
    <3>3. Locked(t)'
      BY <1>1, <2>1, <2>3, <3>1 DEF Locked, Inside, InnerKey
    <3>. QED
      BY <3>1, <3>2, <3>3
  <2>. QED
    BY <1>5, <2>2, <2>3 DEF AskLock
<1>6. CASE TakeLock(t)
  <2>1. op' = op
    BY <1>6 DEF TakeLock
  <2>2. PICK h \in {Outer(t), Inner(t)} : Locks!Lock(h)
    BY <1>6 DEF TakeLock
  <2>3. lockPc[h] = "lock" /\ lockPc' = [lockPc EXCEPT ![h] = "held"] /\ lockKey' = lockKey
    BY <2>2 DEF Locks!Lock
  <2>4. Locks!TypeOK'
    BY <1>1, <2>2, <2>3 DEF Locks!Lock, Locks!TypeOK, Locks!Place
  <2>5. Locked(t)'
    BY <1>1, <2>1, <2>3 DEF Locked, Inside
  <2>. QED
    BY <2>3, <2>4, <2>5
<1>7. CASE Unlock(t)
  <2>1. op' = op
    BY <1>7 DEF Unlock
  <2>2. PICK h \in {Outer(t), Inner(t)} :
           /\ Locks!Unlock(h)
           /\ h = Outer(t) => c.pc = "release"
           /\ h = Inner(t) => c.pc \in {"leaveEmail", "leaveOld"}
    BY <1>1, <1>7 DEF Unlock
  <2>3. lockPc' = [lockPc EXCEPT ![h] = "delete"] /\ lockKey' = lockKey
    BY <2>2 DEF Locks!Unlock
  <2>4. Locks!TypeOK'
    BY <1>1, <2>2, <2>3 DEF Locks!Unlock, Locks!TypeOK, Locks!Place
  <2>5. Locked(t)'
    BY <1>1, <2>1, <2>2, <2>3 DEF Locked, Inside
  <2>. QED
    BY <2>3, <2>4, <2>5
<1>8. CASE DropOuter(t)
  <2>1. /\ lockPc' = [lockPc EXCEPT ![Outer(t)] = "idle"]
        /\ lockKey' = [lockKey EXCEPT ![Outer(t)] = NoKey]
        /\ c.pc = "release" /\ Locks!Delete(Outer(t))
    BY <1>8 DEF DropOuter, Locks!Delete
  <2>2. op'[t].pc \in {"begin", "done"}
    BY <1>8, DropOuterMoves DEF MovesTo
  <2>3. Locks!TypeOK'
    BY <1>1, <2>1 DEF Locks!Delete, Locks!TypeOK, Locks!Place
  <2>4. Locked(t)'
    BY <1>1, <2>1, <2>2 DEF Locked, Inside
  <2>. QED
    BY <2>1, <2>3, <2>4
<1>9. CASE DropInner(t)
  <2>1. /\ lockPc' = [lockPc EXCEPT ![Inner(t)] = "idle"]
        /\ lockKey' = [lockKey EXCEPT ![Inner(t)] = NoKey]
        /\ c.pc \in {"leaveEmail", "leaveOld"} /\ Locks!Delete(Inner(t))
    BY <1>9 DEF DropInner, Locks!Delete
  <2>2. op'[t].pc \in {"release", "old", "write"}
    BY <1>9, DropInnerMoves DEF MovesTo, AfterInner
  <2>3. Locks!TypeOK'
    BY <1>1, <2>1 DEF Locks!Delete, Locks!TypeOK, Locks!Place
  <2>4. Locked(t)'
    <3>1. ~AskEmailLock(t)
      BY <2>1 DEF AskEmailLock
    <3>. QED
      BY <1>1, <1>3, <2>1, <2>2, <3>1 DEF Locked, Inside
  <2>. QED
    BY <2>1, <2>3, <2>4
<1>10. CASE AskEmailLock(t)
  <2>. DEFINE k == EmailKey(op'[t].email)
  <2>1. /\ op'[t].pc = "begin" /\ c.pc = "begin" /\ op'[t].email \in Email /\ c.name \in ManyLocks
        /\ op'[t].name = c.name /\ Locks!LoadOrStore(Outer(t), k)
        /\ op'[t].email \in op'[t].todo
    BY <1>10, AskEmailMoves DEF Keeps
  <2>2. /\ lockPc' = [lockPc EXCEPT ![Outer(t)] = "lock"]
        /\ lockKey' = [lockKey EXCEPT ![Outer(t)] = k] /\ k \in Key
    BY <2>1, EmailKeyTyped DEF Locks!LoadOrStore
  <2>3. Locks!TypeOK'
    BY <1>1, <2>1, <2>2 DEF Locks!LoadOrStore, Locks!TypeOK, Locks!Fresh, Locks!Place
  <2>4. KeyOf(op'[t]) = k /\ c.name \notin Stub \cup Unsupported
    BY <2>1 DEF KeyOf, ManyLocks, Stub, Unsupported
  <2>. HIDE DEF k
  <2>5. Locked(t)'
    BY <1>1, <2>1, <2>2, <2>4 DEF Locked, Inside
  <2>. QED
    BY <2>2, <2>3, <2>5
<1>. QED
  BY <1>4, <1>5, <1>6, <1>7, <1>8, <1>9, <1>10 DEF LockStep

(* What a query answers, e-mail by e-mail, and that it changes nothing.    *)
Answers(c, d) ==
    /\ c.email \in c.todo /\ d.todo = c.todo \ {c.email}
    /\ d.answer = c.answer \cup ({<<c.email, reflect[c.email]>>} \ {<<c.email, NoAddress>>})
    /\ d.res = "ok" => d.todo = {}

LEMMA QueryAnswers ==
    ASSUME LInv, NEW t \in Thread, StoreStep(t),
           op[t].name \in {"QueryAccount", "QueryReflectByOneEmail", "QueryReflectsByEmails"}
    PROVE  LET c == op[t]
               d == op'[t]
           IN  /\ UNCHANGED <<account, reflect>>
               /\ \/ /\ d.todo = c.todo /\ d.answer = c.answer /\ d.owner = c.owner
                     /\ d.res \in {c.res, "err"}
                  \/ c.name = "QueryAccount"
                  \/ c.name = "QueryReflectByOneEmail" /\ d.owner = reflect[c.email]
                  \/ c.name = "QueryReflectsByEmails" /\ Answers(c, d)
<1>. DEFINE c == op[t]
            d == op'[t]
            Still == /\ d.todo = c.todo /\ d.answer = c.answer /\ d.owner = c.owner
                     /\ d.res \in {c.res, "err"}
            Goal == /\ UNCHANGED <<account, reflect>>
                    /\ \/ Still
                       \/ c.name = "QueryAccount"
                       \/ (c.name = "QueryReflectByOneEmail" /\ d.owner = reflect[c.email])
                       \/ (c.name = "QueryReflectsByEmails" /\ Answers(c, d))
<1>0. /\ Calls /\ GoodCall(c) /\ Locked(t) /\ c \in Call(Section) /\ c.pc \notin {"idle", "done"}
      /\ c.name \in {"QueryAccount", "QueryReflectByOneEmail", "QueryReflectsByEmails"}
  BY CallFacts, StepRuns
<1>1. c.pc \in {"begin", "release"}
  BY <1>0 DEF GoodCall, Call, Section
<1>2. CASE LockStep(t)
  <2>1. ~DropInner(t) /\ UNCHANGED <<account, reflect>>
    BY <1>1, <1>2 DEF LockStep, AskLock, AskEmailLock, TakeLock, Unlock, DropOuter, DropInner
  <2>2. CASE DropOuter(t)
    BY <1>0, <2>1, <2>2 DEF DropOuter, Calls, Call
  <2>3. CASE AskEmailLock(t)
    BY <1>0, <2>1, <2>3 DEF AskEmailLock, Calls, Call
  <2>. QED
    BY <1>2, <2>1, <2>2, <2>3 DEF LockStep, AskLock, TakeLock, Unlock
<1>3. CASE QueryAccountRead(t)
  BY <1>3 DEF QueryAccountRead, HasOuter
<1>4. CASE ReadReflect(t)
  BY <1>4, ReadReflectMoves DEF ReadReflect, HasOuter
<1>5. CASE ReadReflectOf(t)
  <2>. DEFINE rest == c.todo \ {c.email}
              answer == c.answer \cup ({<<c.email, reflect[c.email]>>} \ {<<c.email, NoAddress>>})
              res == IF rest = {} THEN "ok" ELSE "none"
  <2>1. /\ op' = [op EXCEPT ![t].pc = "release", ![t].todo = rest, ![t].answer = answer,
                              ![t].res = res]
        /\ c.name = "QueryReflectsByEmails" /\ UNCHANGED <<account, reflect>>
        /\ c.pc = "begin" /\ lockPc[Outer(t)] = "held"
    BY <1>5 DEF ReadReflectOf, HasOuter
  <2>2. c.email \in c.todo
    BY <1>0, <2>1 DEF Locked, ManyLocks
  <2>. HIDE DEF rest, answer, res
  <2>3. d.todo = rest /\ d.answer = answer /\ d.res = res
    BY <1>0, <2>1 DEF Calls, Call
  <2>4. d.res = "ok" => d.todo = {}
    BY <2>3 DEF res
  <2>5. Answers(c, d)
    BY <2>2, <2>3, <2>4 DEF Answers, rest, answer
  <2>. QED
    BY <2>1, <2>5
<1>6. CASE AccessFails(t)
  <2>1. op' = [op EXCEPT ![t].pc = "release", ![t].res = "err"] /\ UNCHANGED <<account, reflect>>
    BY <1>1, <1>6 DEF AccessFails, Leave
  <2>. QED
    BY <1>0, <2>1 DEF Calls, Call
<1>7. LockStep(t) \/ QueryStep(t) \/ AccessFails(t)
  BY <1>0, <1>1 DEF StoreStep, BindStep, UpdateBindingRead, ReadEmail, WriteEmail, ReadOld,
     WriteOld,
     UpdateBindingWrite, UnbindStep, DeleteBindingRead, DeleteEmail, DeleteBindingWrite,
     LevelStep,
     ActiveAccountRead, ActiveAccountWrite, UpdateAccountLevelRead, UpdateAccountLevelWrite,
     HasOuter, HasInner, WriteAccount, ReturnNil, Panic, Stub, Unsupported
<1>. QED
  BY <1>2, <1>3, <1>4, <1>5, <1>6, <1>7 DEF QueryStep

-----------------------------------------------------------------------------
(* What a step does to the tables.                                         *)

(* The account that a call is about to write.                              *)
Writes(t, a) ==
    \/ op[t].pc = "write" /\ a = op[t].addr
    \/ op[t].pc = "setOld" /\ a = op[t].owner

LEMMA DataMoves ==
    ASSUME LInv, NEW t \in Thread, StoreStep(t)
    PROVE  /\ account' \in [Address -> Doc] /\ old' \in [Thread -> Doc]
           /\ reflect' \in [Email -> Address \cup {NoAddress}]
           /\ \A u \in Thread \ {t} : old'[u] = old[u]
           /\ \A a \in Address : account'[a] = account[a] \/ (Writes(t, a) /\ UNCHANGED locks)
<1>. DEFINE c == op[t]
            Tables == /\ account' \in [Address -> Doc]
                      /\ \A a \in Address :
                            account'[a] = account[a] \/ (Writes(t, a) /\ UNCHANGED locks)
            Locals == old' \in [Thread -> Doc] /\ \A u \in Thread \ {t} : old'[u] = old[u]
            Reflects == reflect' \in [Email -> Address \cup {NoAddress}]
<1>. USE CallFacts
<1>1. UNCHANGED account => Tables
  OBVIOUS
<1>2. UNCHANGED old => Locals
  OBVIOUS
<1>3. UNCHANGED reflect => Reflects
  OBVIOUS
<1>4. ASSUME NEW doc \in Doc, NEW n \in Mutator, WriteAccount(t, n, doc)
      PROVE  Tables /\ Locals /\ Reflects
  BY <1>2, <1>3, <1>4 DEF WriteAccount, Writes, GoodCall, locks
<1>5. c.pc = "write" => NewDoc(c.level) \in Doc /\ [c.doc EXCEPT !.level = c.level] \in Doc
  BY DocTyped, LevelTyped
<1>6. c.name \in {"UpdateBinding", "DeleteBinding"} =>
         /\ [c.doc EXCEPT !.emails = @ \cup {c.email}] \in Doc
         /\ [c.doc EXCEPT !.emails = @ \ {c.email}] \in Doc
  BY DEF GoodCall, Doc
<1>7. CASE ActiveAccountWrite(t)
  <2>1. WriteAccount(t, "ActiveAccount", NewDoc(c.level)) /\ c.pc = "write"
    BY <1>7 DEF ActiveAccountWrite, WriteAccount
  <2>. QED
    BY <1>4, <1>5, <2>1 DEF Mutator
<1>8. CASE UpdateAccountLevelWrite(t)
  <2>1. WriteAccount(t, "UpdateAccountLevel", [c.doc EXCEPT !.level = c.level]) /\ c.pc = "write"
    BY <1>8 DEF UpdateAccountLevelWrite, WriteAccount
  <2>. QED
    BY <1>4, <1>5, <2>1 DEF Mutator
<1>9. CASE UpdateBindingWrite(t)
  <2>1. /\ WriteAccount(t, "UpdateBinding", [c.doc EXCEPT !.emails = @ \cup {c.email}])
        /\ c.name = "UpdateBinding"
    BY <1>9 DEF UpdateBindingWrite, WriteAccount
  <2>. QED
    BY <1>4, <1>6, <2>1 DEF Mutator
<1>10. CASE DeleteBindingWrite(t)
  <2>1. /\ WriteAccount(t, "DeleteBinding", [c.doc EXCEPT !.emails = @ \ {c.email}])
        /\ c.name = "DeleteBinding"
    BY <1>10 DEF DeleteBindingWrite, WriteAccount
  <2>. QED
    BY <1>4, <1>6, <2>1 DEF Mutator
<1>11. CASE WriteEmail(t) \/ DeleteEmail(t)
  <2>1. c.email \in Email /\ c.addr \in Address /\ UNCHANGED <<account, old>>
        /\ \E owner \in {c.addr, NoAddress} : reflect' = [reflect EXCEPT ![c.email] = owner]
    BY <1>11 DEF WriteEmail, DeleteEmail, HasInner, GoodCall, Mutator
  <2>. QED
    BY <1>1, <1>2, <2>1
<1>12. CASE ReadOld(t)
  <2>1. c.owner \in Address /\ UNCHANGED <<account, reflect>>
        /\ old' = [old EXCEPT ![t] = account[c.owner]]
    BY <1>12 DEF ReadOld, HasInner, GoodCall
  <2>. QED
    BY <1>1, <1>3, <2>1
<1>13. CASE WriteOld(t)
  <2>. DEFINE doc == [old[t] EXCEPT !.emails = @ \ {c.email}]
  <2>1. c.pc = "setOld" /\ c.owner \in Address /\ UNCHANGED <<reflect, old, locks>>
        /\ account' = [account EXCEPT ![c.owner] = doc]
    BY <1>13 DEF WriteOld, GoodCall, locks
  <2>2. doc \in Doc
    BY DEF Doc
  <2>. HIDE DEF doc
  <2>. QED
    BY <1>2, <1>3, <2>1, <2>2 DEF Writes
<1>14. CASE DropInner(t)
  <2>1. UNCHANGED <<account, reflect>> /\ old' = [old EXCEPT ![t] = NoDoc]
    BY <1>14 DEF DropInner, data
  <2>. QED
    BY <1>1, <1>3, <2>1, DocTyped
<1>15. CASE AskLock(t) \/ AskEmailLock(t) \/ TakeLock(t) \/ Unlock(t) \/ DropOuter(t)
  BY <1>1, <1>2, <1>3, <1>15 DEF AskLock, AskEmailLock, TakeLock, Unlock, DropOuter
<1>16. CASE QueryStep(t) \/ AccessFails(t) \/ ReturnNil(t) \/ Panic(t) \/ ReadEmail(t)
            \/ ActiveAccountRead(t) \/ UpdateAccountLevelRead(t) \/ UpdateBindingRead(t)
            \/ DeleteBindingRead(t)
  BY <1>1, <1>2, <1>3, <1>16 DEF QueryStep, QueryAccountRead, ReadReflect, ReadReflectOf,
     AccessFails,
     ReturnNil, Panic, ReadEmail, ActiveAccountRead, UpdateAccountLevelRead, UpdateBindingRead,
     DeleteBindingRead
<1>. QED
  BY <1>7, <1>8, <1>9, <1>10, <1>11, <1>12, <1>13, <1>14, <1>15, <1>16
  DEF StoreStep, LockStep, BindStep, UnbindStep, LevelStep

(* A step makes at most one write.                                         *)
LEMMA StepWrites ==
    ASSUME NEW t \in Thread, StoreStep(t)
    PROVE  LET c == op[t]
           IN  \/ UNCHANGED data
               \/ c.pc = "setEmail" /\ UNCHANGED account
                  /\ reflect' = [reflect EXCEPT ![c.email] = c.addr]
               \/ c.pc = "email" /\ c.name = "DeleteBinding" /\ UNCHANGED account
                  /\ reflect' = [reflect EXCEPT ![c.email] = NoAddress]
               \/ c.pc = "setOld" /\ UNCHANGED reflect
                  /\ account' = [account EXCEPT ![c.owner] = [old[t] EXCEPT !.emails = @ \ {c.email}]]
               \/ ActiveAccountWrite(t) \/ UpdateAccountLevelWrite(t)
               \/ UpdateBindingWrite(t) \/ DeleteBindingWrite(t)
<1>1. CASE LockStep(t)
  BY <1>1 DEF LockStep, AskLock, AskEmailLock, TakeLock, Unlock, DropOuter, DropInner, data
<1>2. CASE QueryStep(t) \/ AccessFails(t) \/ ReturnNil(t) \/ Panic(t)
  BY <1>2 DEF QueryStep, QueryAccountRead, ReadReflect, ReadReflectOf, AccessFails, ReturnNil,
     Panic, data
<1>3. CASE BindStep(t)
  BY <1>3 DEF BindStep, UpdateBindingRead, ReadEmail, WriteEmail, ReadOld, WriteOld, data
<1>4. CASE UnbindStep(t)
  BY <1>4 DEF UnbindStep, DeleteBindingRead, DeleteEmail, HasInner, At, data
<1>5. CASE LevelStep(t)
  BY <1>5 DEF LevelStep, ActiveAccountRead, UpdateAccountLevelRead, data
<1>. QED
  BY <1>1, <1>2, <1>3, <1>4, <1>5 DEF StoreStep

(* What a call has read: it has just read it, or it had it before.         *)
LEMMA CopyMoves ==
    ASSUME LInv, NEW t \in Thread, StoreStep(t)
    PROVE  /\ op'[t].pc \in Inside =>
                 \/ /\ op[t].pc \in Inside /\ op'[t].doc = op[t].doc
                    /\ op'[t].res = "none" => op[t].res = "none"
                 \/ /\ op'[t].doc = account[op[t].addr] /\ UNCHANGED account
                    /\ op[t].name = "ActiveAccount" \/ AccountFound(t)
           /\ op'[t].pc = "setOld" =>
                 \/ op' = op /\ UNCHANGED <<old, account>>
                 \/ /\ old'[t] = account[op[t].owner] /\ account[op[t].owner].found
                    /\ op'[t].owner = op[t].owner /\ UNCHANGED account
<1>. DEFINE c == op[t]
            Copies == op'[t].pc \in Inside =>
                         \/ /\ c.pc \in Inside /\ op'[t].doc = c.doc
                            /\ op'[t].res = "none" => c.res = "none"
                         \/ /\ op'[t].doc = account[c.addr] /\ UNCHANGED account
                            /\ c.name = "ActiveAccount" \/ AccountFound(t)
            Olds == op'[t].pc = "setOld" =>
                       \/ op' = op /\ UNCHANGED <<old, account>>
                       \/ /\ old'[t] = account[c.owner] /\ account[c.owner].found
                          /\ op'[t].owner = c.owner /\ UNCHANGED account
<1>. USE CallFacts
<1>1. ASSUME NEW p \in Section \cup {"done"}, NEW res \in {"ok", "err", "panic"}, Leave(t, p, res),
             p # "setOld", p \in Inside => c.pc \in Inside
      PROVE  Copies /\ Olds
  BY <1>1, LeaveMoves DEF MovesTo
<1>2. ASSUME NEW p \in {"write", "email"}, Load(t, p), c.name \in Mutator, UNCHANGED account,
             c.name = "ActiveAccount" \/ AccountFound(t)
      PROVE  Copies /\ Olds
  <2>1. account[c.addr] \in Doc /\ p \in Section
    BY <1>2 DEF GoodCall, Section
  <2>. QED
    BY <1>2, <2>1, LoadMoves DEF MovesTo
<1>3. ASSUME NEW p \in Section, op' = [op EXCEPT ![t].pc = p], c.pc \in Inside, p # "setOld"
      PROVE  Copies /\ Olds
  BY <1>3, PlaceMoves DEF MovesTo
<1>4. CASE AskLock(t) \/ TakeLock(t) \/ Unlock(t)
  <2>1. op' = op /\ UNCHANGED <<old, account>>
    BY <1>4 DEF AskLock, TakeLock, Unlock
  <2>. QED
    BY <2>1
<1>5. CASE DropOuter(t) \/ AskEmailLock(t)
  BY <1>5, DropOuterMoves, AskEmailMoves DEF MovesTo, Inside
<1>6. CASE DropInner(t)
  <2>1. c.pc \in Inside /\ op'[t].pc \in {"release", "old", "write"} /\ op'[t].doc = c.doc
        /\ (op'[t].pc # "release" => op'[t].res = c.res)
    BY <1>6, DropInnerMoves, ZenonT(60) DEF DropInner, MovesTo, AfterInner, Inside
  <2>. QED
    BY <2>1 DEF Inside
<1>7. CASE QueryStep(t)
  BY <1>7, ReadReflectMoves, QueryMoves DEF QueryStep, MovesTo, Inside
<1>8. CASE ActiveAccountRead(t) \/ UpdateAccountLevelRead(t) \/ UpdateBindingRead(t)
           \/ DeleteBindingRead(t)
  BY <1>1, <1>2, <1>8 DEF ActiveAccountRead, UpdateAccountLevelRead, UpdateBindingRead,
     DeleteBindingRead, HasOuter, Mutator, Section, Inside
<1>9. CASE ActiveAccountWrite(t) \/ UpdateAccountLevelWrite(t) \/ UpdateBindingWrite(t)
           \/ DeleteBindingWrite(t)
  BY <1>1, <1>9 DEF ActiveAccountWrite, UpdateAccountLevelWrite, UpdateBindingWrite,
     DeleteBindingWrite, WriteAccount, Section, Inside
<1>10. CASE ReadEmail(t)
  <2>1. c.pc = "email" /\ reflect[c.email] \in Address \cup {NoAddress} /\ c.res = "none"
    BY <1>10 DEF ReadEmail, HasInner, GoodCall
  <2>2. CASE op' = [op EXCEPT ![t].pc = "leaveEmail"]
    BY <1>3, <2>1, <2>2 DEF Section, Inside
  <2>3. CASE op' = [op EXCEPT ![t].pc = "setEmail", ![t].owner = reflect[c.email]]
    BY <2>1, <2>3, OwnerMoves DEF Section, Inside, MovesTo
  <2>. QED
    BY <1>10, <2>2, <2>3 DEF ReadEmail
<1>11. CASE WriteEmail(t) \/ DeleteEmail(t) \/ WriteOld(t)
  BY <1>3, <1>11 DEF WriteEmail, DeleteEmail, WriteOld, HasInner, Section, Inside
<1>12. CASE ReadOld(t)
  <2>. DEFINE p == IF account[c.owner].found THEN "setOld" ELSE "leaveOld"
  <2>1. c.pc = "old" /\ op' = [op EXCEPT ![t].pc = p] /\ UNCHANGED account
        /\ old' = [old EXCEPT ![t] = account[c.owner]] /\ c.res = "none"
    BY <1>12 DEF ReadOld, HasInner, GoodCall
  <2>2. MovesTo(t, p) /\ op'[t].res = c.res /\ op'[t].owner = c.owner /\ op'[t].doc = c.doc
    BY <2>1, PlaceMoves DEF Section
  <2>. QED
    BY <2>1, <2>2 DEF MovesTo, Inside
<1>13. CASE AccessFails(t)
  BY <1>1, <1>13 DEF AccessFails, Section, Inside
<1>14. CASE ReturnNil(t) \/ Panic(t)
  BY <1>1, <1>14 DEF ReturnNil, Panic, Inside
<1>. QED
  BY <1>4, <1>5, <1>6, <1>7, <1>8, <1>9, <1>10, <1>11, <1>12, <1>13, <1>14
  DEF StoreStep, LockStep, BindStep, UnbindStep, LevelStep

-----------------------------------------------------------------------------
(* The invariant is inductive.                                             *)

(* Inside of its locks, a call has the keys of the accounts that it has    *)
(* copies of.                                                              *)
LEMMA HeldKeys ==
    ASSUME LInv, NEW t \in Thread
    PROVE  /\ op[t].pc \in Inside =>
                 /\ Held(Outer(t)) /\ lockKey[Outer(t)] = AccountKey(op[t].addr)
                 /\ op[t].addr \in Address
           /\ op[t].pc = "setOld" =>
                 /\ Held(Inner(t)) /\ lockKey[Inner(t)] = AccountKey(op[t].owner)
                 /\ op[t].owner \in Address /\ op[t].owner # op[t].addr
<1>1. op[t].pc \in Inside => op[t].name \in Mutator \ {"QueryReflectByOneEmail"}
  BY CallFacts DEF GoodCall, Inside, Mutator
<1>2. op[t].pc \in Inside => KeyOf(op[t]) = AccountKey(op[t].addr)
  BY <1>1 DEF KeyOf, OuterKey, ManyLocks, Mutator
<1>. QED
  BY <1>1, <1>2, CallFacts DEF Locked, GoodCall, Inside

(* Two goroutines inside of locks for one key share it.                    *)
LEMMA HeldShared ==
    ASSUME NEW g \in Holder, NEW h \in Holder, g # h, Held(g), Held(h), lockKey[g] = lockKey[h]
    PROVE  h \in Shared
BY DEF Shared

(* A lock that nobody shares keeps everybody else from its account.        *)
LEMMA WriterShares ==
    ASSUME LInv, NEW t \in Thread, NEW a \in Address, Writes(t, a),
           NEW u \in Thread, NEW h \in {Outer(u), Inner(u)}, t # u,
           Held(h), lockKey[h] = AccountKey(a)
    PROVE  h \in Shared
<1>1. \E g \in {Outer(t), Inner(t)} : Held(g) /\ lockKey[g] = AccountKey(a)
  BY HeldKeys DEF Writes, Inside
<1>2. \A g \in {Outer(t), Inner(t)} : g # h /\ g \in Holder /\ h \in Holder
  BY Holders
<1>. QED
  BY <1>1, <1>2, HeldShared

(* A call makes its copy stale in no step of its own.                      *)
LEMMA OwnCopy ==
    ASSUME LInv, NEW t \in Thread, StoreStep(t), op'[t].pc \in Inside, op'[t].res = "none",
           op[t].pc \in Inside /\ op[t].res = "none" => op[t].doc = account[op[t].addr]
    PROVE  op'[t].doc = account'[op[t].addr]
<1>1. CASE UNCHANGED account
  BY <1>1, CopyMoves
<1>2. CASE ~UNCHANGED account
  <2>1. op[t].pc \in Inside /\ op[t].res = "none" /\ op'[t].doc = op[t].doc
    BY <1>2, CopyMoves
  <2>2. ~Writes(t, op[t].addr) \/ account'[op[t].addr] = account[op[t].addr]
    <3>1. CASE op[t].pc = "write"
      <4>1. LockStep(t) => UNCHANGED account
        BY DEF LockStep, AskLock, AskEmailLock, TakeLock, Unlock, DropOuter, DropInner, data
      <4>2. op'[t].pc = "release"
        BY <1>2, <3>1, <4>1, DataPlaces
      <4>. QED
        BY <4>2 DEF Inside
    <3>2. CASE op[t].pc # "write"
      BY <3>2, HeldKeys DEF Writes
    <3>. QED
      BY <3>1, <3>2
  <2>3. op[t].addr \in Address
    BY <2>1, HeldKeys
  <2>. QED
    BY <2>1, <2>2, <2>3, DataMoves
<1>. QED
  BY <1>1, <1>2

LEMMA StepNoLostUpdate ==
    ASSUME LInv, NEW t \in Thread, StoreStep(t), Shared' \subseteq crowded',
           \A h \in crowded : Held(h)' => h \in crowded',
           \A u \in Thread : Locked(u)' /\ GoodCall(op[u])'
    PROVE  NoLostUpdate'
<1>. USE CallFacts
<1>1. ASSUME NEW a \in Address, NEW u \in Thread, NEW h \in {Outer(u), Inner(u)}, u # t,
             Held(h), lockKey[h] = AccountKey(a), h \notin crowded'
      PROVE  account'[a] = account[a]
  <2>. SUFFICES ASSUME Writes(t, a), UNCHANGED locks PROVE FALSE
    BY DataMoves
  <2>1. h \in Shared
    BY <1>1, WriterShares
  <2>2. h \in Shared'
    BY <2>1 DEF Shared, locks
  <2>. QED
    BY <1>1, <2>2
<1>2. \A h \in Holder : Held(h)' /\ h \notin crowded' => h \notin crowded
  OBVIOUS
<1>3. ASSUME NEW u \in Thread, op'[u].pc \in Inside, op'[u].res = "none", Outer(u) \notin crowded'
      PROVE  op'[u].doc = account'[op'[u].addr]
  <2>1. Outer(u) \notin crowded /\ op'[u].addr = op[u].addr
    <3>1. Held(Outer(u))' /\ Outer(u) \in Holder
      BY <1>3, Holders DEF Locked
    <3>. QED
      BY <1>2, <1>3, <3>1, StepGood DEF Keeps
  <2>2. op[u].pc \in Inside /\ op[u].res = "none" => op[u].doc = account[op[u].addr]
    BY <2>1 DEF LInv, NoLostUpdate, CopyCurrent, Inside
  <2>3. CASE u # t
    <3>1. op'[u] = op[u]
      BY <2>3, StepGood
    <3>2. Held(Outer(u)) /\ lockKey[Outer(u)] = AccountKey(op[u].addr) /\ op[u].addr \in Address
      BY <1>3, <3>1, HeldKeys
    <3>. QED
      BY <1>1, <1>3, <2>2, <2>3, <3>1, <3>2
  <2>4. CASE u = t
    BY <1>3, <2>1, <2>2, <2>4, OwnCopy
  <2>. QED
    BY <2>3, <2>4
<1>4. ASSUME NEW u \in Thread, op'[u].pc = "setOld", Inner(u) \notin crowded'
      PROVE  old'[u] = account'[op'[u].owner]
  <2>1. CASE u # t
    <3>1. op'[u] = op[u] /\ old'[u] = old[u]
      BY <2>1, StepGood, DataMoves
    <3>2. Held(Inner(u))' /\ Inner(u) \in Holder
      BY <1>4, Holders DEF Locked
    <3>3. Held(Inner(u)) /\ lockKey[Inner(u)] = AccountKey(op[u].owner) /\ op[u].owner \in Address
      BY <1>4, <3>1, HeldKeys
    <3>4. old[u] = account[op[u].owner]
      BY <1>2, <1>4, <3>1, <3>2 DEF LInv, NoLostUpdate, OldCopyCurrent
    <3>. QED
      BY <1>1, <1>4, <2>1, <3>1, <3>3, <3>4
  <2>2. CASE u = t /\ op' = op /\ UNCHANGED <<old, account>>
    <3>1. Held(Inner(u))' /\ Inner(u) \in Holder
      BY <1>4, Holders DEF Locked
    <3>. QED
      BY <1>2, <1>4, <2>2, <3>1 DEF LInv, NoLostUpdate, OldCopyCurrent
  <2>3. CASE u = t /\ ~(op' = op /\ UNCHANGED <<old, account>>)
    BY <1>4, <2>3, CopyMoves
  <2>. QED
    BY <2>1, <2>2, <2>3
<1>. QED
  BY <1>3, <1>4 DEF NoLostUpdate, CopyCurrent, OldCopyCurrent, Inside

(* Every step keeps it.                                                    *)
LEMMA StepInv ==
    ASSUME LInv, NEW t \in Thread, StoreStep(t), alone' \subseteq Thread,
           Shared' \subseteq crowded', crowded' \subseteq Holder,
           \A h \in crowded : Held(h)' => h \in crowded'
    PROVE  LInv'
<1>1. Locks!TypeOK' /\ Calls'
  BY StepLocked, StepGood
<1>2. StoreTypeOK'
  BY <1>1, DataMoves DEF StoreTypeOK, Calls
<1>3. TypeOK'
  BY <1>2 DEF TypeOK
<1>4. ASSUME NEW u \in Thread PROVE GoodCall(op[u])' /\ Locked(u)'
  <2>1. CASE u = t
    BY <2>1, StepGood, StepLocked
  <2>2. CASE u # t
    <3>1. op'[u] = op[u] /\ GoodCall(op[u]) /\ Locked(u)
      BY <2>2, StepGood, CallFacts
    <3>2. /\ lockPc'[Outer(u)] = lockPc[Outer(u)] /\ lockKey'[Outer(u)] = lockKey[Outer(u)]
          /\ lockPc'[Inner(u)] = lockPc[Inner(u)] /\ lockKey'[Inner(u)] = lockKey[Inner(u)]
      BY <2>2, StepLocked, Holders
    <3>. QED
      BY <3>1, <3>2 DEF Locked
  <2>. QED
    BY <2>1, <2>2
<1>5. NoLostUpdate'
  BY <1>4, StepNoLostUpdate
<1>. QED
  BY <1>3, <1>4, <1>5 DEF LInv

(* A new call takes the place of none, or of one that has returned.        *)
LEMMA CallInv ==
    ASSUME LInv, NEW t \in Thread, ~Running(t), NEW c \in Call(Section), GoodCall(c),
           c.pc \in {"idle", "begin"}, op' = [op EXCEPT ![t] = c],
           UNCHANGED <<account, reflect, old, locks, crowded>>, alone' \subseteq Thread
    PROVE  LInv'
<1>1. Calls /\ Locks!TypeOK
  BY DEF LInv, TypeOK, StoreTypeOK, Calls
<1>2. Calls' /\ op'[t] = c /\ \A u \in Thread \ {t} : op'[u] = op[u]
  BY <1>1, OneCall
<1>3. Locks!TypeOK' /\ UNCHANGED <<lockPc, lockKey>>
  BY <1>1 DEF Locks!TypeOK, locks
<1>4. TypeOK'
  BY <1>2, <1>3 DEF LInv, TypeOK, StoreTypeOK, Calls
<1>5. ASSUME NEW u \in Thread PROVE GoodCall(op[u])' /\ Locked(u)'
  <2>1. Locked(u) /\ GoodCall(op[u])
    BY CallFacts
  <2>2. CASE u = t
    BY <1>2, <1>3, <2>1, <2>2, CallFacts DEF Locked, Inside, Section
  <2>3. CASE u # t
    BY <1>2, <1>3, <2>1, <2>3 DEF Locked
  <2>. QED
    BY <2>2, <2>3
<1>6. Shared' \subseteq crowded'
  BY <1>3 DEF LInv, Shared
<1>7. NoLostUpdate'
  <2>1. ASSUME NEW u \in Thread, u # t PROVE op'[u] = op[u]
    BY <1>2, <2>1
  <2>. QED
    BY <1>2, <2>1 DEF LInv, NoLostUpdate, CopyCurrent, OldCopyCurrent
<1>. QED
  BY <1>4, <1>5, <1>6, <1>7 DEF LInv

LEMMA BeginInv ==
    ASSUME LInv, NEW t \in Thread, Begin(t)
    PROVE  LInv'
<1>1. PICK c \in Call(Section) :
         Clients(t, c) /\ GoodCall(c) /\ c.pc = "begin" /\ c.owner = NoAddress
  BY BeginCall
<1>2. /\ op' = [op EXCEPT ![t] = c] /\ ~Running(t)
      /\ UNCHANGED <<account, reflect, old, locks, crowded>>
      /\ alone' \subseteq Thread
  BY <1>1 DEF Clients, Invoke
<1>. QED
  BY <1>1, <1>2, CallInv

LEMMA ExitInv ==
    ASSUME LInv, ProcessExit, crowded' \subseteq Holder, alone' \subseteq Thread
    PROVE  LInv'
<1>1. /\ op' = [u \in Thread |-> NoCall] /\ old' = [u \in Thread |-> NoDoc]
      /\ UNCHANGED <<account, reflect>>
      /\ lockPc' = [h \in Holder |-> "idle"]
  BY DEF ProcessExit, data
<1>2. Locks!TypeOK'
  BY DEF ProcessExit, Locks!TypeOK, Locks!Place
<1>3. TypeOK'
  BY <1>1, <1>2, DocTyped, NoCallTyped DEF LInv, TypeOK, StoreTypeOK
<1>4. ASSUME NEW u \in Thread PROVE GoodCall(op[u])' /\ Locked(u)'
  <2>1. op'[u] = NoCall /\ lockPc'[Outer(u)] = "idle" /\ lockPc'[Inner(u)] = "idle"
    BY <1>1, Holders
  <2>. QED
    BY <2>1, NoCallTyped DEF Locked, Inside
<1>5. Shared' \subseteq crowded'
  BY <1>1 DEF Shared
<1>6. NoLostUpdate'
  BY <1>1, NoCallTyped DEF NoLostUpdate, CopyCurrent, OldCopyCurrent
<1>. QED
  BY <1>3, <1>4, <1>5, <1>6 DEF LInv

LEMMA StartInv ==
    ASSUME StoreInit([a \in Address |-> NoDoc]), alone \subseteq Thread, crowded \subseteq Holder
    PROVE  LInv
<1>1. /\ account = [a \in Address |-> NoDoc] /\ reflect = [e \in Email |-> NoAddress]
      /\ op = [u \in Thread |-> NoCall] /\ old = [u \in Thread |-> NoDoc]
      /\ lockPc = [h \in Holder |-> "idle"]
  BY DEF StoreInit
<1>2. Locks!TypeOK
  BY DEF StoreInit, Locks!TypeOK, Locks!Place
<1>3. TypeOK
  BY <1>1, <1>2, DocTyped, NoCallTyped DEF TypeOK, StoreTypeOK
<1>4. ASSUME NEW u \in Thread PROVE GoodCall(op[u]) /\ Locked(u)
  BY <1>1, NoCallTyped, Holders DEF Locked, Inside
<1>5. Shared = {}
  BY <1>1 DEF Shared
<1>6. NoLostUpdate
  BY <1>1, NoCallTyped DEF NoLostUpdate, CopyCurrent, OldCopyCurrent
<1>. QED
  BY <1>3, <1>4, <1>5, <1>6 DEF LInv

LEMMA InitInv == Init => LInv
BY StartInv DEF Init

LEMMA NextInv == LInv /\ [Next]_vars => LInv'
<1>. SUFFICES ASSUME LInv, [Next]_vars PROVE LInv'
  OBVIOUS
<1>1. CASE UNCHANGED vars
  BY <1>1 DEF vars, LInv, TypeOK, StoreTypeOK, Locks!TypeOK, GoodCall, Locked, Shared,
     NoLostUpdate,
     CopyCurrent, OldCopyCurrent, OuterKey, KeyOf
<1>2. ASSUME NEW t \in Thread, StoreStep(t), UNCHANGED alone,
             crowded' = {h \in crowded : Held(h)'} \cup Shared'
      PROVE  LInv'
  BY <1>2, StepInv DEF LInv, TypeOK, Shared
<1>3. ASSUME ProcessExit, crowded' = {}, UNCHANGED alone PROVE LInv'
  BY <1>3, ExitInv DEF LInv, TypeOK
<1>. QED
  BY <1>1, <1>2, <1>3, BeginInv DEF Next

LEMMA AlwaysLInv == Spec => []LInv
BY InitInv, NextInv, PTL DEF Spec

(* The variables of the LevelDB backend have their types, in every         *)
(* reachable state.                                                        *)
THEOREM TypeCorrect == Spec => []TypeOK
<1>1. LInv => TypeOK
  BY DEF LInv
<1>. QED
  BY <1>1, AlwaysLInv, PTL

(* A method of the LevelDB backend writes over what it read and nothing    *)
(* newer, for as long as nobody else has been inside of a lock for the     *)
(* same key.                                                               *)
THEOREM NoUpdateLost == Spec => []NoLostUpdate
<1>1. LInv => NoLostUpdate
  BY DEF LInv
<1>. QED
  BY <1>1, AlwaysLInv, PTL

-----------------------------------------------------------------------------
(* What a call knows that nobody overlaps.                                 *)

LEMMA StepFound ==
    ASSUME LInv, FoundOnly, NEW t \in Thread, StoreStep(t)
    PROVE  FoundOnly'
<1>. DEFINE c == op[t]
            Empty(doc) == doc.found \/ doc.emails = {}
<1>. USE CallFacts
<1>1. ASSUME NEW doc, doc.found, NEW n \in Mutator, WriteAccount(t, n, doc), NEW a \in Address
      PROVE  Empty(account'[a])
  BY <1>1 DEF WriteAccount, FoundOnly, GoodCall
<1>2. ASSUME NEW a \in Address PROVE Empty(account'[a])
  <2>1. CASE ActiveAccountWrite(t)
    <3>1. WriteAccount(t, "ActiveAccount", NewDoc(c.level)) /\ NewDoc(c.level).found
      BY <2>1 DEF ActiveAccountWrite, NewDoc
    <3>. QED
      BY <1>1, <3>1 DEF Mutator
  <2>2. CASE UpdateAccountLevelWrite(t) \/ UpdateBindingWrite(t) \/ DeleteBindingWrite(t)
    <3>1. \E doc \in Doc :
             /\ doc.found
             /\ \E n \in {"UpdateAccountLevel", "UpdateBinding", "DeleteBinding"} :
                   WriteAccount(t, n, doc)
      <4>1. c.doc.found /\ c.doc \in Doc /\ c.level \in StoredLevel
        BY <2>2 DEF UpdateAccountLevelWrite, UpdateBindingWrite, DeleteBindingWrite,
           WriteAccount,
           FoundOnly, Inside
      <4>2. CASE UpdateAccountLevelWrite(t)
        <5>. DEFINE doc == [c.doc EXCEPT !.level = c.level]
        <5>1. doc.found /\ doc \in Doc
          BY <4>1, LevelTyped
        <5>. QED
          BY <4>2, <5>1 DEF UpdateAccountLevelWrite
      <4>3. CASE UpdateBindingWrite(t)
        <5>. DEFINE doc == [c.doc EXCEPT !.emails = @ \cup {c.email}]
        <5>1. doc.found /\ doc \in Doc
          <6>1. c.doc \in Doc /\ c.doc.emails \cup {c.email} \in SUBSET Email
            BY <4>1, <4>3 DEF Doc, UpdateBindingWrite, WriteAccount, GoodCall, TakesEmail
          <6>. QED
            BY <4>1, <6>1, EmailsTyped
        <5>. QED
          BY <4>3, <5>1 DEF UpdateBindingWrite
      <4>4. CASE DeleteBindingWrite(t)
        <5>. DEFINE doc == [c.doc EXCEPT !.emails = @ \ {c.email}]
        <5>1. doc.found /\ doc \in Doc
          BY <4>1, <4>4 DEF Doc, DeleteBindingWrite, WriteAccount, GoodCall
        <5>. QED
          BY <4>4, <5>1 DEF DeleteBindingWrite
      <4>. QED
        BY <2>2, <4>2, <4>3, <4>4
    <3>. QED
      BY <1>1, <3>1 DEF Mutator
  <2>3. CASE WriteOld(t)
    <3>1. old[t] \in Doc /\ old[t].found /\ c.owner \in Address
      BY <2>3 DEF WriteOld, FoundOnly, GoodCall
    <3>. QED
      BY <2>3, <3>1 DEF WriteOld, FoundOnly, Doc
  <2>4. CASE UNCHANGED account
    BY <2>4 DEF FoundOnly
  <2>. QED
    BY <2>1, <2>2, <2>3, <2>4 DEF StoreStep, LockStep, QueryStep, BindStep, UnbindStep,
       LevelStep,
       AskLock, AskEmailLock, TakeLock, Unlock, DropOuter, DropInner, QueryAccountRead,
       ReadReflect,
       ReadReflectOf, UpdateBindingRead, ReadEmail, WriteEmail, ReadOld, DeleteBindingRead,
       DeleteEmail,
       ActiveAccountRead, UpdateAccountLevelRead, AccessFails, ReturnNil, Panic, data
<1>3. ASSUME NEW u \in Thread
      PROVE  /\ op'[u].pc \in Inside /\ op'[u].name # "ActiveAccount" => op'[u].doc.found
             /\ op'[u].pc = "setOld" => old'[u].found
  <2>1. CASE u # t
    BY <2>1, StepGood, DataMoves DEF FoundOnly
  <2>2. CASE u = t
    <3>1. op'[t].name = c.name
      BY StepGood DEF Keeps
    <3>. QED
      BY <2>2, <3>1, CopyMoves DEF FoundOnly, AccountFound
  <2>. QED
    BY <2>1, <2>2
<1>. QED
  BY <1>2, <1>3 DEF FoundOnly

(* The bookkeeping of a lock says nothing new, and neither does an error.  *)
LEMMA QuietKnows ==
    ASSUME LInv, NEW t \in Thread, StoreStep(t), Knows(t), op[t].name \in Mutator,
           UNCHANGED <<account, reflect>>,
           \/ op' = op /\ UNCHANGED old
           \/ op'[t].res = "err" /\ op'[t].pc \in {"leaveEmail", "leaveOld", "release"}
           \/ /\ op[t].pc = "release" /\ op'[t].pc = "done"
              /\ op'[t].res = op[t].res /\ op'[t].owner = op[t].owner
    PROVE  Knows(t)'
<1>. DEFINE c == op[t]
            d == op'[t]
<1>1. SameArguments(c, d) /\ KnowsQuery(t)'
  BY StepGood DEF AskEmailLock, Mutator, KnowsQuery, SameArguments
<1>2. CASE op' = op /\ UNCHANGED old
  BY <1>1, <1>2 DEF Knows, KnowsBind, KnowsUnbind, Healed, Cleared
<1>3. CASE d.res = "err" /\ d.pc \in {"leaveEmail", "leaveOld", "release"}
  BY <1>1, <1>3 DEF Knows, KnowsBind, KnowsUnbind
<1>4. CASE c.pc = "release" /\ d.pc = "done" /\ d.res = c.res /\ d.owner = c.owner
  BY <1>1, <1>4 DEF Knows, KnowsBind, KnowsUnbind, Healed, Cleared, SameArguments, Inside
<1>. QED
  BY <1>2, <1>3, <1>4

(* What UpdateBinding knows after a step of its own.                       *)
LEMMA BindKnows ==
    ASSUME LInv, FoundOnly, NEW t \in Thread, StoreStep(t), Knows(t), op[t].name = "UpdateBinding"
    PROVE  KnowsBind(t)'
<1>. DEFINE c == op[t]
            d == op'[t]
<1>. USE CallFacts
<1>1. SameArguments(c, d) /\ c.addr \in Address /\ c.email \in Email /\ KnowsBind(t)
  BY StepGood DEF AskEmailLock, Knows
<1>2. CASE AskLock(t) \/ TakeLock(t) \/ Unlock(t)
  BY <1>2, QuietKnows, <1>1 DEF AskLock, TakeLock, Unlock, Knows, SameArguments, Mutator
<1>3. CASE DropOuter(t)
  <2>1. /\ c.pc = "release" /\ d.pc = "done" /\ d.res = c.res /\ d.owner = c.owner
        /\ UNCHANGED <<account, reflect>>
    <3>1. c.pc = "release" /\ c.res # "none" /\ UNCHANGED <<account, reflect>>
      BY <1>3 DEF DropOuter, GoodCall, ManyLocks
    <3>. QED
      BY <1>3, <3>1, DropOuterMoves DEF MovesTo
  <2>. QED
    BY <1>1, <2>1, QuietKnows DEF Knows, SameArguments, Mutator
<1>4. CASE DropInner(t)
  <2>1. /\ c.pc \in {"leaveEmail", "leaveOld"} /\ c.res \in {"none", "err"}
        /\ d.pc = AfterInner(c) /\ d.owner = c.owner
        /\ d.res = IF d.pc = "release" /\ c.res = "none" THEN "ok" ELSE c.res
        /\ UNCHANGED <<account, reflect>>
    <3>1. c.pc \in {"leaveEmail", "leaveOld"} /\ UNCHANGED <<account, reflect>>
      BY <1>4 DEF DropInner, data
    <3>2. c.res \in {"none", "err"}
      BY <3>1 DEF GoodCall
    <3>. QED
      BY <1>4, <3>1, <3>2, DropInnerMoves DEF MovesTo
  <2>2. CASE c.res = "err"
    BY <2>1, <2>2 DEF AfterInner, KnowsBind
  <2>3. CASE c.res = "none" /\ d.pc = "old"
    BY <1>1, <2>1, <2>3 DEF AfterInner, KnowsBind, SameArguments
  <2>4. CASE c.res = "none" /\ d.pc # "old"
    <3>1. /\ reflect[c.email] = c.addr
          /\ c.owner \notin {NoAddress, c.addr} => c.email \notin account[c.owner].emails
      BY <1>1, <2>1, <2>4 DEF AfterInner, KnowsBind
    <3>2. c.doc = account[c.addr] /\ c.doc.found
      BY <1>1, <2>1, <2>4 DEF Knows, FoundOnly, Inside
    <3>3. d.pc = IF Listed(c) THEN "release" ELSE "write"
      BY <2>1, <2>4 DEF AfterInner
    <3>. QED
      BY <1>1, <2>1, <2>4, <3>1, <3>2, <3>3 DEF Listed, KnowsBind, Healed, SameArguments
  <2>. QED
    BY <2>1, <2>2, <2>3, <2>4
<1>5. CASE UpdateBindingRead(t)
  <2>1. c.pc = "begin" /\ account[c.addr] \in Doc /\ UNCHANGED <<account, reflect>>
        /\ c.owner = NoAddress
    BY <1>1, <1>5 DEF UpdateBindingRead, HasOuter, KnowsBind
  <2>2. CASE Load(t, "email")
    <3>1. d.pc = "email" /\ d.owner = NoAddress
      BY <2>1, <2>2, LoadMoves DEF Section, MovesTo
    <3>. QED
      BY <3>1 DEF KnowsBind
  <2>3. CASE Leave(t, "release", "err")
    <3>1. d.pc = "release" /\ d.res = "err"
      BY <2>3, LeaveMoves DEF Section, MovesTo
    <3>. QED
      BY <3>1 DEF KnowsBind
  <2>. QED
    BY <1>5, <2>2, <2>3 DEF UpdateBindingRead
<1>6. CASE ReadEmail(t)
  <2>1. c.pc = "email" /\ reflect[c.email] \in Address \cup {NoAddress}
        /\ UNCHANGED <<account, reflect>>
    BY <1>1, <1>6 DEF ReadEmail, HasInner
  <2>2. CASE reflect[c.email] = c.addr /\ op' = [op EXCEPT ![t].pc = "leaveEmail"]
    <3>1. d.pc = "leaveEmail"
      BY <2>2, PlaceMoves DEF Section, MovesTo
    <3>. QED
      BY <1>1, <2>1, <2>2, <3>1 DEF KnowsBind, SameArguments
  <2>3. CASE op' = [op EXCEPT ![t].pc = "setEmail", ![t].owner = reflect[c.email]]
    <3>1. d.pc = "setEmail"
      BY <2>1, <2>3, OwnerMoves DEF Section, MovesTo
    <3>. QED
      BY <3>1 DEF KnowsBind
  <2>. QED
    BY <1>6, <2>2, <2>3 DEF ReadEmail
<1>7. CASE WriteEmail(t)
  <2>1. /\ op' = [op EXCEPT ![t].pc = "leaveEmail"]
        /\ reflect' = [reflect EXCEPT ![c.email] = c.addr]
    BY <1>7 DEF WriteEmail
  <2>2. d.pc = "leaveEmail" /\ reflect'[c.email] = c.addr
    <3>1. MovesTo(t, "leaveEmail")
      BY <2>1, PlaceMoves DEF Section
    <3>. QED
      BY <1>1, <2>1, <3>1 DEF MovesTo
  <2>. QED
    BY <1>1, <2>2 DEF KnowsBind, SameArguments
<1>8. CASE ReadOld(t)
  <2>. DEFINE place == IF account[c.owner].found THEN "setOld" ELSE "leaveOld"
  <2>1. /\ c.pc = "old" /\ UNCHANGED <<account, reflect>> /\ op' = [op EXCEPT ![t].pc = place]
        /\ old' = [old EXCEPT ![t] = account[c.owner]]
        /\ c.owner \in Address
    BY <1>8 DEF ReadOld, HasInner, GoodCall
  <2>2. d.pc = place /\ d.owner = c.owner /\ old'[t] = account[c.owner]
    <3>1. MovesTo(t, place) /\ op'[t].owner = c.owner
      BY <2>1, PlaceMoves DEF Section
    <3>. QED
      BY <2>1, <3>1 DEF MovesTo
  <2>3. reflect[c.email] = c.addr /\ (place = "leaveOld" => c.email \notin account[c.owner].emails)
    BY <1>1, <2>1 DEF KnowsBind, FoundOnly
  <2>. QED
    BY <1>1, <2>1, <2>2, <2>3 DEF KnowsBind, SameArguments
<1>9. CASE WriteOld(t)
  <2>. DEFINE doc == [old[t] EXCEPT !.emails = @ \ {c.email}]
  <2>1. /\ c.pc = "setOld" /\ UNCHANGED reflect /\ op' = [op EXCEPT ![t].pc = "leaveOld"]
        /\ account' = [account EXCEPT ![c.owner] = doc] /\ c.owner \in Address
    BY <1>9 DEF WriteOld, GoodCall
  <2>2. c.email \notin doc.emails
    BY DEF Doc
  <2>. HIDE DEF doc
  <2>3. d.pc = "leaveOld" /\ d.owner = c.owner /\ c.email \notin account'[c.owner].emails
    <3>1. MovesTo(t, "leaveOld") /\ op'[t].owner = c.owner
      BY <2>1, PlaceMoves DEF Section
    <3>. QED
      BY <2>1, <2>2, <3>1 DEF MovesTo
  <2>. QED
    BY <1>1, <2>1, <2>3 DEF KnowsBind, SameArguments
<1>10. CASE UpdateBindingWrite(t)
  <2>. DEFINE doc == [c.doc EXCEPT !.emails = @ \cup {c.email}]
  <2>1. /\ c.pc = "write" /\ UNCHANGED reflect /\ Leave(t, "release", "ok")
        /\ account' = [account EXCEPT ![c.addr] = doc]
    BY <1>10 DEF UpdateBindingWrite, WriteAccount
  <2>2. c.doc.found
    BY <1>1, <2>1 DEF FoundOnly, Inside
  <2>3. doc.found /\ c.email \in doc.emails
    BY <1>1, <2>2 DEF Doc
  <2>. HIDE DEF doc
  <2>4. d.pc = "release" /\ d.owner = c.owner
    BY <2>1, LeaveMoves DEF Section, MovesTo
  <2>5. /\ reflect'[c.email] = c.addr /\ account'[c.addr] = doc
        /\ c.owner \notin {NoAddress, c.addr} => c.email \notin account'[c.owner].emails
    BY <1>1, <2>1 DEF KnowsBind
  <2>. QED
    BY <1>1, <2>3, <2>4, <2>5 DEF KnowsBind, SameArguments, Healed
<1>11. CASE AccessFails(t)
  <2>1. PICK place \in {"leaveEmail", "leaveOld", "release"} : Leave(t, place, "err")
    BY <1>11 DEF AccessFails
  <2>2. d.pc = place /\ d.res = "err"
    BY <2>1, LeaveMoves DEF Section, MovesTo
  <2>. QED
    BY <2>2 DEF KnowsBind
<1>12. ~(QueryStep(t) \/ AskEmailLock(t) \/ ActiveAccountRead(t) \/ ActiveAccountWrite(t)
         \/ UpdateAccountLevelRead(t)
         \/ UpdateAccountLevelWrite(t) \/ UnbindStep(t) \/ ReturnNil(t) \/ Panic(t))
  BY DEF QueryStep, QueryAccountRead, ReadReflect, ReadReflectOf, AskEmailLock,
     ActiveAccountRead,
     ActiveAccountWrite, UpdateAccountLevelRead, UpdateAccountLevelWrite, UnbindStep,
     DeleteBindingRead, DeleteEmail, DeleteBindingWrite,
     ReturnNil, Panic, HasOuter, HasInner, WriteAccount, Stub, Unsupported
<1>. QED
  BY <1>2, <1>3, <1>4, <1>5, <1>6, <1>7, <1>8, <1>9, <1>10, <1>11, <1>12
  DEF StoreStep, LockStep, BindStep, LevelStep

(* What DeleteBinding knows after a step of its own.                       *)
LEMMA UnbindKnows ==
    ASSUME LInv, NEW t \in Thread, StoreStep(t), Knows(t), op[t].name = "DeleteBinding"
    PROVE  KnowsUnbind(t)'
<1>. DEFINE c == op[t]
            d == op'[t]
<1>. USE CallFacts
<1>1. SameArguments(c, d) /\ c.addr \in Address /\ c.email \in Email /\ KnowsUnbind(t)
  BY StepGood DEF AskEmailLock, Knows
<1>2. CASE AskLock(t) \/ TakeLock(t) \/ Unlock(t)
  BY <1>2, QuietKnows, <1>1 DEF AskLock, TakeLock, Unlock, Knows, SameArguments, Mutator
<1>3. CASE DropOuter(t)
  <2>1. /\ c.pc = "release" /\ d.pc = "done" /\ d.res = c.res /\ d.owner = c.owner
        /\ UNCHANGED <<account, reflect>>
    <3>1. c.pc = "release" /\ c.res # "none" /\ UNCHANGED <<account, reflect>>
      BY <1>3 DEF DropOuter, GoodCall, ManyLocks
    <3>. QED
      BY <1>3, <3>1, DropOuterMoves DEF MovesTo
  <2>. QED
    BY <1>1, <2>1, QuietKnows DEF Knows, SameArguments, Mutator
<1>4. CASE DropInner(t)
  <2>1. c.pc = "leaveEmail" /\ c.res \in {"none", "err"} /\ UNCHANGED <<account, reflect>>
    BY <1>4 DEF DropInner, GoodCall, data
  <2>2. /\ d.pc = AfterInner(c)
        /\ d.res = IF d.pc = "release" /\ c.res = "none" THEN "ok" ELSE c.res
    BY <1>4, DropInnerMoves DEF MovesTo
  <2>3. d.pc = IF c.res = "err" THEN "release" ELSE "write"
    BY <2>1, <2>2 DEF AfterInner, Listed
  <2>. QED
    BY <1>1, <2>1, <2>2, <2>3 DEF KnowsUnbind, SameArguments
<1>5. CASE DeleteBindingRead(t)
  <2>1. c.pc = "begin" /\ account[c.addr] \in Doc
    BY <1>1, <1>5 DEF DeleteBindingRead, HasOuter
  <2>2. CASE Load(t, "email")
    <3>1. d.pc = "email"
      BY <2>1, <2>2, LoadMoves DEF Section, MovesTo
    <3>. QED
      BY <3>1 DEF KnowsUnbind
  <2>3. CASE Leave(t, "release", "err")
    <3>1. d.pc = "release" /\ d.res = "err"
      BY <2>3, LeaveMoves DEF Section, MovesTo
    <3>. QED
      BY <3>1 DEF KnowsUnbind
  <2>. QED
    BY <1>5, <2>2, <2>3 DEF DeleteBindingRead
<1>6. CASE DeleteEmail(t)
  <2>1. /\ op' = [op EXCEPT ![t].pc = "leaveEmail"]
        /\ reflect' = [reflect EXCEPT ![c.email] = NoAddress]
    BY <1>6 DEF DeleteEmail
  <2>2. MovesTo(t, "leaveEmail")
    BY <2>1, PlaceMoves DEF Section
  <2>3. d.pc = "leaveEmail" /\ reflect'[c.email] = NoAddress
    BY <1>1, <2>1, <2>2 DEF MovesTo
  <2>. QED
    BY <1>1, <2>3 DEF KnowsUnbind, SameArguments
<1>7. CASE DeleteBindingWrite(t)
  <2>. DEFINE doc == [c.doc EXCEPT !.emails = @ \ {c.email}]
  <2>1. /\ c.pc = "write" /\ UNCHANGED reflect /\ Leave(t, "release", "ok")
        /\ account' = [account EXCEPT ![c.addr] = doc]
    BY <1>7 DEF DeleteBindingWrite, WriteAccount
  <2>2. c.email \notin doc.emails
    BY DEF Doc
  <2>. HIDE DEF doc
  <2>3. d.pc = "release" /\ account'[c.addr] = doc /\ reflect'[c.email] = NoAddress
    <3>1. MovesTo(t, "release")
      BY <2>1, LeaveMoves DEF Section
    <3>. QED
      BY <1>1, <2>1, <3>1 DEF MovesTo, KnowsUnbind
  <2>. QED
    BY <1>1, <2>2, <2>3 DEF KnowsUnbind, SameArguments, Cleared
<1>8. CASE AccessFails(t)
  <2>1. PICK place \in {"leaveEmail", "leaveOld", "release"} : Leave(t, place, "err")
    BY <1>8 DEF AccessFails
  <2>2. d.pc = place /\ d.res = "err"
    BY <2>1, LeaveMoves DEF Section, MovesTo
  <2>. QED
    BY <2>2 DEF KnowsUnbind
<1>9. ~(QueryStep(t) \/ AskEmailLock(t) \/ LevelStep(t) \/ BindStep(t) \/ ReturnNil(t) \/ Panic(t))
  BY DEF QueryStep, QueryAccountRead, ReadReflect, ReadReflectOf, AskEmailLock, LevelStep,
     ActiveAccountRead, ActiveAccountWrite, UpdateAccountLevelRead,
     UpdateAccountLevelWrite, BindStep, UpdateBindingRead, ReadEmail, WriteEmail, ReadOld,
     WriteOld,
     UpdateBindingWrite, ReturnNil, Panic, HasOuter, HasInner, WriteAccount, Stub,
     Unsupported, GoodCall
<1>. QED
  BY <1>2, <1>3, <1>4, <1>5, <1>6, <1>7, <1>8, <1>9
  DEF StoreStep, LockStep, UnbindStep

(* What a query knows after a step of its own.                             *)
LEMMA QueryKnows ==
    ASSUME LInv, NEW t \in Thread, StoreStep(t), KnowsQuery(t)
    PROVE  KnowsQuery(t)'
<1>. DEFINE c == op[t]
            d == op'[t]
<1>. USE CallFacts
<1>1. d.name = c.name
  BY StepGood DEF Keeps
<1>2. SUFFICES ASSUME c.name \in {"QueryAccount", "QueryReflectByOneEmail"} PROVE KnowsQuery(t)'
  BY <1>1 DEF KnowsQuery
<1>3. SameArguments(c, d)
  BY <1>2, StepGood DEF AskEmailLock
<1>4. CASE AskLock(t) \/ TakeLock(t) \/ Unlock(t)
  <2>1. op' = op /\ UNCHANGED <<account, reflect>>
    BY <1>4 DEF AskLock, TakeLock, Unlock
  <2>. QED
    BY <2>1 DEF KnowsQuery
<1>5. CASE DropOuter(t)
  <2>1. /\ c.pc = "release" /\ d.res = c.res /\ d.owner = c.owner /\ UNCHANGED <<account, reflect>>
        /\ c.name = "QueryAccount" => d.doc = c.doc
    BY <1>5, DropOuterMoves DEF DropOuter
  <2>. QED
    BY <1>3, <2>1 DEF KnowsQuery, SameArguments
<1>6. CASE QueryAccountRead(t)
  <2>1. c.name = "QueryAccount" /\ UNCHANGED <<account, reflect>> /\ d.doc = account[c.addr]
    BY <1>6, QueryMoves DEF QueryAccountRead, HasOuter
  <2>. QED
    BY <1>3, <2>1 DEF KnowsQuery, SameArguments
<1>7. CASE ReadReflect(t)
  <2>1. c.name = "QueryReflectByOneEmail" /\ UNCHANGED <<account, reflect>>
        /\ d.owner = reflect[c.email]
    BY <1>7, ReadReflectMoves DEF ReadReflect, HasOuter
  <2>. QED
    BY <1>3, <2>1 DEF KnowsQuery, SameArguments
<1>8. CASE AccessFails(t)
  <2>1. PICK place \in {"leaveEmail", "leaveOld", "release"} : Leave(t, place, "err")
    BY <1>8 DEF AccessFails
  <2>2. d.res = "err"
    BY <2>1, LeaveMoves DEF Section
  <2>. QED
    BY <2>2 DEF KnowsQuery
<1>9. ~(ReadReflectOf(t) \/ AskEmailLock(t) \/ DropInner(t) \/ LevelStep(t) \/ BindStep(t)
        \/ UnbindStep(t) \/ ReturnNil(t) \/ Panic(t))
  BY <1>2 DEF ReadReflectOf, AskEmailLock, DropInner, LevelStep, ActiveAccountRead,
     ActiveAccountWrite,
     UpdateAccountLevelRead, UpdateAccountLevelWrite, BindStep, UpdateBindingRead, ReadEmail,
     WriteEmail,
     ReadOld, WriteOld, UpdateBindingWrite, UnbindStep, DeleteBindingRead, DeleteEmail,
     DeleteBindingWrite, ReturnNil, Panic, HasOuter, HasInner, WriteAccount, Stub,
     Unsupported, GoodCall
<1>. QED
  BY <1>4, <1>5, <1>6, <1>7, <1>8, <1>9 DEF StoreStep, LockStep, QueryStep

LEMMA StepKnows ==
    ASSUME LInv, FoundOnly, NEW t \in Thread, StoreStep(t), Knows(t)
    PROVE  Knows(t)'
<1>1. Keeps(op[t], op'[t])
  BY StepGood
<1>2. op'[t].pc \in Inside /\ op'[t].res = "none" => op'[t].doc = account'[op'[t].addr]
  BY <1>1, OwnCopy DEF Knows, Keeps
<1>. QED
  BY <1>1, <1>2, BindKnows, UnbindKnows, QueryKnows DEF Knows, Keeps

LEMMA StartKnown ==
    ASSUME StoreInit([a \in Address |-> NoDoc])
    PROVE  FoundOnly /\ OnlyOne /\ \A t \in Thread : Knows(t)
<1>1. account = [a \in Address |-> NoDoc] /\ op = [u \in Thread |-> NoCall]
  BY DEF StoreInit
<1>2. FoundOnly
  BY <1>1, DocTyped, NoCallTyped DEF FoundOnly, Inside
<1>3. \A t \in Thread : Knows(t)
  BY <1>1, NoCallTyped DEF Knows, KnowsQuery, Inside
<1>. QED
  BY <1>1, <1>2, <1>3, NoCallTyped DEF OnlyOne

LEMMA KnownInit == Init => KInv
BY InitInv, StartKnown DEF Init, KInv

LEMMA KnownStep ==
    ASSUME KInv, NEW t \in Thread, StoreStep(t), UNCHANGED alone,
           crowded' = {h \in crowded : Held(h)'} \cup Shared'
    PROVE  KInv'
<1>1. LInv' /\ FoundOnly'
  BY StepInv, StepFound DEF KInv, LInv, TypeOK, Shared
<1>2. \A u \in Thread \ {t} : op'[u] = op[u]
  BY StepGood DEF KInv
<1>3. alone \subseteq {t}
  BY StepRuns DEF KInv, OnlyOne, LInv, TypeOK
<1>4. OnlyOne'
  BY <1>2, <1>3 DEF KInv, OnlyOne
<1>5. \A u \in alone' : Knows(u)'
  BY <1>3, StepKnows DEF KInv
<1>. QED
  BY <1>1, <1>4, <1>5 DEF KInv

LEMMA KnownBegin ==
    ASSUME KInv, NEW t \in Thread, Begin(t)
    PROVE  KInv'
<1>1. PICK c \in Call(Section) :
         Clients(t, c) /\ GoodCall(c) /\ c.pc = "begin" /\ c.owner = NoAddress
  BY BeginCall
<1>2. /\ op' = [op EXCEPT ![t] = c] /\ ~Running(t) /\ UNCHANGED <<account, reflect, old>>
      /\ alone' = IF \E u \in Thread \ {t} : Running(u) THEN {} ELSE {t}
  BY <1>1 DEF Clients, Invoke
<1>3. op'[t] = c /\ \A u \in Thread \ {t} : op'[u] = op[u]
  BY <1>2, OneCall DEF KInv, LInv, TypeOK, StoreTypeOK, Calls
<1>4. LInv'
  BY BeginInv DEF KInv
<1>5. FoundOnly'
  BY <1>1, <1>2, <1>3 DEF KInv, FoundOnly, Inside
<1>6. OnlyOne'
  BY <1>2, <1>3 DEF OnlyOne
<1>7. Knows(t)'
  BY <1>1, <1>3 DEF Knows, KnowsQuery, KnowsBind, KnowsUnbind, Inside
<1>. QED
  BY <1>2, <1>4, <1>5, <1>6, <1>7 DEF KInv

LEMMA KnownExit ==
    ASSUME KInv, ProcessExit, crowded' = {}, UNCHANGED alone
    PROVE  KInv'
<1>1. op' = [u \in Thread |-> NoCall] /\ UNCHANGED account
  BY DEF ProcessExit, data
<1>2. LInv'
  BY ExitInv DEF KInv, LInv, TypeOK
<1>3. FoundOnly' /\ OnlyOne'
  BY <1>1, NoCallTyped DEF KInv, FoundOnly, OnlyOne, Inside
<1>4. \A u \in Thread : Knows(u)'
  BY <1>1, NoCallTyped DEF Knows, KnowsQuery, Inside
<1>. QED
  BY <1>2, <1>3, <1>4 DEF KInv, LInv, TypeOK

LEMMA KnownNext == KInv /\ [Next]_vars => KInv'
<1>. SUFFICES ASSUME KInv, [Next]_vars PROVE KInv'
  OBVIOUS
<1>1. CASE UNCHANGED vars
  <2>1. LInv'
    BY <1>1, NextInv DEF KInv
  <2>. QED
    BY <1>1, <2>1 DEF vars, KInv, FoundOnly, OnlyOne, Knows, KnowsQuery, KnowsBind,
       KnowsUnbind, Healed,
       Cleared
<1>. QED
  BY <1>1, KnownStep, KnownBegin, KnownExit DEF Next

LEMMA AlwaysKInv == Spec => []KInv
BY KnownInit, KnownNext, PTL DEF Spec

(* UpdateBinding of the LevelDB backend, when it returns nil and no other  *)
(* call ran meanwhile, leaves the e-mail mapped to the account and listed  *)
(* by it, and not by the account it was mapped to before, whatever earlier *)
(* calls, failures and ends of the process had left.                       *)
THEOREM BindHeals == Spec => []AloneBindHeals
<1>1. KInv => AloneBindHeals
  BY DEF KInv, LInv, TypeOK, Knows, KnowsBind, Healed, AloneBindHeals
<1>. QED
  BY <1>1, AlwaysKInv, PTL

(* DeleteBinding, likewise, leaves the e-mail neither mapped nor listed.   *)
THEOREM UnbindClears == Spec => []AloneUnbindClears
<1>1. KInv => AloneUnbindClears
  BY DEF KInv, LInv, TypeOK, Knows, KnowsUnbind, Cleared, AloneUnbindClears
<1>. QED
  BY <1>1, AlwaysKInv, PTL

-----------------------------------------------------------------------------
(* What a step of a call that is alone may do to the database.             *)

(* A query writes nothing; only UpdateBinding lists an e-mail, its own for *)
(* its account, or maps one.                                               *)
OwnWrites(c) ==
    LET emails == account[c.addr].emails
    IN  /\ c.name \notin Mutator => UNCHANGED <<account, reflect>>
        /\ \A a \in Address :
              \/ account'[a].emails \subseteq account[a].emails
              \/ c.name = "UpdateBinding" /\ a = c.addr
        /\ c.name = "UpdateBinding" =>
              /\ account'[c.addr].emails \in {emails, emails \cup {c.email}}
              /\ account'[c.addr].level = account[c.addr].level
        /\ \A e \in Email :
              \/ reflect'[e] \in {reflect[e], NoAddress}
              \/ c.name = "UpdateBinding" /\ e = c.email /\ reflect'[e] = c.addr

LEMMA AloneWrites ==
    ASSUME LInv, NEW t \in Thread, Knows(t), StoreStep(t)
    PROVE  OwnWrites(op[t])
<1>. DEFINE c == op[t]
<1>1. /\ GoodCall(c) /\ c \in Call(Section) /\ old \in [Thread -> Doc]
      /\ account \in [Address -> Doc] /\ reflect \in [Email -> Address \cup {NoAddress}]
      /\ c.doc \in Doc /\ c.level \in StoredLevel
      /\ c.pc = "write" => c.doc = account[c.addr]
      /\ NewDoc(c.level).emails = {}
  BY CallFacts DEF LInv, Knows, Inside, GoodCall, NewDoc, TypeOK, StoreTypeOK
<1>2. ASSUME UNCHANGED data PROVE OwnWrites(c)
  BY <1>2 DEF OwnWrites, data
<1>3. ASSUME c.pc = "setEmail", UNCHANGED account,
             reflect' = [reflect EXCEPT ![c.email] = c.addr]
      PROVE  OwnWrites(c)
  BY <1>1, <1>3 DEF OwnWrites, GoodCall, Mutator
<1>4. ASSUME c.pc = "email", c.name = "DeleteBinding", UNCHANGED account,
             reflect' = [reflect EXCEPT ![c.email] = NoAddress]
      PROVE  OwnWrites(c)
  BY <1>1, <1>4 DEF OwnWrites, Mutator
<1>5. ASSUME c.pc = "setOld", UNCHANGED reflect,
             account' = [account EXCEPT ![c.owner] = [old[t] EXCEPT !.emails = @ \ {c.email}]]
      PROVE  OwnWrites(c)
  <2>1. /\ c.name = "UpdateBinding" /\ c.owner \in Address /\ c.owner # c.addr
        /\ old[t] = account[c.owner]
    BY <1>1, <1>5 DEF GoodCall, Knows, KnowsBind
  <2>2. [old[t] EXCEPT !.emails = @ \ {c.email}].emails \subseteq account[c.owner].emails
    BY <1>1, <2>1 DEF Doc
  <2>. QED
    BY <1>1, <1>5, <2>1, <2>2 DEF OwnWrites, Mutator, GoodCall, TakesAddress
<1>6. ASSUME NEW name \in Mutator, NEW doc, WriteAccount(t, name, doc),
             name # "UpdateBinding" => doc.emails \subseteq account[c.addr].emails,
             name = "UpdateBinding" =>
                /\ doc.emails = account[c.addr].emails \cup {c.email}
                /\ doc.level = account[c.addr].level
      PROVE  OwnWrites(c)
  <2>1. /\ c.name = name /\ UNCHANGED reflect /\ c.addr \in Address
        /\ account'[c.addr] = doc /\ \A a \in Address \ {c.addr} : account'[a] = account[a]
    BY <1>1, <1>6 DEF WriteAccount, GoodCall, TakesAddress, Mutator
  <2>. QED
    BY <1>6, <2>1 DEF OwnWrites
<1>7. CASE ActiveAccountWrite(t)
  BY <1>1, <1>6, <1>7 DEF ActiveAccountWrite, Mutator
<1>8. CASE UpdateAccountLevelWrite(t)
  <2>1. c.pc = "write" /\ [c.doc EXCEPT !.level = c.level].emails = account[c.addr].emails
    BY <1>1, <1>8 DEF UpdateAccountLevelWrite, WriteAccount, Doc
  <2>. QED
    BY <1>6, <1>8, <2>1 DEF UpdateAccountLevelWrite, Mutator
<1>9. CASE UpdateBindingWrite(t)
  <2>. DEFINE doc == [c.doc EXCEPT !.emails = @ \cup {c.email}]
  <2>1. /\ c.pc = "write" /\ doc.emails = account[c.addr].emails \cup {c.email}
        /\ doc.level = account[c.addr].level /\ WriteAccount(t, "UpdateBinding", doc)
    BY <1>1, <1>9 DEF UpdateBindingWrite, WriteAccount, Doc
  <2>. HIDE DEF doc
  <2>. QED
    BY <1>6, <2>1 DEF Mutator
<1>10. CASE DeleteBindingWrite(t)
  <2>. DEFINE doc == [c.doc EXCEPT !.emails = @ \ {c.email}]
  <2>1. /\ c.pc = "write" /\ doc.emails = account[c.addr].emails \ {c.email}
        /\ WriteAccount(t, "DeleteBinding", doc)
    BY <1>1, <1>10 DEF DeleteBindingWrite, WriteAccount, Doc
  <2>. HIDE DEF doc
  <2>. QED
    BY <1>6, <2>1 DEF Mutator
<1>. QED
  BY <1>2, <1>3, <1>4, <1>5, <1>7, <1>8, <1>9, <1>10, StepWrites

-----------------------------------------------------------------------------
(* Who can wait for whom (LevelDBMoves).  The lock table is a part of the  *)
(* backend (LockTable), and what KeyedLockProofs says of it holds here:    *)
(* each step of the backend is a step of the lock table or leaves it alone.*)
(* The rest of the invariant (Placed) says which locks a call has at each  *)
(* place, and for which keys.                                              *)

LockTable == INSTANCE KeyedLockProofs WITH
    owner <- lockOwner, pc <- lockPc, key <- lockKey, mu <- lockMu

(* Where a call is, where its two locks are, and whose locks they are.     *)
Placed(t) ==
    LET c == op[t]
        outer == lockPc[Outer(t)]
        inner == lockPc[Inner(t)]
    IN  /\ c.name \in {"UpdateBinding", "QueryAccount", "QueryReflectsByEmails", "none"}
        /\ c.name = "none" => c.pc = "idle"
        /\ c.name = "UpdateBinding" => c.addr \in Address /\ c.email \in Email
        /\ c.name = "QueryAccount" => c.addr \in Address
        /\ c.name = "QueryReflectsByEmails" /\ outer # "idle" => c.email \in Email
        /\ c.pc \in Inside => c.name = "UpdateBinding" /\ outer = "held"
        /\ c.pc \in {"old", "setOld", "leaveOld"} => c.owner \in Address \ {c.addr}
        /\ c.pc \in {"idle", "done"} => outer = "idle"
        /\ c.pc = "begin" => outer \in {"idle", "lock", "held"}
        /\ c.pc = "release" => outer \in {"held", "delete"}
        /\ c.pc \notin Inside \/ c.pc = "write" => inner = "idle"
        /\ c.pc \in {"email", "old"} => inner \in {"idle", "lock", "held"}
        /\ c.pc \in {"setEmail", "setOld"} => inner = "held"
        /\ c.pc \in {"leaveEmail", "leaveOld"} => inner \in {"held", "delete"}
        /\ c.name = "UpdateBinding" /\ outer # "idle" => lockKey[Outer(t)] = AccountKey(c.addr)
        /\ c.pc \in {"email", "old"} /\ inner # "idle" => lockKey[Inner(t)] = InnerKey(c)

MInv ==
    /\ StoreTypeOK
    /\ LockTable!IInv /\ LockTable!OneKey
    /\ \A t \in Thread : Placed(t)

-----------------------------------------------------------------------------
(* Two calls that wait for each other.                                     *)

(* A call that waits while another waits for it has its outer lock and     *)
(* waits for its inner one; what it waits for is the other's outer lock.   *)
LEMMA WaitsInside ==
    ASSUME MInv, NEW t \in Thread, NEW u \in Thread, WaitsFor(t, u), WaitsFor(u, t)
    PROVE  /\ op[t].pc \in {"email", "old"} /\ op[u].pc \in {"email", "old"}
           /\ InnerKey(op[t]) = AccountKey(op[u].addr)
<1>1. ASSUME NEW v \in Thread,
             \E g \in {Outer(v), Inner(v)} : lockPc[g] = "lock",
             \E h \in {Outer(v), Inner(v)}, m \in Mutex : lockOwner[m] = h
      PROVE  /\ op[v].pc \in {"email", "old"} /\ lockPc[Inner(v)] = "lock" /\ lockPc[Outer(v)] = "held"
             /\ lockKey[Inner(v)] = InnerKey(op[v]) /\ lockKey[Outer(v)] = AccountKey(op[v].addr)
  <2>1. \E h \in {Outer(v), Inner(v)} : lockPc[h] = "held"
    BY <1>1, Holders DEF MInv, LockTable!IInv, LockTable!OwnerIsHolder
  <2>2. Placed(v) /\ op[v].pc \in Section \cup {"idle", "begin", "done"}
    BY DEF MInv, StoreTypeOK, Call
  <2>. QED
    BY <1>1, <2>1, <2>2 DEF Placed, Inside, Section
<1>2. ASSUME NEW v \in Thread, NEW w \in Thread, WaitsFor(v, w)
      PROVE  \E g \in {Outer(v), Inner(v)}, h \in {Outer(w), Inner(w)} :
                lockPc[g] = "lock" /\ lockMu[g] \in Mutex /\ lockOwner[lockMu[g]] = h
  <2>1. PICK g \in {Outer(v), Inner(v)}, h \in {Outer(w), Inner(w)} :
           lockPc[g] = "lock" /\ lockOwner[lockMu[g]] = h
    BY <1>2 DEF WaitsFor
  <2>2. lockMu[g] \in Mutex
    BY <2>1, Holders DEF MInv, LockTable!IInv, LockTable!HasMutex, LockTable!TypeOK
  <2>. QED
    BY <2>1, <2>2
<1>3. /\ \A v \in {t, u} :
            /\ op[v].pc \in {"email", "old"} /\ lockPc[Inner(v)] = "lock" /\ lockPc[Outer(v)] = "held"
            /\ lockKey[Inner(v)] = InnerKey(op[v]) /\ lockKey[Outer(v)] = AccountKey(op[v].addr)
  BY <1>1, <1>2
<1>4. lockMu[Inner(t)] \in Mutex /\ lockOwner[lockMu[Inner(t)]] = Outer(u)
  <2>1. PICK g \in {Outer(t), Inner(t)}, h \in {Outer(u), Inner(u)} :
           lockPc[g] = "lock" /\ lockMu[g] \in Mutex /\ lockOwner[lockMu[g]] = h
    BY <1>2
  <2>2. lockPc[h] = "held" /\ h \in Holder
    BY <2>1, Holders DEF MInv, LockTable!IInv, LockTable!OwnerIsHolder
  <2>3. g = Inner(t) /\ h = Outer(u)
    BY <1>3, <2>1, <2>2
  <2>. QED
    BY <2>1, <2>3
<1>5. lockMu[Outer(u)] = lockMu[Inner(t)]
  BY <1>4, Holders DEF MInv, LockTable!IInv, LockTable!OwnerIsHolder
<1>6. lockKey[Inner(t)] = lockKey[Outer(u)]
  <2>1. lockMu[Inner(t)] # NoMutex
    BY <1>4, LockAssumption
  <2>. QED
    BY <1>5, <2>1, Holders DEF MInv, LockTable!OneKey
<1>. QED
  BY <1>3, <1>6

LEMMA CrossMoves == MInv => OnlyCrossMovesBlock
<1>. SUFFICES ASSUME MInv, NEW t \in Thread, NEW u \in Thread, WaitsFor(t, u), WaitsFor(u, t)
              PROVE  /\ t # u
                     /\ op[t].pc = "old" /\ op[t].owner = op[u].addr
                     /\ op[u].pc = "old" /\ op[u].owner = op[t].addr
  BY DEF OnlyCrossMovesBlock
<1>1. /\ op[t].pc \in {"email", "old"} /\ op[u].pc \in {"email", "old"}
      /\ InnerKey(op[t]) = AccountKey(op[u].addr) /\ InnerKey(op[u]) = AccountKey(op[t].addr)
  BY WaitsInside
<1>2. /\ op[t].pc = "old" /\ op[t].owner = op[u].addr
      /\ op[u].pc = "old" /\ op[u].owner = op[t].addr
  BY <1>1 DEF InnerKey, AccountKey, EmailKey
<1>3. op[t].owner # op[t].addr
  BY <1>2 DEF MInv, Placed
<1>. QED
  BY <1>2, <1>3

-----------------------------------------------------------------------------
(* The reads and writes of the store.                                      *)


LEMMA DocKept ==
    /\ NoDoc \in Doc
    /\ \A l \in StoredLevel : NewDoc(l) \in Doc
    /\ \A doc \in Doc, s \in SUBSET Email : [doc EXCEPT !.emails = s] \in Doc
    /\ \A doc \in Doc : doc.emails \in SUBSET Email
BY DEF NoDoc, NewDoc, Doc, StoredLevel

(* What the invariant says of one goroutine.                               *)
LEMMA PlacedFacts ==
    ASSUME MInv, NEW t \in Thread
    PROVE  /\ Calls /\ op[t] \in Call(Section) /\ Placed(t)
           /\ account \in [Address -> Doc] /\ old \in [Thread -> Doc]
           /\ reflect \in [Email -> Address \cup {NoAddress}]
           /\ lockPc \in [Holder -> {"idle", "lock", "held", "delete"}]
           /\ lockKey \in [Holder -> Key \cup {NoKey}]
           /\ op[t].owner \in Address \cup {NoAddress} /\ op[t].doc \in Doc
           /\ op[t].pc \in Section \cup {"idle", "begin", "done"}
<1>1. /\ Calls /\ Placed(t) /\ op[t] \in Call(Section)
      /\ account \in [Address -> Doc] /\ old \in [Thread -> Doc]
      /\ reflect \in [Email -> Address \cup {NoAddress}]
      /\ Locks!TypeOK
  BY DEF MInv, StoreTypeOK, Calls
<1>. QED
  BY <1>1 DEF Call, Locks!TypeOK, Locks!Place

(* A step that leaves the locks alone.                                     *)
Tables == /\ account \in [Address -> Doc] /\ old \in [Thread -> Doc]
          /\ reflect \in [Email -> Address \cup {NoAddress}]

LEMMA UnlockedStep ==
    ASSUME MInv, NEW t \in Thread, NEW c \in Call(Section), op' = [op EXCEPT ![t] = c],
           UNCHANGED locks, Tables', Calls' => Placed(t)'
    PROVE  MInv'
<1>1. Calls' /\ op'[t] = c /\ \A u \in Thread \ {t} : op'[u] = op[u]
  BY OneCall DEF MInv, StoreTypeOK, Calls
<1>2. StoreTypeOK'
  BY <1>1 DEF MInv, StoreTypeOK, Locks!TypeOK, Calls, Tables, locks
<1>3. LockTable!IInv' /\ LockTable!OneKey'
  BY DEF MInv, locks, LockTable!IInv, LockTable!TypeOK, LockTable!HasMutex,
     LockTable!OwnerIsHolder, LockTable!EntryHasUser, LockTable!OneKey
<1>4. ASSUME NEW u \in Thread PROVE Placed(u)'
  <2>1. CASE u = t
    BY <1>1, <2>1
  <2>2. CASE u # t
    BY <1>1, <2>2 DEF MInv, Placed, locks
  <2>. QED
    BY <2>1, <2>2
<1>. QED
  BY <1>2, <1>3, <1>4 DEF MInv

(* A place that the locks of the call fit.                                 *)
Fits(t, c) ==
    /\ c.name = op[t].name /\ c.addr = op[t].addr /\ c.email = op[t].email
    /\ c.owner = op[t].owner \/ c.pc = "setEmail"
    /\ \/ /\ op[t].pc = "begin" /\ lockPc[Outer(t)] = "held"
          /\ c.pc = "release" \/ (c.pc = "email" /\ c.name = "UpdateBinding")
       \/ op[t].pc = "email" /\ lockPc[Inner(t)] = "held" /\ c.pc \in {"setEmail", "leaveEmail"}
       \/ op[t].pc = "setEmail" /\ c.pc = "leaveEmail"
       \/ op[t].pc = "old" /\ lockPc[Inner(t)] = "held" /\ c.pc \in {"setOld", "leaveOld"}
       \/ op[t].pc = "setOld" /\ c.pc = "leaveOld"
       \/ op[t].pc = "write" /\ c.pc = "release"

LEMMA FitsPlaced ==
    ASSUME MInv, NEW t \in Thread, NEW c \in Call(Section), op' = [op EXCEPT ![t] = c],
           UNCHANGED locks, Tables', Fits(t, c)
    PROVE  MInv'
<1>1. op'[t] = c
  BY PlacedFacts DEF Calls
<1>2. lockPc' = lockPc /\ lockKey' = lockKey
  BY DEF locks
<1>3. Placed(t)'
  BY <1>1, <1>2, PlacedFacts DEF Fits, Placed, Inside, InnerKey, EmailKey
<1>. QED
  BY <1>3, UnlockedStep

DataStep(t) == QueryAccountRead(t) \/ ReadReflectOf(t) \/ BindStep(t)

(* A call with another place and another answer is a call.                 *)
LEMMA Retyped ==
    ASSUME NEW c \in Call(Section), NEW place \in Section,
           NEW res \in {"none", "ok", "err", "panic"}
    PROVE  [c EXCEPT !.pc = place, !.res = res] \in Call(Section)
BY DEF Call

(* So is one that has read a document, or one more row of the reflection.  *)
LEMMA Loaded ==
    ASSUME NEW c \in Call(Section), NEW place \in Section, NEW doc \in Doc
    PROVE  /\ [c EXCEPT !.pc = place, !.doc = doc] \in Call(Section)
           /\ [c EXCEPT !.pc = place, !.res = "ok", !.doc = doc] \in Call(Section)
BY ZenonT(60) DEF Call

LEMMA Answered ==
    ASSUME NEW c \in Call(Section), NEW place \in Section, NEW rest \in SUBSET Email,
           NEW answer \in Answer, NEW res \in {"none", "ok", "err", "panic"}
    PROVE  [c EXCEPT !.pc = place, !.todo = rest, !.answer = answer, !.res = res] \in Call(Section)
BY DEF Call

LEMMA DataStepInv ==
    ASSUME MInv, NEW t \in Thread, DataStep(t)
    PROVE  MInv'
<1>. DEFINE c == op[t]
<1>. USE PlacedFacts
<1>1. UNCHANGED <<account, reflect, old>> => Tables'
  BY DEF Tables
<1>2. CASE QueryAccountRead(t)
  <2>. DEFINE doc == account[c.addr]
              d == [c EXCEPT !.pc = "release", !.res = "ok", !.doc = doc]
  <2>1. /\ op' = [op EXCEPT ![t] = d] /\ c.pc = "begin" /\ lockPc[Outer(t)] = "held"
        /\ UNCHANGED <<account, reflect, old>> /\ UNCHANGED locks /\ doc \in Doc
    BY <1>2 DEF QueryAccountRead, HasOuter, Calls, Placed
  <2>. HIDE DEF doc
  <2>2. d \in Call(Section)
    BY <2>1, Loaded DEF Section
  <2>3. Fits(t, d)
    BY <2>1 DEF Call, Fits
  <2>. QED
    BY <1>1, <2>1, <2>2, <2>3, FitsPlaced
<1>3. CASE ReadReflectOf(t)
  <2>. DEFINE e == c.email
              rest == c.todo \ {e}
              answer == c.answer \cup ({<<e, reflect[e]>>} \ {<<e, NoAddress>>})
              res == IF rest = {} THEN "ok" ELSE "none"
              d == [c EXCEPT !.pc = "release", !.todo = rest, !.answer = answer, !.res = res]
  <2>1. /\ op' = [op EXCEPT ![t] = d] /\ c.pc = "begin" /\ lockPc[Outer(t)] = "held"
        /\ UNCHANGED <<account, reflect, old>> /\ UNCHANGED locks
    BY <1>3 DEF ReadReflectOf, HasOuter, Calls
  <2>2. e \in Email
    BY <1>3 DEF ReadReflectOf, HasOuter, Placed
  <2>3. answer \in Answer
    <3>1. c.answer \in SUBSET (Email \X Address)
      BY DEF Call, Answer
    <3>2. reflect[e] = NoAddress \/ <<e, reflect[e]>> \in Email \X Address
      BY <2>2
    <3>. QED
      BY <3>1, <3>2 DEF Answer
  <2>4. rest \in SUBSET Email /\ res \in {"ok", "none"}
    BY DEF Call
  <2>. HIDE DEF rest, answer, res
  <2>5. d \in Call(Section)
    BY <2>3, <2>4, Answered, ZenonT(60) DEF Section
  <2>6. Fits(t, d)
    BY <2>1 DEF Call, Fits
  <2>. QED
    BY <1>1, <2>1, <2>5, <2>6, FitsPlaced
<1>4. ASSUME NEW place \in {"release", "leaveEmail", "setOld", "leaveOld"}, NEW res \in {"ok", "err", c.res},
             op' = [op EXCEPT ![t] = [c EXCEPT !.pc = place, !.res = res]],
             UNCHANGED locks, Tables',
             \/ c.pc = "begin" /\ lockPc[Outer(t)] = "held" /\ place = "release"
             \/ c.pc = "write" /\ place = "release"
             \/ c.pc = "email" /\ lockPc[Inner(t)] = "held" /\ place = "leaveEmail"
             \/ c.pc = "setEmail" /\ place = "leaveEmail"
             \/ c.pc = "old" /\ lockPc[Inner(t)] = "held" /\ place \in {"setOld", "leaveOld"}
             \/ c.pc = "setOld" /\ place = "leaveOld"
      PROVE  MInv'
  <2>. DEFINE d == [c EXCEPT !.pc = place, !.res = res]
  <2>1. res \in {"none", "ok", "err", "panic"} /\ place \in Section
    BY <1>4 DEF Call, Section
  <2>2. d \in Call(Section)
    BY <2>1, Retyped
  <2>3. Fits(t, d)
    BY <1>4 DEF Fits, Call
  <2>. QED
    BY <1>4, <2>2, <2>3, FitsPlaced
<1>5. CASE UpdateBindingRead(t)
  <2>1. /\ c.pc = "begin" /\ lockPc[Outer(t)] = "held" /\ c.name = "UpdateBinding"
        /\ UNCHANGED <<account, reflect, old>> /\ UNCHANGED locks
    BY <1>5 DEF UpdateBindingRead, HasOuter
  <2>2. CASE Load(t, "email")
    <3>. DEFINE doc == account[c.addr]
                d == [c EXCEPT !.pc = "email", !.doc = doc]
    <3>1. op' = [op EXCEPT ![t] = d] /\ doc \in Doc
      BY <2>1, <2>2 DEF Load, Calls, Placed
    <3>. HIDE DEF doc
    <3>2. d \in Call(Section)
      BY <3>1, Loaded DEF Section
    <3>3. Fits(t, d)
      BY <2>1, <3>1 DEF Call, Fits
    <3>. QED
      BY <1>1, <2>1, <3>1, <3>2, <3>3, FitsPlaced
  <2>3. CASE Leave(t, "release", "err")
    <3>1. op' = [op EXCEPT ![t] = [c EXCEPT !.pc = "release", !.res = "err"]]
      BY <2>3 DEF Leave, Calls
    <3>. QED
      BY <1>1, <1>4, <2>1, <3>1
  <2>. QED
    BY <1>5, <2>2, <2>3 DEF UpdateBindingRead
<1>6. ASSUME NEW place \in Section, op' = [op EXCEPT ![t].pc = place]
      PROVE  op' = [op EXCEPT ![t] = [c EXCEPT !.pc = place, !.res = c.res]]
  <2>1. [c EXCEPT !.pc = place] = [c EXCEPT !.pc = place, !.res = c.res]
    BY DEF Call
  <2>. QED
    BY <1>6, <2>1 DEF Calls
<1>7. CASE ReadEmail(t)
  <2>1. /\ c.pc = "email" /\ lockPc[Inner(t)] = "held" /\ c.email \in Email
        /\ UNCHANGED <<account, reflect, old>> /\ UNCHANGED locks
    BY <1>7 DEF ReadEmail, HasInner, Placed
  <2>2. CASE op' = [op EXCEPT ![t].pc = "leaveEmail"]
    BY <1>1, <1>4, <1>6, <2>1, <2>2 DEF Section
  <2>3. CASE op' = [op EXCEPT ![t].pc = "setEmail", ![t].owner = reflect[c.email]]
    <3>. DEFINE owner == reflect[c.email]
                d == [c EXCEPT !.pc = "setEmail", !.owner = owner]
    <3>1. op' = [op EXCEPT ![t] = d] /\ owner \in Address \cup {NoAddress}
      BY <2>1, <2>3 DEF Calls
    <3>. HIDE DEF owner
    <3>2. d \in Call(Section)
      BY <3>1, ZenonT(60) DEF Call, Section
    <3>3. d.pc = "setEmail" /\ d.name = c.name /\ d.addr = c.addr /\ d.email = c.email
      BY DEF Call
    <3>4. Fits(t, d)
      BY <2>1, <3>3 DEF Fits
    <3>. QED
      BY <1>1, <2>1, <3>1, <3>2, <3>4, FitsPlaced
  <2>. QED
    BY <1>7, <2>2, <2>3 DEF ReadEmail
<1>8. CASE WriteEmail(t)
  <2>1. /\ c.pc = "setEmail" /\ UNCHANGED locks /\ UNCHANGED <<account, old>>
        /\ op' = [op EXCEPT ![t].pc = "leaveEmail"]
        /\ reflect' = [reflect EXCEPT ![c.email] = c.addr] /\ c.addr \in Address
    BY <1>8 DEF WriteEmail, Placed, Inside
  <2>2. Tables'
    BY <2>1 DEF Tables
  <2>. QED
    BY <1>4, <1>6, <2>1, <2>2 DEF Section
<1>9. CASE ReadOld(t)
  <2>. DEFINE place == IF account[c.owner].found THEN "setOld" ELSE "leaveOld"
  <2>1. /\ c.pc = "old" /\ lockPc[Inner(t)] = "held" /\ c.owner \in Address
        /\ UNCHANGED locks /\ UNCHANGED <<account, reflect>>
        /\ op' = [op EXCEPT ![t].pc = place] /\ old' = [old EXCEPT ![t] = account[c.owner]]
    BY <1>9 DEF ReadOld, HasInner, Placed
  <2>2. Tables' /\ place \in {"setOld", "leaveOld"}
    BY <2>1 DEF Tables
  <2>. QED
    BY <1>4, <1>6, <2>1, <2>2 DEF Section
<1>10. CASE WriteOld(t)
  <2>. DEFINE doc == [old[t] EXCEPT !.emails = @ \ {c.email}]
  <2>1. /\ c.pc = "setOld" /\ UNCHANGED locks /\ UNCHANGED <<reflect, old>>
        /\ op' = [op EXCEPT ![t].pc = "leaveOld"]
        /\ account' = [account EXCEPT ![c.owner] = doc]
    BY <1>10 DEF WriteOld
  <2>2. doc \in Doc
    BY DEF Doc
  <2>. HIDE DEF doc
  <2>3. Tables'
    BY <2>1, <2>2 DEF Tables
  <2>. QED
    BY <1>4, <1>6, <2>1, <2>3 DEF Section
<1>11. CASE UpdateBindingWrite(t)
  <2>. DEFINE doc == [c.doc EXCEPT !.emails = @ \cup {c.email}]
  <2>1. /\ c.pc = "write" /\ UNCHANGED locks /\ UNCHANGED <<reflect, old>> /\ c.email \in Email
        /\ Leave(t, "release", "ok") /\ account' = [account EXCEPT ![c.addr] = doc]
    BY <1>11 DEF UpdateBindingWrite, WriteAccount, Placed
  <2>2. doc \in Doc
    BY <2>1 DEF Doc
  <2>. HIDE DEF doc
  <2>3. Tables'
    BY <2>1, <2>2 DEF Tables
  <2>4. op' = [op EXCEPT ![t] = [c EXCEPT !.pc = "release", !.res = "ok"]]
    BY <2>1 DEF Leave, Calls
  <2>. QED
    BY <1>4, <2>1, <2>3, <2>4
<1>. QED
  BY <1>2, <1>3, <1>5, <1>7, <1>8, <1>9, <1>10, <1>11 DEF DataStep, BindStep

-----------------------------------------------------------------------------
(* The steps of the lock table.                                            *)

LEMMA LockMoves ==
    ASSUME MInv, NEW h \in Holder,
           \/ \E k \in Key : Locks!LoadOrStore(h, k)
           \/ Locks!Lock(h) \/ Locks!Unlock(h) \/ Locks!Delete(h)
    PROVE  LockTable!IInv' /\ LockTable!OneKey' /\ Locks!TypeOK'
<1>1. LockTable!Next
  <2>1. ASSUME NEW k \in Key, Locks!LoadOrStore(h, k) PROVE LockTable!LoadOrStore(h, k)
    BY <2>1 DEF Locks!LoadOrStore, LockTable!LoadOrStore, Locks!Fresh, LockTable!Fresh
  <2>2. ASSUME Locks!Lock(h) PROVE LockTable!Lock(h)
    BY <2>2 DEF Locks!Lock, LockTable!Lock
  <2>3. ASSUME Locks!Unlock(h) PROVE LockTable!Unlock(h)
    BY <2>3 DEF Locks!Unlock, LockTable!Unlock
  <2>4. ASSUME Locks!Delete(h) PROVE LockTable!Delete(h)
    BY <2>4 DEF Locks!Delete, LockTable!Delete
  <2>. QED
    BY <2>1, <2>2, <2>3, <2>4 DEF LockTable!Next
<1>2. LockTable!IInv' /\ LockTable!OneKey'
  BY LockAssumption, <1>1, LockTable!NextInv, LockTable!OneKeyNext DEF MInv
<1>3. Locks!TypeOK'
  BY <1>2 DEF LockTable!IInv, LockTable!TypeOK, LockTable!Place, Locks!TypeOK, Locks!Place
<1>. QED
  BY <1>2, <1>3

(* A step that moves one lock of one goroutine.                            *)
LEMMA LockedStep ==
    ASSUME MInv, NEW t \in Thread, NEW h \in {Outer(t), Inner(t)}, Tables',
           NEW c \in Call(Section), op' = [op EXCEPT ![t] = c],
           \/ \E k \in Key : Locks!LoadOrStore(h, k)
           \/ Locks!Lock(h) \/ Locks!Unlock(h) \/ Locks!Delete(h),
           Calls' => Placed(t)'
    PROVE  MInv'
<1>1. Calls' /\ op'[t] = c /\ \A u \in Thread \ {t} : op'[u] = op[u]
  BY OneCall DEF MInv, StoreTypeOK, Calls
<1>2. LockTable!IInv' /\ LockTable!OneKey' /\ Locks!TypeOK'
  BY LockMoves, Holders
<1>3. StoreTypeOK'
  BY <1>1, <1>2 DEF StoreTypeOK, Calls, Tables
<1>4. ASSUME NEW g \in Holder, g # h PROVE lockPc'[g] = lockPc[g] /\ lockKey'[g] = lockKey[g]
  BY <1>4, Holders, PlacedFacts DEF Locks!LoadOrStore, Locks!Lock, Locks!Unlock, Locks!Delete
<1>5. ASSUME NEW u \in Thread PROVE Placed(u)'
  <2>1. CASE u = t
    BY <1>1, <2>1
  <2>2. CASE u # t
    <3>1. Outer(u) # h /\ Inner(u) # h /\ Outer(u) \in Holder /\ Inner(u) \in Holder
      BY <2>2, Holders
    <3>2. op'[u] = op[u] /\ Placed(u)
      BY <1>1, <2>2, PlacedFacts
    <3>. QED
      BY <1>4, <3>1, <3>2 DEF Placed
  <2>. QED
    BY <2>1, <2>2
<1>. QED
  BY <1>2, <1>3, <1>5 DEF MInv

LEMMA LockStepInv ==
    ASSUME MInv, NEW t \in Thread, LockStep(t)
    PROVE  MInv'
<1>. DEFINE c == op[t]
<1>. USE PlacedFacts
<1>1. Outer(t) \in Holder /\ Inner(t) \in Holder /\ Outer(t) # Inner(t)
  BY Holders
<1>2. UNCHANGED <<account, reflect, old>> => Tables'
  BY DEF Tables
<1>3. op' = op => op' = [op EXCEPT ![t] = c]
  BY DEF Calls
<1>4. CASE AskLock(t)
  <2>1. op' = op /\ Tables'
    BY <1>2, <1>4 DEF AskLock
  <2>2. CASE /\ c.pc = "begin" /\ c.name \notin Stub \cup Unsupported \cup ManyLocks
             /\ Locks!LoadOrStore(Outer(t), OuterKey(c))
    <3>1. OuterKey(c) = AccountKey(c.addr) /\ OuterKey(c) \in Key
      BY <2>2 DEF Placed, OuterKey, AccountKey, Key, ManyLocks
    <3>2. /\ lockPc' = [lockPc EXCEPT ![Outer(t)] = "lock"]
          /\ lockKey' = [lockKey EXCEPT ![Outer(t)] = OuterKey(c)]
      BY <2>2 DEF Locks!LoadOrStore
    <3>3. Placed(t)'
      BY <1>1, <2>1, <2>2, <3>1, <3>2 DEF Placed, Inside, ManyLocks
    <3>. QED
      BY <1>3, <2>1, <2>2, <3>1, <3>3, LockedStep
  <2>3. CASE c.pc \in {"email", "old"} /\ Locks!LoadOrStore(Inner(t), InnerKey(c))
    <3>1. InnerKey(c) \in Key
      BY <2>3 DEF Placed, Inside, InnerKey, AccountKey, EmailKey, Key
    <3>2. /\ lockPc' = [lockPc EXCEPT ![Inner(t)] = "lock"]
          /\ lockKey' = [lockKey EXCEPT ![Inner(t)] = InnerKey(c)]
      BY <2>3 DEF Locks!LoadOrStore
    <3>3. Placed(t)'
      BY <1>1, <2>1, <2>3, <3>1, <3>2 DEF Placed, Inside
    <3>. QED
      BY <1>3, <2>1, <2>3, <3>1, <3>3, LockedStep
  <2>. QED
    BY <1>4, <2>2, <2>3 DEF AskLock
<1>5. CASE AskEmailLock(t)
  <2>1. PICK e \in c.todo : Locks!LoadOrStore(Outer(t), EmailKey(e)) /\ op' = [op EXCEPT ![t].email = e]
    BY <1>5 DEF AskEmailLock
  <2>2. e \in Email /\ c.pc = "begin" /\ c.name = "QueryReflectsByEmails" /\ Tables'
    BY <1>2, <1>5 DEF AskEmailLock, Call
  <2>. DEFINE d == [c EXCEPT !.email = e]
  <2>3. /\ d \in Call(Section) /\ d.email = e
        /\ d.pc = c.pc /\ d.name = c.name
    BY <2>2 DEF Call
  <2>4. op' = [op EXCEPT ![t] = d] /\ op'[t] = d
    BY <2>1 DEF Calls
  <2>. HIDE DEF d
  <2>5. EmailKey(e) \in Key
    BY <2>2 DEF EmailKey, Key
  <2>6. /\ lockPc' = [lockPc EXCEPT ![Outer(t)] = "lock"] /\ lockPc[Outer(t)] = "idle"
        /\ lockKey' = [lockKey EXCEPT ![Outer(t)] = EmailKey(e)]
    BY <2>1 DEF Locks!LoadOrStore
  <2>7. Placed(t)'
    BY <1>1, <2>2, <2>3, <2>4, <2>6 DEF Placed, Inside
  <2>. QED
    BY <2>1, <2>2, <2>3, <2>4, <2>5, <2>7, LockedStep
<1>6. CASE TakeLock(t)
  <2>1. PICK h \in {Outer(t), Inner(t)} : Locks!Lock(h)
    BY <1>6 DEF TakeLock
  <2>2. op' = op /\ Tables'
    BY <1>2, <1>6 DEF TakeLock
  <2>3. lockPc[h] = "lock" /\ lockPc' = [lockPc EXCEPT ![h] = "held"] /\ lockKey' = lockKey
    BY <2>1 DEF Locks!Lock
  <2>4. Placed(t)'
    BY <1>1, <2>2, <2>3 DEF Placed, Inside
  <2>. QED
    BY <1>3, <2>1, <2>2, <2>4, LockedStep
<1>7. CASE Unlock(t)
  <2>1. PICK h \in {Outer(t), Inner(t)} :
           /\ Locks!Unlock(h)
           /\ h = Outer(t) => c.pc = "release"
           /\ h = Inner(t) => c.pc \in {"leaveEmail", "leaveOld"}
    BY <1>1, <1>7 DEF Unlock
  <2>2. op' = op /\ Tables'
    BY <1>2, <1>7 DEF Unlock
  <2>3. lockPc' = [lockPc EXCEPT ![h] = "delete"] /\ lockKey' = lockKey
    BY <2>1 DEF Locks!Unlock
  <2>4. Placed(t)'
    BY <1>1, <2>1, <2>2, <2>3 DEF Placed, Inside
  <2>. QED
    BY <1>3, <2>1, <2>2, <2>4, LockedStep
<1>8. CASE DropOuter(t)
  <2>. DEFINE place == IF c.res = "none" THEN "begin" ELSE "done"
              doc == IF c.name = "QueryAccount" THEN c.doc ELSE NoDoc
              d == [c EXCEPT !.pc = place, !.doc = doc]
  <2>1. /\ Locks!Delete(Outer(t)) /\ c.pc = "release" /\ Tables'
        /\ op' = [op EXCEPT ![t] = d]
    BY <1>2, <1>8 DEF DropOuter, Calls
  <2>2. place \in {"begin", "done"} /\ doc \in Doc
    BY DocKept
  <2>. HIDE DEF place, doc
  <2>3. /\ d \in Call(Section) /\ d.pc = place
        /\ d.name = c.name /\ d.addr = c.addr /\ d.email = c.email
    BY <2>2, ZenonT(60) DEF Call
  <2>4. op'[t] = d
    BY <2>1 DEF Calls
  <2>5. /\ lockPc' = [lockPc EXCEPT ![Outer(t)] = "idle"]
        /\ lockKey' = [lockKey EXCEPT ![Outer(t)] = NoKey]
    BY <2>1 DEF Locks!Delete
  <2>. HIDE DEF d
  <2>6. Placed(t)'
    BY <1>1, <2>1, <2>2, <2>3, <2>4, <2>5 DEF Placed, Inside
  <2>. QED
    BY <2>1, <2>3, <2>6, LockedStep
<1>9. CASE DropInner(t)
  <2>. DEFINE place == IF c.res = "err" THEN "release"
                       ELSE IF c.pc = "leaveEmail" /\ c.name = "UpdateBinding"
                               /\ c.owner \notin {NoAddress, c.addr} THEN "old"
                       ELSE IF Listed(c) THEN "release" ELSE "write"
              res == IF place = "release" /\ c.res = "none" THEN "ok" ELSE c.res
              d == [c EXCEPT !.pc = place, !.res = res]
  <2>1. /\ Locks!Delete(Inner(t)) /\ c.pc \in {"leaveEmail", "leaveOld"}
        /\ op' = [op EXCEPT ![t] = d] /\ old' = [old EXCEPT ![t] = NoDoc]
        /\ UNCHANGED <<account, reflect>>
    BY <1>9 DEF DropInner, Calls, data
  <2>2. /\ place \in {"release", "old", "write"} /\ res \in {"none", "ok", "err", "panic"}
        /\ place = "old" => c.owner \in Address \ {c.addr}
    BY DEF Call
  <2>. HIDE DEF place, res
  <2>3. /\ d \in Call(Section) /\ d.pc = place /\ d.owner = c.owner
        /\ d.name = c.name /\ d.addr = c.addr /\ d.email = c.email
    BY <2>2, ZenonT(60) DEF Call, Section
  <2>4. op'[t] = d
    BY <2>1 DEF Calls
  <2>5. /\ lockPc' = [lockPc EXCEPT ![Inner(t)] = "idle"]
        /\ lockKey' = [lockKey EXCEPT ![Inner(t)] = NoKey]
    BY <2>1 DEF Locks!Delete
  <2>6. Tables'
    BY <2>1, DocKept DEF Tables
  <2>. HIDE DEF d
  <2>7. Placed(t)'
    BY <1>1, <2>1, <2>2, <2>3, <2>4, <2>5 DEF Placed, Inside
  <2>. QED
    BY <2>1, <2>3, <2>6, <2>7, LockedStep
<1>. QED
  BY <1>4, <1>5, <1>6, <1>7, <1>8, <1>9 DEF LockStep

-----------------------------------------------------------------------------

LEMMA MovesBeginInv ==
    ASSUME MInv, NEW t \in Thread, MovesBegin(t)
    PROVE  MInv'
<1>. DEFINE Good(c) == /\ c \in Call(Section) /\ c.pc = "begin"
                       /\ c.name \in {"UpdateBinding", "QueryAccount", "QueryReflectsByEmails"}
                       /\ c.name = "UpdateBinding" => c.addr \in Address /\ c.email \in Email
                       /\ c.name = "QueryAccount" => c.addr \in Address
<1>1. ASSUME NEW a \in Address, NEW e \in Email PROVE Good(UpdateBinding(a, e))
  BY NoCallTyped DEF UpdateBinding, Calling, Call, Method, Mutator
<1>2. ASSUME NEW a \in Address PROVE Good(QueryAccount(a))
  BY NoCallTyped DEF QueryAccount, Calling, Call, Method
<1>3. Good(QueryReflectsByEmails(Email))
  BY NoCallTyped, ZenonT(60) DEF QueryReflectsByEmails, Calling, Call, Method
<1>4. PICK c : Good(c) /\ Invoke(t, c)
  BY <1>1, <1>2, <1>3 DEF MovesBegin
<1>5. /\ op' = [op EXCEPT ![t] = c] /\ op[t].pc \in {"idle", "done"}
      /\ UNCHANGED <<account, reflect, old>> /\ UNCHANGED locks
  BY <1>4 DEF Invoke, MovesBegin
<1>6. Tables'
  BY <1>5, PlacedFacts DEF Tables
<1>7. op'[t] = c /\ lockPc' = lockPc /\ lockKey' = lockKey
  BY <1>5, PlacedFacts DEF Calls, locks
<1>8. Placed(t)'
  BY <1>4, <1>5, <1>7, PlacedFacts DEF Placed, Inside
<1>. QED
  BY <1>4, <1>5, <1>6, <1>8, UnlockedStep

LEMMA MovesInitInv == MovesInit => MInv
<1>. SUFFICES ASSUME MovesInit PROVE MInv
  OBVIOUS
<1>1. /\ account = [a \in Address |-> NewDoc(UserLevelFree)] /\ reflect = [e \in Email |-> NoAddress]
      /\ op = [u \in Thread |-> NoCall] /\ old = [u \in Thread |-> NoDoc]
      /\ lockPc = [h \in Holder |-> "idle"]
  BY DEF MovesInit, StoreInit
<1>2. NewDoc(UserLevelFree) \in Doc
  BY DocKept DEF StoredLevel, UserLevelFree
<1>3. Locks!TypeOK
  BY DEF MovesInit, StoreInit, Locks!TypeOK, Locks!Place
<1>4. StoreTypeOK
  BY <1>1, <1>2, <1>3, DocKept, NoCallTyped DEF StoreTypeOK
<1>5. LockTable!Init
  BY DEF MovesInit, StoreInit, LockTable!Init
<1>6. LockTable!IInv /\ LockTable!OneKey
  BY LockAssumption, <1>5, LockTable!InitInv, LockTable!OneKeyInit
<1>7. \A u \in Thread : Placed(u)
  BY <1>1, NoCallTyped, Holders DEF Placed, Inside
<1>. QED
  BY <1>4, <1>6, <1>7 DEF MInv

LEMMA MovesNextInv == MInv /\ [MovesNext]_storeVars => MInv'
<1>. SUFFICES ASSUME MInv, [MovesNext]_storeVars PROVE MInv'
  OBVIOUS
<1>1. CASE UNCHANGED storeVars
  BY <1>1 DEF storeVars, MInv, StoreTypeOK, Locks!TypeOK, LockTable!IInv, LockTable!TypeOK,
     LockTable!HasMutex, LockTable!OwnerIsHolder, LockTable!EntryHasUser, LockTable!OneKey, Placed, InnerKey
<1>. QED
  BY <1>1, MovesBeginInv, LockStepInv, DataStepInv DEF MovesNext, MethodStep, DataStep

(* Two goroutines wait for each other only when each moves an e-mail from  *)
(* the other's account to its own (removeEmailFromAccount inside of        *)
(* UpdateBinding), and none waits for itself.                              *)
THEOREM CrossMovesBlock == MovesSpec => []OnlyCrossMovesBlock
BY MovesInitInv, MovesNextInv, CrossMoves, PTL DEF MovesSpec

=============================================================================
