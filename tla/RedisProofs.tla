----------------------------- MODULE RedisProofs -----------------------------
(***************************************************************************)
(* What the Redis backend guarantees for any number of goroutines,         *)
(* accounts and e-mails, whatever commands fail and whenever the process   *)
(* ends.  One inductive invariant says of each call three things: what its *)
(* locals are at its place (GoodCall), that a client asked for what it is  *)
(* about to write (Sourced) and, when nothing has overlapped it, what its  *)
(* locals and the database have in common (Knows).                         *)
(***************************************************************************)
EXTENDS RedisClients, TLAPS

(* The methods that are called with an address, an e-mail or a token.      *)
TakesAddress == Mutator \cup {"QueryAccount", "CreateActiveLink"}
TakesEmail == {"UpdateBinding", "DeleteBinding", "QueryReflectByOneEmail", "CreateActiveLink"}
TakesToken == {"CreateActiveLink", "GetActiveLink", "RemoveActiveLink"}

(* The arguments and locals that a call has at each place.                 *)
GoodCall(c) ==
    /\ c.pc \notin {"idle", "done"} => c.name # "none"
    /\ c.name \in TakesAddress => c.addr \in Address
    /\ c.name \in TakesEmail => c.email \in Email
    /\ c.name \in TakesToken => c.token \in Token
    /\ c.name = "DeleteBinding" /\ c.pc \in {"begin", "get"} => c.owner = NoAddress
    /\ c.pc \in {"hgetOld", "hsetOld"} => c.owner \in Address
    /\ c.pc \in {"hgetOld", "hsetOld", "set"} => c.name = "UpdateBinding"
    /\ c.pc \in {"get", "hset"} => c.name \in {"UpdateBinding", "DeleteBinding"}
    /\ c.pc = "del" => c.name = "DeleteBinding"
    /\ c.pc = "hget" => c.name \in {"UpdateBinding", "DeleteBinding", "DeleteAccount"}
    /\ c.pc \in {"delMapping", "delAccount"} => c.name = "DeleteAccount"
    /\ c.pc = "hsetLevel" => c.name = "UpdateAccountLevel"

(* Account a may list these e-mails.                                       *)
Allowed(a, emails) == \A e \in emails : <<a, e>> \in asked

Sourced(c) ==
    /\ c.name = "UpdateBinding" /\ c.pc \notin {"idle", "done"} => <<c.addr, c.email>> \in asked
    /\ c.pc = "hset" => Allowed(c.addr, c.doc.emails)
    /\ c.pc = "hsetOld" => Allowed(c.owner, c.doc.emails)

Healed(c) ==
    /\ reflect[c.email] = c.addr
    /\ account[c.addr].found /\ c.email \in account[c.addr].emails
    /\ c.owner \notin {NoAddress, c.addr} => c.email \notin account[c.owner].emails
Cleared(c) ==
    /\ reflect[c.email] = NoAddress
    /\ c.owner # NoAddress => c.email \notin account[c.addr].emails

KnowsBind(c) ==
    LET emails == account[c.addr].emails
        taken == c.owner \notin {NoAddress, c.addr} => c.email \notin account[c.owner].emails
    IN  /\ c.pc \in {"get", "hgetOld", "hsetOld", "set", "hget", "hset"} => account[c.addr].found
        /\ c.pc \in {"hgetOld", "hsetOld"} => c.owner \notin {NoAddress, c.addr}
        /\ c.pc = "hsetOld" => c.doc.emails = account[c.owner].emails \ {c.email}
        /\ c.pc \in {"set", "hget", "hset"} => taken
        /\ c.pc \in {"hget", "hset"} => reflect[c.email] = c.addr
        /\ c.pc = "hset" => c.doc.emails = emails \cup {c.email}
        /\ c.pc = "done" /\ c.res = "ok" => Healed(c)

KnowsUnbind(c) ==
    /\ c.pc \in {"get", "del", "hget", "hset"} => account[c.addr].found
    /\ c.pc \in {"hget", "hset"} => reflect[c.email] = NoAddress
    /\ c.pc = "hset" => c.doc.emails = account[c.addr].emails \ {c.email}
    /\ c.pc = "done" /\ c.res = "ok" => Cleared(c)

KnowsDelete(c) ==
    /\ c.pc \in {"delMapping", "delAccount"} =>
          \A e \in account[c.addr].emails \ c.todo : reflect[e] = NoAddress
    /\ c.pc = "delAccount" => c.todo = {}

KnowsQuery(c) ==
    c.pc = "done" /\ c.res = "ok" =>
        /\ c.name = "QueryAccount" => c.doc = account[c.addr]
        /\ c.name = "QueryReflectByOneEmail" => reflect[c.email] = NoAddress

Knows(c) ==
    /\ c.name = "UpdateBinding" => KnowsBind(c)
    /\ c.name = "DeleteBinding" => KnowsUnbind(c)
    /\ c.name = "DeleteAccount" => KnowsDelete(c)
    /\ c.name \notin Mutator => KnowsQuery(c)
    /\ c.pc = "hsetLevel" => account[c.addr].found

(* A hash that is not there has no fields.                                 *)
FoundOnly == \A a \in Address : account[a].found \/ account[a] = NoDoc

(* While a call runs that nothing has overlapped, no other call runs.      *)
OnlyOne == \A t \in alone : \A u \in Thread \ {t} : ~Running(u)

Database ==
    /\ account \in [Address -> Doc]
    /\ \A a \in noList : a \in Address /\ account[a].found /\ account[a].emails = {}
    /\ reflect \in [Email -> Address \cup {NoAddress}]
    /\ FoundOnly /\ Provenance

RInv ==
    /\ TypeOK /\ Database /\ OnlyOne
    /\ \A t \in Thread : GoodCall(op[t]) /\ Sourced(op[t])
    /\ \A t \in alone : Knows(op[t])

USE DEF Running, Returned, At

-----------------------------------------------------------------------------
(* The records that steps put into op.                                     *)

Calls == op \in [Thread -> Call(Command)]

(* Goroutine t goes on at another place of its method, with the arguments  *)
(* it has, and nobody else moves.                                          *)
SameArguments(c, d) ==
    d.name = c.name /\ d.addr = c.addr /\ d.email = c.email /\ d.token = c.token
MovesTo(t, place) ==
    /\ Calls' /\ \A u \in Thread \ {t} : op'[u] = op[u]
    /\ SameArguments(op[t], op'[t]) /\ op'[t].pc = place

LEMMA DocTyped ==
    /\ NoDoc \in Doc /\ ~NoDoc.found /\ NoDoc.emails = {}
    /\ \A l \in StoredLevel : NewDoc(l) \in Doc /\ NewDoc(l).found /\ NewDoc(l).emails = {}
BY DEF NoDoc, NewDoc, Doc, StoredLevel

LEMMA NoCallTyped ==
    /\ NoCall \in Call(Command) /\ NoCall.pc = "idle" /\ NoCall.name = "none"
    /\ GoodCall(NoCall)
<1>1. {} \in Answer
  BY DEF Answer
<1>2. NoCall \in Call(Command)
  BY <1>1, DocTyped DEF NoCall, Call, StoredLevel
<1>3. NoCall.pc = "idle" /\ NoCall.name = "none"
  BY DEF NoCall
<1>. QED
  BY <1>2, <1>3 DEF GoodCall, TakesAddress, TakesEmail, TakesToken, Mutator

(* A step puts one record into op.                                         *)
LEMMA OneCall ==
    ASSUME Calls, NEW t \in Thread, NEW c \in Call(Command), op' = [op EXCEPT ![t] = c]
    PROVE  Calls' /\ op'[t] = c /\ \A u \in Thread \ {t} : op'[u] = op[u]
BY DEF Calls

LEMMA ReturnMoves ==
    ASSUME Calls, NEW t \in Thread, NEW res \in {"ok", "err", "panic"}, Return(t, res)
    PROVE  MovesTo(t, "done") /\ op'[t].res = res /\ op'[t].owner = op[t].owner
<1>. DEFINE c == [op[t] EXCEPT !.pc = "done", !.res = res, !.doc = NoDoc, !.todo = {}]
<1>1. op[t] \in Call(Command) /\ NoDoc \in Doc
  BY DocTyped DEF Calls
<1>2. c \in Call(Command)
  BY <1>1 DEF Call
<1>3. SameArguments(op[t], c) /\ c.pc = "done" /\ c.res = res /\ c.owner = op[t].owner
  BY <1>1 DEF Call, SameArguments
<1>4. op' = [op EXCEPT ![t] = c]
  BY DEF Calls, Return
<1>. QED
  BY <1>2, <1>3, <1>4, OneCall DEF MovesTo

LEMMA GoMoves ==
    ASSUME Calls, NEW t \in Thread, NEW place \in Command, Go(t, place)
    PROVE  /\ MovesTo(t, place)
           /\ op'[t].owner = op[t].owner /\ op'[t].doc = op[t].doc /\ op'[t].todo = op[t].todo
BY DEF Calls, Go, MovesTo, SameArguments, Call

LEMMA GoWithListMoves ==
    ASSUME Calls, NEW t \in Thread, NEW place \in Command, NEW emails \in SUBSET Email,
           GoWithList(t, place, emails)
    PROVE  MovesTo(t, place) /\ op'[t].owner = op[t].owner /\ op'[t].doc.emails = emails
<1>. DEFINE doc == [NoDoc EXCEPT !.emails = emails]
            c == [op[t] EXCEPT !.pc = place, !.doc = doc]
<1>1. doc \in Doc /\ doc.emails = emails
  BY DocTyped DEF Doc
<1>2. op' = [op EXCEPT ![t] = c]
  BY DEF Calls, GoWithList
<1>. HIDE DEF doc
<1>3. /\ c \in Call(Command) /\ SameArguments(op[t], c)
      /\ c.pc = place /\ c.doc = doc /\ c.owner = op[t].owner
  BY <1>1, ZenonT(60) DEF Calls, Call, SameArguments
<1>. QED
  BY <1>1, <1>2, <1>3, OneCall DEF MovesTo

LEMMA DeleteMappingsMoves ==
    ASSUME Calls, NEW t \in Thread, NEW rest \in SUBSET Email, DeleteMappings(t, rest)
    PROVE  /\ MovesTo(t, IF rest = {} THEN "delAccount" ELSE "delMapping")
           /\ op'[t].todo = rest
<1>. DEFINE place == IF rest = {} THEN "delAccount" ELSE "delMapping"
            c == [op[t] EXCEPT !.todo = rest, !.pc = place]
<1>1. place \in Command
  BY DEF Command
<1>2. op' = [op EXCEPT ![t] = c]
  BY DEF Calls, DeleteMappings
<1>. HIDE DEF place
<1>3. c \in Call(Command) /\ SameArguments(op[t], c) /\ c.pc = place /\ c.todo = rest
  BY <1>1, ZenonT(60) DEF Calls, Call, SameArguments
<1>4. MovesTo(t, place) /\ op'[t].todo = rest
  BY <1>2, <1>3, OneCall DEF MovesTo
<1>. QED
  BY <1>4 DEF place

(* The mapping that a binding or an unbinding has read.                    *)
LEMMA OwnerMoves ==
    ASSUME Calls, NEW t \in Thread, NEW place \in Command, NEW owner \in Address \cup {NoAddress},
           op' = [op EXCEPT ![t].pc = place, ![t].owner = owner]
    PROVE  MovesTo(t, place) /\ op'[t].owner = owner
<1>. DEFINE c == [op[t] EXCEPT !.pc = place, !.owner = owner]
<1>1. /\ c \in Call(Command) /\ SameArguments(op[t], c) /\ c.pc = place /\ c.owner = owner
  BY ZenonT(60) DEF Calls, Call, SameArguments
<1>2. op' = [op EXCEPT ![t] = c]
  BY DEF Calls
<1>. QED
  BY <1>1, <1>2, OneCall DEF MovesTo

(* What a client begins.                                                   *)
LEMMA BeginCall ==
    ASSUME NEW t \in Thread, Begin(t)
    PROVE  \E c \in Call(Command) :
              /\ Clients(t, c) /\ GoodCall(c) /\ c.pc = "begin"
              /\ c.name = "UpdateBinding" => <<c.addr, c.email>> \in Address \X Email
<1>. DEFINE Good(c, n) == c \in Call(Command) /\ GoodCall(c) /\ c.pc = "begin" /\ c.name = n
<1>1. ASSUME NEW n \in Mutator
      PROVE  Calling(n) \in Call(Command) /\ Calling(n).name = n /\ Calling(n).pc = "begin"
             /\ Calling(n).owner = NoAddress
  BY NoCallTyped DEF Calling, Call, Method, NoCall
<1>2. ASSUME NEW a \in Address, NEW e \in Email
      PROVE  /\ Good(UpdateBinding(a, e), "UpdateBinding")
             /\ UpdateBinding(a, e).addr = a /\ UpdateBinding(a, e).email = e
  <2>1. /\ UpdateBinding(a, e) \in Call(Command)
        /\ UpdateBinding(a, e).name = "UpdateBinding" /\ UpdateBinding(a, e).pc = "begin"
        /\ UpdateBinding(a, e).addr = a /\ UpdateBinding(a, e).email = e
    BY <1>1, ZenonT(60) DEF UpdateBinding, Call, Mutator
  <2>. QED
    BY <2>1 DEF GoodCall, Mutator, TakesAddress, TakesEmail, TakesToken
<1>3. ASSUME NEW a \in Address, NEW e \in Email
      PROVE  Good(DeleteBinding(a, e), "DeleteBinding")
  <2>1. /\ DeleteBinding(a, e) \in Call(Command) /\ DeleteBinding(a, e).owner = NoAddress
        /\ DeleteBinding(a, e).name = "DeleteBinding" /\ DeleteBinding(a, e).pc = "begin"
        /\ DeleteBinding(a, e).addr = a /\ DeleteBinding(a, e).email = e
    BY <1>1, ZenonT(60) DEF DeleteBinding, Call, Mutator
  <2>. QED
    BY <2>1 DEF GoodCall, Mutator, TakesAddress, TakesEmail, TakesToken
<1>4. ASSUME NEW a \in Address PROVE Good(DeleteAccount(a), "DeleteAccount")
  <2>1. /\ DeleteAccount(a) \in Call(Command) /\ DeleteAccount(a).addr = a
        /\ DeleteAccount(a).name = "DeleteAccount" /\ DeleteAccount(a).pc = "begin"
    BY <1>1 DEF DeleteAccount, Call, Mutator
  <2>. QED
    BY <2>1 DEF GoodCall, Mutator, TakesAddress, TakesEmail, TakesToken
<1>5. ASSUME NEW a \in Address, NEW l \in Level PROVE Good(ActiveAccount(a, l), "ActiveAccount")
  <2>1. /\ ActiveAccount(a, l) \in Call(Command) /\ ActiveAccount(a, l).addr = a
        /\ ActiveAccount(a, l).name = "ActiveAccount" /\ ActiveAccount(a, l).pc = "begin"
    BY <1>1, LevelAssumption, ZenonT(60) DEF ActiveAccount, Call, Mutator
  <2>. QED
    BY <2>1 DEF GoodCall, Mutator, TakesAddress, TakesEmail, TakesToken
<1>6. ASSUME NEW a \in Address, NEW l \in Level
      PROVE  Good(UpdateAccountLevel(a, l), "UpdateAccountLevel")
  <2>1. /\ UpdateAccountLevel(a, l) \in Call(Command) /\ UpdateAccountLevel(a, l).addr = a
        /\ UpdateAccountLevel(a, l).name = "UpdateAccountLevel"
        /\ UpdateAccountLevel(a, l).pc = "begin"
    BY <1>1, LevelAssumption, ZenonT(60) DEF UpdateAccountLevel, Call, Mutator
  <2>. QED
    BY <2>1 DEF GoodCall, Mutator, TakesAddress, TakesEmail, TakesToken
<1>7. CASE \E a \in Address, e \in Email : Clients(t, UpdateBinding(a, e))
  BY <1>7, <1>2
<1>8. CASE \E a \in Address, e \in Email : Clients(t, DeleteBinding(a, e))
  BY <1>8, <1>3
<1>9. CASE \E a \in Address : Clients(t, DeleteAccount(a))
  BY <1>9, <1>4
<1>10. CASE \E a \in Address, l \in Level : Clients(t, ActiveAccount(a, l))
  BY <1>10, <1>5
<1>11. CASE \E a \in Address, l \in Level : Clients(t, UpdateAccountLevel(a, l))
  BY <1>11, <1>6
<1>. QED
  BY <1>7, <1>8, <1>9, <1>10, <1>11 DEF Begin

-----------------------------------------------------------------------------
(* What a step does to the call that makes it.                             *)

(* What the invariant says of the call of one goroutine.                   *)
LEMMA CallFacts ==
    ASSUME RInv, NEW t \in Thread
    PROVE  /\ Calls /\ op[t] \in Call(Command) /\ GoodCall(op[t]) /\ Sourced(op[t])
           /\ account \in [Address -> Doc]
           /\ \A a \in Address : account[a].emails \in SUBSET Email
           /\ \A a \in Address : Allowed(a, account[a].emails)
           /\ reflect \in [Email -> Address \cup {NoAddress}]
           /\ op[t].todo \in SUBSET Email /\ op[t].level \in StoredLevel
           /\ op[t].name \in Mutator => op[t].addr \in Address
           /\ op[t].name \in {"UpdateBinding", "DeleteBinding"} =>
                 op[t].addr \in Address /\ op[t].email \in Email
           /\ op[t].name = "DeleteAccount" => op[t].addr \in Address
<1>1. /\ Calls /\ op[t] \in Call(Command) /\ GoodCall(op[t]) /\ Sourced(op[t])
      /\ account \in [Address -> Doc]
      /\ \A a \in Address : Allowed(a, account[a].emails)
      /\ reflect \in [Email -> Address \cup {NoAddress}]
  BY DEF RInv, TypeOK, StoreTypeOK, Database, Provenance, Allowed, Calls
<1>. QED
  BY <1>1 DEF Doc, Call, GoodCall, TakesAddress, TakesEmail, Mutator

(* The steps of the methods that change nothing: they return at once.      *)
NoStep(t) ==
    \/ QueryAccountHGetAll(t) \/ QueryReflectGet(t) \/ QueryReflectsMGet(t)
    \/ UninstallByUserNil(t) \/ LinkMethodPanics(t)

LEMMA StepRuns ==
    ASSUME NEW t \in Thread, StoreStep(t)
    PROVE  Running(t)
BY DEF StoreStep, QueryAccountHGetAll, QueryReflectGet, QueryReflectsMGet,
   UninstallByUserNil, LinkMethodPanics, ActiveAccountHSet, UpdateAccountLevelExists,
   UpdateAccountLevelHSet, UpdateBindingExists, UpdateBindingGet, UpdateBindingHGetOld,
   UpdateBindingHSetOld, UpdateBindingSet, UpdateBindingHGet, UpdateBindingHSet,
   DeleteBindingExists, DeleteBindingGet, DeleteBindingDel, DeleteBindingHGet,
   DeleteBindingHSet, DeleteAccountExists, DeleteAccountHGet, DeleteAccountDelMapping,
   DeleteAccountDel, CommandFails, Exists

LEMMA NoStepMoves ==
    ASSUME Calls, NEW t \in Thread, NoStep(t), account \in [Address -> Doc], GoodCall(op[t])
    PROVE  /\ MovesTo(t, "done") /\ op'[t].owner = op[t].owner /\ UNCHANGED tables
           /\ op[t].name \notin Mutator \ {"UninstallByUser"}
<1>1. CASE QueryAccountHGetAll(t)
  <2>. DEFINE doc == account[op[t].addr]
              res == IF doc.found THEN "ok" ELSE "err"
              c == [op[t] EXCEPT !.pc = "done", !.res = res, !.doc = doc]
  <2>1. op[t] \in Call(Command) /\ doc \in Doc /\ res \in {"ok", "err"}
    BY <1>1 DEF QueryAccountHGetAll, GoodCall, TakesAddress, Calls
  <2>2. op' = [op EXCEPT ![t] = c]
    BY <1>1 DEF QueryAccountHGetAll, Calls
  <2>. HIDE DEF doc, res
  <2>3. c \in Call(Command) /\ SameArguments(op[t], c) /\ c.pc = "done" /\ c.owner = op[t].owner
    BY <2>1, ZenonT(60) DEF Call, SameArguments
  <2>. QED
    BY <1>1, <2>2, <2>3, OneCall DEF MovesTo, QueryAccountHGetAll, Mutator
<1>2. CASE QueryReflectGet(t)
  BY <1>2, ReturnMoves DEF QueryReflectGet, Mutator
<1>3. CASE QueryReflectsMGet(t) \/ UninstallByUserNil(t)
  BY <1>3, ReturnMoves DEF QueryReflectsMGet, UninstallByUserNil, Mutator
<1>4. CASE LinkMethodPanics(t)
  BY <1>4, ReturnMoves DEF LinkMethodPanics, Mutator
<1>. QED
  BY <1>1, <1>2, <1>3, <1>4 DEF NoStep

(* The locals fit the place, and what is to be written was asked for.      *)
LEMMA StepCall ==
    ASSUME RInv, NEW t \in Thread, StoreStep(t), UNCHANGED asked
    PROVE  /\ Calls' /\ \A u \in Thread \ {t} : op'[u] = op[u]
           /\ GoodCall(op[t])' /\ Sourced(op[t])'
<1>. DEFINE c == op[t]
            cur == account[c.addr].emails
            Goal == /\ Calls' /\ \A u \in Thread \ {t} : op'[u] = op[u]
                    /\ GoodCall(op[t])' /\ Sourced(op[t])'
<1>. USE CallFacts
<1>1. c.pc \notin {"idle", "done"}
  BY StepRuns
<1>15. CASE NoStep(t)
  <2>1. MovesTo(t, "done")
    BY <1>15, NoStepMoves
  <2>2. GoodCall(op[t])' /\ Sourced(op[t])'
    BY <2>1 DEF MovesTo, SameArguments, GoodCall, Sourced
  <2>. QED
    BY <2>1, <2>2 DEF MovesTo
<1>2. ASSUME NEW res \in {"ok", "err"}, Return(t, res) PROVE Goal
  <2>1. MovesTo(t, "done")
    BY <1>2, ReturnMoves
  <2>2. GoodCall(op[t])'
    BY <2>1 DEF MovesTo, SameArguments, GoodCall
  <2>3. Sourced(op[t])'
    BY <2>1 DEF MovesTo, Sourced
  <2>. QED
    BY <2>1, <2>2, <2>3 DEF MovesTo
<1>3. ASSUME NEW place \in Command, Go(t, place) \/ Return(t, "err"), c.pc = "begin",
             /\ place = "get" => c.name \in {"UpdateBinding", "DeleteBinding"}
             /\ place = "hget" => c.name = "DeleteAccount"
             /\ place = "hsetLevel" => c.name = "UpdateAccountLevel"
             /\ place \in {"get", "hget", "hsetLevel"}
      PROVE  Goal
  BY <1>1, <1>2, <1>3, GoMoves, ZenonT(60) DEF MovesTo, SameArguments, GoodCall, Sourced
<1>4. CASE UpdateAccountLevelExists(t) \/ UpdateBindingExists(t) \/ DeleteBindingExists(t)
           \/ DeleteAccountExists(t)
  <2>1. CASE UpdateAccountLevelExists(t)
    BY <1>3, <2>1 DEF UpdateAccountLevelExists, Exists, Command
  <2>2. CASE UpdateBindingExists(t)
    BY <1>3, <2>2 DEF UpdateBindingExists, Exists, Command
  <2>3. CASE DeleteBindingExists(t)
    BY <1>3, <2>3 DEF DeleteBindingExists, Exists, Command
  <2>4. CASE DeleteAccountExists(t)
    BY <1>3, <2>4 DEF DeleteAccountExists, Exists, Command
  <2>. QED
    BY <1>4, <2>1, <2>2, <2>3, <2>4
<1>5. CASE ActiveAccountHSet(t) \/ UpdateAccountLevelHSet(t) \/ UpdateBindingHSet(t)
           \/ DeleteBindingHSet(t) \/ DeleteAccountDel(t) \/ CommandFails(t)
  BY <1>2, <1>5 DEF ActiveAccountHSet, UpdateAccountLevelHSet, UpdateBindingHSet,
     DeleteBindingHSet, DeleteAccountDel, CommandFails
<1>6. CASE UpdateBindingGet(t)
  <2>. DEFINE owner == reflect[c.email]
              place == IF owner \in {NoAddress, c.addr} THEN "set" ELSE "hgetOld"
  <2>1. owner \in Address \cup {NoAddress} /\ place \in Command
    BY <1>6 DEF UpdateBindingGet, GoodCall, Command
  <2>2. op' = [op EXCEPT ![t].pc = place, ![t].owner = owner]
    BY <1>6 DEF UpdateBindingGet, Calls, Call
  <2>3. MovesTo(t, place) /\ op'[t].owner = owner
    BY <2>1, <2>2, OwnerMoves
  <2>4. /\ c.pc = "get" /\ c.name = "UpdateBinding" /\ c.addr \in Address
        /\ place \in {"set", "hgetOld"} /\ (place = "hgetOld" => owner \in Address)
    BY <1>6, <2>1 DEF UpdateBindingGet, GoodCall
  <2>. HIDE DEF owner, place
  <2>. QED
    BY <2>3, <2>4 DEF MovesTo, SameArguments, GoodCall, Sourced
<1>7. CASE UpdateBindingHGetOld(t)
  <2>. DEFINE emails == account[c.owner].emails \ {c.email}
  <2>1. /\ c.pc = "hgetOld" /\ c.name = "UpdateBinding" /\ c.owner \in Address
        /\ GoWithList(t, "hsetOld", emails)
    BY <1>7 DEF UpdateBindingHGetOld, GoodCall
  <2>2. emails \in SUBSET Email /\ Allowed(c.owner, emails)
    BY <2>1 DEF Allowed
  <2>. HIDE DEF emails
  <2>3. MovesTo(t, "hsetOld") /\ op'[t].owner = c.owner /\ op'[t].doc.emails = emails
    BY <2>1, <2>2, GoWithListMoves DEF Command
  <2>. QED
    BY <2>1, <2>2, <2>3 DEF MovesTo, SameArguments, GoodCall, Sourced, Allowed
<1>8. CASE UpdateBindingHSetOld(t) \/ UpdateBindingSet(t) \/ DeleteBindingDel(t)
  BY <1>8, GoMoves DEF UpdateBindingHSetOld, UpdateBindingSet, DeleteBindingDel, Command,
     MovesTo, SameArguments, GoodCall, Sourced
<1>9. CASE UpdateBindingHGet(t)
  <2>. DEFINE emails == cur \cup {c.email}
  <2>1. CASE GoWithList(t, "hset", emails)
    <3>1. c.pc = "hget" /\ c.name = "UpdateBinding" /\ c.addr \in Address
      BY <1>9 DEF UpdateBindingHGet, GoodCall
    <3>2. emails \in SUBSET Email /\ Allowed(c.addr, emails)
      BY <3>1 DEF GoodCall, Sourced, Allowed
    <3>. HIDE DEF emails
    <3>3. MovesTo(t, "hset") /\ op'[t].doc.emails = emails
      BY <2>1, <3>2, GoWithListMoves DEF Command
    <3>. QED
      BY <3>1, <3>2, <3>3 DEF MovesTo, SameArguments, GoodCall, Sourced, Allowed
  <2>. QED
    BY <1>2, <1>9, <2>1 DEF UpdateBindingHGet
<1>10. CASE DeleteBindingGet(t)
  <2>1. CASE op' = [op EXCEPT ![t].pc = "del", ![t].owner = reflect[c.email]]
    <3>1. /\ c.pc = "get" /\ c.name = "DeleteBinding" /\ c.addr \in Address
          /\ reflect[c.email] \in Address \cup {NoAddress}
      BY <1>10 DEF DeleteBindingGet, GoodCall
    <3>2. MovesTo(t, "del")
      BY <2>1, <3>1, OwnerMoves DEF Command
    <3>. QED
      BY <3>1, <3>2 DEF MovesTo, SameArguments, GoodCall, Sourced
  <2>. QED
    BY <1>2, <1>10, <2>1 DEF DeleteBindingGet
<1>11. CASE DeleteBindingHGet(t)
  <2>. DEFINE emails == cur \ {c.email}
  <2>1. /\ c.pc = "hget" /\ c.name = "DeleteBinding" /\ c.addr \in Address
        /\ GoWithList(t, "hset", emails)
    BY <1>11 DEF DeleteBindingHGet, GoodCall
  <2>2. emails \in SUBSET Email /\ Allowed(c.addr, emails)
    BY <2>1 DEF Allowed
  <2>. HIDE DEF emails
  <2>3. MovesTo(t, "hset") /\ op'[t].doc.emails = emails
    BY <2>1, <2>2, GoWithListMoves DEF Command
  <2>. QED
    BY <2>1, <2>2, <2>3 DEF MovesTo, SameArguments, GoodCall, Sourced, Allowed
<1>12. ASSUME NEW rest \in SUBSET Email, DeleteMappings(t, rest), c.name = "DeleteAccount"
       PROVE  Goal
  BY <1>1, <1>12, DeleteMappingsMoves DEF MovesTo, SameArguments, GoodCall, Sourced
<1>13. CASE DeleteAccountHGet(t)
  BY <1>2, <1>12, <1>13 DEF DeleteAccountHGet, GoodCall
<1>14. CASE DeleteAccountDelMapping(t)
  BY <1>12, <1>14 DEF DeleteAccountDelMapping
<1>. QED
  BY <1>4, <1>5, <1>6, <1>7, <1>8, <1>9, <1>10, <1>11, <1>13, <1>14, <1>15
  DEF StoreStep, NoStep

(* What a caller sees of a method: it is still the call that was made, and *)
(* when it is done it has a result; only the methods about links panic.    *)
LEMMA CallKept ==
    ASSUME RInv, NEW t \in Thread, StoreStep(t)
    PROVE  LET c == op[t]
               d == op'[t]
           IN  /\ SameArguments(c, d) /\ d.answer = c.answer
               /\ d.pc # "idle"
               /\ d.pc = "done" =>
                     d.res \in (IF c.name \in TakesToken THEN {"err", "panic"} ELSE {"ok", "err"})
<1>. DEFINE c == op[t]
            d == op'[t]
            Goal == /\ SameArguments(c, d) /\ d.answer = c.answer /\ d.pc # "idle"
                    /\ d.pc = "done" =>
                          d.res \in (IF c.name \in TakesToken THEN {"err", "panic"} ELSE {"ok", "err"})
<1>. USE CallFacts
<1>0. /\ t \in DOMAIN op
      /\ c \in [name : Method \cup {"none"}, pc : Command \cup {"idle", "begin", "done"},
               res : {"none", "ok", "err", "panic"}, addr : Address \cup {NoAddress},
               email : Email \cup {NoEmail}, level : StoredLevel, token : Token \cup {NoToken},
               unbind : BOOLEAN, doc : Doc, owner : Address \cup {NoAddress},
               todo : SUBSET Email, answer : Answer]
  BY DEF Call, Calls
<1>1. ASSUME NEW res \in {"ok", "err", "panic"}, Return(t, res),
             res \in (IF c.name \in TakesToken THEN {"err", "panic"} ELSE {"ok", "err"})
      PROVE  Goal
  <2>1. SameArguments(c, d) /\ d.pc = "done" /\ d.res = res
    BY <1>1, ReturnMoves DEF MovesTo
  <2>2. d.answer = c.answer
    BY <1>0, <1>1 DEF Return
  <2>. QED
    BY <1>1, <2>1, <2>2
<1>2. ASSUME NEW place \in Command, Go(t, place) PROVE Goal
  BY <1>0, <1>2 DEF Go, SameArguments, Command
<1>3. ASSUME NEW place \in Command, NEW emails, GoWithList(t, place, emails) PROVE Goal
  BY <1>0, <1>3 DEF GoWithList, SameArguments, Command
<1>4. ASSUME NEW rest, DeleteMappings(t, rest) PROVE Goal
  BY <1>0, <1>4 DEF DeleteMappings, SameArguments, Command
<1>5. CASE QueryAccountHGetAll(t) \/ UpdateBindingGet(t) \/ DeleteBindingGet(t)
  <2>1. CASE QueryAccountHGetAll(t)
    BY <1>0, <2>1 DEF QueryAccountHGetAll, SameArguments, TakesToken
  <2>2. CASE UpdateBindingGet(t)
    <3>. DEFINE place == IF reflect[c.email] \in {NoAddress, c.addr} THEN "set" ELSE "hgetOld"
    <3>1. /\ op' = [op EXCEPT ![t].pc = place, ![t].owner = reflect[c.email]]
          /\ place \in {"set", "hgetOld"}
      BY <1>0, <2>2 DEF UpdateBindingGet
    <3>. HIDE DEF place
    <3>. QED
      BY <1>0, <3>1 DEF SameArguments
  <2>3. CASE DeleteBindingGet(t)
    BY <1>0, <1>1, <2>3 DEF DeleteBindingGet, SameArguments, TakesToken
  <2>. QED
    BY <1>5, <2>1, <2>2, <2>3
<1>. QED
  BY <1>1, <1>2, <1>3, <1>4, <1>5 DEF StoreStep, QueryReflectGet, QueryReflectsMGet,
   UninstallByUserNil, LinkMethodPanics, ActiveAccountHSet, UpdateAccountLevelExists,
   UpdateAccountLevelHSet, UpdateBindingHGetOld, UpdateBindingExists,
   UpdateBindingHSetOld, UpdateBindingSet, UpdateBindingHGet, UpdateBindingHSet,
   DeleteBindingExists, DeleteBindingDel, DeleteBindingHGet,
   DeleteBindingHSet, DeleteAccountExists, DeleteAccountHGet, DeleteAccountDelMapping,
   DeleteAccountDel, CommandFails, Exists, TakesToken, Command

(* What a query answers, and that it changes nothing.                      *)
LEMMA QueryAnswers ==
    ASSUME RInv, NEW t \in Thread, StoreStep(t),
           op[t].name \in {"QueryAccount", "QueryReflectByOneEmail", "QueryReflectsByEmails"}
    PROVE  LET c == op[t]
               d == op'[t]
           IN  /\ UNCHANGED tables /\ d.owner = c.owner
               /\ d.pc = "done" /\ d.res # "panic"
               /\ c.name = "QueryAccount" /\ d.res = "ok" => d.doc = account[c.addr]
               /\ c.name = "QueryReflectByOneEmail" /\ d.res = "ok" => reflect[c.email] = NoAddress
<1>. DEFINE c == op[t]
            d == op'[t]
            Same == UNCHANGED tables /\ d.owner = c.owner /\ d.pc = "done"
            Goal == /\ Same /\ d.res # "panic"
                    /\ c.name = "QueryAccount" /\ d.res = "ok" => d.doc = account[c.addr]
                    /\ c.name = "QueryReflectByOneEmail" /\ d.res = "ok" =>
                          reflect[c.email] = NoAddress
<1>0. /\ Calls /\ GoodCall(c) /\ c \in Call(Command) /\ account \in [Address -> Doc]
      /\ c.name \in {"QueryAccount", "QueryReflectByOneEmail", "QueryReflectsByEmails"}
  BY CallFacts
<1>1. c.pc = "begin"
  <2>1. c.pc \in Command \cup {"begin"}
    BY <1>0, StepRuns DEF Call
  <2>. QED
    BY <1>0, <2>1 DEF GoodCall, Command
<1>2. ASSUME NEW res \in {"ok", "err"}, Return(t, res), UNCHANGED tables,
             res = "ok" => \/ c.name = "QueryReflectsByEmails"
                           \/ (c.name = "QueryReflectByOneEmail" /\ reflect[c.email] = NoAddress)
      PROVE  Goal
  <2>1. d.pc = "done" /\ d.owner = c.owner /\ d.res = res
    BY <1>0, <1>2, ReturnMoves DEF MovesTo
  <2>. QED
    BY <1>2, <2>1
<1>3. CASE CommandFails(t)
  BY <1>0, <1>1, <1>2, <1>3 DEF CommandFails, WriteCommand
<1>4. CASE QueryAccountHGetAll(t)
  <2>1. Same
    BY <1>0, <1>4, NoStepMoves DEF NoStep, MovesTo
  <2>2. d.res \in {"ok", "err"} /\ d.doc = account[c.addr]
    BY <1>0, <1>4 DEF QueryAccountHGetAll, Calls, Call
  <2>. QED
    BY <1>4, <2>1, <2>2 DEF QueryAccountHGetAll
<1>5. CASE QueryReflectGet(t)
  BY <1>2, <1>5 DEF QueryReflectGet
<1>6. CASE QueryReflectsMGet(t)
  BY <1>2, <1>6 DEF QueryReflectsMGet
<1>7. QueryAccountHGetAll(t) \/ QueryReflectGet(t) \/ QueryReflectsMGet(t) \/ CommandFails(t)
  BY <1>0, <1>1 DEF StoreStep,
   UninstallByUserNil, LinkMethodPanics, ActiveAccountHSet, UpdateAccountLevelExists,
   UpdateAccountLevelHSet, UpdateBindingHGetOld, UpdateBindingGet,
   UpdateBindingExists,
   UpdateBindingHSetOld, UpdateBindingSet, UpdateBindingHGet, UpdateBindingHSet,
   DeleteBindingExists, DeleteBindingGet, DeleteBindingDel, DeleteBindingHGet,
   DeleteBindingHSet, DeleteAccountExists, DeleteAccountHGet, DeleteAccountDelMapping,
   DeleteAccountDel, Exists
<1>. QED
  BY <1>3, <1>4, <1>5, <1>6, <1>7

-----------------------------------------------------------------------------
(* What a step does to the database.                                       *)

(* A step sends one command.                                               *)
LEMMA StepWrites ==
    ASSUME NEW t \in Thread, StoreStep(t)
    PROVE  UNCHANGED tables \/ WriteCommand(t)
BY DEF StoreStep, QueryAccountHGetAll, QueryReflectGet, QueryReflectsMGet, UninstallByUserNil,
   LinkMethodPanics, ActiveAccountHSet, UpdateAccountLevelExists,
   UpdateAccountLevelHSet, UpdateBindingExists, UpdateBindingGet, UpdateBindingHGetOld,
   UpdateBindingHSetOld, UpdateBindingSet, UpdateBindingHGet, UpdateBindingHSet,
   DeleteBindingExists, DeleteBindingGet, DeleteBindingDel, DeleteBindingHGet,
   DeleteBindingHSet, DeleteAccountExists, DeleteAccountHGet, DeleteAccountDelMapping,
   DeleteAccountDel, CommandFails, Exists, WriteCommand

(* One hash is set to fields that somebody asked for, or deleted.          *)
LEMMA OneHash ==
    ASSUME RInv, UNCHANGED <<reflect, asked>>, NEW a \in Address, NEW doc \in Doc,
           account' = [account EXCEPT ![a] = doc],
           doc.found \/ doc = NoDoc, Allowed(a, doc.emails),
           noList' \subseteq noList \cup {a}, a \in noList' => doc.found /\ doc.emails = {}
    PROVE  Database'
<1>1. Database /\ account \in [Address -> Doc]
  BY DEF RInv, Database
<1>2. account'[a] = doc /\ \A b \in Address \ {a} : account'[b] = account[b]
  BY <1>1
<1>3. FoundOnly'
  BY <1>1, <1>2 DEF Database, FoundOnly
<1>4. Provenance'
  BY <1>1, <1>2 DEF Database, Provenance, Allowed
<1>5. account' \in [Address -> Doc] /\ reflect' \in [Email -> Address \cup {NoAddress}]
  BY <1>1 DEF Database
<1>6. \A b \in noList' : b \in Address /\ account'[b].found /\ account'[b].emails = {}
  BY <1>1, <1>2 DEF Database
<1>. QED
  BY <1>3, <1>4, <1>5, <1>6 DEF Database

(* One mapping is set to who asked for it, or deleted.                     *)
LEMMA OneMapping ==
    ASSUME RInv, UNCHANGED asked, NEW e \in Email, NEW owner \in Address \cup {NoAddress},
           SetMapping(e, owner), owner # NoAddress => <<owner, e>> \in asked
    PROVE  Database'
<1>1. Database /\ reflect \in [Email -> Address \cup {NoAddress}]
  BY DEF RInv, Database
<1>2. /\ UNCHANGED <<account, noList>> /\ reflect' \in [Email -> Address \cup {NoAddress}]
      /\ reflect'[e] = owner /\ \A x \in Email \ {e} : reflect'[x] = reflect[x]
  BY <1>1 DEF SetMapping
<1>. QED
  BY <1>1, <1>2 DEF Database, FoundOnly, Provenance

(* The hashes after the three kinds of HSET, and the mark of a missing     *)
(* list.                                                                   *)
LEMMA HSets ==
    ASSUME RInv, NEW a \in Address, NEW emails \in SUBSET Email, NEW level \in StoredLevel
    PROVE  /\ HSetLevel(a, level) =>
                 \E doc \in Doc : /\ account' = [account EXCEPT ![a] = doc] /\ doc.found
                                 /\ doc.emails = account[a].emails
           /\ HSetList(a, emails) =>
                 \E doc \in Doc : /\ account' = [account EXCEPT ![a] = doc] /\ doc.found
                                 /\ doc.emails = emails /\ doc.level = account[a].level
<1>1. account \in [Address -> Doc] /\ account[a] \in Doc
  BY CallFacts DEF RInv, Database
<1>2. ASSUME HSetLevel(a, level)
      PROVE  \E doc \in Doc : /\ account' = [account EXCEPT ![a] = doc] /\ doc.found
                             /\ doc.emails = account[a].emails
  <2>. DEFINE doc == [account[a] EXCEPT !.found = TRUE, !.level = level]
  <2>1. doc \in Doc /\ doc.found /\ doc.emails = account[a].emails
    BY <1>1 DEF Doc
  <2>2. account' = [account EXCEPT ![a] = doc]
    BY <1>1, <1>2 DEF HSetLevel
  <2>. QED
    BY <2>1, <2>2
<1>3. ASSUME HSetList(a, emails)
      PROVE  \E doc \in Doc : /\ account' = [account EXCEPT ![a] = doc] /\ doc.found
                             /\ doc.emails = emails /\ doc.level = account[a].level
  <2>. DEFINE doc == [account[a] EXCEPT !.found = TRUE, !.emails = emails]
  <2>1. doc \in Doc /\ doc.found /\ doc.emails = emails /\ doc.level = account[a].level
    BY <1>1 DEF Doc
  <2>2. account' = [account EXCEPT ![a] = doc]
    BY <1>1, <1>3 DEF HSetList
  <2>. QED
    BY <2>1, <2>2
<1>. QED
  BY <1>2, <1>3

(* A command keeps the database typed and every entry of it asked for.     *)
LEMMA WriteKeeps ==
    ASSUME RInv, NEW t \in Thread, Running(t), WriteCommand(t), UNCHANGED asked
    PROVE  Database'
<1>. DEFINE c == op[t]
<1>1. /\ c \in Call(Command) /\ c.addr \in Address /\ c.level \in StoredLevel
      /\ c.doc.emails \in SUBSET Email /\ c.todo \in SUBSET Email
      /\ GoodCall(c) /\ Sourced(c) /\ Database
  <2>1. c.name \in Mutator
    BY CallFacts DEF GoodCall, WriteCommand, Mutator
  <2>. QED
    BY <2>1, CallFacts DEF Call, Doc, RInv
<1>2. CASE HSetLevel(c.addr, c.level)
  <2>1. PICK doc \in Doc : /\ account' = [account EXCEPT ![c.addr] = doc] /\ doc.found
                           /\ doc.emails = account[c.addr].emails
    BY <1>1, <1>2, HSets
  <2>2. /\ UNCHANGED reflect
        /\ noList' = IF account[c.addr].found THEN noList ELSE noList \cup {c.addr}
    BY <1>2 DEF HSetLevel
  <2>3. c.addr \in noList' => doc.emails = {}
    BY <1>1, <2>1, <2>2, DocTyped DEF Database, FoundOnly
  <2>4. Allowed(c.addr, doc.emails)
    BY <1>1, <2>1, CallFacts
  <2>. QED
    BY <1>1, <2>1, <2>2, <2>3, <2>4, OneHash
<1>3. ASSUME NEW a \in Address, HSetList(a, c.doc.emails), Allowed(a, c.doc.emails)
      PROVE  Database'
  <2>1. PICK doc \in Doc : /\ account' = [account EXCEPT ![a] = doc] /\ doc.found
                           /\ doc.emails = c.doc.emails
    BY <1>1, <1>3, HSets
  <2>. QED
    BY <1>3, <2>1, OneHash DEF HSetList
<1>4. ASSUME NEW doc \in Doc, SetHash(c.addr, doc), doc.found \/ doc = NoDoc, doc.emails = {}
      PROVE  Database'
  BY <1>1, <1>4, OneHash DEF SetHash, Allowed
<1>5. CASE c.pc = "set" /\ SetMapping(c.email, c.addr)
  BY <1>1, <1>5, OneMapping DEF GoodCall, Sourced, TakesEmail
<1>6. ASSUME NEW e \in Email, SetMapping(e, NoAddress) PROVE Database'
  BY <1>6, OneMapping
<1>7. CASE c.pc = "hset" /\ HSetList(c.addr, c.doc.emails)
  BY <1>1, <1>3, <1>7 DEF Sourced
<1>8. CASE c.pc = "hsetOld" /\ HSetList(c.owner, c.doc.emails)
  BY <1>1, <1>3, <1>8 DEF Sourced, GoodCall
<1>9. CASE SetHash(c.addr, NewDoc(c.level)) \/ SetHash(c.addr, NoDoc)
  BY <1>1, <1>4, <1>9, DocTyped
<1>10. CASE c.pc = "del" /\ SetMapping(c.email, NoAddress)
  BY <1>1, <1>6, <1>10 DEF GoodCall, TakesEmail
<1>11. CASE \E e \in c.todo : SetMapping(e, NoAddress)
  BY <1>1, <1>6, <1>11
<1>. QED
  BY <1>2, <1>5, <1>7, <1>8, <1>9, <1>10, <1>11 DEF WriteCommand

-----------------------------------------------------------------------------
(* The step of a call that is alone carries over what it knows: nobody     *)
(* else writes between its commands.                                       *)

LEMMA StepKnows ==
    ASSUME RInv, NEW t \in Thread, t \in alone, StoreStep(t)
    PROVE  Knows(op[t])'
<1>. DEFINE c == op[t]
            d == op'[t]
            cur == account[c.addr].emails
<1>1. /\ Calls /\ GoodCall(c) /\ Knows(c) /\ c.pc \notin {"idle", "done"}
      /\ account \in [Address -> Doc] /\ reflect \in [Email -> Address \cup {NoAddress}]
      /\ c \in Call(Command)
  BY CallFacts, StepRuns DEF RInv
<1>19. ASSUME c.name \notin Mutator \ {"UninstallByUser"} PROVE Knows(op[t])'
  <2>3. d.name = c.name /\ (d.name \notin Mutator => KnowsQuery(op[t])')
    <3>1. d.name = c.name /\ d.addr = c.addr /\ d.email = c.email
      BY CallKept DEF SameArguments
    <3>. QED
      BY <3>1, QueryAnswers DEF KnowsQuery, tables
  <2>1. CASE NoStep(t)
    BY <1>1, <1>19, <2>1, <2>3, NoStepMoves
    DEF MovesTo, SameArguments, Knows, KnowsBind, KnowsUnbind, KnowsDelete, Mutator
  <2>2. CASE CommandFails(t)
    BY <1>1, <1>19, <2>2, <2>3, ReturnMoves
    DEF MovesTo, SameArguments, Knows, KnowsBind, KnowsUnbind, KnowsDelete, Mutator,
        CommandFails
  <2>. QED
    BY <1>1, <1>19, <2>1, <2>2
    DEF StoreStep, NoStep, ActiveAccountHSet, UpdateAccountLevelExists,
        UpdateAccountLevelHSet, UpdateBindingExists, UpdateBindingGet, UpdateBindingHGetOld,
        UpdateBindingHSetOld, UpdateBindingSet, UpdateBindingHGet, UpdateBindingHSet,
        DeleteBindingExists, DeleteBindingGet, DeleteBindingDel, DeleteBindingHGet,
        DeleteBindingHSet, DeleteAccountExists, DeleteAccountHGet, DeleteAccountDelMapping,
        DeleteAccountDel, Exists, Mutator, GoodCall
<1>. SUFFICES ASSUME c.name \in Mutator \ {"UninstallByUser"} PROVE Knows(op[t])'
  BY <1>19
<1>20. ~NoStep(t)
  BY <1>1, NoStepMoves
<1>2. /\ c.addr \in Address /\ cur \in SUBSET Email
      /\ c.name \in {"UpdateBinding", "DeleteBinding"} => c.email \in Email
      /\ c.todo \in SUBSET Email
  BY <1>1, CallFacts DEF GoodCall
<1>3. ASSUME NEW res \in {"ok", "err"}, Return(t, res),
             res = "err" \/ c.name \notin {"UpdateBinding", "DeleteBinding"}
      PROVE  Knows(op[t])'
  BY <1>1, <1>3, ReturnMoves
  DEF MovesTo, SameArguments, Knows, KnowsBind, KnowsUnbind, KnowsDelete
<1>4. CASE ActiveAccountHSet(t) \/ UpdateAccountLevelHSet(t) \/ DeleteAccountDel(t)
           \/ CommandFails(t)
  BY <1>3, <1>4 DEF ActiveAccountHSet, UpdateAccountLevelHSet, DeleteAccountDel, CommandFails
<1>5. ASSUME NEW place \in {"get", "hget", "hsetLevel"}, c.pc = "begin", UNCHANGED tables,
             (account[c.addr].found /\ Go(t, place)) \/ Return(t, "err"),
             place = "hget" => c.name = "DeleteAccount"
      PROVE  Knows(op[t])'
  <2>1. CASE account[c.addr].found /\ Go(t, place)
    <3>1. MovesTo(t, place)
      BY <1>1, <2>1, GoMoves DEF Command
    <3>. QED
      BY <1>5, <2>1, <3>1
      DEF MovesTo, SameArguments, tables, Knows, KnowsBind, KnowsUnbind, KnowsDelete
  <2>. QED
    BY <1>3, <1>5, <2>1
<1>6. CASE UpdateAccountLevelExists(t) \/ UpdateBindingExists(t) \/ DeleteBindingExists(t)
           \/ DeleteAccountExists(t)
  <2>1. CASE UpdateAccountLevelExists(t)
    BY <1>5, <2>1 DEF UpdateAccountLevelExists, Exists
  <2>2. CASE UpdateBindingExists(t)
    BY <1>5, <2>2 DEF UpdateBindingExists, Exists
  <2>3. CASE DeleteBindingExists(t)
    BY <1>5, <2>3 DEF DeleteBindingExists, Exists
  <2>4. CASE DeleteAccountExists(t)
    BY <1>5, <2>4 DEF DeleteAccountExists, Exists
  <2>. QED
    BY <1>6, <2>1, <2>2, <2>3, <2>4
<1>7. CASE UpdateBindingGet(t)
  <2>. DEFINE owner == reflect[c.email]
              place == IF owner \in {NoAddress, c.addr} THEN "set" ELSE "hgetOld"
  <2>1. /\ c.pc = "get" /\ c.name = "UpdateBinding" /\ UNCHANGED tables /\ account[c.addr].found
        /\ owner \in Address \cup {NoAddress} /\ place \in Command
    BY <1>1, <1>2, <1>7 DEF UpdateBindingGet, Command, Knows, KnowsBind
  <2>2. op' = [op EXCEPT ![t].pc = place, ![t].owner = owner]
    BY <1>1, <1>7 DEF UpdateBindingGet, Calls, Call
  <2>3. MovesTo(t, place) /\ d.owner = owner
    BY <1>1, <2>1, <2>2, OwnerMoves
  <2>. QED
    BY <2>1, <2>3 DEF MovesTo, SameArguments, tables, Knows, KnowsBind
<1>8. CASE UpdateBindingHGetOld(t)
  <2>. DEFINE emails == account[c.owner].emails \ {c.email}
  <2>1. /\ c.pc = "hgetOld" /\ c.name = "UpdateBinding" /\ UNCHANGED tables
        /\ GoWithList(t, "hsetOld", emails) /\ account[c.addr].found
        /\ c.owner \in Address \ {c.addr} /\ c.owner # NoAddress
    BY <1>1, <1>8 DEF UpdateBindingHGetOld, GoodCall, Knows, KnowsBind
  <2>2. emails \in SUBSET Email
    BY <2>1, CallFacts
  <2>3. MovesTo(t, "hsetOld") /\ d.owner = c.owner /\ d.doc.emails = emails
    BY <1>1, <2>1, <2>2, GoWithListMoves DEF Command
  <2>. QED
    BY <2>1, <2>3 DEF MovesTo, SameArguments, tables, Knows, KnowsBind
<1>9. CASE UpdateBindingHSetOld(t)
  <2>1. /\ c.pc = "hsetOld" /\ c.name = "UpdateBinding" /\ account[c.addr].found
        /\ HSetList(c.owner, c.doc.emails) /\ Go(t, "set")
        /\ c.owner \in Address \ {c.addr} /\ c.doc.emails = account[c.owner].emails \ {c.email}
        /\ c.doc.emails \in SUBSET Email
    BY <1>1, <1>9, CallFacts DEF UpdateBindingHSetOld, WriteCommand, GoodCall, Knows, KnowsBind
  <2>2. PICK doc \in Doc : /\ account' = [account EXCEPT ![c.owner] = doc]
                           /\ doc.emails = c.doc.emails
    BY <2>1, HSets, <1>1, CallFacts DEF Call
  <2>3. account'[c.addr].found /\ c.email \notin account'[c.owner].emails
    BY <1>1, <1>2, <2>1, <2>2
  <2>4. MovesTo(t, "set") /\ d.owner = c.owner
    BY <1>1, <2>1, GoMoves DEF Command
  <2>. QED
    BY <2>1, <2>3, <2>4 DEF MovesTo, SameArguments, Knows, KnowsBind
<1>10. CASE UpdateBindingSet(t)
  <2>1. /\ c.pc = "set" /\ c.name = "UpdateBinding" /\ KnowsBind(c)
        /\ SetMapping(c.email, c.addr) /\ Go(t, "hget")
    BY <1>1, <1>10 DEF UpdateBindingSet, WriteCommand, Knows
  <2>2. account' = account /\ reflect'[c.email] = c.addr
    BY <1>1, <1>2, <2>1 DEF SetMapping
  <2>3. MovesTo(t, "hget") /\ d.owner = c.owner
    BY <1>1, <2>1, GoMoves DEF Command
  <2>. QED
    BY <2>1, <2>2, <2>3 DEF MovesTo, SameArguments, Knows, KnowsBind
<1>11. CASE UpdateBindingHGet(t)
  <2>1. c.pc = "hget" /\ c.name = "UpdateBinding" /\ UNCHANGED tables /\ KnowsBind(c)
    BY <1>1, <1>11 DEF UpdateBindingHGet, Knows
  <2>2. CASE c.email \in cur /\ Return(t, "ok")
    <3>1. MovesTo(t, "done") /\ d.owner = c.owner
      BY <1>1, <2>2, ReturnMoves
    <3>. QED
      BY <2>1, <2>2, <3>1 DEF MovesTo, SameArguments, tables, Knows, KnowsBind, Healed
  <2>3. CASE GoWithList(t, "hset", cur \cup {c.email})
    <3>1. MovesTo(t, "hset") /\ d.owner = c.owner /\ d.doc.emails = cur \cup {c.email}
      BY <1>1, <1>2, <2>1, <2>3, GoWithListMoves DEF Command
    <3>. QED
      BY <2>1, <3>1 DEF MovesTo, SameArguments, tables, Knows, KnowsBind
  <2>. QED
    BY <1>11, <2>2, <2>3 DEF UpdateBindingHGet
<1>12. CASE UpdateBindingHSet(t)
  <2>1. /\ c.pc = "hset" /\ c.name = "UpdateBinding" /\ KnowsBind(c)
        /\ HSetList(c.addr, c.doc.emails) /\ Return(t, "ok") /\ c.doc.emails \in SUBSET Email
    BY <1>1, <1>2, <1>12 DEF UpdateBindingHSet, WriteCommand, Knows, KnowsBind
  <2>2. PICK doc \in Doc : /\ account' = [account EXCEPT ![c.addr] = doc] /\ doc.found
                           /\ doc.emails = c.doc.emails
    BY <1>1, <1>2, <2>1, HSets DEF Call
  <2>3. /\ account'[c.addr].found /\ c.email \in account'[c.addr].emails
        /\ \A a \in Address \ {c.addr} : account'[a] = account[a]
        /\ reflect' = reflect
    <3>1. c.addr \in Address /\ account \in [Address -> Doc] /\ reflect' = reflect
      BY <1>1, <1>2, <2>1 DEF HSetList
    <3>2. c.email \in c.doc.emails
      BY <2>1 DEF KnowsBind
    <3>. QED
      BY <2>2, <3>1, <3>2
  <2>4. MovesTo(t, "done") /\ d.owner = c.owner
    BY <1>1, <2>1, ReturnMoves
  <2>5. c.owner \in Address \cup {NoAddress}
    BY <1>1 DEF Call
  <2>. QED
    BY <2>1, <2>3, <2>4, <2>5 DEF MovesTo, SameArguments, Knows, KnowsBind, Healed
<1>13. CASE DeleteBindingGet(t)
  <2>1. /\ c.pc = "get" /\ c.name = "DeleteBinding" /\ UNCHANGED tables
        /\ KnowsUnbind(c) /\ c.owner = NoAddress
    BY <1>1, <1>13 DEF DeleteBindingGet, Knows, GoodCall
  <2>2. CASE reflect[c.email] = NoAddress /\ Return(t, "ok")
    <3>1. MovesTo(t, "done") /\ d.owner = c.owner
      BY <1>1, <2>2, ReturnMoves
    <3>. QED
      BY <2>1, <2>2, <3>1 DEF MovesTo, SameArguments, tables, Knows, KnowsUnbind, Cleared
  <2>3. CASE op' = [op EXCEPT ![t].pc = "del", ![t].owner = reflect[c.email]]
    <3>1. MovesTo(t, "del")
      BY <1>1, <1>2, <2>1, <2>3, OwnerMoves DEF Command
    <3>. QED
      BY <2>1, <3>1 DEF MovesTo, SameArguments, tables, Knows, KnowsUnbind
  <2>. QED
    BY <1>13, <2>2, <2>3 DEF DeleteBindingGet
<1>14. CASE DeleteBindingDel(t)
  <2>1. /\ c.pc = "del" /\ c.name = "DeleteBinding" /\ KnowsUnbind(c)
        /\ SetMapping(c.email, NoAddress) /\ Go(t, "hget")
    BY <1>1, <1>14 DEF DeleteBindingDel, WriteCommand, Knows
  <2>2. account' = account /\ reflect'[c.email] = NoAddress
    BY <1>1, <1>2, <2>1 DEF SetMapping
  <2>3. MovesTo(t, "hget")
    BY <1>1, <2>1, GoMoves DEF Command
  <2>. QED
    BY <2>1, <2>2, <2>3 DEF MovesTo, SameArguments, Knows, KnowsUnbind
<1>15. CASE DeleteBindingHGet(t)
  <2>1. /\ c.pc = "hget" /\ c.name = "DeleteBinding" /\ UNCHANGED tables /\ KnowsUnbind(c)
        /\ GoWithList(t, "hset", cur \ {c.email}) /\ cur \ {c.email} \in SUBSET Email
    BY <1>1, <1>2, <1>15 DEF DeleteBindingHGet, Knows
  <2>2. MovesTo(t, "hset") /\ d.doc.emails = cur \ {c.email}
    BY <1>1, <2>1, GoWithListMoves DEF Command
  <2>. QED
    BY <2>1, <2>2 DEF MovesTo, SameArguments, tables, Knows, KnowsUnbind
<1>16. CASE DeleteBindingHSet(t)
  <2>1. /\ c.pc = "hset" /\ c.name = "DeleteBinding" /\ KnowsUnbind(c)
        /\ HSetList(c.addr, c.doc.emails) /\ Return(t, "ok") /\ c.doc.emails \in SUBSET Email
    BY <1>1, <1>2, <1>16 DEF DeleteBindingHSet, WriteCommand, Knows, KnowsUnbind
  <2>2. PICK doc \in Doc : /\ account' = [account EXCEPT ![c.addr] = doc]
                           /\ doc.emails = c.doc.emails
    BY <1>1, <1>2, <2>1, HSets DEF Call
  <2>3. c.email \notin account'[c.addr].emails /\ reflect' = reflect
    BY <1>1, <1>2, <2>1, <2>2 DEF KnowsUnbind, HSetList
  <2>4. MovesTo(t, "done") /\ d.owner = c.owner
    BY <1>1, <2>1, ReturnMoves
  <2>. QED
    BY <2>1, <2>3, <2>4 DEF MovesTo, SameArguments, Knows, KnowsUnbind, Cleared
<1>17. CASE DeleteAccountHGet(t)
  <2>1. CASE DeleteMappings(t, cur)
    <3>1. /\ MovesTo(t, IF cur = {} THEN "delAccount" ELSE "delMapping")
          /\ d.todo = cur /\ c.name = "DeleteAccount" /\ UNCHANGED tables
      BY <1>1, <1>2, <1>17, <2>1, DeleteMappingsMoves DEF DeleteAccountHGet
    <3>. QED
      BY <3>1 DEF MovesTo, SameArguments, tables, Knows, KnowsDelete
  <2>. QED
    BY <1>3, <1>17, <2>1 DEF DeleteAccountHGet
<1>18. CASE DeleteAccountDelMapping(t)
  <2>1. PICK e \in c.todo : SetMapping(e, NoAddress) /\ DeleteMappings(t, c.todo \ {e})
    BY <1>18 DEF DeleteAccountDelMapping
  <2>. DEFINE rest == c.todo \ {e}
  <2>2. /\ account' = account /\ reflect'[e] = NoAddress
        /\ \A x \in Email : reflect[x] = NoAddress => reflect'[x] = NoAddress
    BY <1>1, <1>2, <2>1 DEF SetMapping
  <2>3. /\ c.name = "DeleteAccount" /\ \A x \in cur \ c.todo : reflect[x] = NoAddress
    BY <1>1, <1>18 DEF DeleteAccountDelMapping, Knows, KnowsDelete
  <2>4. \A x \in cur \ rest : reflect'[x] = NoAddress
    BY <1>2, <2>2, <2>3
  <2>5. /\ MovesTo(t, IF rest = {} THEN "delAccount" ELSE "delMapping") /\ d.todo = rest
    BY <1>1, <1>2, <2>1, DeleteMappingsMoves
  <2>. QED
    BY <2>2, <2>3, <2>4, <2>5 DEF MovesTo, SameArguments, Knows, KnowsDelete
<1>. QED
  BY <1>20, <1>4, <1>6, <1>7, <1>8, <1>9, <1>10, <1>11, <1>12, <1>13, <1>14, <1>15, <1>16,
     <1>17, <1>18 DEF StoreStep, NoStep

-----------------------------------------------------------------------------
(* The invariant is inductive.                                             *)

LEMMA StartHolds ==
    ASSUME StoreInit, asked \subseteq Address \X Email, alone \subseteq Thread
    PROVE  RInv
<1>1. Database
  BY DocTyped DEF StoreInit, Database, FoundOnly, Provenance
<1>2. Calls /\ \A t \in Thread : op[t] = NoCall
  BY NoCallTyped DEF StoreInit, Calls
<1>3. \A t \in Thread : GoodCall(op[t]) /\ Sourced(op[t]) /\ Knows(op[t])
  BY <1>2, NoCallTyped DEF Sourced, Knows, KnowsQuery
<1>4. OnlyOne
  BY <1>2, NoCallTyped DEF OnlyOne
<1>. QED
  BY <1>1, <1>2, <1>3, <1>4 DEF RInv, TypeOK, StoreTypeOK, Database, Calls

LEMMA InitHolds == Init => RInv
BY StartHolds DEF Init

LEMMA NextHolds == RInv /\ [Next]_vars => RInv'
<1>. SUFFICES ASSUME RInv, [Next]_vars PROVE RInv'
  OBVIOUS
<1>1. /\ Calls /\ Database /\ OnlyOne /\ asked \subseteq Address \X Email /\ alone \subseteq Thread
      /\ \A t \in Thread : GoodCall(op[t]) /\ Sourced(op[t])
      /\ \A t \in alone : Knows(op[t])
  BY DEF RInv, TypeOK, StoreTypeOK, Calls
<1>2. ASSUME Calls', Database', OnlyOne', asked' \subseteq Address \X Email,
             alone' \subseteq Thread,
             \A t \in Thread : GoodCall(op[t])' /\ Sourced(op[t])',
             \A t \in alone' : Knows(op[t])'
      PROVE  RInv'
  BY <1>2 DEF RInv, TypeOK, StoreTypeOK, Database, Calls
<1>3. UNCHANGED tables /\ asked \subseteq asked' => Database'
  BY <1>1 DEF tables, Database, FoundOnly, Provenance
<1>4. ASSUME NEW t \in Thread, Begin(t) PROVE RInv'
  <2>1. PICK c \in Call(Command) :
                /\ Clients(t, c) /\ GoodCall(c) /\ c.pc = "begin"
                /\ c.name = "UpdateBinding" => <<c.addr, c.email>> \in Address \X Email
    BY <1>4, BeginCall
  <2>2. /\ op' = [op EXCEPT ![t] = c] /\ UNCHANGED tables /\ asked \subseteq asked'
        /\ alone' = IF \E u \in Thread \ {t} : Running(u) THEN {} ELSE {t}
        /\ c.name = "UpdateBinding" => <<c.addr, c.email>> \in asked'
        /\ asked' \subseteq Address \X Email
    BY <1>1, <2>1 DEF Clients, Invoke
  <2>3. Calls' /\ op'[t] = c /\ \A u \in Thread \ {t} : op'[u] = op[u]
    BY <1>1, <2>2, OneCall
  <2>4. OnlyOne' /\ alone' \subseteq Thread
    BY <2>2, <2>3 DEF OnlyOne
  <2>5. ASSUME NEW u \in Thread PROVE GoodCall(op[u])' /\ Sourced(op[u])'
    <3>1. CASE u = t
      BY <2>1, <2>2, <2>3, <3>1 DEF GoodCall, Sourced
    <3>2. CASE u # t
      BY <1>1, <2>2, <2>3, <3>2 DEF GoodCall, Sourced, Allowed
    <3>. QED
      BY <3>1, <3>2
  <2>6. \A u \in alone' : Knows(op[u])'
    BY <2>1, <2>2, <2>3 DEF Knows, KnowsBind, KnowsUnbind, KnowsDelete, KnowsQuery
  <2>. QED
    BY <1>2, <1>3, <2>2, <2>3, <2>4, <2>5, <2>6
<1>5. ASSUME NEW t \in Thread, StoreStep(t), UNCHANGED <<asked, alone>> PROVE RInv'
  <2>1. /\ Calls' /\ \A u \in Thread \ {t} : op'[u] = op[u]
        /\ GoodCall(op[t])' /\ Sourced(op[t])' /\ Running(t)
    BY <1>5, StepCall, StepRuns
  <2>2. ASSUME NEW u \in Thread PROVE GoodCall(op[u])' /\ Sourced(op[u])'
    <3>1. CASE u # t
      BY <1>1, <1>5, <2>1, <3>1 DEF GoodCall, Sourced, Allowed
    <3>. QED
      BY <2>1, <3>1
  <2>3. Database'
    BY <1>3, <1>5, <2>1, StepWrites, WriteKeeps
  <2>4. \A u \in alone : u = t
    BY <1>1, <2>1 DEF OnlyOne
  <2>5. OnlyOne' /\ \A u \in alone' : Knows(op[u])'
    BY <1>1, <1>5, <2>1, <2>4, StepKnows DEF OnlyOne
  <2>. QED
    BY <1>1, <1>2, <1>5, <2>1, <2>2, <2>3, <2>5
<1>6. CASE ProcessExit /\ UNCHANGED <<asked, alone>>
  <2>1. Calls' /\ \A u \in Thread : op'[u] = NoCall
    BY <1>6, NoCallTyped DEF ProcessExit, Calls
  <2>2. \A u \in Thread : GoodCall(op[u])' /\ Sourced(op[u])'
    BY <2>1, NoCallTyped DEF Sourced
  <2>3. OnlyOne' /\ \A u \in alone' : Knows(op[u])'
    BY <1>1, <1>6, <2>1, NoCallTyped DEF OnlyOne, Knows, KnowsBind, KnowsUnbind, KnowsDelete,
     KnowsQuery
  <2>. QED
    BY <1>1, <1>2, <1>3, <1>6, <2>1, <2>2, <2>3 DEF ProcessExit
<1>7. CASE UNCHANGED vars
  <2>1. Calls' /\ Database' /\ OnlyOne' /\ \A t \in Thread : GoodCall(op[t])' /\ Sourced(op[t])'
    BY <1>1, <1>3, <1>7 DEF vars, tables, Calls, OnlyOne, GoodCall, Sourced, Allowed
  <2>2. \A t \in alone' : Knows(op[t])'
    BY <1>1, <1>7, SMTT(40) DEF vars, Knows, KnowsBind, KnowsUnbind, KnowsDelete, KnowsQuery,
       Healed,
       Cleared
  <2>. QED
    BY <1>1, <1>2, <1>7, <2>1, <2>2 DEF vars
<1>. QED
  BY <1>4, <1>5, <1>6, <1>7 DEF Next

LEMMA Invariant == Spec => []RInv
BY InitHolds, NextHolds, PTL DEF Spec

-----------------------------------------------------------------------------

(* The database and the calls keep their types, and a hash without a list  *)
(* shows no e-mails.                                                       *)
THEOREM TypeCorrect == Spec => []TypeOK
<1>1. RInv => TypeOK
  BY DEF RInv
<1>. QED
  BY <1>1, Invariant, PTL

(* Whatever races and failures leave behind in lists and mappings, some    *)
(* client asked to bind that pair.                                         *)
THEOREM NothingForged == Spec => []Provenance
<1>1. RInv => Provenance
  BY DEF RInv, Database
<1>. QED
  BY <1>1, Invariant, PTL

(* UpdateBinding alone, run to a success, repairs whatever races and       *)
(* failures did to the pair it binds.                                      *)
THEOREM BindHeals == Spec => []AloneBindHeals
<1>1. RInv => AloneBindHeals
  BY DEF RInv, Knows, KnowsBind, Healed, AloneBindHeals
<1>. QED
  BY <1>1, Invariant, PTL

(* DeleteBinding alone, run to a success, leaves the e-mail unmapped, and  *)
(* unlisted if it was mapped.                                              *)
THEOREM UnbindClears == Spec => []AloneUnbindClears
<1>1. RInv => AloneUnbindClears
  BY DEF RInv, Knows, KnowsUnbind, Cleared, AloneUnbindClears
<1>. QED
  BY <1>1, Invariant, PTL

-----------------------------------------------------------------------------
(* What one command of a call that is alone may do to the database.        *)

(* The command and what the call knows when it sends it.                   *)
LEMMA AloneFacts ==
    ASSUME RInv, NEW t \in Thread, t \in alone, StoreStep(t), ~UNCHANGED tables
    PROVE  /\ WriteCommand(t)
           /\ op[t] \in Call(Command) /\ GoodCall(op[t]) /\ Knows(op[t]) /\ op[t].addr \in Address
           /\ op[t].doc.emails \in SUBSET Email /\ op[t].level \in StoredLevel
           /\ account \in [Address -> Doc] /\ reflect \in [Email -> Address \cup {NoAddress}]
<1>1. WriteCommand(t) /\ op[t] \in Call(Command) /\ GoodCall(op[t])
  BY CallFacts, StepWrites
<1>2. op[t].name \in Mutator
  BY <1>1 DEF GoodCall, WriteCommand, Mutator
<1>. QED
  BY <1>1, <1>2, CallFacts DEF RInv, Call, Doc

(* The lists of the other accounts stay as they are.                       *)
LEMMA OneList ==
    ASSUME RInv, NEW a \in Address, NEW emails \in SUBSET Email, NEW level \in StoredLevel
    PROVE  /\ HSetLevel(a, level) =>
                 /\ reflect' = reflect
                 /\ \A b \in Address : account'[b].emails = account[b].emails
           /\ HSetList(a, emails) =>
                 /\ reflect' = reflect /\ account'[a].emails = emails
                 /\ \A b \in Address \ {a} : account'[b] = account[b]
<1>1. account \in [Address -> Doc]
  BY DEF RInv, Database
<1>2. (HSetLevel(a, level) \/ HSetList(a, emails)) => reflect' = reflect
  BY DEF HSetLevel, HSetList
<1>. QED
  BY <1>1, <1>2, HSets

LEMMA NoNewOrphan ==
    ASSUME RInv, NEW t \in Thread, t \in alone, StoreStep(t), ~UNCHANGED tables,
           op[t].name \notin {"DeleteBinding", "DeleteAccount"},
           NEW a \in Address, NEW e \in Email, Orphan(a, e)'
    PROVE  Orphan(a, e)
<1>. DEFINE c == op[t]
<1>1. /\ GoodCall(c) /\ Knows(c) /\ c.addr \in Address
      /\ c.doc.emails \in SUBSET Email /\ c.level \in StoredLevel
      /\ account \in [Address -> Doc] /\ reflect \in [Email -> Address \cup {NoAddress}]
  BY AloneFacts
<1>2. CASE HSetLevel(c.addr, c.level)
  <2>1. reflect' = reflect /\ \A b \in Address : account'[b].emails = account[b].emails
    BY <1>1, <1>2, OneList
  <2>. QED
    BY <1>1, <2>1 DEF Orphan
<1>3. CASE c.pc = "hset" /\ HSetList(c.addr, c.doc.emails)
  <2>1. reflect[c.email] = c.addr /\ c.doc.emails = account[c.addr].emails \cup {c.email}
    BY <1>1, <1>3 DEF GoodCall, Knows, KnowsBind
  <2>2. reflect' = reflect /\ account'[c.addr].emails = c.doc.emails
        /\ \A b \in Address \ {c.addr} : account'[b] = account[b]
    BY <1>1, <1>3, OneList
  <2>. QED
    BY <1>1, <2>1, <2>2, NoAddressAssumption DEF Orphan
<1>4. CASE c.pc = "hsetOld" /\ HSetList(c.owner, c.doc.emails)
  <2>1. c.owner \in Address /\ c.doc.emails = account[c.owner].emails \ {c.email}
    BY <1>1, <1>4 DEF GoodCall, Knows, KnowsBind
  <2>2. reflect' = reflect /\ account'[c.owner].emails = c.doc.emails
        /\ \A b \in Address \ {c.owner} : account'[b] = account[b]
    BY <1>1, <1>4, <2>1, OneList
  <2>. QED
    BY <2>1, <2>2 DEF Orphan
<1>5. CASE SetHash(c.addr, NewDoc(c.level)) \/ SetHash(c.addr, NoDoc)
  BY <1>1, <1>5, DocTyped DEF SetHash, Orphan
<1>6. CASE SetMapping(c.email, c.addr)
  BY <1>1, <1>6, NoAddressAssumption DEF SetMapping, Orphan
<1>. QED
  BY <1>1, <1>2, <1>3, <1>4, <1>5, <1>6, AloneFacts DEF WriteCommand, GoodCall

LEMMA NoNewDangling ==
    ASSUME RInv, NEW t \in Thread, t \in alone, StoreStep(t), ~UNCHANGED tables,
           op[t].name \notin {"ActiveAccount", "UpdateBinding"},
           NEW e \in Email, Dangling(e)'
    PROVE  Dangling(e)
<1>. DEFINE c == op[t]
<1>1. /\ GoodCall(c) /\ Knows(c) /\ c.addr \in Address
      /\ c.doc.emails \in SUBSET Email /\ c.level \in StoredLevel
      /\ account \in [Address -> Doc] /\ reflect \in [Email -> Address \cup {NoAddress}]
  BY AloneFacts
<1>2. CASE HSetLevel(c.addr, c.level)
  <2>1. reflect' = reflect /\ \A b \in Address : account'[b].emails = account[b].emails
    BY <1>1, <1>2, OneList
  <2>. QED
    BY <1>1, <2>1 DEF Dangling
<1>3. CASE c.pc = "hset" /\ HSetList(c.addr, c.doc.emails)
  <2>1. reflect[c.email] = NoAddress /\ c.doc.emails = account[c.addr].emails \ {c.email}
    BY <1>1, <1>3 DEF GoodCall, Knows, KnowsUnbind
  <2>2. reflect' = reflect /\ account'[c.addr].emails = c.doc.emails
        /\ \A b \in Address \ {c.addr} : account'[b] = account[b]
    BY <1>1, <1>3, OneList
  <2>. QED
    BY <1>1, <2>1, <2>2 DEF Dangling
<1>4. CASE c.pc = "delAccount" /\ SetHash(c.addr, NoDoc)
  <2>1. \A x \in account[c.addr].emails : reflect[x] = NoAddress
    BY <1>1, <1>4 DEF GoodCall, Knows, KnowsDelete
  <2>. QED
    BY <1>1, <1>4, <2>1 DEF SetHash, Dangling
<1>5. CASE SetMapping(c.email, NoAddress) \/ \E x \in c.todo : SetMapping(x, NoAddress)
  BY <1>1, <1>5 DEF SetMapping, Dangling
<1>. QED
  BY <1>1, <1>2, <1>3, <1>4, <1>5, AloneFacts DEF WriteCommand, GoodCall

(* A binding makes an account only of the previous owner that is gone.     *)
LEMMA NoNewAccount ==
    ASSUME RInv, NEW t \in Thread, t \in alone, StoreStep(t), ~UNCHANGED tables,
           op[t].name # "ActiveAccount", NEW a \in Address, account'[a].found, ~account[a].found
    PROVE  op[t].name = "UpdateBinding" /\ a = op[t].owner /\ account'[a] = NewDoc(0)
<1>. DEFINE c == op[t]
<1>1. /\ GoodCall(c) /\ Knows(c) /\ c.addr \in Address
      /\ c.doc.emails \in SUBSET Email /\ c.level \in StoredLevel
      /\ account \in [Address -> Doc] /\ account[a] = NoDoc
  BY AloneFacts DEF RInv, Database, FoundOnly
<1>2. CASE c.pc = "hsetLevel" /\ HSetLevel(c.addr, c.level)
  <2>1. account[c.addr].found
    BY <1>1, <1>2 DEF Knows
  <2>2. \A b \in Address \ {c.addr} : account'[b] = account[b]
    BY <1>1, <1>2, HSets
  <2>. QED
    BY <2>1, <2>2
<1>3. CASE c.pc = "hset" /\ HSetList(c.addr, c.doc.emails)
  <2>1. account[c.addr].found
    BY <1>1, <1>3 DEF GoodCall, Knows, KnowsBind, KnowsUnbind
  <2>. QED
    BY <1>1, <1>3, <2>1, OneList
<1>4. CASE c.pc = "hsetOld" /\ HSetList(c.owner, c.doc.emails)
  <2>1. /\ c.owner \in Address /\ c.doc.emails = account[c.owner].emails \ {c.email}
        /\ c.name = "UpdateBinding"
    BY <1>1, <1>4 DEF GoodCall, Knows, KnowsBind
  <2>2. PICK doc \in Doc : /\ account' = [account EXCEPT ![c.owner] = doc] /\ doc.found
                           /\ doc.emails = c.doc.emails /\ doc.level = account[c.owner].level
    BY <1>1, <1>4, <2>1, HSets
  <2>3. a = c.owner /\ account'[a] = doc
    BY <1>1, <2>1, <2>2
  <2>4. doc.emails = {} /\ doc.level = 0
    BY <1>1, <2>1, <2>2, <2>3 DEF NoDoc
  <2>5. doc = NewDoc(0)
    BY <2>2, <2>4 DEF Doc, NewDoc
  <2>. QED
    BY <2>1, <2>3, <2>5
<1>5. CASE SetHash(c.addr, NoDoc)
  BY <1>1, <1>5, DocTyped DEF SetHash
<1>6. CASE account' = account
  BY <1>6
<1>. QED
  BY <1>1, <1>2, <1>3, <1>4, <1>5, <1>6, AloneFacts DEF WriteCommand, SetMapping, tables

(* A call that is alone gives no hash without its list.                    *)
LEMMA NoNewUnlisted ==
    ASSUME RInv, NEW t \in Thread, t \in alone, StoreStep(t), ~UNCHANGED tables
    PROVE  noList' \subseteq noList
<1>1. op[t].pc = "hsetLevel" => account[op[t].addr].found
  BY AloneFacts DEF Knows
<1>. QED
  BY <1>1, AloneFacts, ZenonT(60) DEF WriteCommand, HSetLevel, HSetList, SetHash, SetMapping,
     tables

(* A step that changes the database is a command of a call that runs.      *)
LEMMA WhoWrites ==
    ASSUME RInv, Next, ~UNCHANGED tables
    PROVE  \E t \in Thread : StoreStep(t) /\ Running(t)
<1>1. ASSUME NEW t \in Thread, Begin(t) PROVE FALSE
  BY <1>1, BeginCall DEF Clients
<1>2. ~ProcessExit
  BY DEF ProcessExit
<1>. QED
  BY <1>1, <1>2, StepRuns DEF Next

-----------------------------------------------------------------------------

(* Only calls that overlap or that unmap first leave a list entry that     *)
(* resolves to nobody.                                                     *)
THEOREM DeletionsOrphan == Spec => OnlyDeletionsOrphan
<1>. DEFINE A == \A a \in Address, e \in Email : Orphan(a, e)' /\ ~Orphan(a, e) =>
                    \E t \in Thread :
                       Running(t)
                       /\ (t \in alone => op[t].name \in {"DeleteBinding", "DeleteAccount"})
<1>1. RInv /\ [Next]_vars => [A]_vars
  <2>. SUFFICES ASSUME RInv, Next, NEW a \in Address, NEW e \in Email,
                       Orphan(a, e)', ~Orphan(a, e)
                PROVE  \E t \in Thread : Running(t) /\
                          (t \in alone => op[t].name \in {"DeleteBinding", "DeleteAccount"})
    OBVIOUS
  <2>1. ~UNCHANGED tables
    BY DEF tables, Orphan
  <2>. QED
    BY <2>1, WhoWrites, NoNewOrphan
<1>2. Spec => [][A]_vars
  BY <1>1, Invariant, PTL DEF Spec
<1>. QED
  BY <1>2 DEF OnlyDeletionsOrphan

(* Only calls that overlap, an activation or a binding make an e-mail      *)
(* resolve to an account that does not list it.                            *)
THEOREM ActivationOrBindDangles == Spec => OnlyActivationOrBindDangles
<1>. DEFINE A == \A e \in Email : Dangling(e)' /\ ~Dangling(e) =>
                    \E t \in Thread :
                       Running(t)
                       /\ (t \in alone => op[t].name \in {"ActiveAccount", "UpdateBinding"})
<1>1. RInv /\ [Next]_vars => [A]_vars
  <2>. SUFFICES ASSUME RInv, Next, NEW e \in Email, Dangling(e)', ~Dangling(e)
                PROVE  \E t \in Thread : Running(t) /\
                          (t \in alone => op[t].name \in {"ActiveAccount", "UpdateBinding"})
    OBVIOUS
  <2>1. ~UNCHANGED tables
    BY DEF tables, Dangling
  <2>. QED
    BY <2>1, WhoWrites, NoNewDangling
<1>2. Spec => [][A]_vars
  BY <1>1, Invariant, PTL DEF Spec
<1>. QED
  BY <1>2 DEF OnlyActivationOrBindDangles

(* Accounts come into being by activation, by a race, or as an empty       *)
(* account at level 0 that a binding makes of a deleted previous owner.    *)
THEOREM ActivationCreates == Spec => OnlyActivationCreates
<1>. DEFINE A == \A a \in Address : account'[a].found /\ ~account[a].found =>
                    \E t \in Thread : Running(t) /\
                       (t \in alone => \/ op[t].name = "ActiveAccount"
                                       \/ /\ op[t].name = "UpdateBinding"
                                          /\ a = op[t].owner /\ account'[a] = NewDoc(0))
<1>1. RInv /\ [Next]_vars => [A]_vars
  <2>. SUFFICES ASSUME RInv, Next, NEW a \in Address, account'[a].found, ~account[a].found
                PROVE  \E t \in Thread : Running(t) /\
                          (t \in alone => \/ op[t].name = "ActiveAccount"
                                          \/ /\ op[t].name = "UpdateBinding"
                                             /\ a = op[t].owner /\ account'[a] = NewDoc(0))
    OBVIOUS
  <2>1. ~UNCHANGED tables
    BY DEF tables
  <2>. QED
    BY <2>1, WhoWrites, NoNewAccount
<1>2. Spec => [][A]_vars
  BY <1>1, Invariant, PTL DEF Spec
<1>. QED
  BY <1>2 DEF OnlyActivationCreates

(* An account becomes undeletable only by a race.                          *)
THEOREM RacesUndeletable == Spec => OnlyRacesUndeletable
<1>. DEFINE A == noList' \subseteq noList \/ \E t \in Thread \ alone : Running(t)
<1>1. RInv /\ [Next]_vars => [A]_vars
  <2>. SUFFICES ASSUME RInv, Next PROVE A
    OBVIOUS
  <2>1. CASE UNCHANGED tables
    BY <2>1 DEF tables
  <2>. QED
    BY <2>1, WhoWrites, NoNewUnlisted
<1>2. Spec => [][A]_vars
  BY <1>1, Invariant, PTL DEF Spec
<1>. QED
  BY <1>2 DEF OnlyRacesUndeletable

-----------------------------------------------------------------------------
(* What a step of a call that is alone may do to the database.             *)

(* A query writes nothing; only UpdateBinding lists an e-mail, its own for *)
(* its account, or maps one.                                               *)
OwnWrites(c) ==
    LET emails == account[c.addr].emails
    IN  /\ c.name \notin Mutator => UNCHANGED <<account, reflect>>
        /\ \A a \in Address :
              \/ account'[a].emails \subseteq account[a].emails
              \/ c.name = "UpdateBinding" /\ a = c.addr
        /\ c.name = "UpdateBinding" =>
              /\ account'[c.addr].emails \in {emails, emails \cup {c.email}}
              /\ account'[c.addr].level = account[c.addr].level
        /\ \A e \in Email :
              \/ reflect'[e] \in {reflect[e], NoAddress}
              \/ c.name = "UpdateBinding" /\ e = c.email /\ reflect'[e] = c.addr

LEMMA AloneWrites ==
    ASSUME RInv, NEW t \in Thread, t \in alone, StoreStep(t)
    PROVE  OwnWrites(op[t])
<1>. DEFINE c == op[t]
<1>1. /\ GoodCall(c) /\ Knows(c) /\ Running(t) /\ c \in Call(Command) /\ c.level \in StoredLevel
      /\ account \in [Address -> Doc] /\ reflect \in [Email -> Address \cup {NoAddress}]
      /\ NoDoc.emails = {} /\ NewDoc(c.level).emails = {}
  BY CallFacts, StepRuns DEF RInv, Database, NoDoc, NewDoc
<1>2. UNCHANGED tables \/ WriteCommand(t)
  BY StepWrites
<1>3. CASE UNCHANGED <<account, reflect>>
  BY <1>3 DEF OwnWrites
<1>4. CASE WriteCommand(t)
  <2>1. c.name \in Mutator /\ c.addr \in Address /\ c.doc.emails \in SUBSET Email
    BY <1>1, <1>4, CallFacts DEF GoodCall, WriteCommand, Mutator, TakesAddress, Call, Doc
  <2>2. CASE c.pc = "hsetLevel" /\ HSetLevel(c.addr, c.level)
    <3>1. PICK doc \in Doc : /\ account' = [account EXCEPT ![c.addr] = doc]
                             /\ doc.emails = account[c.addr].emails
      BY <1>1, <2>1, <2>2, HSets
    <3>. QED
      BY <1>1, <2>1, <2>2, <3>1 DEF OwnWrites, HSetLevel, GoodCall
  <2>3. CASE c.pc = "hset" /\ HSetList(c.addr, c.doc.emails)
    <3>1. PICK doc \in Doc : /\ account' = [account EXCEPT ![c.addr] = doc]
                             /\ doc.emails = c.doc.emails /\ doc.level = account[c.addr].level
      BY <1>1, <2>1, <2>3, HSets
    <3>2. UNCHANGED reflect /\ c.name \in {"UpdateBinding", "DeleteBinding"}
      BY <1>1, <2>3 DEF HSetList, GoodCall
    <3>3. /\ c.name = "UpdateBinding" => c.doc.emails = account[c.addr].emails \cup {c.email}
          /\ c.name = "DeleteBinding" => c.doc.emails = account[c.addr].emails \ {c.email}
      BY <1>1, <2>3 DEF Knows, KnowsBind, KnowsUnbind
    <3>. QED
      BY <1>1, <2>1, <3>1, <3>2, <3>3 DEF OwnWrites
  <2>4. CASE c.pc = "hsetOld" /\ HSetList(c.owner, c.doc.emails)
    <3>1. /\ c.name = "UpdateBinding" /\ c.owner \in Address /\ c.owner # c.addr
          /\ c.doc.emails = account[c.owner].emails \ {c.email} /\ UNCHANGED reflect
      BY <1>1, <2>4 DEF Knows, KnowsBind, GoodCall, HSetList, Call
    <3>2. PICK doc \in Doc : /\ account' = [account EXCEPT ![c.owner] = doc]
                             /\ doc.emails = c.doc.emails
      BY <1>1, <2>1, <2>4, <3>1, HSets
    <3>. QED
      BY <1>1, <2>1, <3>1, <3>2 DEF OwnWrites
  <2>5. CASE At(t, "ActiveAccount", "begin") /\ SetHash(c.addr, NewDoc(c.level))
    BY <1>1, <2>1, <2>5 DEF OwnWrites, SetHash
  <2>6. CASE c.pc = "delAccount" /\ SetHash(c.addr, NoDoc)
    BY <1>1, <2>1, <2>6 DEF OwnWrites, SetHash, GoodCall
  <2>7. CASE c.pc = "set" /\ SetMapping(c.email, c.addr)
    BY <1>1, <2>1, <2>7 DEF OwnWrites, SetMapping, GoodCall
  <2>8. CASE c.pc = "del" /\ SetMapping(c.email, NoAddress)
    BY <1>1, <2>1, <2>8 DEF OwnWrites, SetMapping, GoodCall
  <2>9. CASE c.pc = "delMapping" /\ \E e \in c.todo : SetMapping(e, NoAddress)
    BY <1>1, <2>1, <2>9 DEF OwnWrites, SetMapping, GoodCall
  <2>. QED
    BY <1>4, <2>2, <2>3, <2>4, <2>5, <2>6, <2>7, <2>8, <2>9 DEF WriteCommand
<1>. QED
  BY <1>2, <1>3, <1>4 DEF tables

=============================================================================
