------------------------- MODULE FoundationsProofs -------------------------
(***************************************************************************)
(* Before the handlers: the start of the process, and the way of a request *)
(* to its handler and back (RequestGate).  And beneath them: the wallet    *)
(* (WalletCalls).  MCFoundations runs both beside the arithmetic.          *)
(***************************************************************************)
EXTENDS RequestGate, WalletCalls, TLAPS

GateSpec == GateInit /\ [][GateNext /\ UNCHANGED place]_gateVars

(* A record with the fields of a process.                                  *)
Shape(p) == p = [pc |-> p.pc, database |-> p.database, key |-> p.key, debug |-> p.debug]

(* How far the process is tells what it has, and there are debug requests  *)
(* only while the wallet is open.                                          *)
Underway ==
    /\ Shape(proc)
    /\ proc.pc \in {"configured", "opened", "serving"} =>
          (proc.database \in {1, 2} => place.databaseOpens)
    /\ proc.pc \in {"opened", "serving"} =>
          \E w \in place.wallet, s \in proc.key : w.address = {BMailAddress(s)}
    /\ proc.debug = "up" => proc.pc \in {"opened", "serving"}

(* The second half of GateRight, of one request.                           *)
Answered(r, ran, reply) ==
    /\ ran /\ r.port = "main" =>
          \/ r.route \in OpenRoute
          \/ r.route \in {"/", "/keep_alive", "/keep_alive2", "/admin_address"}
          \/ \E s \in r.address.key : r.signature = Signed(s, r.payload)
    /\ Routed(r) /\ r.route \in OpenRoute => ran
    /\ Success(reply) <=> ran /\ Handler(r).res = "ok"
    /\ r.port = "debug" /\ r.route \in DebugRoute =>
          (ToolPrints(reply) = "success" <=> Success(reply))

GateInv == Underway /\ \A r \in served.request : Answered(r, served.ran, served.reply)

(* A wallet that opens is that of the key it opens with.                   *)
LEMMA ParsedFits ==
    ASSUME NEW file, NEW pwd, ParseWallet(file, pwd).res = "ok"
    PROVE  \E w \in file : w.address = {BMailAddress(ParseWallet(file, pwd).value)}
<1>. DEFINE w == CHOOSE v \in file : TRUE
            r == SeedOf(w, pwd)
            parsed == ParseWallet(file, pwd)
<1>1. file # {} /\ w \in file
  BY DEF ParseWallet, Error
<1>2. parsed = IF r.res = "ok"
               THEN IF w.address = {} THEN Panic
                    ELSE IF Fits(w, r.value) THEN Value(r.value) ELSE Error
               ELSE r
  BY <1>1 DEF ParseWallet, Then
<1>3. r.res = "ok" /\ Fits(w, r.value) /\ parsed = Value(r.value)
  BY <1>2 DEF Panic, Error
<1>4. parsed.value = r.value
  BY <1>3 DEF Value
<1>. HIDE DEF w, r
<1>5. w \in file /\ w.address = {BMailAddress(parsed.value)}
  BY <1>1, <1>3, <1>4 DEF Fits
<1>. QED
  BY <1>5

(* Who is let in has signed: with the key of the address it names.         *)
LEMMA AdmittedSigned ==
    ASSUME NEW r \in Requests, Admitted(r).res = "ok"
    PROVE  \E s \in r.address.key : r.signature = Signed(s, r.payload)
<1>1. VerifyProto(r).res = "ok"
  BY DEF Admitted, Then, ReadProtoRequest, Value, Error
<1>2. DecodePubKey(r.address) = Value(r.address)
  BY <1>1 DEF VerifyProto, VerifyMessage, Then, DecodePubKey, Error
<1>3. Decode(r.signature) = Value(r.signature.bytes)
  BY <1>1, <1>2
  DEF VerifyProto, VerifyMessage, Then, Decode, Value, Error
<1>4. Verify(r.address, r.payload, r.signature.bytes).res = "ok"
  BY <1>1, <1>2, <1>3 DEF VerifyProto, VerifyMessage, Then, Value
<1>5. r.address.key # {} /\ r.signature.bytes = [by |-> r.address.key, msg |-> r.payload]
  BY <1>4 DEF Verify, Panic, Error
<1>6. r.address \notin OtherAddress
  BY <1>5 DEF OtherAddress
<1>7. /\ r.address = BMailAddress(CHOOSE s \in Seed : TRUE)
      /\ \E s \in Seed, m \in Payload : r.signature = Signed(s, m)
  BY <1>6 DEF Requests
<1>8. r.address.key = {CHOOSE s \in Seed : TRUE}
  BY <1>7 DEF BMailAddress
<1>9. r.signature = Encoded(r.signature.bytes)
  BY <1>7 DEF Signed, Encoded
<1>. QED
  BY <1>5, <1>8, <1>9 DEF Signed

LEMMA Outcomes ==
    ASSUME NEW r \in Requests
    PROVE  /\ Handler(r).res \in {"ok", "err", "panic"}
           /\ Admitted(r).res \in {"ok", "err", "panic"}
           /\ r.body = "unread" => Admitted(r).res = "err"
<1>1. r.outcome \in {"ok", "err", "panic"}
  BY DEF Requests
<1>2. Handler(r).res \in {"ok", "err", "panic"}
  BY <1>1 DEF Handler, Value, Error, Panic
<1>3. \A pub, m, sig : Verify(pub, m, sig).res \in {"ok", "err", "panic"}
  BY DEF Verify, Value, Error, Panic
<1>4. VerifyProto(r).res \in {"ok", "err", "panic"}
  BY <1>3 DEF VerifyProto, VerifyMessage, Then, DecodePubKey, Decode,
              Value, Error
<1>. QED
  BY <1>2, <1>4 DEF Admitted, Then, ReadProtoRequest, Value, Error

(* One reply, and what success in it means.                                *)
LEMMA Replied == ASSUME NEW a PROVE Success({a}) <=> a.success
BY DEF Success

LEMMA SignedAnswered ==
    ASSUME NEW r \in Requests
    PROVE  callFunc(r).success <=> Admitted(r).res = "ok" /\ Handler(r).res = "ok"
<1>. DEFINE outcome == Then(Admitted(r), LAMBDA x : Handler(r))
<1>1. outcome = IF Admitted(r).res = "ok" THEN Handler(r) ELSE Admitted(r)
  BY DEF Then
<1>2. callFunc(r) = IF r.body = "unread" THEN Reply(400, FALSE, "mixed")
                    ELSE IF outcome.res = "panic" THEN Recovered
                    ELSE IF outcome.res = "err" THEN WriteError
                    ELSE WriteProtoResponse
  BY DEF callFunc
<1>. HIDE DEF outcome
<1>. QED
  BY <1>1, <1>2, Outcomes
  DEF Reply, Recovered, WriteError, WriteProtoResponse

LEMMA DebugAnswered ==
    ASSUME NEW r \in Requests
    PROVE  /\ DebugReply(r).success <=>
                 ReadJsonRequest(r).res = "ok" /\ Handler(r).res = "ok"
           /\ DebugReply(r).success => DebugReply(r).form = "json"
<1>. DEFINE outcome == Then(ReadJsonRequest(r), Handler)
<1>1. outcome = IF ReadJsonRequest(r).res = "ok" THEN Handler(r) ELSE ReadJsonRequest(r)
  BY DEF Then, ReadJsonRequest, Value, Error
<1>2. ReadJsonRequest(r).res \in {"ok", "err"}
  BY DEF ReadJsonRequest, Value, Error
<1>3. DebugReply(r) = IF outcome.res = "panic" THEN Recovered
                      ELSE IF outcome.res = "err" THEN WriteJsonError
                      ELSE WriteJsonRequest
  BY DEF DebugReply
<1>. HIDE DEF outcome
<1>. QED
  BY <1>1, <1>2, <1>3, Outcomes
  DEF Reply, Recovered, WriteJsonError, WriteJsonRequest

LEMMA PlainAnswered ==
    ASSUME NEW r \in Requests
    PROVE  PlainReply(r).success <=> Handler(r).res = "ok"
<1>1. r.route = "/keep_alive2" => r.route \in UnsignedRoute \ {"/active_verify"}
  BY DEF UnsignedRoute
<1>2. r.route \in UnsignedRoute \ {"/active_verify"} => Handler(r).res = "ok"
  BY DEF Handler, Value
<1>3. PlainReply(r) =
         IF r.route = "/keep_alive2" THEN WriteProtoResponse
         ELSE IF r.route \in UnsignedRoute \ {"/active_verify"} THEN WriteJsonRequest
         ELSE IF Handler(r).res = "panic" THEN Recovered
         ELSE IF Handler(r).res = "err" THEN WriteText(500) ELSE WriteText(200)
  BY DEF PlainReply
<1>4. /\ WriteProtoResponse.success /\ WriteJsonRequest.success
      /\ ~Recovered.success
  BY DEF WriteProtoResponse, WriteJsonRequest, Recovered, Reply
<1>5. \A status : WriteText(status).success <=> status = 200
  BY Zenon DEF WriteText, Reply
<1>6. ~WriteText(500).success /\ WriteText(200).success
  <2>. HIDE DEF WriteText
  <2>. QED
    BY <1>5
<1>7. CASE r.route \in UnsignedRoute \ {"/active_verify"}
  BY <1>2, <1>3, <1>4, <1>7
<1>8. CASE r.route \notin UnsignedRoute \ {"/active_verify"}
  <2>1. PlainReply(r) = IF Handler(r).res = "panic" THEN Recovered
                        ELSE IF Handler(r).res = "err" THEN WriteText(500)
                        ELSE WriteText(200)
    BY <1>1, <1>3, <1>8
  <2>. QED
    BY <1>4, <1>6, <2>1, Outcomes
<1>. QED
  BY <1>7, <1>8

(* The database tool believes replies in JSON only.                        *)
LEMMA ToolAnswered ==
    ASSUME NEW a
    PROVE  ToolPrints({a}) = "success" <=> a.form = "json" /\ a.success
<1>1. (CHOOSE b \in {a} : TRUE) = a
  OBVIOUS
<1>. QED
  BY <1>1 DEF ToolPrints, DoHttp, Value, Error

LEMMA ServedAnswered ==
    ASSUME NEW r \in Requests, Serve(r)
    PROVE  \A q \in served'.request : Answered(q, served'.ran, served'.reply)
<1>. DEFINE a == IF ~Routed(r) THEN NotRouted
                 ELSE IF r.route \in SignedRoute THEN callFunc(r)
                 ELSE IF r.route \in DebugRoute THEN DebugReply(r)
                 ELSE PlainReply(r)
            ran == /\ Routed(r)
                   /\ r.route \in SignedRoute => Admitted(r).res = "ok"
                   /\ r.route \in DebugRoute => ReadJsonRequest(r).res = "ok"
<1>1. served'.request = {r} /\ served'.ran = ran /\ served'.reply = {a}
  BY DEF Serve
<1>2. r.route \in SignedRoute => r.route \notin DebugRoute
  BY DEF SignedRoute, DebugRoute
<1>3. ~NotRouted.success
  BY DEF NotRouted, Reply
<1>4. a.success <=> ran /\ Handler(r).res = "ok"
  BY <1>2, <1>3, SignedAnswered, DebugAnswered, PlainAnswered
<1>5. r.route \in DebugRoute => (a.form = "json" /\ a.success <=> a.success)
  BY <1>2, <1>3, DebugAnswered
<1>6. ran /\ r.route \in SignedRoute =>
         \E s \in r.address.key : r.signature = Signed(s, r.payload)
  BY AdmittedSigned
<1>7. ran /\ r.port = "main" =>
         \/ r.route \in OpenRoute
         \/ r.route \in {"/", "/keep_alive", "/keep_alive2", "/admin_address"}
         \/ \E s \in r.address.key : r.signature = Signed(s, r.payload)
  BY <1>6 DEF Routed, OpenRoute, UnsignedRoute
<1>8. Routed(r) /\ r.route \in OpenRoute => ran
  BY DEF OpenRoute, SignedRoute, DebugRoute
<1>. HIDE DEF a, ran
<1>9. Answered(r, ran, {a})
  BY <1>4, <1>5, <1>7, <1>8, Replied, ToolAnswered DEF Answered
<1>. QED
  BY <1>1, <1>9

LEMMA Shaped ==
    \A p, d, k, g : Shape([pc |-> p, database |-> d, key |-> k, debug |-> g])
BY DEF Shape

(* How to see that a step leads on.                                        *)
LEMMA LeadsOn ==
    ASSUME NEW p, NEW d, NEW k, NEW g,
           proc' = [pc |-> p, database |-> d, key |-> k, debug |-> g],
           p \in {"configured", "opened", "serving"} /\ d \in {1, 2} => place.databaseOpens,
           p \in {"opened", "serving"} =>
              \E w \in place.wallet, s \in k : w.address = {BMailAddress(s)},
           g = "up" => p \in {"opened", "serving"},
           UNCHANGED place
    PROVE  Underway'
<1>1. proc'.pc = p /\ proc'.database = d /\ proc'.key = k /\ proc'.debug = g /\ Shape(proc')
  BY Shaped
<1>. QED
  BY <1>1 DEF Underway, Shape

LEMMA GateStarts == GateInit => GateInv
<1>. SUFFICES ASSUME GateInit PROVE GateInv
  OBVIOUS
<1>1. proc = [pc |-> "start", database |-> 0, key |-> {}, debug |-> "off"] /\ served.request = {}
  BY DEF GateInit, NotRunning, NoService
<1>. QED
  BY <1>1, Shaped DEF GateInv, Underway, Shape

LEMMA GateKept == GateInv /\ [GateNext /\ UNCHANGED place]_gateVars => GateInv'
<1>. SUFFICES ASSUME GateInv, [GateNext /\ UNCHANGED place]_gateVars PROVE GateInv'
  OBVIOUS
<1>1. PICK p, d, k, g : proc = [pc |-> p, database |-> d, key |-> k, debug |-> g]
  BY DEF GateInv, Underway, Shape
<1>2. ASSUME Die PROVE Underway' /\ UNCHANGED served
  <2>1. /\ UNCHANGED served
        /\ proc' = [pc |-> "dead", database |-> 0, key |-> {}, debug |-> "off"]
    BY <1>2 DEF Die, NotRunning
  <2>. QED
    BY <2>1 DEF Underway, Shape
<1>3. ASSUME Underway', UNCHANGED served PROVE GateInv'
  BY <1>3 DEF GateInv, Answered
<1>4. CASE initConfig /\ UNCHANGED place
  <2>1. ASSUME NEW c \in place.config, Configured(c), UNCHANGED served,
               proc' = [proc EXCEPT !.pc = "configured", !.database = c.database_typ]
        PROVE  GateInv'
    <3>1. proc' = [pc |-> "configured", database |-> c.database_typ, key |-> k, debug |-> g]
      BY <1>1, <2>1
    <3>2. c.database_typ \in {1, 2} => place.databaseOpens
      BY <2>1 DEF Configured, Section
    <3>3. g # "up"
      BY <1>1, <1>4 DEF initConfig, GateInv, Underway
    <3>4. "configured" \notin {"opened", "serving"}
      OBVIOUS
    <3>5. Underway'
      BY <1>4, <3>1, <3>2, <3>3, <3>4, LeadsOn
    <3>. QED
      BY <1>3, <2>1, <3>5
  <2>. QED
    BY <1>2, <1>3, <1>4, <2>1 DEF initConfig
<1>5. CASE WInst /\ UNCHANGED place
  <2>. DEFINE w == ParseWallet(place.wallet, (CHOOSE c \in place.config : TRUE).wallet_auth)
  <2>1. ASSUME w.res = "ok", UNCHANGED served, proc.pc = "configured",
               proc' = [proc EXCEPT !.pc = "opened", !.key = {w.value}]
        PROVE  GateInv'
    <3>1. proc' = [pc |-> "opened", database |-> d, key |-> {w.value}, debug |-> g]
      BY <1>1, <2>1
    <3>2. \E v \in place.wallet : v.address = {BMailAddress(w.value)}
      BY <2>1, ParsedFits
    <3>3. d \in {1, 2} => place.databaseOpens
      BY <1>1, <2>1 DEF GateInv, Underway, Shape
    <3>4. g # "up"
      BY <1>1, <2>1 DEF GateInv, Underway, Shape
    <3>. HIDE DEF w
    <3>5. Underway'
      BY <1>5, <3>1, <3>2, <3>3, <3>4, LeadsOn
    <3>. QED
      BY <1>3, <2>1, <3>5
  <2>. QED
    BY <1>2, <1>3, <1>5, <2>1 DEF WInst
<1>6. CASE StartDebug /\ UNCHANGED place
  <2>1. PICK h : proc' = [pc |-> p, database |-> d, key |-> k, debug |-> h]
    BY <1>1, <1>6 DEF StartDebug
  <2>2. UNCHANGED served /\ p \in {"opened", "serving"}
    BY <1>1, <1>6 DEF StartDebug
  <2>. QED
    BY <1>1, <1>3, <1>6, <2>1, <2>2 DEF GateInv, Underway, Shape
<1>7. CASE Start /\ UNCHANGED place
  <2>1. ASSUME UNCHANGED served, proc.pc = "opened", proc' = [proc EXCEPT !.pc = "serving"]
        PROVE  GateInv'
    <3>1. proc' = [pc |-> "serving", database |-> d, key |-> k, debug |-> g]
      BY <1>1, <2>1
    <3>. QED
      BY <1>1, <1>3, <1>7, <2>1, <3>1 DEF GateInv, Underway, Shape
  <2>. QED
    BY <1>2, <1>3, <1>7, <2>1 DEF Start
<1>8. CASE Ends /\ UNCHANGED place
  BY <1>2, <1>3, <1>8 DEF Ends
<1>9. CASE Restart /\ UNCHANGED place
  <2>1. /\ proc' = [pc |-> "start", database |-> 0, key |-> {}, debug |-> "off"]
        /\ served'.request = {}
    BY <1>9 DEF Restart, NotRunning, NoService
  <2>. QED
    BY <1>9, <2>1, LeadsOn DEF GateInv
<1>10. CASE UNCHANGED place /\ \E r \in Requests : Serve(r)
  <2>1. Underway'
    BY <1>10 DEF Serve, GateInv, Underway
  <2>. QED
    BY <1>10, <2>1, ServedAnswered DEF GateInv
<1>11. CASE UNCHANGED gateVars
  <2>1. UNCHANGED <<place, proc, served>>
    BY <1>11 DEF gateVars
  <2>2. Underway'
    BY <2>1 DEF GateInv, Underway, Shape
  <2>. QED
    BY <1>3, <2>1, <2>2
<1>. QED
  BY <1>4, <1>5, <1>6, <1>7, <1>8, <1>9, <1>10, <1>11 DEF GateNext

(* GateRight, of mainRun, callFunc and the debug port: in every            *)
(* installation a process that serves has its database and the wallet of   *)
(* its key, a handler of the service that is not for everybody runs only   *)
(* for what the key of its address has signed, except those of opened links*)
(* and of uninstallations, and success is answered exactly for success.    *)
THEOREM GateHolds == GateSpec => []GateRight
<1>1. GateInv => GateRight
  BY DEF GateInv, Underway, Answered, GateRight
<1>. QED
  BY <1>1, GateStarts, GateKept, PTL DEF GateSpec

-----------------------------------------------------------------------------
(* The wallet.                                                             *)

WalletSpec == result = <<>> /\ WalletCall /\ [][ComputeWallet]_computeVars

(* A seed comes out of a wallet file only by the password that put it in.  *)
MadeFor(w, s, pwd) == w.cipher = {Cipher(Text(s), pwd)}

LEMMA CipherFields ==
    \A text, pwd : LET c == Cipher(text, pwd)
                   IN  /\ c.text = text /\ c.pwd = pwd /\ c.key_size = 8 /\ c.iterations = 1024
                       /\ c.salt = TRUE /\ c.hex = TRUE /\ c.iv = 16
BY DEF Cipher

LEMMA SeedKept ==
    ASSUME NEW w, NEW s \in Seed, NEW pwd, MadeFor(w, s, pwd)
    PROVE  SeedOf(w, pwd) = Value(s)
<1>. DEFINE c == Cipher(Text(s), pwd)
<1>1. w.cipher # {} /\ (CHOOSE x \in w.cipher : TRUE) = c
  BY DEF MadeFor
<1>2. SeedOf(w, pwd) = Then(DecryptAes(c, pwd), KeyFromHex)
  BY <1>1 DEF SeedOf
<1>3. /\ c.text = Text(s) /\ c.pwd = pwd /\ c.key_size = 8 /\ c.iterations = 1024
      /\ c.salt = TRUE /\ c.hex = TRUE /\ c.iv = 16
  BY CipherFields
<1>. HIDE DEF c
<1>4. Text(s) # <<>> /\ Text(s) # Garbage /\ Text(s) # Short
      /\ Text(s)[2] = s
  BY DEF Text, Garbage, Short
<1>5. DecryptAes(c, pwd) = Value(Text(s))
  BY <1>3, <1>4 DEF DecryptAes
<1>6. KeyFromHex(Text(s)) = Value(s)
  BY <1>4 DEF KeyFromHex
<1>. QED
  BY <1>2, <1>5, <1>6 DEF Then, Value

LEMMA CipherOpened ==
    ASSUME NEW c \in Ciphers, NEW pwd,
           DecryptAes(c, pwd).res = "ok",
           KeyFromHex(DecryptAes(c, pwd).value).res = "ok"
    PROVE  \E s \in Seed : c = Cipher(Text(s), pwd)
<1>. DEFINE c0 == Cipher(Text(CHOOSE s \in Seed : TRUE), CHOOSE p \in Password : TRUE)
<1>1. DecryptAes(c, pwd).value # Garbage
  BY DEF KeyFromHex, Error
<1>2. /\ c.salt /\ c.hex /\ c.key_size # 0 /\ c.iv = 16 /\ c.text # <<>>
      /\ c.pwd = pwd /\ c.key_size = 8 /\ c.iterations = 1024
      /\ DecryptAes(c, pwd).value = c.text
  BY <1>1 DEF DecryptAes, Value, Error, Panic
<1>3. c.text # Short
  <2>1. Short # Garbage
    BY DEF Short, Garbage
  <2>2. KeyFromHex(Short).res = "panic"
    BY <2>1 DEF KeyFromHex, Panic
  <2>. QED
    BY <1>2, <2>2
<1>4. c.text \notin OtherText
  BY <1>2, <1>3 DEF OtherText
<1>5. \A t : [c0 EXCEPT !.text = t].text = t
  BY DEF Cipher
<1>6. \A k : [c0 EXCEPT !.key_size = k].key_size = k
  BY DEF Cipher
<1>7. /\ [c0 EXCEPT !.salt = FALSE, !.key_size = 0].key_size = 0
      /\ [c0 EXCEPT !.hex = FALSE].hex = FALSE
      /\ [c0 EXCEPT !.iv = 0].iv = 0
      /\ [c0 EXCEPT !.iterations = 1].iterations = 1
  BY DEF Cipher
<1>8. Ciphers = {[c0 EXCEPT !.text = t] : t \in OtherText}
                        \cup {[c0 EXCEPT !.key_size = k] : k \in {0, 10, 16}}
                        \cup {[c0 EXCEPT !.salt = FALSE, !.key_size = 0], [c0 EXCEPT !.hex = FALSE],
                              [c0 EXCEPT !.iv = 0], [c0 EXCEPT !.iterations = 1]}
                        \cup {Cipher(Text(s), p) : s \in Seed, p \in Password}
  BY DEF Ciphers
<1>. HIDE DEF c0
<1>9. \/ \E t \in OtherText : c = [c0 EXCEPT !.text = t]
      \/ \E k \in {0, 10, 16} : c = [c0 EXCEPT !.key_size = k]
      \/ c \in {[c0 EXCEPT !.salt = FALSE, !.key_size = 0], [c0 EXCEPT !.hex = FALSE],
                [c0 EXCEPT !.iv = 0], [c0 EXCEPT !.iterations = 1]}
      \/ \E s \in Seed, p \in Password : c = Cipher(Text(s), p)
  <2>. DEFINE A == {[c0 EXCEPT !.text = t] : t \in OtherText}
              B == {[c0 EXCEPT !.key_size = k] : k \in {0, 10, 16}}
              C == {[c0 EXCEPT !.salt = FALSE, !.key_size = 0], [c0 EXCEPT !.hex = FALSE],
                              [c0 EXCEPT !.iv = 0], [c0 EXCEPT !.iterations = 1]}
              D == {Cipher(Text(s), p) : s \in Seed, p \in Password}
  <2>1. c \in A \cup B \cup C \cup D
    BY <1>8
  <2>2. /\ c \in A => \E t \in OtherText : c = [c0 EXCEPT !.text = t]
        /\ c \in B => \E k \in {0, 10, 16} : c = [c0 EXCEPT !.key_size = k]
    BY Zenon
  <2>3. c \in D => \E s \in Seed, p \in Password : c = Cipher(Text(s), p)
    OBVIOUS
  <2>. HIDE DEF A, B, C, D
  <2>4. c \in A \/ c \in B \/ c \in C \/ c \in D
    BY <2>1
  <2>. USE DEF C
  <2>. QED
    BY <2>2, <2>3, <2>4
<1>10. ~\E t \in OtherText : c = [c0 EXCEPT !.text = t]
  BY <1>4, <1>5
<1>11. ~\E k \in {0, 10, 16} : c = [c0 EXCEPT !.key_size = k]
  <2>1. ASSUME NEW k \in {0, 10, 16}, c = [c0 EXCEPT !.key_size = k] PROVE FALSE
    <3>1. c.key_size = k
      BY <1>6, <2>1
    <3>. QED
      BY <1>2, <3>1
  <2>. QED
    BY <2>1
<1>12. c \notin {[c0 EXCEPT !.salt = FALSE, !.key_size = 0], [c0 EXCEPT !.hex = FALSE],
                 [c0 EXCEPT !.iv = 0], [c0 EXCEPT !.iterations = 1]}
  <2>1. c.key_size # 0 /\ c.iv # 0 /\ c.iterations # 1 /\ c.hex # FALSE
    BY <1>2
  <2>. QED
    BY <1>7, <2>1, Zenon
<1>13. PICK s \in Seed, p \in Password : c = Cipher(Text(s), p)
  BY <1>9, <1>10, <1>11, <1>12
<1>14. p = pwd
  BY <1>2, <1>13, CipherFields
<1>. QED
  BY <1>13, <1>14

LEMMA SeedFound ==
    ASSUME NEW w \in WalletFile, NEW pwd
    PROVE  /\ SeedOf(w, pwd).res \in {"ok", "err", "panic"}
           /\ SeedOf(w, pwd).res = "ok" => \E s \in Seed : MadeFor(w, s, pwd)
<1>1. \A c : DecryptAes(c, pwd).res \in {"ok", "err", "panic"}
  BY DEF DecryptAes, Value, Error, Panic
<1>2. \A x : KeyFromHex(x).res \in {"ok", "err", "panic"}
  BY DEF KeyFromHex, Value, Error, Panic
<1>3. CASE w.cipher = {}
  BY <1>3 DEF SeedOf, Panic
<1>4. CASE w.cipher # {}
  <2>1. PICK c \in Ciphers : w.cipher = {c}
    BY <1>4 DEF WalletFile
  <2>2. (CHOOSE x \in w.cipher : TRUE) = c
    BY <2>1
  <2>3. SeedOf(w, pwd) =
           IF DecryptAes(c, pwd).res = "ok"
           THEN KeyFromHex(DecryptAes(c, pwd).value)
           ELSE DecryptAes(c, pwd)
    BY <1>4, <2>2 DEF SeedOf, Then
  <2>4. SeedOf(w, pwd).res = "ok" => \E s \in Seed : c = Cipher(Text(s), pwd)
    BY <2>3, CipherOpened
  <2>. QED
    BY <1>1, <1>2, <2>1, <2>3, <2>4 DEF MadeFor
<1>. QED
  BY <1>3, <1>4

(* A file is the wallet that ToWallet makes of a seed and this password.   *)
Made(w, pwd) == \E s \in Seed : w = ToWallet(s, pwd)

LEMMA MadeAsked ==
    ASSUME NEW w \in WalletFile, NEW pwd
    PROVE  Made(w, pwd) <=> /\ SeedOf(w, pwd).res = "ok"
                            /\ Fits(w, SeedOf(w, pwd).value)
<1>1. ASSUME NEW s \in Seed, w = ToWallet(s, pwd)
      PROVE  SeedOf(w, pwd) = Value(s) /\ Fits(w, s)
  <2>1. MadeFor(w, s, pwd) /\ w.address = {BMailAddress(s)}
    BY <1>1 DEF ToWallet, Wallet, MadeFor
  <2>. QED
    BY <2>1, SeedKept DEF Fits
<1>2. ASSUME SeedOf(w, pwd).res = "ok", Fits(w, SeedOf(w, pwd).value)
      PROVE  Made(w, pwd)
  <2>1. PICK s \in Seed : MadeFor(w, s, pwd)
    BY <1>2, SeedFound
  <2>2. SeedOf(w, pwd).value = s
    BY <2>1, SeedKept DEF Value
  <2>3. w.address = {BMailAddress(s)}
    BY <1>2, <2>2 DEF Fits
  <2>4. w = [address |-> w.address, cipher |-> w.cipher]
    BY DEF WalletFile
  <2>5. w = ToWallet(s, pwd)
    BY <2>1, <2>3, <2>4 DEF MadeFor, ToWallet, Wallet
  <2>. QED
    BY <2>5 DEF Made
<1>3. \A s : Value(s).res = "ok" /\ Value(s).value = s
  BY DEF Value
<1>. QED
  BY <1>1, <1>2, <1>3 DEF Made

LEMMA ParsedIfMade ==
    ASSUME NEW w \in WalletFile, NEW pwd
    PROVE  LET parsed == ParseWallet({w}, pwd)
           IN  /\ parsed.res = "ok" <=> Made(w, pwd)
               /\ Made(w, pwd) => Fits(w, parsed.value)
<1>. DEFINE r == SeedOf(w, pwd)
            parsed == ParseWallet({w}, pwd)
<1>1. {w} # {} /\ (CHOOSE v \in {w} : TRUE) = w
  OBVIOUS
<1>2. parsed = IF r.res = "ok"
               THEN IF w.address = {} THEN Panic
                    ELSE IF Fits(w, r.value) THEN Value(r.value) ELSE Error
               ELSE r
  BY <1>1 DEF ParseWallet, Then
<1>3. Fits(w, r.value) => w.address # {}
  BY DEF Fits
<1>4. /\ Value(r.value).res = "ok" /\ Value(r.value).value = r.value
      /\ Panic.res = "panic" /\ Error.res = "err"
  BY DEF Value, Panic, Error
<1>. HIDE DEF r, parsed
<1>5. Made(w, pwd) <=> r.res = "ok" /\ Fits(w, r.value)
  BY MadeAsked DEF r
<1>6. /\ parsed.res = "ok" <=> Made(w, pwd)
      /\ Made(w, pwd) => Fits(w, parsed.value)
  BY <1>2, <1>3, <1>4, <1>5
<1>. QED
  BY <1>6 DEF parsed

(* What a first and a second OpenWallet return.                            *)
LEMMA OpenedTwice ==
    ASSUME NEW w \in WalletFile, NEW pwd,
           OpenWallet(w, {}, pwd).res = "ok"
    PROVE  LET first == OpenWallet(w, {}, pwd)
               second == OpenWallet(w, first.value.key, pwd)
           IN  /\ first.value.opened <=> Made(w, pwd)
               /\ second.value.opened <=> first.value.key # {}
               /\ second.value.key = first.value.key
<1>. DEFINE r == SeedOf(w, pwd)
            first == OpenWallet(w, {}, pwd)
            second == OpenWallet(w, first.value.key, pwd)
<1>1. first = IF r.res = "panic" \/ (r.res = "ok" /\ w.address = {}) THEN Panic
              ELSE IF r.res = "err" THEN Value([opened |-> FALSE, key |-> {}])
              ELSE Value([opened |-> Fits(w, r.value), key |-> {r.value}])
  BY DEF OpenWallet
<1>2. second = IF first.value.key # {} THEN Value([opened |-> TRUE, key |-> first.value.key])
               ELSE first
  BY DEF OpenWallet
<1>3. Panic.res # "ok" /\ \A v : Value(v).value = v
  BY DEF Panic, Value
<1>4. r.res \in {"ok", "err", "panic"}
  BY SeedFound
<1>5. Made(w, pwd) <=> r.res = "ok" /\ Fits(w, r.value)
  BY MadeAsked
<1>6. first.res = "ok"
  OBVIOUS
<1>. HIDE DEF r, first, second
<1>7. CASE r.res = "err"
  <2>1. first.value = [opened |-> FALSE, key |-> {}]
    BY <1>1, <1>3, <1>7
  <2>2. ~first.value.opened /\ first.value.key = {} /\ second = first
    BY <1>2, <2>1
  <2>3. ~Made(w, pwd)
    BY <1>5, <1>7
  <2>. QED
    BY <2>2, <2>3 DEF first, second
<1>8. CASE r.res = "ok"
  <2>1. first.value = [opened |-> Fits(w, r.value), key |-> {r.value}]
    BY <1>1, <1>3, <1>6, <1>8
  <2>2. (first.value.opened <=> Fits(w, r.value)) /\ first.value.key = {r.value}
    BY <2>1
  <2>3. second.value = [opened |-> TRUE, key |-> first.value.key]
    BY <1>2, <1>3, <2>2
  <2>4. second.value.opened /\ second.value.key = first.value.key
    BY <2>3
  <2>. QED
    BY <1>5, <1>8, <2>2, <2>4 DEF first, second
<1>. QED
  BY <1>1, <1>3, <1>4, <1>6, <1>7, <1>8

(* The key that a mail is boxed with, boxed again.                         *)
LEMMA PeerKey ==
    /\ \A s, t : KeyFromPeerAddr(s, BMailAddress(t)) = Value({s, t})
    /\ \A s : \A a \in OtherAddress :
          a.key = {} /\ KeyFromPeerAddr(s, a) = Error
<1>1. ASSUME NEW s, NEW t PROVE KeyFromPeerAddr(s, BMailAddress(t)) = Value({s, t})
  <2>. DEFINE a == BMailAddress(t)
  <2>1. a.prefix = TRUE /\ a.key = {t}
    BY DEF BMailAddress
  <2>. HIDE DEF a
  <2>2. KeyFromPeerAddr(s, a) = Value({s} \cup a.key)
    BY <2>1 DEF KeyFromPeerAddr, Then, DecodePubKey, Value
  <2>3. {s} \cup {t} = {s, t}
    OBVIOUS
  <2>. QED
    BY <2>1, <2>2, <2>3 DEF a
<1>2. ASSUME NEW s, NEW a \in OtherAddress
      PROVE  a.key = {} /\ KeyFromPeerAddr(s, a) = Error
  <2>1. a.key = {}
    BY DEF OtherAddress
  <2>. QED
    BY <2>1 DEF KeyFromPeerAddr, Then, DecodePubKey, Value, Error
<1>. QED
  BY <1>1, <1>2

LEMMA Results ==
    \A v : Value(v).res = "ok" /\ Value(v).value = v /\ Error.res = "err"
BY DEF Value, Error

LEMMA AdminKeySteps ==
    ASSUME NEW s, NEW mail, NEW a, NEW bound
    PROVE  LET nonce == Decode(mail.nonce)
               key == KeyFromPeerAddr(s, mail.sender)
               aesKey == Decode(mail.aesKey)
               k == OpenBox(aesKey.value, nonce.value, key.value)
               receivers == Decode(mail.receivers)
               list == OpenBox(receivers.value, nonce.value, k.value)
               third == KeyFromPeerAddr(s, a)
               r == DecryptAdminAesKey(s, mail, a, bound)
           IN  /\ r.res = "ok" <=>
                     /\ nonce.res = "ok" /\ key.res = "ok" /\ aesKey.res = "ok" /\ k.res = "ok"
                     /\ receivers.res = "ok" /\ list.res = "ok" /\ list.value \cap bound # {}
                     /\ third.res = "ok"
               /\ r.res = "ok" =>
                     r = Value(Box(k.value, nonce.value, third.value))
BY Results DEF DecryptAdminAesKey, Then

MailKeyRight(r, s, m, good, k, to, bound, a) ==
    /\ r.res = "ok" <=> m = good /\ to \cap bound # {} /\ a.key # {}
    /\ r.res = "ok" => OpenBox(r.value, "n", {s} \cup a.key) = Value(k)

LEMMA MailKeyGiven ==
    ASSUME NEW s, NEW sender, NEW third, NEW k, NEW to, NEW bound,
           NEW m \in Damaged(Mail(s, sender, k, to)),
           NEW a \in {BMailAddress(third)} \cup OtherAddress
    PROVE  MailKeyRight(DecryptAdminAesKey(s, m, a, bound), s, m,
                        Mail(s, sender, k, to), k, to, bound, a)
<1>. DEFINE good == Mail(s, sender, k, to)
            r == DecryptAdminAesKey(s, m, a, bound)
            aesBox == Box(k, "n", {s, sender})
            listBox == Box(to, "n", k)
<1>1. /\ good.nonce = Encoded("n") /\ good.sender = BMailAddress(sender)
      /\ good.aesKey = Encoded(aesBox) /\ good.receivers = Encoded(listBox)
  BY DEF Mail
<1>2. /\ \A x : Decode(Encoded(x)) = Value(x)
      /\ \A x : Decode(NotEncoded(x)) = Error
      /\ \A x : Encoded(x).bytes = x
  BY DEF Decode, Encoded, NotEncoded
<1>3. /\ \A x, n, key : OpenBox(Box(x, n, key), n, key) = Value(x)
      /\ \A b, n, key : OpenBox(b, n, key).res = "ok" => b.nonce = n /\ b.key = key
  BY Results DEF OpenBox, Box
<1>4. /\ aesBox.nonce = "n" /\ aesBox.key = {s, sender}
      /\ listBox.nonce = "n" /\ listBox.key = k
  BY DEF Box
<1>5. /\ a.key # {} <=> KeyFromPeerAddr(s, a).res = "ok"
      /\ a.key # {} => KeyFromPeerAddr(s, a) = Value({s} \cup a.key)
  <2>1. CASE a \in OtherAddress
    BY <2>1, PeerKey, Results
  <2>2. CASE a = BMailAddress(third)
    <3>1. a.key = {third} /\ {s} \cup {third} = {s, third}
      BY <2>2 DEF BMailAddress
    <3>. QED
      BY <2>2, <3>1, PeerKey, Results
  <2>. QED
    BY <2>1, <2>2
<1>. HIDE DEF good, aesBox, listBox
<1>6. CASE m = good
  <2>1. /\ Decode(m.nonce) = Value("n")
        /\ KeyFromPeerAddr(s, m.sender) = Value({s, sender})
        /\ Decode(m.aesKey) = Value(aesBox)
        /\ OpenBox(aesBox, "n", {s, sender}) = Value(k)
        /\ Decode(m.receivers) = Value(listBox)
        /\ OpenBox(listBox, "n", k) = Value(to)
    BY <1>1, <1>2, <1>3, <1>6, PeerKey DEF aesBox, listBox
  <2>2. /\ r.res = "ok" <=> to \cap bound # {} /\ KeyFromPeerAddr(s, a).res = "ok"
        /\ r.res = "ok" => r = Value(Box(k, "n", KeyFromPeerAddr(s, a).value))
    BY <2>1, AdminKeySteps, Results
  <2>3. r.res = "ok" => r.value = Box(k, "n", {s} \cup a.key)
    BY <1>5, <2>2, Results
  <2>. HIDE DEF r
  <2>4. r.res = "ok" => OpenBox(r.value, "n", {s} \cup a.key) = Value(k)
    BY <1>3, <2>3
  <2>. QED
    BY <1>5, <1>6, <2>2, <2>4 DEF r, good, MailKeyRight
<1>7. ASSUME m # good PROVE r.res # "ok"
  <2>1. m \in {[good EXCEPT !.nonce = NotEncoded("n")],
               [good EXCEPT !.nonce = Encoded("m")],
               [good EXCEPT !.aesKey = NotEncoded(@.bytes)],
               [good EXCEPT !.receivers = NotEncoded(@.bytes)],
               [good EXCEPT !.receivers = Encoded([@.bytes EXCEPT !.key = {}])]}
           \cup {[good EXCEPT !.sender = b] : b \in OtherAddress}
    BY <1>7 DEF Damaged, good
  <2>2. CASE m = [good EXCEPT !.nonce = NotEncoded("n")]
    <3>1. m.nonce = NotEncoded("n")
      BY <2>2 DEF good, Mail
    <3>. QED
      BY <1>2, <3>1, AdminKeySteps, Results
  <2>3. CASE m = [good EXCEPT !.nonce = Encoded("m")]
    <3>1. m.nonce = Encoded("m") /\ m.aesKey = Encoded(aesBox)
      BY <2>3 DEF good, Mail, aesBox
    <3>2. Decode(m.nonce).value = "m" /\ Decode(m.aesKey).value = aesBox
      BY <1>2, <3>1, Results
    <3>3. \A key : OpenBox(aesBox, "m", key).res # "ok"
      BY <1>3, <1>4
    <3>. QED
      BY <3>2, <3>3, AdminKeySteps
  <2>4. CASE m = [good EXCEPT !.aesKey = NotEncoded(@.bytes)]
    <3>1. m.aesKey = NotEncoded(good.aesKey.bytes)
      BY <2>4 DEF good, Mail
    <3>. QED
      BY <1>2, <3>1, AdminKeySteps, Results
  <2>5. CASE m = [good EXCEPT !.receivers = NotEncoded(@.bytes)]
    <3>1. m.receivers = NotEncoded(good.receivers.bytes)
      BY <2>5 DEF good, Mail
    <3>. QED
      BY <1>2, <3>1, AdminKeySteps, Results
  <2>6. CASE m = [good EXCEPT !.receivers = Encoded([@.bytes EXCEPT !.key = {}])]
    <3>1. m.receivers = Encoded([good.receivers.bytes EXCEPT !.key = {}])
      BY <2>6 DEF good, Mail
    <3>2. /\ m.nonce = good.nonce /\ m.sender = good.sender /\ m.aesKey = good.aesKey
      BY <2>6 DEF good, Mail
    <3>3. m.receivers = Encoded(Box(to, "n", {}))
      <4>1. [listBox EXCEPT !.key = {}] = Box(to, "n", {})
        BY DEF Box, listBox
      <4>2. good.receivers.bytes = listBox
        BY <1>1, <1>2
      <4>. QED
        BY <3>1, <4>1, <4>2, Zenon
    <3>4. k # {}
      <4>1. ASSUME k = {} PROVE FALSE
        <5>1. m = [nonce |-> good.nonce, sender |-> good.sender, aesKey |-> good.aesKey,
                   receivers |-> m.receivers]
          BY <2>6 DEF good, Mail
        <5>2. good = [nonce |-> good.nonce, sender |-> good.sender, aesKey |-> good.aesKey,
                      receivers |-> good.receivers]
          BY DEF good, Mail
        <5>3. m.receivers = good.receivers
          BY <1>1, <3>3, <4>1 DEF listBox
        <5>. QED
          BY <1>7, <5>1, <5>2, <5>3
      <4>. QED
        BY <4>1
    <3>5. /\ Decode(m.nonce).value = "n"
          /\ KeyFromPeerAddr(s, m.sender).value = {s, sender}
          /\ Decode(m.aesKey).value = aesBox
          /\ OpenBox(aesBox, "n", {s, sender}).value = k
          /\ Decode(m.receivers).value = Box(to, "n", {})
      <4>1. Decode(m.nonce) = Value("n")
        BY <1>1, <1>2, <3>2
      <4>2. KeyFromPeerAddr(s, m.sender) = Value({s, sender})
        BY <1>1, <3>2, PeerKey
      <4>3. Decode(m.aesKey) = Value(aesBox)
        BY <1>1, <1>2, <3>2
      <4>4. OpenBox(aesBox, "n", {s, sender}) = Value(k)
        BY <1>3 DEF aesBox
      <4>5. Decode(m.receivers) = Value(Box(to, "n", {}))
        BY <1>2, <3>3
      <4>. QED
        BY <4>1, <4>2, <4>3, <4>4, <4>5, Results
    <3>6. Box(to, "n", {}).key = {}
      BY DEF Box
    <3>7. OpenBox(Box(to, "n", {}), "n", k).res # "ok"
      BY <1>3, <3>4, <3>6
    <3>8. OpenBox(Decode(m.receivers).value, Decode(m.nonce).value,
                         OpenBox(Decode(m.aesKey).value, Decode(m.nonce).value,
                                        KeyFromPeerAddr(s, m.sender).value).value).res # "ok"
      BY <3>5, <3>7
    <3>. QED
      BY <3>8, AdminKeySteps
  <2>7. CASE \E b \in OtherAddress : m = [good EXCEPT !.sender = b]
    <3>1. PICK b \in OtherAddress : m = [good EXCEPT !.sender = b]
      BY <2>7
    <3>2. m.sender = b
      BY <3>1 DEF good, Mail
    <3>. QED
      BY <3>2, PeerKey, AdminKeySteps, Results
  <2>. QED
    BY <2>1, <2>2, <2>3, <2>4, <2>5, <2>6, <2>7
<1>8. m # good => r.res # "ok"
  BY <1>7
<1>. HIDE DEF r
<1>9. CASE m # good
  BY <1>8, <1>9 DEF r, good, MailKeyRight
<1>. QED
  BY <1>6, <1>9

Data(token) == [token |-> token, createTime |-> 0]

LinkVerdict(r, s, t, m, n, now) ==
    r.res = "ok" <=> s = t /\ m = n /\ now <= tokenExpiration

LEMMA LinkVerified ==
    ASSUME NEW s, NEW t, NEW m, NEW n, NEW now \in Int
    PROVE  LinkVerdict(VerifyActivationLink(t, now, Data(n),
                          SendActiveMail(s, Data(m)).signature), s, t, m, n, now)
<1>. DEFINE sig == SendActiveMail(s, Data(m)).signature
            pub == BMailAddress(t)
            verified == Verify(pub, Data(n), [by |-> {s}, msg |-> Data(m)])
<1>1. sig = Encoded([by |-> {s}, msg |-> Data(m)])
  BY DEF SendActiveMail, Signed
<1>2. DecodePubKey(pub) = Value(pub)
  BY DEF DecodePubKey, BMailAddress
<1>3. Decode(sig) = Value([by |-> {s}, msg |-> Data(m)])
  BY <1>1 DEF Decode, Encoded
<1>4. pub.length = 32 /\ pub.key = {t}
  BY DEF BMailAddress
<1>5. Data(n).createTime = 0 /\ (Data(m) = Data(n) <=> m = n)
  <2>1. Data(m).token = m /\ Data(n).token = n /\ Data(n).createTime = 0
    BY DEF Data
  <2>. QED
    BY <2>1
<1>. HIDE DEF sig, pub
<1>6. verified.res = "ok" <=> s = t /\ m = n
  <2>. DEFINE x == [by |-> {s}, msg |-> Data(m)]
              y == [by |-> {t}, msg |-> Data(n)]
  <2>1. x.by = {s} /\ x.msg = Data(m) /\ y.by = {t} /\ y.msg = Data(n)
    OBVIOUS
  <2>2. x = y <=> s = t /\ m = n
    <3>1. x = y => s = t /\ m = n
      <4>. HIDE DEF x, y
      <4>. QED
        BY <1>5, <2>1
    <3>. QED
      BY <1>5, <3>1
  <2>3. verified.res = "ok" <=> x = y
    BY <1>4, Results DEF Verify
  <2>. QED
    BY <2>2, <2>3
<1>7. VerifyMessage(pub, sig, Data(n)) = verified
  BY <1>2, <1>3, Results DEF VerifyMessage, Then
<1>8. VerifyActivationLink(t, now, Data(n), sig) =
         IF now > tokenExpiration THEN Error ELSE verified
  BY <1>5, <1>7 DEF VerifyActivationLink, pub, tokenExpiration
<1>9. now > tokenExpiration <=> ~(now <= tokenExpiration)
  BY DEF tokenExpiration
<1>. HIDE DEF verified
<1>10. VerifyActivationLink(t, now, Data(n), sig).res = "ok"
          <=> s = t /\ m = n /\ now <= tokenExpiration
  BY <1>6, <1>8, <1>9, Results
<1>. QED
  BY <1>10 DEF sig, LinkVerdict

LEMMA TextUndone ==
    ASSUME NEW s, NEW t, NEW m
    PROVE  LET c == DecryptData(s, BMailAddress(t), m)
           IN  c.res = "ok" /\ EncryptData(t, BMailAddress(s), c.value) = Value(m)
<1>. DEFINE c == [text |-> m, key |-> {s, t}, long |-> TRUE]
<1>1. DecryptData(s, BMailAddress(t), m) = Value(Encoded(c))
  <2>1. KeyFromPeerAddr(s, BMailAddress(t)) = Value({s, t})
    BY PeerKey
  <2>2. DecryptData(s, BMailAddress(t), m) = EncryptByKey(m, {s, t})
    BY <2>1, Results DEF DecryptData, Then
  <2>. QED
    BY <2>2 DEF EncryptByKey
<1>2. KeyFromPeerAddr(t, BMailAddress(s)) = Value({s, t})
  <2>1. {t, s} = {s, t}
    OBVIOUS
  <2>. QED
    BY <2>1, PeerKey
<1>3. Decode(Encoded(c)) = Value(c)
  BY DEF Decode, Encoded
<1>4. c.text = m /\ c.key = {s, t} /\ c.long
  OBVIOUS
<1>. HIDE DEF c
<1>5. EncryptData(t, BMailAddress(s), Encoded(c)) = Value(m)
  BY <1>2, <1>3, <1>4, Results DEF EncryptData, Then, DecryptByKey
<1>. QED
  BY <1>1, <1>5, Results

-----------------------------------------------------------------------------
(* Every call of the wallet returns what WalletRight says.                 *)

LEMMA CallsKept ==
    ASSUME WalletCall, UNCHANGED call PROVE WalletCall'
BY DEF WalletCall, WalletFile

LEMMA OpenRight ==
    ASSUME NEW w \in WalletFile, NEW pwd,
           call = [fn |-> "Open", file |-> w, pwd |-> pwd], ComputeWallet
    PROVE  WalletRight'
<1>. DEFINE first == OpenWallet(w, {}, pwd)
            parsed == ParseWallet({w}, pwd)
            second == Then(first, LAMBDA v : OpenWallet(w, v.key, pwd))
            r == [parsed |-> parsed, first |-> first, second |-> second]
<1>1. call' = call /\ call.fn = "Open" /\ call.file = w /\ call.pwd = pwd
  BY DEF ComputeWallet, Returns, Calling
<1>2. result' = <<r>>
  BY <1>1 DEF ComputeWallet, Returns, Calling
<1>3. /\ parsed.res = "ok" <=> Made(w, pwd)
      /\ Made(w, pwd) => Fits(w, parsed.value)
  BY ParsedIfMade
<1>4. first.res = "ok" =>
         /\ second = OpenWallet(w, first.value.key, pwd)
         /\ first.value.opened <=> Made(w, pwd)
         /\ second.value.opened <=> first.value.key # {}
         /\ second.value.key = first.value.key
  BY OpenedTwice DEF Then
<1>. HIDE DEF first, parsed, second
<1>5. r.parsed = parsed /\ r.first = first /\ r.second = second
  OBVIOUS
<1>. HIDE DEF r
<1>6. result'[1] = r
  BY <1>2
<1>. QED
  BY <1>1, <1>3, <1>4, <1>5, <1>6 DEF WalletRight, Returned, Made

LEMMA MailRight ==
    ASSUME NEW s, NEW sender, NEW third, NEW k, NEW to, NEW bound,
           NEW m \in Damaged(Mail(s, sender, k, to)),
           NEW a \in {BMailAddress(third)} \cup OtherAddress,
           call = [fn |-> "DecryptAdminAesKey", seed |-> s, mail |-> m, third |-> a, bound |-> bound,
                   of |-> [k |-> k, to |-> to, good |-> m = Mail(s, sender, k, to)]],
           ComputeWallet
    PROVE  WalletRight'
<1>. DEFINE r == DecryptAdminAesKey(s, m, a, bound)
<1>1. /\ call' = call /\ call.fn = "DecryptAdminAesKey" /\ call.seed = s /\ call.mail = m
      /\ call.third = a /\ call.bound = bound /\ call.of.k = k /\ call.of.to = to
      /\ call.of.good = (m = Mail(s, sender, k, to))
  BY DEF ComputeWallet, Returns, Calling
<1>2. result' = <<r>>
  BY <1>1 DEF ComputeWallet, Returns, Calling
<1>3. /\ r.res = "ok" <=> m = Mail(s, sender, k, to) /\ to \cap bound # {} /\ a.key # {}
      /\ r.res = "ok" => OpenBox(r.value, "n", {s} \cup a.key) = Value(k)
  <2>. HIDE DEF r
  <2>1. MailKeyRight(DecryptAdminAesKey(s, m, a, bound), s, m,
                     Mail(s, sender, k, to), k, to, bound, a)
    BY MailKeyGiven
  <2>2. MailKeyRight(r, s, m, Mail(s, sender, k, to), k, to, bound, a)
    BY <2>1 DEF r
  <2>. QED
    BY ONLY <2>2 DEF MailKeyRight
<1>. HIDE DEF r
<1>4. result'[1] = r
  BY <1>2
<1>. QED
  BY <1>1, <1>3, <1>4 DEF WalletRight, Returned

LEMMA LinkRight ==
    ASSUME NEW s, NEW t, NEW m, NEW n, NEW now \in Int,
           call = [fn |-> "Link", seed |-> s, other |-> t, token |-> m, asked |-> n, now |-> now],
           ComputeWallet
    PROVE  WalletRight'
<1>. DEFINE r == VerifyActivationLink(t, now, Data(n),
                                             SendActiveMail(s, Data(m)).signature)
<1>1. /\ call' = call /\ call.fn = "Link" /\ call.seed = s /\ call.other = t
      /\ call.token = m /\ call.asked = n /\ call.now = now
  BY DEF ComputeWallet, Returns, Calling
<1>2. result' = <<r>>
  BY <1>1 DEF ComputeWallet, Returns, Calling, Data
<1>3. r.res = "ok" <=> s = t /\ m = n /\ now <= tokenExpiration
  <2>. HIDE DEF r
  <2>1. LinkVerdict(VerifyActivationLink(t, now, Data(n),
                       SendActiveMail(s, Data(m)).signature), s, t, m, n, now)
    BY LinkVerified
  <2>2. LinkVerdict(r, s, t, m, n, now)
    BY <2>1 DEF r
  <2>. QED
    BY ONLY <2>2 DEF LinkVerdict
<1>. HIDE DEF r
<1>4. result'[1] = r
  BY <1>2
<1>. QED
  BY <1>1, <1>3, <1>4 DEF WalletRight, Returned

LEMMA TextRight ==
    ASSUME NEW s, NEW t, NEW m, call = [fn |-> "Text", seed |-> s, other |-> t, msg |-> m],
           ComputeWallet
    PROVE  WalletRight'
<1>. DEFINE r == Then(DecryptData(s, BMailAddress(t), m),
                             LAMBDA c : EncryptData(t, BMailAddress(s), c))
<1>1. /\ call' = call /\ call.fn = "Text" /\ call.seed = s /\ call.other = t /\ call.msg = m
  BY DEF ComputeWallet, Returns, Calling
<1>2. result' = <<r>>
  BY <1>1 DEF ComputeWallet, Returns, Calling
<1>3. r = Value(m)
  BY TextUndone DEF Then
<1>. HIDE DEF r
<1>4. result'[1] = Value(m)
  BY <1>2, <1>3
<1>. QED
  BY <1>1, <1>4 DEF WalletRight, Returned

(* WalletRight, of wallet.go and crypto.go: whatever the seeds, passwords  *)
(* and texts are, each call of the wallet returns what WalletRight says, so*)
(* a wallet opens exactly with its password and for its address, and mail  *)
(* keys, links and texts open exactly for those they are for.              *)
THEOREM WalletHolds == WalletSpec => []WalletRight
<1>. DEFINE I == WalletCall /\ WalletRight
<1>1. result = <<>> /\ WalletCall => I
  BY DEF WalletRight, Returned
<1>2. I /\ [ComputeWallet]_computeVars => I'
  <2>. SUFFICES ASSUME I, [ComputeWallet]_computeVars PROVE I'
    OBVIOUS
  <2>1. CASE UNCHANGED computeVars
    <3>1. UNCHANGED <<call, result>>
      BY <2>1 DEF computeVars
    <3>2. WalletRight'
      BY <3>1 DEF WalletRight, Returned
    <3>. QED
      BY <3>1, <3>2, CallsKept
  <2>2. CASE ComputeWallet
    <3>1. UNCHANGED call
      BY <2>2 DEF ComputeWallet, Returns
    <3>2. WalletRight'
      <4>1. CASE \E w \in WalletFile, pwd \in Password :
                    call = [fn |-> "Open", file |-> w, pwd |-> pwd]
        BY <2>2, <4>1, OpenRight
      <4>2. CASE \E s, sender, third \in Seed, k \in Payload, to, bound \in SUBSET {"e1", "e2"} :
                    \E m \in Damaged(Mail(s, sender, k, to)),
                       a \in {BMailAddress(third)} \cup OtherAddress :
                       call = [fn |-> "DecryptAdminAesKey", seed |-> s, mail |-> m, third |-> a,
                               bound |-> bound,
                               of |-> [k |-> k, to |-> to, good |-> m = Mail(s, sender, k, to)]]
        BY <2>2, <4>2, MailRight
      <4>3. CASE \E s, t \in Seed, m, n \in Payload,
                    now \in {0, tokenExpiration, tokenExpiration + 1} :
                    call = [fn |-> "Link", seed |-> s, other |-> t, token |-> m, asked |-> n,
                            now |-> now]
        <5>1. PICK s \in Seed, t \in Seed, m \in Payload, n \in Payload,
                   now \in {0, tokenExpiration, tokenExpiration + 1} :
                 call = [fn |-> "Link", seed |-> s, other |-> t, token |-> m, asked |-> n, now |-> now]
          BY <4>3
        <5>2. now \in Int
          BY <5>1 DEF tokenExpiration
        <5>. QED
          BY <2>2, <5>1, <5>2, LinkRight
      <4>4. CASE \E s, t \in Seed, m \in Payload :
                    call = [fn |-> "Text", seed |-> s, other |-> t, msg |-> m]
        BY <2>2, <4>4, TextRight
      <4>. QED
        BY <4>1, <4>2, <4>3, <4>4 DEF WalletCall
    <3>. QED
      BY <3>1, <3>2, CallsKept
  <2>. QED
    BY <2>1, <2>2
<1>3. I => WalletRight
  OBVIOUS
<1>. QED
  BY <1>1, <1>2, <1>3, PTL DEF WalletSpec

=============================================================================
