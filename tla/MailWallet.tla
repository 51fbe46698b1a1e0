----------------------------- MODULE MailWallet -----------------------------
(***************************************************************************)
(* The wallet (wallet/wallet.go, crypto.go, edCurve.go, wallet_inst.go),   *)
(* over ideal cryptography: a cipher text is a record of what is in it and *)
(* of the key, and opens with that key.  Keys are named by their seeds, an *)
(* address by the seed whose public key it encodes.                        *)
(*                                                                         *)
(* A call of the code either returns a value, or an error, or panics.      *)
(***************************************************************************)
EXTENDS Integers, FiniteSets

CONSTANTS
    Seed,       \* seeds of 32 bytes
    Password,
    Payload     \* texts that are signed or encrypted

Value(v) == [res |-> "ok", value |-> v]
Error == [res |-> "err"]
Panic == [res |-> "panic"]

(* What a call gives that first needs the value of another one.            *)
Then(r, F(_)) == IF r.res = "ok" THEN F(r.value) ELSE r

(* Byte strings that are written in hex or base64, or fail to be.          *)
Encoded(x) == [encoded |-> TRUE, bytes |-> x]
NotEncoded(x) == [encoded |-> FALSE, bytes |-> x]
Decode(s) == IF s.encoded THEN Value(s.bytes) ELSE Error

-----------------------------------------------------------------------------
(* Addresses: "BM" and the public key of a seed in base58.  What is not    *)
(* base58 is decoded to nothing, with no error; then there are keys that   *)
(* are not the encoding of a point, or of one of low order.                *)

BMailAddress(s) == [prefix |-> TRUE, length |-> 32, key |-> {s}]
OtherAddress == {[prefix |-> FALSE, length |-> 32, key |-> {}],
                 [prefix |-> TRUE, length |-> 0, key |-> {}],
                 [prefix |-> TRUE, length |-> 32, key |-> {}]}

DecodePubKey(addr) == IF addr.prefix THEN Value(addr) ELSE Error

Signed(s, m) == Encoded([by |-> {s}, msg |-> m])

(* ed25519.Verify panics for keys that are not 32 bytes long.              *)
Verify(pub, m, sig) ==
    IF pub.length # 32 THEN Panic
    ELSE IF pub.key # {} /\ sig = [by |-> pub.key, msg |-> m] THEN Value(TRUE) ELSE Error

(* VerifyMessage, VerifySig and, for requests, VerifyProto.                *)
VerifyMessage(addr, sig, m) ==
    Then(DecodePubKey(addr), LAMBDA pub : Then(Decode(sig), LAMBDA bytes : Verify(pub, m, bytes)))

-----------------------------------------------------------------------------
(* The wallet file.                                                        *)

(* Mutant of Cipher: the password is left out of the key.                  *)
CipherOpen(text, pwd) ==
    [text |-> text, pwd |-> CHOOSE p \in Password : TRUE, key_size |-> 8, iterations |-> 1024,
     salt |-> TRUE, hex |-> TRUE, iv |-> 16]

(* EncryptAes, with the parameters that it writes down.  Whether the salt, *)
(* and the IV and the cipher text, are hex may differ in an edited file.   *)
Cipher(text, pwd) ==
    [text |-> text, pwd |-> pwd, key_size |-> 8, iterations |-> 1024,
     salt |-> TRUE, hex |-> TRUE, iv |-> 16]

(* With another password or other parameters, bytes come out that are not  *)
(* hex.  Hex digits are none of the padding that is looked for at the end  *)
(* of the text, an empty text has no end, and CFB wants a block of IV.     *)
Garbage == <<"garbage">>
DecryptAes(data, pwd) ==
    IF ~data.salt THEN Error
    ELSE IF data.key_size = 0 THEN Panic
    ELSE IF ~data.hex \/ 256 \div data.key_size \notin {16, 24, 32} THEN Error
    ELSE IF data.iv # 16 \/ data.text = <<>> THEN Panic
    ELSE Value(IF <<data.pwd, data.key_size, data.iterations>> = <<pwd, 8, 1024>>
               THEN data.text ELSE Garbage)

(* hex.DecodeString of a seed, and keyFromSeed: ed25519.NewKeyFromSeed     *)
(* panics for seeds of another length.                                     *)
Text(s) == <<"hex", s>>
Short == <<"short">>
OtherText == {Short, <<>>}
KeyFromHex(text) ==
    IF text = Garbage THEN Error
    ELSE IF text = Short THEN Panic
    ELSE Value(text[2])

(* ToWallet.  A wallet file may lack its address or its cipher data.       *)
Wallet(addr, cipher) == [address |-> addr, cipher |-> cipher]
ToWallet(s, pwd) == Wallet({BMailAddress(s)}, {Cipher(Text(s), pwd)})

SeedOf(w, pwd) ==
    IF w.cipher = {} THEN Panic
    ELSE Then(DecryptAes(CHOOSE c \in w.cipher : TRUE, pwd), KeyFromHex)

Fits(w, s) == w.address = {BMailAddress(s)}

(* LoadWallet, ParseWallet and OpenWalletFromPath: a file is the wallet,   *)
(* if there is one that can be read and parsed.                            *)
ParseWallet(file, pwd) ==
    IF file = {} THEN Error
    ELSE LET w == CHOOSE v \in file : TRUE
         IN  Then(SeedOf(w, pwd), LAMBDA s :
                 IF w.address = {} THEN Panic ELSE IF Fits(w, s) THEN Value(s) ELSE Error)

(* OpenWallet, with the key that the wallet has (none: {}): what it        *)
(* returns, and the key that it has then.  The key is stored before the    *)
(* addresses are compared, so that a second call returns true.             *)
OpenWallet(w, key, pwd) ==
    IF key # {} THEN Value([opened |-> TRUE, key |-> key])
    ELSE LET r == SeedOf(w, pwd)
         IN  IF r.res = "panic" \/ (r.res = "ok" /\ w.address = {}) THEN Panic
             ELSE IF r.res = "err" THEN Value([opened |-> FALSE, key |-> {}])
             ELSE Value([opened |-> Fits(w, r.value), key |-> {r.value}])

-----------------------------------------------------------------------------
(* What the open wallet, with key s, does for others.                      *)

(* KeyFromPeerAddr: X25519 of the two keys, and both sides get the same;   *)
(* that the conversions of the code make it so is SmallCurve's part.       *)
KeyFromPeerAddr(s, addr) ==
    Then(DecodePubKey(addr), LAMBDA pub :
        IF pub.key = {} THEN Error ELSE Value({s} \cup pub.key))

(* EncryptByKey and DecryptByKey: CFB, so another key gives garbage.       *)
EncryptByKey(text, key) == Value(Encoded([text |-> text, key |-> key, long |-> TRUE]))
DecryptByKey(data, key) ==
    Then(Decode(data), LAMBDA c :
        IF ~c.long THEN Error ELSE Value(IF c.key = key THEN c.text ELSE Garbage))

(* The wallet's EncryptData calls DecryptByKey, and DecryptData calls      *)
(* EncryptByKey.                                                           *)
EncryptData(s, addr, msg) == Then(KeyFromPeerAddr(s, addr), LAMBDA key : DecryptByKey(msg, key))
DecryptData(s, addr, msg) == Then(KeyFromPeerAddr(s, addr), LAMBDA key : EncryptByKey(msg, key))

(* encryptData and decryptData: secretbox.                                 *)
Box(m, nonce, key) == [msg |-> m, nonce |-> nonce, key |-> key]
OpenBox(box, nonce, key) ==
    IF box.nonce = nonce /\ box.key = key THEN Value(box.msg) ELSE Error

(* DecryptAdminAesKey: the key of a mail, that its sender has boxed for    *)
(* the admin, boxed again for one who has an e-mail bound that the mail    *)
(* goes to.  The receivers are boxed with the key of the mail.             *)
DecryptAdminAesKey(s, mail, thirdAddr, bindEmail) ==
    Then(Decode(mail.nonce), LAMBDA nonce :
    Then(KeyFromPeerAddr(s, mail.sender), LAMBDA sharedKeySender :
    Then(Decode(mail.aesKey), LAMBDA aesKey :
    Then(OpenBox(aesKey, nonce, sharedKeySender), LAMBDA decryptAesKey :
    Then(Decode(mail.receivers), LAMBDA receivers :
    Then(OpenBox(receivers, nonce, decryptAesKey), LAMBDA mailList :
        IF mailList \cap bindEmail = {} THEN Error
        ELSE Then(KeyFromPeerAddr(s, thirdAddr), LAMBDA sharedKeyThird :
                 Value(Box(decryptAesKey, nonce, sharedKeyThird)))))))))

(* The link that SendActiveMail signs, and VerifyActivationLink.           *)
tokenExpiration == 24
SendActiveMail(s, data) == [data |-> data, signature |-> Signed(s, data)]
VerifyActivationLink(s, now, data, signature) ==
    IF now - data.createTime > tokenExpiration THEN Error
    ELSE VerifyMessage(BMailAddress(s), signature, data)

=============================================================================
