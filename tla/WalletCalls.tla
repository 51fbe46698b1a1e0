---------------------------- MODULE WalletCalls ----------------------------
(***************************************************************************)
(* Calls of the wallet (module MailWallet) and their results, for wallet   *)
(* files and mails as the code makes them, and edited or damaged in every  *)
(* place that it looks at.                                                 *)
(***************************************************************************)
EXTENDS MailWallet

VARIABLES call, result      \* result is <<>> until the function has returned

computeVars == <<call, result>>

(* Wallet files: as ToWallet makes them, and edited.                       *)
Ciphers == LET c == Cipher(Text(CHOOSE s \in Seed : TRUE), CHOOSE p \in Password : TRUE)
           IN  {[c EXCEPT !.text = t] : t \in OtherText}
               \cup {[c EXCEPT !.key_size = k] : k \in {0, 10, 16}}
               \cup {[c EXCEPT !.salt = FALSE, !.key_size = 0], [c EXCEPT !.hex = FALSE],
                     [c EXCEPT !.iv = 0], [c EXCEPT !.iterations = 1]}
               \cup {Cipher(Text(s), p) : s \in Seed, p \in Password}
WalletFile == [address : {{}} \cup {{BMailAddress(s)} : s \in Seed},
               cipher : {{}} \cup {{c} : c \in Ciphers}]

(* A mail as its sender writes it, with key k and to these receivers, for  *)
(* the admin with key s.                                                   *)
Mail(s, sender, k, receivers) ==
    [nonce |-> Encoded("n"), sender |-> BMailAddress(sender),
     aesKey |-> Encoded(Box(k, "n", {s, sender})),
     receivers |-> Encoded(Box(receivers, "n", k))]
Damaged(mail) ==
    {mail, [mail EXCEPT !.nonce = NotEncoded("n")], [mail EXCEPT !.nonce = Encoded("m")],
     [mail EXCEPT !.aesKey = NotEncoded(@.bytes)], [mail EXCEPT !.receivers = NotEncoded(@.bytes)],
     [mail EXCEPT !.receivers = Encoded([@.bytes EXCEPT !.key = {}])]}
    \cup {[mail EXCEPT !.sender = a] : a \in OtherAddress}

WalletCall ==
    \/ \E w \in WalletFile, pwd \in Password : call = [fn |-> "Open", file |-> w, pwd |-> pwd]
    \/ \E s, sender, third \in Seed, k \in Payload, to, bound \in SUBSET {"e1", "e2"} :
          \E m \in Damaged(Mail(s, sender, k, to)), a \in {BMailAddress(third)} \cup OtherAddress :
              call = [fn |-> "DecryptAdminAesKey", seed |-> s, mail |-> m, third |-> a,
                      bound |-> bound, of |-> [k |-> k, to |-> to, good |-> m = Mail(s, sender, k, to)]]
    \/ \E s, t \in Seed, m, n \in Payload, now \in {0, tokenExpiration, tokenExpiration + 1} :
          call = [fn |-> "Link", seed |-> s, other |-> t, token |-> m, asked |-> n, now |-> now]
    \/ \E s, t \in Seed, m \in Payload : call = [fn |-> "Text", seed |-> s, other |-> t, msg |-> m]

Calling(fns) == result = <<>> /\ call.fn \in fns
Returns(value) == result' = <<value>> /\ UNCHANGED call

Returned(fn, Right(_)) == result # <<>> /\ call.fn = fn => Right(result[1])

-----------------------------------------------------------------------------

(* A wallet is parsed, and opened twice; a link is signed for a token and  *)
(* verified for the one that was asked for; a text is encrypted by one and *)
(* decrypted by the other.                                                 *)
ComputeWallet ==
    \/ /\ Calling({"Open"})
       /\ LET first == OpenWallet(call.file, {}, call.pwd)
          IN  Returns([parsed |-> ParseWallet({call.file}, call.pwd), first |-> first,
                       second |-> Then(first, LAMBDA v : OpenWallet(call.file, v.key, call.pwd))])
    \/ /\ Calling({"DecryptAdminAesKey"})
       /\ Returns(DecryptAdminAesKey(call.seed, call.mail, call.third, call.bound))
    \/ /\ Calling({"Link"})
       /\ LET Data(m) == [token |-> m, createTime |-> 0]
          IN  Returns(VerifyActivationLink(call.other, call.now, Data(call.asked),
                                           SendActiveMail(call.seed, Data(call.token)).signature))
    \/ /\ Calling({"Text"})
       /\ Returns(Then(DecryptData(call.seed, BMailAddress(call.other), call.msg),
                       LAMBDA c : EncryptData(call.other, BMailAddress(call.seed), c)))

-----------------------------------------------------------------------------

(* A wallet opens from its file exactly with the password and for the      *)
(* address it was made for, and opening it agrees with that at first (and  *)
(* is always true once there is a key).  The key of a mail is given exactly*)
(* for a good mail to an e-mail that is bound, so that its asker can open  *)
(* it.  A link verifies exactly for the data, the wallet and the day it    *)
(* was signed for.  What one side makes of a text the other side undoes.   *)
WalletRight ==
    /\ Returned("Open", LAMBDA r :
          LET made == \E s \in Seed : call.file = ToWallet(s, call.pwd)
          IN  /\ r.parsed.res = "ok" <=> made
              /\ made => Fits(call.file, r.parsed.value)
              /\ r.first.res = "ok" =>
                    /\ r.first.value.opened <=> made
                    /\ r.second.value.opened <=> r.first.value.key # {}
                    /\ r.second.value.key = r.first.value.key)
    /\ Returned("DecryptAdminAesKey", LAMBDA r :
          /\ r.res = "ok" <=>
                /\ call.of.good /\ call.of.to \cap call.bound # {} /\ call.third.key # {}
          /\ r.res = "ok" => OpenBox(r.value, "n", {call.seed} \cup call.third.key) = Value(call.of.k))
    /\ Returned("Link", LAMBDA r :
          r.res = "ok" <=> /\ call.seed = call.other /\ call.token = call.asked
                           /\ call.now <= tokenExpiration)
    /\ Returned("Text", LAMBDA r : r = Value(call.msg))

=============================================================================
