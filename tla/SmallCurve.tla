----------------------------- MODULE SmallCurve -----------------------------
(***************************************************************************)
(* EdwardsCurve over the integers modulo a small prime, as the code has it *)
(* over those modulo 2^255 - 19, and the conversion of its points to keys  *)
(* of the Montgomery form (wallet/edCurve.go, wallet/wallet.go).           *)
(***************************************************************************)
EXTENDS Integers, FiniteSets

CONSTANTS
    Prime,      \* 2^255 - 19 in the code, and 5 modulo 8
    d,          \* of the curve equation; not a square
    SqrtM1,     \* a square root of -1
    BaseX, BaseY,   \* the base point
    FieldBits,  \* 255
    ScalarBits, \* 256
    Digest      \* external: the first 32 bytes of SHA-512 of each seed

ASSUME SmallCurveAssumption ==
    /\ Prime % 8 = 5 /\ \A n \in 2 .. Prime - 1 : Prime % n # 0
    /\ (SqrtM1 * SqrtM1 + 1) % Prime = 0
    /\ \A n \in 0 .. Prime - 1 : (n * n - d) % Prime # 0
    /\ Prime < 2^FieldBits /\ 2^FieldBits < 2 * Prime /\ ScalarBits % 8 = 0

Field == 0 .. Prime - 1

Add(a, b) == (a + b) % Prime
Sub(a, b) == (a - b) % Prime
Mul(a, b) == (a * b) % Prime
Square(a) == (a * a) % Prime
Square2(a) == (2 * a * a) % Prime
Neg(a) == (-a) % Prime
Power(a, n) ==
    LET f[k \in Nat] == IF k = 0 THEN 1
                        ELSE LET h == f[k \div 2] IN (h * h * (IF k % 2 = 1 THEN a ELSE 1)) % Prime
    IN  f[n]
Invert(a) == Power(a, Prime - 2)
Pow22523(a) == Power(a, (Prime - 5) \div 8)
IsNegative(a) == [is |-> a % 2, f |-> a]
IsNonZero(a) == [is |-> IF a = 0 THEN 0 ELSE 1, f |-> a]
ToBits(a) == [s |-> a, h |-> a]
FromBits(n) == n % Prime

d2 == (2 * d) % Prime

-----------------------------------------------------------------------------
(* The group, by its affine law: what everything else is compared with.    *)

Affine(x, y) == [x |-> x, y |-> y]
Neutral == Affine(0, 1)
Base == Affine(BaseX, BaseY)
Point == {p \in [x : Field, y : Field] :
             Sub(Square(p.y), Square(p.x)) = Add(1, Mul(d, Mul(Square(p.x), Square(p.y))))}

Plus(p, q) ==
    LET k == Mul(d, Mul(Mul(p.x, q.x), Mul(p.y, q.y)))
    IN  Affine(Mul(Add(Mul(p.x, q.y), Mul(q.x, p.y)), Invert(Add(1, k))),
               Mul(Add(Mul(p.y, q.y), Mul(p.x, q.x)), Invert(Sub(1, k))))
Minus(p) == Affine(Neg(p.x), p.y)

Scaled(n, p) ==
    LET f[k \in Nat] == IF k = 0 THEN Neutral
                        ELSE LET h == f[k \div 2]  hh == Plus(h, h)
                             IN  IF k % 2 = 1 THEN Plus(hh, p) ELSE hh
    IN  f[n]

PreComputed(p) ==
    [yPlusX |-> Add(p.y, p.x), yMinusX |-> Sub(p.y, p.x), xy2d |-> Mul(d2, Mul(p.x, p.y))]

(* The tables of the code: B, 3B, ... 15B, and j 256^i B for j from 1 to 8.*)
bi == [k \in 0 .. 7 |-> PreComputed(Scaled(2 * k + 1, Base))]
base == [i \in 0 .. ScalarBits \div 8 - 1 |->
            [j \in 0 .. 7 |-> PreComputed(Scaled((j + 1) * 256^i, Base))]]

Curve == INSTANCE EdwardsCurve WITH
    FeZero <- 0, FeOne <- 1, FeAdd <- Add, FeSub <- Sub, FeMul <- Mul, FeSquare <- Square,
    FeSquare2 <- Square2, FeNeg <- Neg, FeInvert <- Invert, fePow22523 <- Pow22523,
    FeIsNegative <- IsNegative, FeIsNonZero <- IsNonZero, FeToBytes <- ToBits,
    FeFromBytes <- FromBits, SlideBits <- ScalarBits, Nibbles <- ScalarBits \div 4

(* The elements that stand for a point, with Z = z.                        *)
Extended(p, z) == [X |-> Mul(p.x, z), Y |-> Mul(p.y, z), Z |-> z, T |-> Mul(Mul(p.x, p.y), z)]

(* The point that an element stands for.                                   *)
OfProjective(r) == Affine(Mul(r.X, Invert(r.Z)), Mul(r.Y, Invert(r.Z)))
OfCompleted(r) == Affine(Mul(r.X, Invert(r.Z)), Mul(r.Y, Invert(r.T)))

-----------------------------------------------------------------------------
(* Keys.                                                                   *)

(* The digest of the seed, with its low three bits and its top bit cleared *)
(* and the bit below that set.                                             *)
Ed2CurvePriKey(seed) ==
    LET half == 2^(ScalarBits - 2)  low == Digest[seed] % half
    IN  low - (low % 8) + half

(* external: the public key that ed25519.NewKeyFromSeed makes of a seed.   *)
PublicKey(seed) ==
    LET p == Scaled(Ed2CurvePriKey(seed), Base) IN [y |-> p.y, sign |-> p.x % 2]

edwardsToMontgomeryX(y) == Mul(Add(1, y), Invert(Sub(1, y)))

(* What is not the encoding of a point has no key.                         *)
NoKey == [found |-> FALSE, u |-> 0]
Ed2CurvePubKey(edPub) ==
    LET A == Curve!FromBytes(edPub)
    IN  IF A = Curve!NoPoint THEN NoKey ELSE [found |-> TRUE, u |-> edwardsToMontgomeryX(A.Y)]

(* external: curve25519.X25519 multiplies a point with that u by k, and    *)
(* fails for points of low order, and for a key that is not there.         *)
X25519(k, key) ==
    LET points == {p \in Point : edwardsToMontgomeryX(p.y) = key.u}
        q == Scaled(k, CHOOSE p \in points : TRUE)
    IN  IF ~key.found \/ points = {} \/ q = Neutral THEN NoKey
        ELSE [found |-> TRUE, u |-> edwardsToMontgomeryX(q.y)]

(* Mutant of SharedKey: the other's key is used as it is.                  *)
SharedKeyUnconverted(seed, peerPub) ==
    X25519(Ed2CurvePriKey(seed), [found |-> TRUE, u |-> peerPub.y])

(* The end of KeyFromPeerAddr, for the bytes of an address.                *)
SharedKey(seed, peerPub) == X25519(Ed2CurvePriKey(seed), Ed2CurvePubKey(peerPub))

=============================================================================
