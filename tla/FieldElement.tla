---------------------------- MODULE FieldElement ----------------------------
(***************************************************************************)
(* Field elements as limbs (wallet/edwards25519/edwards25519.go).  The     *)
(* code has ten limbs of 26 and 25 bits in turn, for the integers modulo   *)
(* 2^255 - 19; here their number and width, the 19 and the width of a byte *)
(* are parameters, and the unrolled statements are the loops they unroll.  *)
(***************************************************************************)
EXTENDS Integers, SequencesExt

CONSTANTS
    Limbs,      \* 10 in the code
    EvenBits,   \* 26: bits of a limb with an even index; the others have one less
    Fold,       \* 19
    ByteBits    \* 8

ASSUME FieldElementAssumption ==
    /\ Limbs \in Nat /\ EvenBits \in Nat /\ Fold \in Nat /\ ByteBits \in Nat
    /\ Limbs % 2 = 0 /\ Limbs >= 4 /\ EvenBits > 2 /\ ByteBits > 0
    /\ 0 < Fold /\ Fold < 2^(EvenBits - 3)      \* what FeToBytes rests on

Limb == 0 .. Limbs - 1
Bits(i) == IF i % 2 = 0 THEN EvenBits ELSE EvenBits - 1

(* The weight of limb i is 2^Position(i).                                  *)
Position(i) == (i \div 2) * (2 * EvenBits - 1) + (i % 2) * EvenBits

Bytes == (Position(Limbs) + ByteBits) \div ByteBits      \* 32

ShiftRight(n, k) == n \div 2^k

FeZero == [i \in Limb |-> 0]
FeOne == [FeZero EXCEPT ![0] = 1]
FeAdd(a, b) == [i \in Limb |-> a[i] + b[i]]
FeSub(a, b) == [i \in Limb |-> a[i] - b[i]]
FeNeg(f) == [i \in Limb |-> -f[i]]
FeCMove(f, g, b) == IF b = 1 THEN g ELSE f

-----------------------------------------------------------------------------

(* The carry of limb i, rounded, goes to the next limb, and that of the    *)
(* last one, times 19, to the first.                                       *)
Carry(h, i) ==
    LET c == ShiftRight(h[i] + 2^(Bits(i) - 1), Bits(i))
        g == [h EXCEPT ![i] = @ - c * 2^Bits(i)]
    IN  IF i = Limbs - 1 THEN [g EXCEPT ![0] = @ + Fold * c] ELSE [g EXCEPT ![i + 1] = @ + c]

(* 0, 4, 1, 5, 2, 6, 3, 7, then 4, 8, 9, 0: two chains, one from the first *)
(* limb and one from the middle.                                           *)
CarryOrder ==
    LET half == (Limbs - 2) \div 2
    IN  [k \in 1 .. 2 * half |-> IF k % 2 = 1 THEN k \div 2 ELSE half + k \div 2 - 1]
            \o <<half, 2 * half, Limbs - 1, 0>>

FeCombine(h) == FoldLeft(Carry, h, CarryOrder)

(* Limbs with odd indices are a factor 2 off in a product, and what is     *)
(* past the last limb comes back times 19.                                 *)
Coefficient(i, j) ==
    (IF i % 2 = 1 /\ j % 2 = 1 THEN 2 ELSE 1) * (IF i + j >= Limbs THEN Fold ELSE 1)

FeMul(f, g) ==
    LET Term(k, i) == LET j == (k - i) % Limbs IN Coefficient(i, j) * f[i] * g[j]
    IN  FeCombine([k \in Limb |-> SumFunction([i \in Limb |-> Term(k, i)])])

(* Every product of two different limbs once, doubled.                     *)
feSquare(f) ==
    LET Term(i, j) == (IF i = j THEN 1 ELSE 2) * Coefficient(i, j) * f[i] * f[j]
        Pairs(k) == {p \in Limb \X Limb : p[1] <= p[2] /\ (p[1] + p[2]) % Limbs = k}
    IN  [k \in Limb |-> SumFunction([p \in Pairs(k) |-> Term(p[1], p[2])])]

FeSquare(f) == FeCombine(feSquare(f))
FeSquare2(f) == FeCombine(FeAdd(feSquare(f), feSquare(f)))

-----------------------------------------------------------------------------

(* The little-endian integer of the bytes from first to last.              *)
Load(src, first, last) ==
    SumFunction([k \in first .. last |-> src[k] * 2^(ByteBits * (k - first))])

(* Limb i is loaded from the first whole byte at or after its position; in *)
(* the last one, the bit that is not the field element's is masked out.    *)
FirstByte(i) == IF i = Limbs THEN Bytes ELSE (Position(i) + ByteBits - 1) \div ByteBits

FeFromBytes(src) ==
    LET Gap(i) == ByteBits * FirstByte(i) - Position(i)
        Raw(i) == Load(src, FirstByte(i), FirstByte(i + 1) - 1)
        Top == Raw(Limbs - 1) % 2^(Bits(Limbs - 1) - Gap(Limbs - 1))
    IN  FeCombine([i \in Limb |-> (IF i = Limbs - 1 THEN Top ELSE Raw(i)) * 2^Gap(i)])

(* Mutant of Quotient: what is below the last limb is cut off.             *)
QuotientUnrounded(h) ==
    LET q[i \in 0 .. Limbs] ==
            IF i = 0 THEN ShiftRight(Fold * h[Limbs - 1], Bits(Limbs - 1))
            ELSE ShiftRight(h[i - 1] + q[i - 1], Bits(i - 1))
    IN  q[Limbs]

(* How often the modulus fits: what comes out of the last limb when 19/2^255*)
(* of the number is added to it.                                           *)
Quotient(h) ==
    LET q[i \in 0 .. Limbs] ==
            IF i = 0 THEN ShiftRight(Fold * h[Limbs - 1] + 2^(Bits(Limbs - 1) - 1), Bits(Limbs - 1))
            ELSE ShiftRight(h[i - 1] + q[i - 1], Bits(i - 1))
    IN  q[Limbs]

(* The carries to nonnegative limbs; the last one is dropped.              *)
FloorCarry(h, i) ==
    LET c == ShiftRight(h[i], Bits(i))
        g == [h EXCEPT ![i] = @ - c * 2^Bits(i)]
    IN  IF i = Limbs - 1 THEN g ELSE [g EXCEPT ![i + 1] = @ + c]

(* The limbs of the canonical representative.                              *)
Canonical(h) ==
    FoldLeft(FloorCarry, [h EXCEPT ![0] = @ + Fold * Quotient(h)], [k \in 1 .. Limbs |-> k - 1])

(* The bytes s: bits 8k to 8k+7 of the limbs, laid one after the other.    *)
(* The limbs of h are made canonical in place: they are returned as h, and *)
(* by the two tests, which go through the bytes, as f.                     *)
FeToBytes(h) ==
    LET g == Canonical(h)
        Bit(n) == LET i == Max({j \in Limb : Position(j) <= n})
                  IN  IF n >= Position(Limbs) THEN 0 ELSE ShiftRight(g[i], n - Position(i)) % 2
    IN  [s |-> [k \in 0 .. Bytes - 1 |->
                   SumFunction([b \in 0 .. ByteBits - 1 |-> Bit(ByteBits * k + b) * 2^b])],
         h |-> g]

FeIsNegative(f) == LET r == FeToBytes(f) IN [is |-> r.s[0] % 2, f |-> r.h]
FeIsNonZero(f) ==
    LET r == FeToBytes(f)
    IN  [is |-> IF \E k \in 0 .. Bytes - 1 : r.s[k] # 0 THEN 1 ELSE 0, f |-> r.h]

-----------------------------------------------------------------------------
(* What the limbs stand for, to compare with: an integer modulo P.  The    *)
(* products are built from their parts to stay small.                      *)

P == 2^Position(Limbs) - Fold

Times(x, y) ==
    LET f[z \in Nat] == IF z = 0 THEN 0 ELSE (8 * f[z \div 8] + x * (z % 8)) % P
    IN  f[y]

Residue(h) == SumFunction([i \in Limb |-> Times(h[i] % P, 2^Position(i) % P)]) % P

(* Where FeToBytes and what uses it is applied: limbs of a product, 1.1    *)
(* times half their width, or of a difference of two.  (Also to the        *)
(* canonical ones that it has left itself, which need not be Reduced.)     *)
Reduced(h) ==
    \A i \in Limb : 5 * h[i] <= 11 * 2^(Bits(i) - 1) /\ -5 * h[i] <= 11 * 2^(Bits(i) - 1)

=============================================================================
