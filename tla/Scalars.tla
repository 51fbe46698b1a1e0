------------------------------ MODULE Scalars ------------------------------
(***************************************************************************)
(* Arithmetic modulo the order of the base point, and the powers of field  *)
(* elements (wallet/edwards25519/edwards25519.go).                         *)
(*                                                                         *)
(* A scalar has twelve limbs of 21 bits in the code, a product twice as    *)
(* many, and the order is 2^252 minus what FoldLimbs stand for; here the   *)
(* number, the width and the six folding factors are parameters, and the   *)
(* unrolled statements are the loops they unroll.                          *)
(***************************************************************************)
EXTENDS Integers, SequencesExt

CONSTANTS
    ScLimbs,    \* 12
    ScBits,     \* 21
    FoldLimbs   \* 666643, 470296, 654183, -997805, 136657, -683901

ASSUME ScalarsAssumption ==
    /\ ScLimbs \in Nat /\ ScLimbs % 2 = 0 /\ ScBits \in Nat /\ ScBits > 1
    /\ FoldLimbs \in [0 .. ScLimbs \div 2 - 1 -> Int]

Half == ScLimbs \div 2
Wide == 0 .. 2 * ScLimbs - 1

(* The limbs s of an integer, the last of count taking what is left.       *)
ScLimbsOf(n, count) ==
    [i \in 0 .. count - 1 |->
        IF i = count - 1 THEN n \div 2^(ScBits * i) ELSE (n \div 2^(ScBits * i)) % 2^ScBits]

(* from, from + step, ... to.                                              *)
Every(from, to, step) ==
    [k \in 1 .. (to - from) \div step + 1 |-> from + (k - 1) * step]

CarryBy(s, i, c) == [s EXCEPT ![i] = @ - c * 2^ScBits, ![i + 1] = @ + c]
RoundedCarry(s, i) == CarryBy(s, i, (s[i] + 2^(ScBits - 1)) \div 2^ScBits)
ScFloorCarry(s, i) == CarryBy(s, i, s[i] \div 2^ScBits)

(* Rounded carries of every other limb of a range, then of those between.  *)
Carries(s, from, to) ==
    FoldLeft(RoundedCarry, FoldLeft(RoundedCarry, s, Every(from, to, 2)),
             Every(from + 1, to - 1, 2))

(* Limb k, which is past the order, comes back ScLimbs lower.              *)
FoldLimb(s, k) ==
    [i \in Wide |-> IF i = k THEN 0
                    ELSE IF i + ScLimbs - k \in DOMAIN FoldLimbs
                    THEN s[i] + s[k] * FoldLimbs[i + ScLimbs - k]
                    ELSE s[i]]

(* The limbs from first down to last.                                      *)
FoldDown(s, first, last) == FoldLeft(FoldLimb, s, Every(first, last, -1))

(* The products, and their first carries.                                  *)
Products(a, b, c) ==
    [k \in Wide |->
        SumFunction([i \in {j \in 0 .. ScLimbs - 1 : k - j \in 0 .. ScLimbs - 1} |-> a[i] * b[k - i]])
        + IF k < ScLimbs THEN c[k] ELSE 0]
FirstCarries(s) == Carries(s, 0, 2 * ScLimbs - 2)

(* The upper quarter of the limbs, carries in the middle, the next quarter.*)
ReduceHigh(s) ==
    FoldDown(Carries(FoldDown(s, 2 * ScLimbs - 1, ScLimbs + Half), Half, ScLimbs + Half - 2),
             ScLimbs + Half - 1, ScLimbs)

(* Carries out of all limbs, the even ones first, and what comes out of the*)
(* last one folded.                                                        *)
ReduceCarries(s) ==
    FoldLimb(FoldLeft(RoundedCarry, FoldLeft(RoundedCarry, s, Every(0, ScLimbs - 2, 2)),
                      Every(1, ScLimbs - 1, 2)), ScLimbs)

(* Mutant of ReduceFloor: what comes out of the last limb is lost.         *)
ReduceFloorUnfolded(s) ==
    LET once == FoldLeft(ScFloorCarry, s, Every(0, ScLimbs - 1, 1))
    IN  [once EXCEPT ![ScLimbs] = 0]

(* To nonnegative limbs, and what comes out of the last one folded, then   *)
(* to nonnegative limbs again.                                             *)
ReduceFloor(s) ==
    LET once == FoldLimb(FoldLeft(ScFloorCarry, s, Every(0, ScLimbs - 1, 1)), ScLimbs)
    IN  FoldLeft(ScFloorCarry, once, Every(0, ScLimbs - 2, 1))

(* The bytes of the limbs, as the integer they make.                       *)
Out(s) == SumFunction([i \in 0 .. ScLimbs - 1 |-> s[i] * 2^(ScBits * i)])

ScMulAdd(a, b, c) ==
    Out(ReduceFloor(ReduceCarries(ReduceHigh(FirstCarries(
        Products(ScLimbsOf(a, ScLimbs), ScLimbsOf(b, ScLimbs), ScLimbsOf(c, ScLimbs)))))))

(* The code of ScReduce repeats that of ScMulAdd after the first carries.  *)
ScReduceLimbs(n) == ScLimbsOf(n, 2 * ScLimbs)
ScReduceHigh(n) == ReduceHigh(ScReduceLimbs(n))
ScReduceCarries(n) == ReduceCarries(ScReduceHigh(n))
ScReduceFloor(n) == ReduceFloor(ScReduceCarries(n))
ScReduce(n) == Out(ScReduceFloor(n))

Order == 2^(ScBits * ScLimbs)
         - SumFunction([i \in DOMAIN FoldLimbs |-> FoldLimbs[i] * 2^(ScBits * i)])

(* Word by word from the highest one; equal scalars are not less.          *)
ScMinimal(scalar, order) ==
    \E i \in DOMAIN order :
        /\ scalar[i] < order[i]
        /\ \A j \in DOMAIN order : j > i => scalar[j] = order[j]

-----------------------------------------------------------------------------
(* The powers of FeInvert and fePow22523.  z to some power is the set of   *)
(* the bits of its exponent; squaring shifts it, and so does squaring n    *)
(* times.  All products in the chains are of powers that share no bit, for *)
(* which the exponents' sum is the union.                                  *)

Z == {0}
Squares(e, n) == {b + n : b \in e}
NotDisjoint == {-1}
Product(e, f) == IF e \cap f = {} THEN e \cup f ELSE NotDisjoint

(* z to 2^(n k) - 1 from z to 2^k - 1, for n = 2.                          *)
Doubled(e, k) == Product(Squares(e, k), e)

(* z^(2^5 - 1) and z^11.                                                   *)
ChainStart ==
    LET t0 == Squares(Z, 1)
        z9 == Product(Z, Squares(t0, 2))
        z11 == Product(t0, z9)
    IN  [z11 |-> z11, ones5 |-> Product(z9, Squares(z11, 1))]

FeInvert ==
    LET ones10 == Doubled(ChainStart.ones5, 5)
        ones20 == Doubled(ones10, 10)
        ones40 == Doubled(ones20, 20)
        ones50 == Product(Squares(ones40, 10), ones10)
        ones100 == Doubled(ones50, 50)
        ones200 == Doubled(ones100, 100)
        ones250 == Product(Squares(ones200, 50), ones50)
    IN  Product(Squares(ones250, 5), ChainStart.z11)

fePow22523 ==
    LET t0 == Squares(Z, 1)
        z9 == Product(Z, Squares(t0, 2))
        ones5 == Product(z9, Squares(Product(t0, z9), 1))
        ones10 == Doubled(ones5, 5)
        ones20 == Doubled(ones10, 10)
        ones40 == Doubled(ones20, 20)
        ones50 == Product(Squares(ones40, 10), ones10)
        ones100 == Doubled(ones50, 50)
        ones200 == Doubled(ones100, 100)
        ones250 == Product(Squares(ones200, 50), ones50)
    IN  Product(Squares(ones250, 2), Z)

=============================================================================
