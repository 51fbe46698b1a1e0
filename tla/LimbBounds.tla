----------------------------- MODULE LimbBounds -----------------------------
(***************************************************************************)
(* EdwardsCurve over bounds on limbs: how large the limbs get that the     *)
(* formulas hand to FeMul, FeSquare and FeToBytes.  A number b stands for  *)
(* all field elements whose limbs are at most b/100 times 2^25, those with *)
(* an odd index half as much.                                              *)
(***************************************************************************)
EXTENDS Integers

OfProduct == 110      \* what FeCombine leaves: 1.1 times 2^25
OfCanonical == 200    \* what FeToBytes leaves of its argument: 2^26

(* 19 times an even limb and 38 times an odd one are int32 products.       *)
MulLimit == (100 * 2^6) \div 19

(* Up to twice a carried element and one, the quotient of FeToBytes is     *)
(* right.                                                                  *)
BytesLimit == 2 * OfProduct + 1

TooLarge == 100000000

BoundAdd(a, b) == a + b
BoundMul(a, b) == IF a <= MulLimit /\ b <= MulLimit THEN OfProduct ELSE TooLarge
BoundSquare(a) == BoundMul(a, a)
BoundNeg(a) == a
BoundBytes(a) ==
    IF a <= BytesLimit THEN [s |-> 0, h |-> OfCanonical] ELSE [s |-> TooLarge, h |-> TooLarge]
BoundNegative(a) == [is |-> BoundBytes(a).s, f |-> BoundBytes(a).h]
BoundNonZero(a) == [is |-> IF a <= BytesLimit THEN 0 ELSE 1, f |-> BoundBytes(a).h]

AnyEntry == [yPlusX |-> OfProduct, yMinusX |-> OfProduct, xy2d |-> OfProduct]

Bound == INSTANCE EdwardsCurve WITH
    FeZero <- 0, FeOne <- 1, d <- OfProduct, d2 <- OfProduct, SqrtM1 <- OfProduct,
    FeAdd <- BoundAdd, FeSub <- BoundAdd, FeMul <- BoundMul, FeSquare <- BoundSquare,
    FeSquare2 <- BoundSquare, FeNeg <- BoundNeg, FeInvert <- BoundSquare,
    fePow22523 <- BoundSquare, FeIsNegative <- BoundNegative,
    FeIsNonZero <- BoundNonZero, FeToBytes <- BoundBytes, FeFromBytes <- BoundSquare,
    bi <- [k \in 0 .. 7 |-> AnyEntry],
    base <- [i \in 0 .. 1 |-> [j \in 0 .. 7 |-> AnyEntry]],
    SlideBits <- 8, Nibbles <- 4

(* What the formulas are applied to: elements whose coordinates are        *)
(* products, and points that FromBytes has read, whose X it has made       *)
(* canonical on the way.                                                   *)
AnyExtended == [X |-> OfProduct, Y |-> OfProduct, Z |-> OfProduct, T |-> OfProduct]
Decoded(sign) == Bound!FromBytes([y |-> 0, sign |-> sign])

AnyElement == {AnyExtended, Decoded(0), Decoded(1)}
AnyCached == {Bound!ToCached(p) : p \in AnyElement}

Small(p) == \A c \in DOMAIN p : p[c] < TooLarge

(* What the additions and doublings make.                                  *)
Formulas ==
    {Bound!Double(Bound!ToProjective(p)) : p \in AnyElement}
    \cup {Bound!geAdd(p, q) : p \in AnyElement, q \in AnyCached}
    \cup {Bound!geSub(p, q) : p \in AnyElement, q \in AnyCached}
    \cup {Bound!geMixedAdd(p, AnyEntry) : p \in AnyElement}
    \cup {Bound!geMixedSub(p, AnyEntry) : p \in AnyElement}

(* No formula takes a limb out of an int32 product, and none of the tests  *)
(* and conversions to bytes is given more than they are right for: neither *)
(* does FromBytes when x is exact, as it is in Decoded, nor when it is     *)
(* not, where X goes through FeToBytes and through FeIsNegative.           *)
LimbsFit ==
    /\ \A r \in Formulas :
          Small(r) /\ Small(Bound!CompletedToProjective(r)) /\ Small(Bound!ToExtended(r))
    /\ \A q \in AnyCached : Small(q)
    /\ \A p \in AnyElement : p # Bound!NoPoint /\ Small(p) /\ Small(Bound!ToBytes(p))
    /\ Small(BoundNegative(BoundBytes(BoundMul(OfProduct, OfProduct)).h))

=============================================================================
