---------------------------- MODULE EdwardsCurve ----------------------------
(***************************************************************************)
(* The group elements and scalar multiplications of                        *)
(* wallet/edwards25519/edwards25519.go, over any field operations: with    *)
(* those of a small field it is the group of a small curve, with bounds on *)
(* limbs it tells how large limbs get.                                     *)
(*                                                                         *)
(* The curve is -x^2 + y^2 = 1 + d x^2 y^2.  The 32 bytes of a point are a *)
(* record of the 255 bits of y and the top bit, the sign of x.             *)
(***************************************************************************)
EXTENDS Integers, SequencesExt

CONSTANTS
    FeZero, FeOne, d, d2, SqrtM1,
    FeAdd(_, _), FeSub(_, _), FeMul(_, _), FeSquare(_), FeSquare2(_), FeNeg(_),
    FeInvert(_), fePow22523(_), FeIsNegative(_), FeIsNonZero(_),
    FeToBytes(_), FeFromBytes(_),
    bi, base,   \* the tables of multiples of the base point
    SlideBits,  \* 256: bits of a scalar
    Nibbles     \* 64: its 4-bit digits

ProjectiveZero == [X |-> FeZero, Y |-> FeOne, Z |-> FeOne]
ExtendedZero == [X |-> FeZero, Y |-> FeOne, Z |-> FeOne, T |-> FeZero]
PreComputedZero == [yPlusX |-> FeOne, yMinusX |-> FeOne, xy2d |-> FeZero]

ToProjective(p) == [X |-> p.X, Y |-> p.Y, Z |-> p.Z]

(* Of projective elements and, as their projections, of extended ones.     *)
Double(p) ==
    LET xx == FeSquare(p.X)  yy == FeSquare(p.Y)
        sum == FeAdd(yy, xx)  difference == FeSub(yy, xx)
    IN  [X |-> FeSub(FeSquare(FeAdd(p.X, p.Y)), sum), Y |-> sum,
         Z |-> difference, T |-> FeSub(FeSquare2(p.Z), difference)]

ToCached(p) == [yPlusX |-> FeAdd(p.Y, p.X), yMinusX |-> FeSub(p.Y, p.X), Z |-> p.Z,
                T2d |-> FeMul(p.T, d2)]

CompletedToProjective(p) ==
    [X |-> FeMul(p.X, p.T), Y |-> FeMul(p.Y, p.Z), Z |-> FeMul(p.Z, p.T)]

ToExtended(p) ==
    [X |-> FeMul(p.X, p.T), Y |-> FeMul(p.Y, p.Z), Z |-> FeMul(p.Z, p.T), T |-> FeMul(p.X, p.Y)]

(* What the four additions share: a and b are the products of y+x and y-x, *)
(* and zz is twice that of the Z.                                          *)
Completed(a, b, z, t) == [X |-> FeSub(a, b), Y |-> FeAdd(a, b), Z |-> z, T |-> t]

geAdd(p, q) ==
    LET t == FeMul(q.T2d, p.T)  z == FeMul(p.Z, q.Z)  zz == FeAdd(z, z)
    IN  Completed(FeMul(FeAdd(p.Y, p.X), q.yPlusX), FeMul(FeSub(p.Y, p.X), q.yMinusX),
                  FeAdd(zz, t), FeSub(zz, t))

geSub(p, q) ==
    LET t == FeMul(q.T2d, p.T)  z == FeMul(p.Z, q.Z)  zz == FeAdd(z, z)
    IN  Completed(FeMul(FeAdd(p.Y, p.X), q.yMinusX), FeMul(FeSub(p.Y, p.X), q.yPlusX),
                  FeSub(zz, t), FeAdd(zz, t))

geMixedAdd(p, q) ==
    LET t == FeMul(q.xy2d, p.T)  zz == FeAdd(p.Z, p.Z)
    IN  Completed(FeMul(FeAdd(p.Y, p.X), q.yPlusX), FeMul(FeSub(p.Y, p.X), q.yMinusX),
                  FeAdd(zz, t), FeSub(zz, t))

geMixedSub(p, q) ==
    LET t == FeMul(q.xy2d, p.T)  zz == FeAdd(p.Z, p.Z)
    IN  Completed(FeMul(FeAdd(p.Y, p.X), q.yMinusX), FeMul(FeSub(p.Y, p.X), q.yPlusX),
                  FeSub(zz, t), FeAdd(zz, t))

-----------------------------------------------------------------------------

(* FeToBytes, FeIsNegative and FeIsNonZero change their argument: what is  *)
(* left of it comes back beside the result, as h and as f.  ToBytes of     *)
(* projective and of extended elements applies them to locals.             *)
ToBytes(p) ==
    LET recip == FeInvert(p.Z)
    IN  [y |-> FeToBytes(FeMul(p.Y, recip)).s, sign |-> FeIsNegative(FeMul(p.X, recip)).is]

(* The candidate for x is u v^3 (u v^7)^((q-5)/8), for x^2 = u/v; it is x, *)
(* or x times a root of -1, or there is no x.  The zero tests are made on  *)
(* a local; tmpX and the sign test leave X itself with canonical limbs.    *)
NoPoint == [ExtendedZero EXCEPT !.Z = FeZero]

FromBytes(s) ==
    LET y == FeFromBytes(s.y)
        u == FeSub(FeSquare(y), FeOne)
        v == FeAdd(FeMul(FeSquare(y), d), FeOne)
        v3 == FeMul(FeSquare(v), v)
        root == FeMul(FeMul(fePow22523(FeMul(FeMul(FeSquare(v3), v), u)), v3), u)
        vxx == FeMul(FeSquare(root), v)
        exact == FeIsNonZero(FeSub(vxx, u)).is = 0
        x == IF exact THEN root ELSE FeToBytes(FeMul(root, SqrtM1)).h
        negative == FeIsNegative(x)
        signed == IF negative.is = s.sign THEN negative.f ELSE FeNeg(negative.f)
    IN  IF ~exact /\ FeIsNonZero(FeAdd(vxx, u)).is = 1
        THEN NoPoint
        ELSE [X |-> signed, Y |-> y, Z |-> FeOne, T |-> FeMul(signed, y)]

-----------------------------------------------------------------------------

(* slide: signed digits, odd and at most 15, few of them not 0.  The bits  *)
(* of a are taken from the lowest up; each that is left absorbs what it    *)
(* can of the six after it, by a carry if it becomes negative.             *)
Propagate(r, k) ==
    LET ones == {j \in k .. SlideBits - 1 : \A i \in k .. j : r[i] # 0}
        first == k + Cardinality(ones)
    IN  [i \in DOMAIN r |-> IF i \in ones THEN 0 ELSE IF i = first THEN 1 ELSE r[i]]

Absorb(r, i) ==
    LET f[b \in 1 .. 7, s \in [DOMAIN r -> Int]] ==
            IF b > 6 \/ i + b >= SlideBits THEN s
            ELSE IF s[i + b] = 0 THEN f[b + 1, s]
            ELSE LET digit == s[i + b] * 2^b
                 IN  IF s[i] + digit <= 15
                     THEN f[b + 1, [s EXCEPT ![i] = @ + digit, ![i + b] = 0]]
                     ELSE IF s[i] - digit >= -15
                     THEN f[b + 1, Propagate([s EXCEPT ![i] = @ - digit], i + b)]
                     ELSE s
    IN  f[1, r]

slide(a) ==
    FoldLeft(LAMBDA r, i : IF r[i] = 0 THEN r ELSE Absorb(r, i),
             [i \in 0 .. SlideBits - 1 |-> (a \div 2^i) % 2],
             [i \in 1 .. SlideBits |-> i - 1])

(* A, 3A, 5A, ... 15A.                                                     *)
OddMultiples(A) ==
    LET A2 == ToExtended(Double(A))
        Ai[i \in 0 .. 7] ==
            IF i = 0 THEN ToCached(A) ELSE ToCached(ToExtended(geAdd(A2, Ai[i - 1])))
    IN  Ai

(* a A + b B, doubling from the top digit that is not 0 in one of them.    *)
GeDoubleScalarMultVartime(a, A, b) ==
    LET aSlide == slide(a)  bSlide == slide(b)  Ai == OddMultiples(A)
        used == {i \in 0 .. SlideBits - 1 : aSlide[i] # 0 \/ bSlide[i] # 0}
        AddA(t, n) == IF n > 0 THEN geAdd(ToExtended(t), Ai[n \div 2])
                      ELSE IF n < 0 THEN geSub(ToExtended(t), Ai[(-n) \div 2]) ELSE t
        AddB(t, n) == IF n > 0 THEN geMixedAdd(ToExtended(t), bi[n \div 2])
                      ELSE IF n < 0 THEN geMixedSub(ToExtended(t), bi[(-n) \div 2]) ELSE t
        r[i \in 0 .. SlideBits] ==
            IF \A j \in used : j < i THEN ProjectiveZero
            ELSE CompletedToProjective(AddB(AddA(Double(r[i + 1]), aSlide[i]), bSlide[i]))
    IN  r[0]

(* The entry of the table at pos for the digit b, by its sign.             *)
selectPoint(pos, b) ==
    LET t == IF b = 0 THEN PreComputedZero ELSE base[pos][IF b < 0 THEN -b - 1 ELSE b - 1]
    IN  IF b < 0
        THEN [yPlusX |-> t.yMinusX, yMinusX |-> t.yPlusX, xy2d |-> FeNeg(t.xy2d)]
        ELSE t

(* The 4-bit digits of a, from -8 to 7 (the last one: to 8).               *)
SignedDigits(a) ==
    LET carry[i \in 0 .. Nibbles - 1] ==
            IF i = 0 THEN 0 ELSE (((a \div 16^(i - 1)) % 16) + carry[i - 1] + 8) \div 16
    IN  [i \in 0 .. Nibbles - 1 |->
            ((a \div 16^i) % 16) + carry[i] - (IF i = Nibbles - 1 THEN 0 ELSE 16 * carry[i + 1])]

(* a B: the odd digits, times 16, then the even ones.                      *)
GeScalarMultBase(a) ==
    LET e == SignedDigits(a)
        Digits(h, odd) ==
            FoldLeft(LAMBDA p, i : ToExtended(geMixedAdd(p, selectPoint(i, e[2 * i + odd]))),
                     h, [i \in 1 .. Nibbles \div 2 |-> i - 1])
        Twice(h) == CompletedToProjective(Double(h))
    IN  Digits(ToExtended(Double(Twice(Twice(Twice(Digits(ExtendedZero, 1)))))), 0)

=============================================================================
