---------------------------- MODULE Computations ----------------------------
(***************************************************************************)
(* Calls of the pure functions that the server rests on, each of which     *)
(* returns its result: field elements, points, scalars and the wallet.     *)
(***************************************************************************)
EXTENDS FieldElement, SmallCurve, Scalars, WalletCalls, LimbBounds

CONSTANTS
    LimbValues, ByteValues,     \* of the field elements and the bytes that are tried
    BaseScalars, PointScalars,  \* scalars that points are multiplied with
    ScalarValues, WideValues    \* scalars, and integers that are to be reduced

Elements == {h \in [Limb -> LimbValues] : Reduced(h)}
SomeElements == {h \in Elements : \A i \in 2 .. Limbs - 1 : h[i] = h[i - 2]}
Byte == [0 .. Bytes - 1 -> ByteValues]
Encoding == [y : 0 .. 2^FieldBits - 1, sign : {0, 1}]
Words == [0 .. 2 -> 0 .. 2]

ComputeInit ==
    /\ result = <<>>
    /\ \/ \E f, g \in SomeElements : call = [fn |-> "FeMul", f |-> f, g |-> g]
       \/ \E h \in Elements : call = [fn |-> "FeToBytes", h |-> h]
       \/ \E src \in Byte : call = [fn |-> "FeFromBytes", src |-> src]
       \/ \E p, q \in Point : call = [fn |-> "geAdd", p |-> p, q |-> q]
       \/ \E s \in Encoding : call = [fn |-> "FromBytes", s |-> s]
       \/ \E a \in BaseScalars : call = [fn |-> "GeScalarMultBase", a |-> a]
       \/ \E a, b \in PointScalars, p \in Point :
             call = [fn |-> "GeDoubleScalarMultVartime", a |-> a, A |-> p, b |-> b]
       \/ \E s, t \in DOMAIN Digest : call = [fn |-> "SharedKey", seeds |-> <<s, t>>]
       \/ \E a, b, c \in ScalarValues : call = [fn |-> "ScMulAdd", x |-> a, y |-> b, z |-> c]
       \/ \E n \in WideValues : call = [fn |-> "ScReduce", n |-> n]
       \/ \E s, t \in Words : call = [fn |-> "ScMinimal", scalar |-> s, order |-> t]
       \/ call = [fn |-> "Powers"]
       \/ WalletCall

-----------------------------------------------------------------------------

ComputeField ==
    \/ Calling({"FeMul"}) /\ Returns([product |-> FeMul(call.f, call.g), square |-> FeSquare(call.f),
                                      square2 |-> FeSquare2(call.f)])
    \/ Calling({"FeToBytes"}) /\ Returns(FeToBytes(call.h))
    \/ Calling({"FeFromBytes"}) /\ Returns(FeFromBytes(call.src))

(* The points are given to the additions with some Z.                      *)
ComputeCurve ==
    \/ /\ Calling({"geAdd"})
       /\ LET p == Extended(call.p, 5)  q == Extended(call.q, 7)
          IN  Returns([add |-> Curve!geAdd(p, Curve!ToCached(q)),
                       sub |-> Curve!geSub(p, Curve!ToCached(q)),
                       mixedAdd |-> Curve!geMixedAdd(p, PreComputed(call.q)),
                       mixedSub |-> Curve!geMixedSub(p, PreComputed(call.q)),
                       double |-> Curve!Double(Curve!ToProjective(p))])
    \/ Calling({"FromBytes"}) /\ Returns(Curve!FromBytes(call.s))
    \/ Calling({"GeScalarMultBase"}) /\ Returns(Curve!GeScalarMultBase(call.a))
    \/ /\ Calling({"GeDoubleScalarMultVartime"})
       /\ Returns(Curve!GeDoubleScalarMultVartime(call.a, Extended(call.A, 3), call.b))
    \/ /\ Calling({"SharedKey"})
       /\ Returns([i \in {1, 2} |-> SharedKey(call.seeds[i], PublicKey(call.seeds[3 - i]))])

ComputeScalar ==
    \/ Calling({"ScMulAdd"}) /\ Returns(ScMulAdd(call.x, call.y, call.z))
    \/ Calling({"ScReduce"}) /\ Returns(ScReduce(call.n))
    \/ Calling({"ScMinimal"}) /\ Returns(ScMinimal(call.scalar, call.order))
    \/ Calling({"Powers"}) /\ Returns([invert |-> FeInvert, pow22523 |-> fePow22523])

Compute == ComputeField \/ ComputeCurve \/ ComputeScalar \/ ComputeWallet

-----------------------------------------------------------------------------

(* The limbs stand for the right integer modulo p, whatever carries there  *)
(* were, and their bytes are those of its one representative below p, also *)
(* of elements with negative and too large limbs.  An element that has     *)
(* been converted or tested is still the same integer, in canonical limbs, *)
(* and is converted to the same bytes again.  No formula of the curve      *)
(* hands larger limbs to a product than fit, be they those of a product or *)
(* those of a point that FromBytes has left canonical.                     *)
FieldRight ==
    /\ Returned("FeMul", LAMBDA r :
          LET x == Residue(call.f)  y == Residue(call.g)
          IN  /\ Residue(r.product) = Times(x, y)
              /\ Residue(r.square) = Times(x, x)
              /\ Residue(r.square2) = Times(2, Times(x, x)))
    /\ Returned("FeToBytes", LAMBDA r :
          /\ Load(r.s, 0, Bytes - 1) = Residue(call.h)
          /\ Residue(r.h) = Residue(call.h) /\ \A i \in Limb : r.h[i] \in 0 .. 2^Bits(i) - 1
          /\ FeToBytes(r.h) = r)
    /\ Returned("FeFromBytes", LAMBDA r :
          /\ Residue(r) = (Load(call.src, 0, Bytes - 1) % 2^Position(Limbs)) % P
          /\ Reduced(r))
    /\ LimbsFit

(* Additions, doublings and multiplications agree with the affine law of   *)
(* the curve for all points; 32 bytes are read as a point exactly if there *)
(* is one with that y, with the sign that they say if there are two; and   *)
(* two keys agree on a shared key, which is there unless one is of low     *)
(* order.                                                                  *)
CurveRight ==
    /\ Returned("geAdd", LAMBDA r :
          /\ OfCompleted(r.add) = Plus(call.p, call.q) /\ OfCompleted(r.mixedAdd) = Plus(call.p, call.q)
          /\ OfCompleted(r.sub) = Plus(call.p, Minus(call.q))
          /\ OfCompleted(r.mixedSub) = Plus(call.p, Minus(call.q))
          /\ OfCompleted(r.double) = Plus(call.p, call.p)
          /\ LET e == Curve!ToExtended(r.add) IN Mul(e.X, e.Y) = Mul(e.Z, e.T))
    /\ Returned("FromBytes", LAMBDA r :
          LET those == {p \in Point : p.y = call.s.y % Prime}
          IN  IF those = {} THEN r = Curve!NoPoint
              ELSE /\ r.Z = 1 /\ r.T = Mul(r.X, r.Y)
                   /\ \E p \in those : r.X = p.x /\ r.Y = p.y /\ (p.x = 0 \/ p.x % 2 = call.s.sign)
                   /\ call.s.y < Prime /\ r.X # 0 => Curve!ToBytes(r) = call.s)
    /\ Returned("GeScalarMultBase", LAMBDA r : OfProjective(r) = Scaled(call.a, Base))
    /\ Returned("GeDoubleScalarMultVartime", LAMBDA r :
          OfProjective(r) = Plus(Scaled(call.a, call.A), Scaled(call.b, Base)))
    /\ Returned("SharedKey", LAMBDA r :
          /\ r[1] = r[2]
          /\ r[1].found <=> \A i \in {1, 2} :
                Scaled(Ed2CurvePriKey(call.seeds[i]), Base) # Neutral)

(* Scalars come out below the order and congruent to what was multiplied,  *)
(* added or reduced; ScMinimal compares with the order; and the chains of  *)
(* squarings raise to 2^255 - 21 and to 2^252 - 3.                         *)
ScalarsRight ==
    /\ Returned("ScMulAdd", LAMBDA r : r = (call.x * call.y + call.z) % Order)
    /\ Returned("ScReduce", LAMBDA r : r = call.n % Order)
    /\ Returned("ScMinimal", LAMBDA r :
          LET n(words) == words[0] + 3 * words[1] + 9 * words[2]
          IN  r <=> n(call.scalar) < n(call.order))
    /\ Returned("Powers", LAMBDA r :
          r.invert = 0 .. 254 \ {2, 4} /\ r.pow22523 = 0 .. 251 \ {1})

=============================================================================
