-------------------------------- MODULE Curve --------------------------------
(***************************************************************************)
(* GE and FastGEMul: points of y^2 = x^3 + 7 in affine coordinates, their    *)
(* addition, the two multiplications and the encodings.                     *)
(*                                                                         *)
(* The coordinate field has FieldSize elements and the group has Order; both *)
(* are primes and FieldSize % 4 = 3, as on secp256k1.  A coordinate is its   *)
(* value: PrimeFieldElements shows that the lazy fractions of FE cannot be  *)
(* told from values.  A point is <<x, y>>, infinity is <<>>.                 *)
(*                                                                         *)
(* The assumptions are facts about secp256k1 that the code relies on: no     *)
(* point has y = 0, which doubling would divide by, the operation is         *)
(* associative, and Order * G is infinity.                                  *)
(***************************************************************************)
EXTENDS PrimeField, SequencesExt

CONSTANTS FieldSize,  \* FE.SIZE
          BitWidth,   \* bit positions of a scalar (256)
          BaseX       \* the x coordinate of G

F == INSTANCE PrimeField WITH Order <- FieldSize

ASSUME FieldAssumption == F!OrderAssumption /\ FieldSize % 4 = 3

Infinity == <<>>

\* y^2 - x^3 - 7 = 0, which GE(x, y) asserts.
Power(b, k) == FoldLeft(LAMBDA r, i : F!Mul(r, b), 1, [i \in 1 .. k |-> i])
RightHandSide(x) == F!Add(Power(x, 3), 7)
OnCurve(x, y) == Power(y, 2) = RightHandSide(x)

ASSUME NoPointOfOrderTwo == \A x \in F!Scalars : ~ OnCurve(x, 0)

PointsAt(x) == {<<x, y>> : y \in {z \in F!Scalars : OnCurve(x, z)}}
Points == {Infinity} \cup UNION {PointsAt(x) : x \in F!Scalars}

-----------------------------------------------------------------------------
(* The group operation.                                                    *)

NegPoint(P) == IF P = Infinity THEN P ELSE <<P[1], F!Neg(P[2])>>

Tangent(P) == F!Div(F!Mul(3, Power(P[1], 2)), F!Mul(2, P[2]))
Chord(P, Q) == F!Div(F!Sub(P[2], Q[2]), F!Sub(P[1], Q[1]))

ThirdPoint(P, lam, x) == <<x, F!Sub(F!Mul(lam, F!Sub(P[1], x)), P[2])>>
ThirdX(P, Q, lam) == F!Sub(Power(lam, 2), F!Add(P[1], Q[1]))

AddAlong(P, Q, lam) == ThirdPoint(P, lam, ThirdX(P, Q, lam))

AddFinite(P, Q) == CASE P[1] # Q[1] -> AddAlong(P, Q, Chord(P, Q))
                     [] P[1] = Q[1] /\ P[2] # Q[2] -> Infinity
                     [] P = Q -> AddAlong(P, Q, Tangent(P))

AddPoints(P, Q) == IF P = Infinity THEN Q
                   ELSE IF Q = Infinity THEN P ELSE AddFinite(P, Q)

SubPoints(P, Q) == AddPoints(P, NegPoint(Q))
EqualPoints(P, Q) == SubPoints(P, Q) = Infinity

ASSUME Associativity ==
  \A P, Q, R \in Points : AddPoints(AddPoints(P, Q), R) = AddPoints(P, AddPoints(Q, R))

-----------------------------------------------------------------------------
(* Multiplication.                                                         *)

ShiftRight(a, i) == FoldLeft(LAMBDA h, k : h \div 2, a, [k \in 1 .. i |-> k])
Bit(a, i) == ShiftRight(a, i) % 2 = 1

ASSUME WidthAssumption == BitWidth \in Nat \ {0} /\ ShiftRight(Order, BitWidth) = 0

AddSet(r, aps, i) ==
  FoldLeft(LAMBDA s, ap : IF Bit(ap[1], i) THEN AddPoints(s, ap[2]) ELSE s, r, aps)

\* Slip: the loop stops before bit 0.
BatchMul_SkipsLowest(aps) ==
  FoldLeft(LAMBDA r, i : AddSet(AddPoints(r, r), aps, i), Infinity,
           [k \in 1 .. BitWidth - 1 |-> BitWidth - k])

\* Shared double-and-add, from the high bit down.  aps: sequence of <<a, P>>.
BatchMul(aps) ==
  FoldLeft(LAMBDA r, i : AddSet(AddPoints(r, r), aps, i), Infinity,
           [k \in 1 .. BitWidth |-> BitWidth - k])

\* FastGEMul: the table of P, 2P, 4P, ... and the sum of its set bits.
FastTable(P) ==
  FoldLeft(LAMBDA t, i : Append(t, AddPoints(Last(t), Last(t))), <<P>>,
           [i \in 1 .. BitWidth - 1 |-> i])

\* int.bit_length: the bits up to the highest one that is set.
BitLength(a) ==
  CHOOSE k \in 0 .. BitWidth :
    ShiftRight(a, k) = 0 /\ (k = 0 \/ ShiftRight(a, k - 1) # 0)

FastMul(table, a) ==
  FoldLeft(LAMBDA r, i : IF Bit(a, i - 1) THEN AddPoints(r, table[i]) ELSE r,
           Infinity, [i \in 1 .. BitLength(a) |-> i])

-----------------------------------------------------------------------------
(* Square roots, lift_x and the generator.                                 *)

NoRoot == -1

SqrtOf(v, s) == IF Power(s, 2) = v THEN s ELSE NoRoot
Sqrt(v) == SqrtOf(v, Power(v, (FieldSize + 1) \div 4))

ValueError == <<-1>>

\* Slip: the root is returned as it comes.
EvenRoot_AsIs(y) == y

EvenRoot(y) == IF y % 2 = 0 THEN y ELSE F!Neg(y)
PointWithRoot(x, y) == IF y = NoRoot THEN ValueError ELSE <<x, EvenRoot(y)>>
LiftX(x) == PointWithRoot(x, Sqrt(RightHandSide(x)))

IsValidX(x) == Sqrt(RightHandSide(x)) # NoRoot

G == LiftX(BaseX)
ASSUME BaseAssumption == BaseX \in F!Scalars /\ IsValidX(BaseX)

\* G, 2G, 3G, ... by repeated addition.
MultiplesOfG ==
  FoldLeft(LAMBDA t, k : Append(t, AddPoints(Last(t), G)), <<G>>,
           [k \in 1 .. Order - 1 |-> k])

ASSUME GroupOrder == MultiplesOfG[Order] = Infinity

FastG == FastTable(G)

\* a * P for an int or a scalar: Scalar(a) reduces it first.
RMul(a, P) ==
  IF EqualPoints(P, G) THEN FastMul(FastG, a % Order)
  ELSE BatchMul(<<<<a % Order, P>>>>)

-----------------------------------------------------------------------------
(* Encodings: a tag byte and 32-byte numbers, as a tuple.  <<x>> is 32      *)
(* bytes long, <<t, x>> is 33 and <<t, x, y>> is 65.                         *)

HasEvenY(P) == P[2] % 2 = 0

ZeroBytes == <<0, 0>>

ToBytesCompressed(P) == <<IF HasEvenY(P) THEN 2 ELSE 3, P[1]>>
ToBytesCompressedWithInfinity(P) ==
  IF P = Infinity THEN ZeroBytes ELSE ToBytesCompressed(P)
ToBytesUncompressed(P) == <<4, P[1], P[2]>>
ToBytesXonly(P) == <<P[1]>>

\* Slip: a coordinate that is too large is wrapped.
InField_Wrapping(x) == x \in Nat

\* FE.from_bytes_checked refuses it.
InField(x) == x < FieldSize

WithTag(t, P) == IF P # ValueError /\ t = 3 THEN NegPoint(P) ELSE P

FromBytesXonly(b) == IF InField(b[1]) THEN LiftX(b[1] % FieldSize) ELSE ValueError

FromBytesCompressed(b) ==
  IF b[1] \in {2, 3} THEN WithTag(b[1], FromBytesXonly(<<b[2]>>)) ELSE ValueError

FromBytesCompressedWithInfinity(b) ==
  IF b = ZeroBytes THEN Infinity ELSE FromBytesCompressed(b)

FromBytesUncompressed(b) ==
  IF b[1] = 4 /\ InField(b[2]) /\ InField(b[3]) /\ OnCurve(b[2], b[3])
  THEN <<b[2], b[3]>> ELSE ValueError

FromBytes(b) ==
  IF Len(b) = 2 THEN FromBytesCompressed(b) ELSE FromBytesUncompressed(b)

=============================================================================
