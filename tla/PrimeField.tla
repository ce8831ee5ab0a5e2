----------------------------- MODULE PrimeField -----------------------------
(***************************************************************************)
(* Arithmetic modulo a prime Order.  An element is its reduced integer.     *)
(* The same operators serve Scalar, the coordinates of points (FE) and, as  *)
(* the group has prime order, discrete logarithms.                          *)
(***************************************************************************)
EXTENDS Integers, Functions

CONSTANT Order

\* Order is a prime: every nonzero scalar is invertible.
ASSUME OrderAssumption ==
  /\ Order \in Nat \ {0, 1}
  /\ \A a \in 1 .. Order - 1 : \E b \in 1 .. Order - 1 : (a * b) % Order = 1

Scalars == 0 .. Order - 1
NonZero == Scalars \ {0}

-----------------------------------------------------------------------------
(* Arithmetic.                                                             *)

ScalarOf(i) == i % Order
Add(a, b) == (a + b) % Order
Neg(a) == (-a) % Order
Sub(a, b) == Add(a, Neg(b))
Mul(a, b) == (a * b) % Order
Inv(a) == CHOOSE b \in Scalars : Mul(a, b) = 1
Div(a, b) == Mul(a, Inv(b))

\* The sums of scalars or points, and the loops of products, of f on S.
SumOver(S, f) == FoldFunctionOnSet(Add, 0, f, S)
ProductOver(S, f) == FoldFunctionOnSet(Mul, 1, f, S)

-----------------------------------------------------------------------------
(* Range checks of the parsers.                                            *)

ScalarInRange(x) == x \in Scalars
NonZeroScalarInRange(x) == x \in NonZero

=============================================================================
