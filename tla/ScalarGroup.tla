----------------------------- MODULE ScalarGroup -----------------------------
(***************************************************************************)
(* The prime-order group of secp256k1lab, over the field of its scalars.    *)
(* A group element is its discrete logarithm to the base G: the point k*G   *)
(* is the number k, G is 1 and the point at infinity is 0, so that point    *)
(* addition is addition and a*P is multiplication modulo Order.  (The       *)
(* module CurvePrograms shows that the coordinates of GE implement this.)   *)
(* Which multiples of G have an even y coordinate is the parameter          *)
(* EvenPoints.                                                             *)
(*                                                                         *)
(* Encodings are integers too.  An encoded scalar is a natural number, in   *)
(* range iff it is below Order (32 bytes hold larger ones).  An encoded     *)
(* point is the point's number, 0 for the 33 zero bytes that encode         *)
(* infinity, and any number from Order upwards for 33 bytes that decode to  *)
(* no point (bad prefix, x too large, x not on the curve).  WrongLength     *)
(* stands for an encoding that has not the length it should have.           *)
(***************************************************************************)
EXTENDS PrimeField

CONSTANT EvenPoints

\* Exactly one of P and -P has an even y coordinate; lift_x chose G even.
ASSUME ParityAssumption ==
  /\ EvenPoints \subseteq 1 .. Order - 1
  /\ 1 \in EvenPoints
  /\ \A P \in 1 .. Order - 1 : (P \in EvenPoints) # (Order - P \in EvenPoints)

Infinity == 0
G == 1

-----------------------------------------------------------------------------
(* Decoding points and the parity of y.                                    *)

WrongLength == -2
PointDecodes(w) == w \in NonZero
PointOrInfinityDecodes(w) == w \in Scalars

HasEvenY(P) == P \in EvenPoints
\* The multiplier that turns P into the point with the same x and even y.
EvenSign(P) == IF HasEvenY(P) THEN 1 ELSE Neg(1)
\* An x-only encoding identifies P with -P: it names the one with even y.
ToXonly(P) == IF HasEvenY(P) THEN P ELSE Neg(P)

=============================================================================
