---------------------------- MODULE AbstractGroup ----------------------------
(***************************************************************************)
(* What GE promises: a cyclic group of prime order.  A point is its discrete *)
(* logarithm to the base G, as in ScalarGroup.                              *)
(***************************************************************************)
EXTENDS PrimeField

CONSTANTS Multipliers     \* the ints that points are multiplied with

VARIABLES P, Q            \* discrete logarithms of two points

vars == <<P, Q>>

Init == P = 1 /\ Q = 1

Next == \/ P' = Add(P, Q) /\ UNCHANGED Q
        \/ P' = Sub(P, Q) /\ UNCHANGED Q
        \/ P' = Neg(P) /\ UNCHANGED Q
        \/ P' = Q /\ Q' = P
        \/ \E a \in Multipliers : P' = Mul(ScalarOf(a), P) /\ UNCHANGED Q
        \/ \E a, b \in Multipliers :
             P' = Add(Mul(ScalarOf(a), P), Mul(ScalarOf(b), Q)) /\ UNCHANGED Q

Spec == Init /\ [][Next]_vars

=============================================================================
