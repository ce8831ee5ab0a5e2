------------------------------- MODULE Bip340 --------------------------------
(***************************************************************************)
(* The verifier of secp256k1lab/bip340.py, which checks the signatures of    *)
(* groups and of single signers alike.  A signature is a pair of an x        *)
(* coordinate, named by the point with even y, and an encoded scalar.        *)
(***************************************************************************)
EXTENDS ScalarGroup

\* A tagged hash, as an integer before it is reduced modulo Order.
CONSTANT ChallengeHash(_, _, _)  \* of xonly R, xonly Q, msg

ChallengeOf(R, P, msg) == ScalarOf(ChallengeHash(R, P, msg))

\* Slip: the encoded scalar is reduced instead of refused.
SchnorrVerify_Wrapping(msg, pubkey, sig) ==
  LET R == Sub(Mul(sig[2], G), Mul(ChallengeOf(sig[1], pubkey, msg), pubkey))
  IN  pubkey \in EvenPoints /\ R # Infinity /\ HasEvenY(R) /\ R = sig[1]

SchnorrVerify(msg, pubkey, sig) ==
  LET R == Sub(Mul(sig[2], G), Mul(ChallengeOf(sig[1], pubkey, msg), pubkey))
  IN  /\ pubkey \in EvenPoints     \* lift_x finds the even point
      /\ ScalarInRange(sig[2])
      /\ R # Infinity /\ HasEvenY(R) /\ R = sig[1]

=============================================================================
