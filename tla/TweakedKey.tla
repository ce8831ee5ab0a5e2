----------------------------- MODULE TweakedKey ------------------------------
(***************************************************************************)
(* A holder of a threshold public key applies tweaks to it, one call of     *)
(* apply_tweak after another, plain and x-only in any order.                *)
(***************************************************************************)
EXTENDS FrostTweaks

CONSTANT MaxTweaks   \* bound: how many tweaks are applied

ASSUME TweaksAssumption == MaxTweaks \in Nat

VARIABLES
  thresh_pk,   \* the untweaked threshold public key
  tweak_ctx,   \* the current TweakContext
  tweaks,      \* the tweaks applied so far
  is_xonly     \* their modes

vars == <<thresh_pk, tweak_ctx, tweaks, is_xonly>>

\* Encoded tweaks: every scalar, and one that is out of range.
WireTweaks == 0 .. Order

-----------------------------------------------------------------------------

Init ==
  /\ thresh_pk \in NonZero
  /\ tweak_ctx = TweakCtxInit(thresh_pk).val
  /\ tweaks = <<>> /\ is_xonly = <<>>

\* A call that raises leaves the caller with the context it had.
Tweak(tweak, xonly) ==
  LET r == ApplyTweak(tweak_ctx, tweak, xonly)
  IN  /\ Len(tweaks) < MaxTweaks
      /\ Succeeds(r)
      /\ tweak_ctx' = r.val
      /\ tweaks' = Append(tweaks, tweak)
      /\ is_xonly' = Append(is_xonly, xonly)
      /\ UNCHANGED thresh_pk

Next == \E tweak \in WireTweaks, xonly \in BOOLEAN : Tweak(tweak, xonly)

Spec == Init /\ [][Next]_vars

-----------------------------------------------------------------------------

(* The context is a finite point and two scalars.                          *)
TypeOK ==
  /\ thresh_pk \in NonZero
  /\ tweak_ctx \in [Q : NonZero, gacc : Scalars, tacc : Scalars]
  /\ tweaks \in Seq(Scalars)
  /\ is_xonly \in Seq(BOOLEAN)

(* Whatever mixture of tweaks was applied, the accumulators still express   *)
(* the current key in terms of the threshold key, and gacc is a sign:       *)
(* Q = gacc * thresh_pk + tacc * G.                                         *)
AccumulatorsExplainKey ==
  /\ tweak_ctx.gacc \in {1, Neg(1)}
  /\ tweak_ctx.Q = Add(Mul(tweak_ctx.gacc, thresh_pk), tweak_ctx.tacc)

(* The key that sign (its factor g * gacc) and partial_sig_agg (its summand *)
(* g * tacc) together sign for is the even-y point of the x-only key that   *)
(* get_xonly_pk publishes.                                                  *)
SignersKeyIsPublishedKey ==
  LET g == EvenSign(tweak_ctx.Q)
  IN  Add(Mul(Mul(g, tweak_ctx.gacc), thresh_pk), Mul(g, tweak_ctx.tacc))
        = GetXonlyPk(tweak_ctx)

(* Replaying the list of tweaks from the threshold key, as every session    *)
(* does in thresh_pubkey_and_tweak, gives the context reached step by step. *)
ReplayReachesContext ==
  ThreshPubkeyAndTweak(thresh_pk, tweaks, is_xonly) = Returns(tweak_ctx)

(* The key rebuilt from the accumulators alone evolves as the plain and     *)
(* x-only tweak operations prescribe.                                       *)
Abstract == INSTANCE AbstractTweaks
  WITH pk <- Add(Mul(tweak_ctx.gacc, thresh_pk), tweak_ctx.tacc)
ImplementsTweaks == Abstract!Spec

=============================================================================
