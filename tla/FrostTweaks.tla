----------------------------- MODULE FrostTweaks -----------------------------
(***************************************************************************)
(* The tweak context of frost_ref/signing.py: the current public key Q with *)
(* the accumulated sign gacc and the accumulated tweak tacc that relate it  *)
(* to the threshold public key.                                             *)
(***************************************************************************)
EXTENDS FrostKeys

\* GE.from_bytes_compressed refuses an undecodable threshold key.
TweakCtxInit(thresh_pk) ==
  IF PointDecodes(thresh_pk)
  THEN Returns([Q |-> thresh_pk, gacc |-> 1, tacc |-> 0])
  ELSE ValueError("threshold key")

GetXonlyPk(tweak_ctx) == ToXonly(tweak_ctx.Q)
GetPlainPk(tweak_ctx) == tweak_ctx.Q

\* The sign of the x-only mode.
\* Slip: plain tweaks are applied to the even point too.
TweakSign_IgnoresMode(Q, is_xonly) == IF ~ HasEvenY(Q) THEN Neg(1) ELSE 1

TweakSign(Q, is_xonly) == IF is_xonly /\ ~ HasEvenY(Q) THEN Neg(1) ELSE 1

\* The context after multiplying by g and adding the tweak.
\* Slip: the accumulated tweak keeps its sign.
TweakedBy_TaccUnsigned(tweak_ctx, g, tweak) ==
  [Q    |-> Add(Mul(g, tweak_ctx.Q), tweak),
   gacc |-> Mul(g, tweak_ctx.gacc),
   tacc |-> Add(tweak, tweak_ctx.tacc)]

\* Slip: the sign of this tweak replaces the accumulated sign.
TweakedBy_GaccReplaced(tweak_ctx, g, tweak) ==
  [Q    |-> Add(Mul(g, tweak_ctx.Q), tweak),
   gacc |-> g,
   tacc |-> Add(tweak, Mul(g, tweak_ctx.tacc))]

TweakedBy(tweak_ctx, g, tweak) ==
  [Q    |-> Add(Mul(g, tweak_ctx.Q), tweak),
   gacc |-> Mul(g, tweak_ctx.gacc),
   tacc |-> Add(tweak, Mul(g, tweak_ctx.tacc))]

\* Slip: a tweak may lead to infinity.
ApplyTweak_ToInfinity(tweak_ctx, tweak, is_xonly) ==
  IF ScalarInRange(tweak)
  THEN Returns(TweakedBy(tweak_ctx, TweakSign(tweak_ctx.Q, is_xonly), tweak))
  ELSE ValueError("tweak range")

\* A tweak of the wrong length is WrongLength, one that is too large a number
\* outside Scalars.
ApplyTweak(tweak_ctx, tweak, is_xonly) ==
  LET tweaked == TweakedBy(tweak_ctx, TweakSign(tweak_ctx.Q, is_xonly), tweak)
  IN  IF tweak = WrongLength THEN ValueError("tweak length")
      ELSE IF ~ ScalarInRange(tweak) THEN ValueError("tweak range")
      ELSE IF tweaked.Q = Infinity THEN ValueError("infinite tweaked key")
      ELSE Returns(tweaked)

\* Slip: the tweaks are replayed from the last to the first.
ThreshPubkeyAndTweak_Backwards(thresh_pk, tweaks, is_xonly) ==
  FoldLeftDomain(LAMBDA r, i : IF Succeeds(r)
                               THEN ApplyTweak(r.val, Reverse(tweaks)[i], Reverse(is_xonly)[i])
                               ELSE r,
                 TweakCtxInit(thresh_pk), tweaks)

\* The first tweak that fails ends the loop.
ThreshPubkeyAndTweak(thresh_pk, tweaks, is_xonly) ==
  IF Len(tweaks) # Len(is_xonly)
  THEN ValueError("tweak modes")
  ELSE FoldLeftDomain(LAMBDA r, i : IF Succeeds(r)
                                    THEN ApplyTweak(r.val, tweaks[i], is_xonly[i])
                                    ELSE r,
                      TweakCtxInit(thresh_pk), tweaks)

=============================================================================
