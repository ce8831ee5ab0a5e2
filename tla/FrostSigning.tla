----------------------------- MODULE FrostSigning ----------------------------
(***************************************************************************)
(* The two signing rounds of frost_ref/signing.py.                          *)
(*                                                                         *)
(* A public nonce and an aggregate nonce are pairs of encoded points, a     *)
(* secret nonce is a pair of encoded scalars.  A session context is a       *)
(* record with the fields of the code's SessionContext, where               *)
(* knows_pubshares is FALSE for pubshares = None.                           *)
(***************************************************************************)
EXTENDS FrostTweaks, Bip340

\* A tagged hash, as an integer before it is reduced modulo Order.
CONSTANT
  NonceCoefHash(_, _, _, _, _)   \* of u, the serialized ids, aggnonce, xonly Q, msg

-----------------------------------------------------------------------------
(* Round one.                                                              *)

\* The two hashes are any two nonzero scalars; the public nonce encodes k*G.
NonceGen(k_1, k_2) == [secnonce |-> <<k_1, k_2>>, pubnonce |-> <<Mul(k_1, G), Mul(k_2, G)>>]

\* Where the loop that parses contributions stops.
\* Slip: the loop counts from one.
FirstOf_CountedFromOne(bad) == Min(bad) + 1

FirstOf(bad) == Min(bad)

\* The first components of all nonces are parsed before any second one.  A
\* component of the wrong length fails an assertion instead of being blamed.
NonceAgg(pubnonces) ==
  LET bad(j) == {i \in DOMAIN pubnonces : ~ PointDecodes(pubnonces[i][j])}
      failure(j) == IF pubnonces[Min(bad(j))][j] = WrongLength
                    THEN AssertionError
                    ELSE InvalidContribution(FirstOf(bad(j)), "pubnonce")
      R(j) == SumOver(DOMAIN pubnonces, [i \in DOMAIN pubnonces |-> pubnonces[i][j]])
  IN  IF bad(1) # {} THEN failure(1)
      ELSE IF bad(2) # {} THEN failure(2)
      ELSE Returns(<<R(1), R(2)>>)

-----------------------------------------------------------------------------
(* What every signer and the coordinator compute from a session context.   *)

\* Slip: in the order of the list.
SerializeIds_Unsorted(ids) == ids

\* The ids are distinct once validated, so that there is one such sequence.
SerializeIds(ids) ==
  CHOOSE s \in [DOMAIN ids -> ToSet(ids)] : \A i, j \in DOMAIN ids : i < j => s[i] < s[j]

\* R1 + b*R2 before infinity is replaced.
SessionNonce(aggnonce, b) == Add(aggnonce[1], Mul(b, aggnonce[2]))

\* With G in its place.
FinalNonce(aggnonce, b) ==
  LET R == SessionNonce(aggnonce, b) IN IF R = Infinity THEN G ELSE R

\* From the tweaked key on.
ValuesOfKey(ctx, tweak_ctx) ==
  LET Q == tweak_ctx.Q
      b == ScalarOf(NonceCoefHash(Len(ctx.ids), SerializeIds(ctx.ids), ctx.aggnonce,
                                  ToXonly(Q), ctx.msg))
      bad == {j \in 1 .. 2 : ~ PointOrInfinityDecodes(ctx.aggnonce[j])}
      R == FinalNonce(ctx.aggnonce, b)
      e == ScalarOf(ChallengeHash(ToXonly(R), ToXonly(Q), ctx.msg))
  IN  IF b \notin NonZero THEN AssertionError
      ELSE IF bad # {}
           THEN IF ctx.aggnonce[Min(bad)] = WrongLength
                THEN AssertionError
                ELSE InvalidContribution(None, "aggnonce")
      ELSE IF e \notin NonZero THEN AssertionError
      ELSE Returns([Q |-> Q, gacc |-> tweak_ctx.gacc, tacc |-> tweak_ctx.tacc,
                    b |-> b, R |-> R, e |-> e])

GetSessionValues(ctx) ==
  Then(ValidateSessionParams(ctx.n, ctx.t, ctx.ids, ctx.knows_pubshares, ctx.pubshares,
                             ctx.thresh_pk),
       LAMBDA u : Then(ThreshPubkeyAndTweak(ctx.thresh_pk, ctx.tweaks, ctx.is_xonly),
                       LAMBDA tweak_ctx : ValuesOfKey(ctx, tweak_ctx)))

-----------------------------------------------------------------------------
(* Round two.                                                              *)

\* s*G = +-(R1 + b*R2) + e*a*g*gacc * P, for the session values v.
PartialSigEquation(s, my_id, pubnonce, pubshare, ids, v) ==
  LET Re_s == SessionNonce(pubnonce, v.b)
      a == DeriveInterpolatingValue(ids, my_id)
      g == Mul(EvenSign(v.Q), v.gacc)
  IN  Mul(s, G) = Add(IF HasEvenY(v.R) THEN Re_s ELSE Neg(Re_s),
                      Mul(Mul(Mul(v.e, a), g), pubshare))

PartialSigVerifyInternal(psig, my_id, pubnonce, pubshare, ctx) ==
  Then(GetSessionValues(ctx),
       LAMBDA v : Returns(/\ ScalarInRange(psig)
                          /\ PointDecodes(pubnonce[1]) /\ PointDecodes(pubnonce[2])
                          /\ PointDecodes(pubshare)
                          /\ PartialSigEquation(psig, my_id, pubnonce, pubshare, ctx.ids, v)))

\* s = k1 + b*k2 + e*a*d with the nonces negated when R is odd.
PartialSig(k_1, k_2, secshare, my_id, ids, v) ==
  LET sign(k) == IF HasEvenY(v.R) THEN k ELSE Neg(k)
      a == DeriveInterpolatingValue(ids, my_id)
      d == Mul(Mul(EvenSign(v.Q), v.gacc), secshare)
  IN  Add(Add(sign(k_1), Mul(v.b, sign(k_2))), Mul(Mul(v.e, a), d))

\* Under the session values v; the result is verified once more.
SignWith(secnonce, secshare, my_id, ctx, v) ==
  LET psig == PartialSig(secnonce[1], secnonce[2], secshare, my_id, ctx.ids, v)
      pubnonce == <<Mul(secnonce[1], G), Mul(secnonce[2], G)>>
      my_pubshare == Mul(secshare, G)
      my_index == Min({k \in DOMAIN ctx.ids : ctx.ids[k] = my_id})
  IN  IF ~ NonZeroScalarInRange(secnonce[1]) THEN ValueError("first secnonce")
      ELSE IF ~ NonZeroScalarInRange(secnonce[2]) THEN ValueError("second secnonce")
      ELSE IF ~ NonZeroScalarInRange(secshare) THEN ValueError("secshare")
      ELSE IF my_id \notin ToSet(ctx.ids) THEN ValueError("own id")
      ELSE IF ctx.knows_pubshares /\ ctx.pubshares[my_index] # my_pubshare
           THEN ValueError("own pubshare")
      ELSE IF PartialSigVerifyInternal(psig, my_id, pubnonce, my_pubshare, ctx)
                = Returns(TRUE)
           THEN Returns(psig)
           ELSE AssertionError

\* What sign returns or raises.
SignResult(secnonce, secshare, my_id, ctx) ==
  Then(GetSessionValues(ctx), LAMBDA v : SignWith(secnonce, secshare, my_id, ctx, v))

\* The 64 bytes of the caller's bytearray are overwritten.
ZeroedSecnonce == <<0, 0>>

\* Slip: only the first 32 of them are.
Overwrite_FirstHalf(secnonce) == <<0, secnonce[2]>>

\* Slip: a local name is bound to a new array of zeros.
Overwrite_LocalCopy(secnonce) == secnonce

Overwrite(secnonce) == ZeroedSecnonce

\* Slip: the buffer is overwritten before the session values are computed.
Sign_OverwritesFirst(secnonce, secshare, my_id, ctx) ==
  [result |-> SignResult(secnonce, secshare, my_id, ctx), secnonce |-> Overwrite(secnonce)]

\* The caller's buffer is overwritten as soon as the session values are known
\* and the nonce is read from it; what fails later fails with the nonce gone.
Sign(secnonce, secshare, my_id, ctx) ==
  [result   |-> SignResult(secnonce, secshare, my_id, ctx),
   secnonce |-> IF /\ Succeeds(GetSessionValues(ctx))
                   /\ \A j \in 1 .. 2 : NonZeroScalarInRange(secnonce[j])
                THEN Overwrite(secnonce) ELSE secnonce]

\* ctx gives the session but for its aggnonce, which is recomputed.
PartialSigVerify(psig, pubnonces, ctx, i) ==
  LET verify(agg) ==
        PartialSigVerifyInternal(psig, ctx.ids[i], pubnonces[i], ctx.pubshares[i],
          [ctx EXCEPT !.knows_pubshares = TRUE, !.aggnonce = agg])
  IN  IF \/ Len(pubnonces) # Len(ctx.ids) \/ Len(ctx.pubshares) # Len(ctx.ids)
      THEN ValueError("list lengths")
      ELSE IF i \notin DOMAIN ctx.ids THEN ValueError("signer index")
      ELSE IF Len(ctx.tweaks) # Len(ctx.is_xonly) THEN ValueError("tweak modes")
      ELSE Then(ValidateSessionParams(ctx.n, ctx.t, ctx.ids, TRUE, ctx.pubshares, ctx.thresh_pk),
                LAMBDA u : Then(NonceAgg(pubnonces), verify))

\* The summand that tweaks the aggregate.
\* Slip: it does not follow the parity of Q.
TweakSummand_Unsigned(v) == Mul(v.e, v.tacc)

TweakSummand(v) == Mul(Mul(v.e, EvenSign(v.Q)), v.tacc)

PartialSigAgg(psigs, ctx) ==
  LET bad == {i \in DOMAIN psigs : ~ ScalarInRange(psigs[i])}
      sum(v) == Add(SumOver(DOMAIN psigs, psigs), TweakSummand(v))
      aggregate(v) == IF Len(psigs) # Len(ctx.ids) THEN ValueError("psig count")
                      ELSE IF bad # {} THEN InvalidContribution(FirstOf(bad), "psig")
                      ELSE Returns(<<ToXonly(v.R), sum(v)>>)
  IN  Then(GetSessionValues(ctx), aggregate)

=============================================================================
