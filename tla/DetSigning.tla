------------------------------ MODULE DetSigning ------------------------------
(***************************************************************************)
(* deterministic_sign of frost_ref/signing.py, as an operator: it keeps      *)
(* nothing between calls and derives its nonce from its inputs.  A request r *)
(* is a record of them; r.ctx is the session but for its aggnonce.           *)
(***************************************************************************)
EXTENDS FrostSigning

CONSTANTS
  AuxHash(_),          \* of aux_rand
  DetNonceHash(_, _)   \* of the hashed inputs and 0 or 1, before reduction

\* An aggothernonce that was not passed, and the empty byte string hashed for it.
Omitted == <<>>

\* The share that is hashed, masked if there is randomness; + stands for xor.
MaskedShare(secshare, aux_rand) ==
  IF aux_rand = None THEN secshare ELSE secshare + AuxHash(aux_rand)

\* What the nonce hash binds.
\* Slip: of the signer set only the size is bound.
DetNonceInputs_SizeOnly(secshare_, my_id, ids, aggothernonce, xonly_pk, msg) ==
  <<secshare_, my_id, Len(ids), <<Len(ids)>>, aggothernonce, xonly_pk, msg>>

DetNonceInputs(secshare_, my_id, ids, aggothernonce, xonly_pk, msg) ==
  <<secshare_, my_id, Len(ids), SerializeIds(ids), aggothernonce, xonly_pk, msg>>

InputsUnder(r, tweak_ctx) ==
  DetNonceInputs(MaskedShare(r.secshare, r.aux_rand), r.my_id, r.ctx.ids,
                 r.aggothernonce, GetXonlyPk(tweak_ctx), r.ctx.msg)

\* The aggregate nonce that the signer signs under.
\* Slip: its own nonce is left out.
AggnonceWith_OthersOnly(pubnonce, aggothernonce) ==
  IF aggothernonce = Omitted THEN Returns(pubnonce) ELSE Returns(aggothernonce)

\* Slip: a sole signer is turned away.
AggnonceWith_NeverOmitted(pubnonce, aggothernonce) ==
  LET agg == NonceAgg(<<pubnonce, aggothernonce>>)
  IN  IF aggothernonce # Omitted /\ Succeeds(agg) THEN agg
      ELSE InvalidContribution(None, "aggothernonce")

\* A sole signer has no other nonces.  Any failure to parse is laid to
\* aggothernonce, since the own nonce is always valid.
AggnonceWith(pubnonce, aggothernonce) ==
  LET agg == NonceAgg(<<pubnonce, aggothernonce>>)
  IN  IF aggothernonce = Omitted THEN Returns(pubnonce)
      ELSE IF Succeeds(agg) \/ agg = AssertionError THEN agg
      ELSE InvalidContribution(None, "aggothernonce")

\* From the derived nonce on.
SignUnder(r, nonce) ==
  LET sign(aggnonce) == SignResult(nonce.secnonce, r.secshare, r.my_id,
                                   [r.ctx EXCEPT !.aggnonce = aggnonce])
      answer(psig) == Returns([pubnonce |-> nonce.pubnonce, psig |-> psig])
  IN  Then(AggnonceWith(nonce.pubnonce, r.aggothernonce),
           LAMBDA aggnonce : Then(sign(aggnonce), answer))

\* The nonce is hashed from the inputs x.
DeriveNonce(x) ==
  LET k(i) == ScalarOf(DetNonceHash(x, i))
  IN  IF 0 \in {k(0), k(1)} THEN AssertionError ELSE Returns(NonceGen(k(0), k(1)))

DeterministicSign(r) ==
  LET ctx == r.ctx
  IN  Then(ValidateSessionParams(ctx.n, ctx.t, ctx.ids, ctx.knows_pubshares, ctx.pubshares,
                                 ctx.thresh_pk),
           LAMBDA u : Then(ThreshPubkeyAndTweak(ctx.thresh_pk, ctx.tweaks, ctx.is_xonly),
             LAMBDA tweak_ctx : Then(DeriveNonce(InputsUnder(r, tweak_ctx)),
               LAMBDA nonce : SignUnder(r, nonce))))

=============================================================================
