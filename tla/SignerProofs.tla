----------------------------- MODULE SignerProofs -----------------------------
(***************************************************************************)
(* The two signers, over every prime Order, every hash and any number of     *)
(* calls.                                                                  *)
(*                                                                         *)
(* One holds a secnonce, which signs at most once whatever fails and is      *)
(* retried.  That is not inductive: it needs that the buffer of a draw that  *)
(* already signed holds zeros, which sign refuses, and that no signature is  *)
(* attributed to a later draw.                                              *)
(*                                                                         *)
(* The other is deterministic_sign: what one nonce serves, what an answer is *)
(* worth to the session, and when there is none.  It keeps nothing between   *)
(* calls, so the only invariant is that each result is what the function     *)
(* returns for its request.  Everything else is about one or two calls.      *)
(***************************************************************************)
EXTENDS NonceLifecycle, DeterministicSigner, FrostSigningLaws

-----------------------------------------------------------------------------
(* A secnonce signs at most once: one call of sign.                          *)

\* sign leaves the buffer as it was or zeroed; it returns only from a buffer
\* of two nonzero scalars, and then it is zeroed.
LEMMA SignTouchesSecnonce ==
  ASSUME NEW nonce, NEW secshare, NEW my_id, NEW ctx
  PROVE  LET signed == Sign(nonce, secshare, my_id, ctx)
         IN  /\ signed.secnonce = nonce \/ signed.secnonce = ZeroedSecnonce
             /\ Succeeds(signed.result) =>
                  /\ nonce[1] \in NonZero /\ nonce[2] \in NonZero
                  /\ signed.secnonce = ZeroedSecnonce
  <1> DEFINE values == GetSessionValues(ctx)
             outcome == SignResult(nonce, secshare, my_id, ctx)
             read == /\ Succeeds(values)
                     /\ \A j \in 1 .. 2 : NonZeroScalarInRange(nonce[j])
  <1>1. Sign(nonce, secshare, my_id, ctx)
          = [result |-> outcome, secnonce |-> IF read THEN ZeroedSecnonce ELSE nonce]
    BY DEF Sign, Overwrite
  <1>2. Succeeds(outcome) => read
    <2>1. CASE ~ Succeeds(values) BY <2>1 DEF SignResult, Then
    <2>2. CASE Succeeds(values) /\ \E j \in 1 .. 2 : ~ NonZeroScalarInRange(nonce[j])
      <3>1. outcome \in {ValueError("first secnonce"), ValueError("second secnonce")}
        <4>1. outcome = SignWith(nonce, secshare, my_id, ctx, values.val)
          BY <2>2 DEF SignResult, Then
        <4>2. ~ NonZeroScalarInRange(nonce[1]) \/ ~ NonZeroScalarInRange(nonce[2]) BY <2>2
        <4> HIDE DEF outcome, values
        <4> QED BY <4>1, <4>2 DEF SignWith
      <3> HIDE DEF outcome
      <3> QED BY <3>1, ValueErrorsAre, KindsDiffer
    <2> QED BY <2>1, <2>2
  <1> HIDE DEF outcome, values
  <1>3. read => nonce[1] \in NonZero /\ nonce[2] \in NonZero BY DEF NonZeroScalarInRange
  <1> HIDE DEF read
  <1> QED BY <1>1, <1>2, <1>3

-----------------------------------------------------------------------------
(* The inductive invariant.                                                *)

\* A draw signs at most once, because one that signed left zeros behind.
IInv == TypeOK /\ ReleasedNonceIsZeroed /\ OneSignaturePerDraw

\* No nonce was drawn at the start.
LEMMA InitIInv == LifecycleInit => IInv
  BY DEF LifecycleInit, IInv, TypeOK, ReleasedNonceIsZeroed, OneSignaturePerDraw

\* Drawing a nonce: no signature is attributed to the new draw yet.
LEMMA DrawIInv ==
  ASSUME IInv, NEW k_1 \in NonceScalars, NEW k_2 \in NonceScalars, Draw(k_1, k_2)
  PROVE  IInv'
  <1> DEFINE n == Len(drawn)
  <1>1. /\ drawn \in Seq(NonZero \X NonZero) /\ n \in Nat
        /\ released \in Seq(1 .. n)
    BY DEF IInv, TypeOK
  <1>2. secnonce' = <<k_1, k_2>> /\ <<k_1, k_2>> \in NonZero \X NonZero
    BY LifecycleAssumption DEF Draw, NonceGen
  <1>3. /\ drawn' = Append(drawn, secnonce') /\ released' = released BY DEF Draw
  <1>4. /\ drawn' \in Seq(NonZero \X NonZero) /\ Len(drawn') = n + 1
        /\ drawn'[n + 1] = secnonce' /\ drawn' # <<>>
    BY <1>1, <1>2, <1>3
  <1>5. released' \in Seq(1 .. n + 1)
        /\ \A k \in DOMAIN released' : released'[k] \in 1 .. n
    BY <1>1, <1>3
  <1>6. TypeOK' BY <1>4, <1>5 DEF TypeOK
  <1>7. ReleasedNonceIsZeroed' BY <1>1, <1>4, <1>5 DEF ReleasedNonceIsZeroed
  <1>8. OneSignaturePerDraw' BY <1>3 DEF IInv, OneSignaturePerDraw
  <1> QED BY <1>6, <1>7, <1>8 DEF IInv

\* Calling sign: it returns only from a buffer that is not zeroed, hence only
\* for a draw that has not signed, and zeroes it.
LEMMA CallSignIInv ==
  ASSUME IInv, NEW r \in SigningRequests, CallSign(r)
  PROVE  IInv'
  <1> DEFINE n == Len(drawn)
             signed == Sign(secnonce, r.secshare, r.my_id, r.ctx)
  <1>1. /\ drawn \in Seq(NonZero \X NonZero) /\ n \in Nat
        /\ released \in Seq(1 .. n)
    BY DEF IInv, TypeOK
  <1>2. drawn' = drawn /\ secnonce' = signed.secnonce BY DEF CallSign
  <1>3. /\ secnonce' = secnonce \/ secnonce' = ZeroedSecnonce
        /\ Succeeds(signed.result) => /\ secnonce # ZeroedSecnonce
                                      /\ secnonce' = ZeroedSecnonce
    BY <1>2, SignTouchesSecnonce DEF ZeroedSecnonce, NonZero
  <1>4. released' = IF Succeeds(signed.result) THEN Append(released, n) ELSE released
    BY DEF CallSign
  <1> HIDE DEF signed
  <1>5. CASE ~ Succeeds(signed.result)
    BY <1>2, <1>3, <1>4, <1>5
    DEF IInv, TypeOK, ReleasedNonceIsZeroed, OneSignaturePerDraw
  <1>6. CASE Succeeds(signed.result)
    <2>1. secnonce # ZeroedSecnonce /\ secnonce' = ZeroedSecnonce
          /\ released' = Append(released, n)
      BY <1>3, <1>4, <1>6
    <2>2. drawn # <<>> /\ n \in 1 .. n BY <1>1, <2>1 DEF IInv, TypeOK
    <2>3. \A k \in DOMAIN released : released[k] # n
      BY <2>1 DEF IInv, ReleasedNonceIsZeroed
    <2>4. TypeOK' BY <1>1, <1>2, <2>1, <2>2 DEF IInv, TypeOK
    <2>5. ReleasedNonceIsZeroed' BY <2>1 DEF ReleasedNonceIsZeroed
    <2>6. OneSignaturePerDraw'
      <3>1. /\ DOMAIN released' = 1 .. Len(released) + 1
            /\ DOMAIN released = 1 .. Len(released)
            /\ Len(released) \in Nat
            /\ released'[Len(released) + 1] = n
            /\ \A k \in 1 .. Len(released) : released'[k] = released[k]
        BY <1>1, <2>1
      <3> QED BY <2>3, <3>1 DEF IInv, OneSignaturePerDraw
    <2> QED BY <2>4, <2>5, <2>6 DEF IInv
  <1> QED BY <1>5, <1>6

\* A draw or a call of sign preserves the invariant.
LEMMA NextIInv == IInv /\ [LifecycleNext]_lifecycleVars => IInv'
  <1> SUFFICES ASSUME IInv, [LifecycleNext]_lifecycleVars PROVE IInv' OBVIOUS
  <1>1. CASE \E k_1, k_2 \in NonceScalars : Draw(k_1, k_2) BY <1>1, DrawIInv
  <1>2. CASE \E r \in SigningRequests : CallSign(r) BY <1>2, CallSignIInv
  <1>3. CASE UNCHANGED lifecycleVars
    BY <1>3 DEF IInv, TypeOK, ReleasedNonceIsZeroed, OneSignaturePerDraw, lifecycleVars
  <1> QED BY <1>1, <1>2, <1>3 DEF LifecycleNext

\* The buffer never holds part of a nonce or a nonce of an earlier draw.
THEOREM NonceLifecycleTypeOK == LifecycleSpec => []TypeOK
  <1>1. IInv => TypeOK BY DEF IInv
  <1> QED BY <1>1, InitIInv, NextIInv, PTL DEF LifecycleSpec

\* No two partial signatures are ever released under one draw.
THEOREM NoncesSignOnce == LifecycleSpec => []OneSignaturePerDraw
  <1>1. IInv => OneSignaturePerDraw BY DEF IInv
  <1> QED BY <1>1, InitIInv, NextIInv, PTL DEF LifecycleSpec

\* A draw that has signed is zeroed for good.
THEOREM SpentNoncesAreZeroed == LifecycleSpec => []ReleasedNonceIsZeroed
  <1>1. IInv => ReleasedNonceIsZeroed BY DEF IInv
  <1> QED BY <1>1, InitIInv, NextIInv, PTL DEF LifecycleSpec

-----------------------------------------------------------------------------
(* What a coordinator can do to a nonce.                                   *)

\* Once the session values are known, sign blames nobody any more.
LEMMA OnlyValuesBlame ==
  ASSUME NEW nonce, NEW secshare, NEW my_id, NEW ctx,
         Sign(nonce, secshare, my_id, ctx).result.kind = "InvalidContributionError"
  PROVE  Sign(nonce, secshare, my_id, ctx).secnonce = nonce
  <1> DEFINE values == GetSessionValues(ctx)
             outcome == SignResult(nonce, secshare, my_id, ctx)
             signed == SignWith(nonce, secshare, my_id, ctx, values.val)
  <1>1. outcome.kind = "InvalidContributionError" BY DEF Sign
  <1>2. CASE Succeeds(values)
    <2>1. outcome = signed BY <1>2 DEF SignResult, Then
    <2>2. signed.kind # "InvalidContributionError"
      <3> DEFINE psig == PartialSig(nonce[1], nonce[2], secshare, my_id, ctx.ids, values.val)
      <3>1. IsValueError(signed) \/ signed \in {AssertionError, Returns(psig)}
        BY ValueErrorsAre DEF SignWith
      <3> HIDE DEF signed, psig
      <3> QED BY <3>1 DEF IsValueError, AssertionError, Returns
    <2> HIDE DEF outcome, signed
    <2> QED BY <1>1, <2>1, <2>2
  <1>3. CASE ~ Succeeds(values)
    <2> DEFINE read == /\ Succeeds(values)
                       /\ \A j \in 1 .. 2 : NonZeroScalarInRange(nonce[j])
    <2>1. Sign(nonce, secshare, my_id, ctx).secnonce = IF read THEN ZeroedSecnonce ELSE nonce
      BY DEF Sign, Overwrite
    <2> HIDE DEF values
    <2> QED BY <1>3, <2>1
  <1> QED BY <1>2, <1>3

\* Whatever the coordinator sends, a call of sign that blames somebody for it
\* leaves the nonce to be used in the next session.
THEOREM CoordinatorBurnsNoNonce == LifecycleSpec => CoordinatorCannotBurnNonce
  <1> DEFINE blamed == result'.kind = "InvalidContributionError"
  <1>1. [LifecycleNext]_lifecycleVars => [blamed => secnonce' = secnonce]_lifecycleVars
    <2> SUFFICES ASSUME LifecycleNext, blamed PROVE secnonce' = secnonce OBVIOUS
    <2>1. CASE \E k_1, k_2 \in NonceScalars : Draw(k_1, k_2)
      BY <2>1 DEF Draw, NothingYet
    <2>2. CASE \E r \in SigningRequests : CallSign(r)
      BY <2>2, OnlyValuesBlame DEF CallSign
    <2> QED BY <2>1, <2>2 DEF LifecycleNext
  <1> QED BY <1>1, PTL DEF LifecycleSpec, CoordinatorCannotBurnNonce

-----------------------------------------------------------------------------
(* deterministic_sign: one call.                                            *)

\* The parts that a call computes one after the other: the tweaked key, the
\* nonce, and the aggregate of all nonces.
Tweaked(r) == ThreshPubkeyAndTweak(r.ctx.thresh_pk, r.ctx.tweaks, r.ctx.is_xonly)
NonceOf(r) == DeriveNonce(InputsOf(r)).val
AggregateOf(r) == AggnonceWith(NonceOf(r).pubnonce, r.aggothernonce).val

\* The session that an aggregate nonce completes.
WithAggnonce(r, agg) == [r.ctx EXCEPT !.aggnonce = agg]
SignedBy(r, agg) == SignResult(NonceOf(r).secnonce, r.secshare, r.my_id, WithAggnonce(r, agg))

\* A request supplies every field of its session but the aggregate nonce.
LEMMA Fields ==
  ASSUME NEW r \in Requests, NEW agg
  PROVE  /\ SessionShape(WithAggnonce(r, agg)) /\ WithAggnonce(r, agg).aggnonce = agg
         /\ WithAggnonce(r, agg).n = r.ctx.n /\ WithAggnonce(r, agg).t = r.ctx.t
         /\ WithAggnonce(r, agg).ids = r.ctx.ids
         /\ WithAggnonce(r, agg).knows_pubshares = r.ctx.knows_pubshares
         /\ WithAggnonce(r, agg).pubshares = r.ctx.pubshares
         /\ WithAggnonce(r, agg).thresh_pk = r.ctx.thresh_pk
         /\ WithAggnonce(r, agg).tweaks = r.ctx.tweaks
         /\ WithAggnonce(r, agg).is_xonly = r.ctx.is_xonly
         /\ WithAggnonce(r, agg).msg = r.ctx.msg
  BY RequestsAssumption DEF WithAggnonce, SessionShape, ContextFields

\* A derived nonce is a pair of nonzero scalars, the public one a pair of points.
NonceIsGenerated(r) ==
  \E k_1, k_2 \in NonZero : DeriveNonce(InputsOf(r)) = Returns(NonceGen(k_1, k_2))

\* What a call that returns an answer has computed.
AnswerOf(r) ==
  /\ ValidContext(r.ctx) /\ Succeeds(Tweaked(r))
  /\ NonceIsGenerated(r)
  /\ AggnonceWith(NonceOf(r).pubnonce, r.aggothernonce) = Returns(AggregateOf(r))
  /\ Succeeds(SignedBy(r, AggregateOf(r)))
  /\ DeterministicSign(r) = Returns([pubnonce |-> NonceOf(r).pubnonce,
                                     psig |-> SignedBy(r, AggregateOf(r)).val])


\* Each step of the call is a result or ends it.
LEMMA StepsOfCall ==
  ASSUME NEW r, Succeeds(DeterministicSign(r))
  PROVE  /\ ValidContext(r.ctx) /\ Succeeds(Tweaked(r))
         /\ Succeeds(DeriveNonce(InputsOf(r)))
         /\ Succeeds(AggnonceWith(NonceOf(r).pubnonce, r.aggothernonce))
         /\ Succeeds(SignedBy(r, AggregateOf(r)))
         /\ DeterministicSign(r) = Returns([pubnonce |-> NonceOf(r).pubnonce,
                                            psig |-> SignedBy(r, AggregateOf(r)).val])
  <1> DEFINE ctx == r.ctx
             valid == ValidateSessionParams(ctx.n, ctx.t, ctx.ids, ctx.knows_pubshares,
                                            ctx.pubshares, ctx.thresh_pk)
             derived(tweak_ctx) == DeriveNonce(InputsUnder(r, tweak_ctx))
             tweaked == Tweaked(r)
             inputs == DeriveNonce(InputsOf(r))
             agg == AggnonceWith(NonceOf(r).pubnonce, r.aggothernonce)
             signed == SignedBy(r, AggregateOf(r))
             answer == [pubnonce |-> NonceOf(r).pubnonce, psig |-> signed.val]
             ended == DeterministicSign(r)
  <1>1. ended = IF Succeeds(valid)
                 THEN IF Succeeds(tweaked)
                      THEN IF Succeeds(inputs) THEN SignUnder(r, inputs.val) ELSE inputs
                      ELSE tweaked
                 ELSE valid
    BY DEF DeterministicSign, Then, Tweaked, InputsOf
  <1>2. SignUnder(r, inputs.val) = IF Succeeds(agg)
                                   THEN IF Succeeds(signed) THEN Returns(answer) ELSE signed
                                   ELSE agg
    BY DEF SignUnder, Then, SignedBy, AggregateOf, NonceOf, WithAggnonce
  <1>3. valid = Returns(TRUE) \/ IsValueError(valid) BY ParamsChecked
  <1> HIDE DEF valid, tweaked, inputs, agg, signed, answer, ended
  <1>4. Succeeds(ended) BY DEF ended
  <1>5. /\ Succeeds(valid) /\ Succeeds(tweaked) /\ Succeeds(inputs) /\ Succeeds(agg)
        /\ Succeeds(signed) /\ ended = Returns(answer)
    BY <1>1, <1>2, <1>4
  <1>6. valid = Returns(TRUE) BY <1>3, <1>5, KindsDiffer
  <1> QED BY <1>5, <1>6 DEF ValidContext, valid, tweaked, inputs, agg, signed, answer, ended

\* An aggregate nonce that is made is a result.
LEMMA AggregateMade ==
  ASSUME NEW pubnonce, NEW others, Succeeds(AggnonceWith(pubnonce, others))
  PROVE  /\ AggnonceWith(pubnonce, others) = Returns(AggnonceWith(pubnonce, others).val)
         /\ others # Omitted =>
              AggnonceWith(pubnonce, others) = NonceAgg(<<pubnonce, others>>)
  <1> DEFINE agg == NonceAgg(<<pubnonce, others>>)
  <1>1. CASE others = Omitted BY <1>1 DEF AggnonceWith, Returns
  <1>2. CASE others # Omitted
    <2>1. AggnonceWith(pubnonce, others)
            = IF Succeeds(agg) \/ agg = AssertionError THEN agg
              ELSE InvalidContribution(None, "aggothernonce")
      BY <1>2 DEF AggnonceWith
    <2>2. AssertionError.kind # "returns"
          /\ InvalidContribution(None, "aggothernonce").kind # "returns"
      BY DEF AssertionError, InvalidContribution
    <2>3. Succeeds(agg) => agg = Returns(agg.val) BY NonceAggSucceeds
    <2> HIDE DEF agg
    <2>4. AggnonceWith(pubnonce, others) = agg /\ Succeeds(agg) BY <2>1, <2>2 DEF Succeeds
    <2> QED BY <2>3, <2>4 DEF agg
  <1> QED BY <1>1, <1>2

\* What sign checks before it returns a partial signature.
LEMMA SignChecks ==
  ASSUME NEW nonce, NEW secshare, NEW my_id, NEW ctx,
         Succeeds(SignResult(nonce, secshare, my_id, ctx))
  PROVE  /\ Succeeds(GetSessionValues(ctx))
         /\ nonce[1] \in NonZero /\ nonce[2] \in NonZero /\ secshare \in NonZero
         /\ my_id \in ToSet(ctx.ids)
  <1> DEFINE values == GetSessionValues(ctx)
             v == values.val
             ended == SignResult(nonce, secshare, my_id, ctx)
  <1>1. ended = IF Succeeds(values) THEN SignWith(nonce, secshare, my_id, ctx, v) ELSE values
    BY DEF SignResult, Then
  <1> HIDE DEF values, v, ended
  <1>2. Succeeds(values) /\ Succeeds(SignWith(nonce, secshare, my_id, ctx, v))
    BY <1>1 DEF ended
  <1>3. /\ \A j \in 1 .. 2 : NonZeroScalarInRange(nonce[j])
        /\ NonZeroScalarInRange(secshare) /\ my_id \in ToSet(ctx.ids)
    <2>1. \A check : ~ Succeeds(ValueError(check)) BY ValueErrorsAre, KindsDiffer
    <2>2. /\ NonZeroScalarInRange(nonce[1]) /\ NonZeroScalarInRange(nonce[2])
          /\ NonZeroScalarInRange(secshare) /\ my_id \in ToSet(ctx.ids)
      BY <1>2, <2>1 DEF SignWith
    <2> QED BY <2>2
  <1> QED BY <1>2, <1>3 DEF NonZeroScalarInRange, values

\* Under the session values, the answer is the partial signature of round two.
LEMMA CallAnswers ==
  ASSUME NEW r \in Requests, Succeeds(DeterministicSign(r))
  PROVE  AnswerOf(r)
  <1> DEFINE x == InputsOf(r)
             k(i) == ScalarOf(DetNonceHash(x, i))
             made == AggnonceWith(NonceOf(r).pubnonce, r.aggothernonce)
  <1>1. DeriveNonce(x) = Returns(NonceGen(k(0), k(1)))
    BY StepsOfCall DEF DeriveNonce, Succeeds, AssertionError
  <1>2. NonceOf(r) = NonceGen(k(0), k(1)) BY <1>1 DEF NonceOf, Returns
  <1>3. NonceOf(r).secnonce = <<k(0), k(1)>> BY <1>2 DEF NonceGen
  <1> HIDE DEF k, x, made
  <1>4. k(0) \in NonZero /\ k(1) \in NonZero
    <2>1. Succeeds(SignResult(NonceOf(r).secnonce, r.secshare, r.my_id,
                              WithAggnonce(r, AggregateOf(r))))
      BY StepsOfCall DEF SignedBy
    <2>2. NonceOf(r).secnonce[1] \in NonZero /\ NonceOf(r).secnonce[2] \in NonZero
      BY <2>1, SignChecks
    <2> QED BY <1>3, <2>2
  <1>5. NonceIsGenerated(r) BY <1>1, <1>4 DEF NonceIsGenerated, x
  <1>6. Succeeds(made) => made = Returns(made.val) BY AggregateMade DEF made
  <1>7. made = Returns(AggregateOf(r)) BY <1>6, StepsOfCall DEF AggregateOf, made
  <1> QED BY <1>5, <1>7, StepsOfCall DEF AnswerOf, made


\* The ids of a session that is valid, with or without public shares.
LEMMA ValidSigners ==
  ASSUME NEW r \in Requests, ValidContext(r.ctx)
  PROVE  SignerIds(r.ctx.ids) /\ Len(r.ctx.ids) >= 1
  <1> DEFINE n == r.ctx.n
             t == r.ctx.t
             ids == r.ctx.ids
  <1>1. ParamsPass(n, t, ids, r.ctx.knows_pubshares, r.ctx.pubshares, r.ctx.thresh_pk)
    BY ParamsChecked DEF ValidContext
  <1>2. /\ t \in 1 .. n /\ ~ (n > MaxParticipants) /\ Len(ids) \in t .. n
        /\ \A k \in DOMAIN ids : ids[k] \in 0 .. n - 1
        /\ IsInjective(ids)
    BY <1>1 DEF ParamsPass, HasDuplicates
  <1>3. n \in Int /\ t \in Int /\ ids \in Seq(Nat) BY RequestsAssumption
  <1> HIDE DEF n, t, ids
  <1>4. \A k \in DOMAIN ids : ids[k] < MaxParticipants
    BY <1>2, <1>3, ParticipantsAssumption
  <1>5. Len(ids) >= 1 BY <1>2, <1>3
  <1> QED BY <1>2, <1>3, <1>4, <1>5 DEF SignerIds, ids

\* The session values of an answer are as get_session_values computes them.
SessionValues(r) == GetSessionValues(WithAggnonce(r, AggregateOf(r))).val

\* Those values exist, and are the ones that the laws of signing speak of.
LEMMA ValuesOfAnswer ==
  ASSUME NEW r \in Requests, AnswerOf(r)
  PROVE  LET v == SessionValues(r)
             session == WithAggnonce(r, AggregateOf(r))
         IN  /\ GetSessionValues(session) = Returns(v)
             /\ ValuesOk(session, v) /\ Coefficients(v)
             /\ Tweaked(r).val.Q = v.Q
  <1> DEFINE session == WithAggnonce(r, AggregateOf(r))
             v == SessionValues(r)
  <1>1. SessionShape(session) /\ session.thresh_pk = r.ctx.thresh_pk
        /\ session.tweaks = r.ctx.tweaks /\ session.is_xonly = r.ctx.is_xonly
    BY Fields
  <1>2. Succeeds(GetSessionValues(session))
    BY SignChecks DEF AnswerOf, SignedBy
  <1> HIDE DEF session
  <1>3. GetSessionValues(session) = Returns(v) /\ ValuesOk(session, v)
    BY <1>1, <1>2, SessionValuesReturned DEF SessionValues, session
  <1> HIDE DEF v
  <1>4. Coefficients(v) BY <1>3 DEF ValuesOk, Coefficients
  <1>5. Tweaked(r).val.Q = v.Q
    <2>1. Tweaked(r) = Returns([Q |-> v.Q, gacc |-> v.gacc, tacc |-> v.tacc])
      BY <1>1, <1>3 DEF ValuesOk, Tweaked
    <2> QED BY <2>1 DEF Returns
  <1> QED BY <1>3, <1>4, <1>5 DEF session, v

-----------------------------------------------------------------------------
(* The history of calls.                                                   *)

\* What the history may hold.
Entries == {[request |-> r, result |-> DeterministicSign(r)] : r \in Requests}

\* The signer keeps nothing between calls: each result is what the function
\* returns for its request.
Stateless == calls \in Seq(Entries)

\* That is inductive: a call appends one such entry.
LEMMA CallsAreStateless == Spec => []Stateless
  <1>1. Init => Stateless BY DEF Init, Stateless
  <1>2. Stateless /\ [Next]_calls => Stateless'
    <2> SUFFICES ASSUME Stateless, [Next]_calls PROVE Stateless'
      OBVIOUS
    <2>1. CASE UNCHANGED calls BY <2>1 DEF Stateless, Entries
    <2>2. ASSUME NEW r \in Requests, Call(r) PROVE Stateless'
      <3> DEFINE entry == [request |-> r, result |-> DeterministicSign(r)]
      <3>1. calls' = Append(calls, entry) BY <2>2 DEF Call
      <3>2. entry \in Entries BY DEF Entries
      <3> HIDE DEF entry
      <3> QED BY <3>1, <3>2 DEF Stateless, Entries
    <2> QED BY <2>1, <2>2 DEF Next
  <1> QED BY <1>1, <1>2, PTL DEF Spec

\* Every answer is one of a request.
LEMMA AnswersAnswer ==
  ASSUME Stateless, NEW a \in answers
  PROVE  /\ a.request \in Requests /\ AnswerOf(a.request)
         /\ a.pubnonce = NonceOf(a.request).pubnonce
         /\ a.psig = SignedBy(a.request, AggregateOf(a.request)).val
  <1>1. PICK k \in DOMAIN calls : Succeeds(calls[k].result) /\ a = Answered(calls[k])
    BY DEF answers
  <1>2. PICK r \in Requests : calls[k] = [request |-> r, result |-> DeterministicSign(r)]
    BY DEF Stateless, Entries
  <1>3. a.request = r /\ a.pubnonce = DeterministicSign(r).val.pubnonce
        /\ a.psig = DeterministicSign(r).val.psig
    BY <1>1, <1>2 DEF Answered
  <1>4. AnswerOf(r) BY <1>1, <1>2, CallAnswers
  <1>5. DeterministicSign(r).val = [pubnonce |-> NonceOf(r).pubnonce,
                                    psig |-> SignedBy(r, AggregateOf(r)).val]
    BY <1>4 DEF AnswerOf, Returns
  <1> QED BY <1>3, <1>4, <1>5

-----------------------------------------------------------------------------
(* One nonce serves one challenge.                                         *)

\* Requests that hash the same inputs agree on what the hash binds.
LEMMA InputsBind ==
  ASSUME NEW r, NEW s, InputsOf(r) = InputsOf(s)
  PROVE  /\ r.my_id = s.my_id /\ Len(r.ctx.ids) = Len(s.ctx.ids)
         /\ SerializeIds(r.ctx.ids) = SerializeIds(s.ctx.ids)
         /\ r.aggothernonce = s.aggothernonce /\ r.ctx.msg = s.ctx.msg
         /\ ToXonly(Tweaked(r).val.Q) = ToXonly(Tweaked(s).val.Q)
  <1>1. ASSUME NEW q
        PROVE  /\ InputsOf(q)[2] = q.my_id /\ InputsOf(q)[3] = Len(q.ctx.ids)
               /\ InputsOf(q)[4] = SerializeIds(q.ctx.ids) /\ InputsOf(q)[5] = q.aggothernonce
               /\ InputsOf(q)[6] = ToXonly(Tweaked(q).val.Q) /\ InputsOf(q)[7] = q.ctx.msg
    BY DEF InputsOf, InputsUnder, DetNonceInputs, GetXonlyPk, Tweaked
  <1> QED BY <1>1

\* Two answers to the same inputs share everything that enters their signatures
\* but the sign of the share.
LEMMA SameInputsSameChallenge ==
  ASSUME NEW r \in Requests, AnswerOf(r), NEW s \in Requests, AnswerOf(s),
         InputsOf(r) = InputsOf(s)
  PROVE  /\ NonceOf(r).pubnonce = NonceOf(s).pubnonce
         /\ SessionValues(r).b = SessionValues(s).b
         /\ SessionValues(r).R = SessionValues(s).R
         /\ SessionValues(r).e = SessionValues(s).e
         /\ DeriveInterpolatingValue(r.ctx.ids, r.my_id)
              = DeriveInterpolatingValue(s.ctx.ids, s.my_id)
  <1> DEFINE v == SessionValues(r)
             w == SessionValues(s)
             agg == AggregateOf(r)
  <1>1. NonceOf(r) = NonceOf(s) /\ AggregateOf(s) = agg
    BY InputsBind DEF NonceOf, AggregateOf
  <1> DEFINE session(q) == WithAggnonce(q, agg)
  <1>2. /\ v.b = ScalarOf(NonceCoefHash(Len(r.ctx.ids), SerializeIds(r.ctx.ids), agg,
                                        ToXonly(v.Q), r.ctx.msg))
        /\ v.R = FinalNonce(agg, v.b)
        /\ v.e = ScalarOf(ChallengeHash(ToXonly(v.R), ToXonly(v.Q), r.ctx.msg))
        /\ v.Q = Tweaked(r).val.Q
    <2>1. ValuesOk(session(r), v) /\ v.Q = Tweaked(r).val.Q BY ValuesOfAnswer
    <2>2. session(r).ids = r.ctx.ids /\ session(r).aggnonce = agg /\ session(r).msg = r.ctx.msg
      BY Fields
    <2> HIDE DEF session, v, agg
    <2> QED BY <2>1, <2>2 DEF ValuesOk
  <1>3. /\ w.b = ScalarOf(NonceCoefHash(Len(s.ctx.ids), SerializeIds(s.ctx.ids), agg,
                                        ToXonly(w.Q), s.ctx.msg))
        /\ w.R = FinalNonce(agg, w.b)
        /\ w.e = ScalarOf(ChallengeHash(ToXonly(w.R), ToXonly(w.Q), s.ctx.msg))
        /\ w.Q = Tweaked(s).val.Q
    <2>1. ValuesOk(session(s), w) /\ w.Q = Tweaked(s).val.Q BY <1>1, ValuesOfAnswer
    <2>2. session(s).ids = s.ctx.ids /\ session(s).aggnonce = agg /\ session(s).msg = s.ctx.msg
      BY Fields
    <2> HIDE DEF session, w, agg
    <2> QED BY <2>1, <2>2 DEF ValuesOk
  <1>4. ToSet(r.ctx.ids) = ToSet(s.ctx.ids)
    <2>1. SignerIds(r.ctx.ids) /\ SignerIds(s.ctx.ids) BY ValidSigners DEF AnswerOf
    <2>2. ASSUME NEW ids, SignerIds(ids)
          PROVE  ToSet(ids) = {SerializeIds(ids)[k] : k \in 1 .. Len(ids)}
      BY <2>2, SerializedSigners
    <2>3. Len(r.ctx.ids) = Len(s.ctx.ids) /\ SerializeIds(r.ctx.ids) = SerializeIds(s.ctx.ids)
      BY InputsBind
    <2>4. ToSet(r.ctx.ids) = {SerializeIds(s.ctx.ids)[k] : k \in 1 .. Len(s.ctx.ids)}
      BY <2>1, <2>2, <2>3
    <2> QED BY <2>1, <2>2, <2>4
  <1>5. DeriveInterpolatingValue(r.ctx.ids, r.my_id)
          = DeriveInterpolatingValue(s.ctx.ids, s.my_id)
    BY <1>4, InputsBind DEF DeriveInterpolatingValue
  <1> HIDE DEF v, w, agg
  <1>6. v.b = w.b BY <1>2, <1>3, InputsBind
  <1>7. v.R = w.R BY <1>2, <1>3, <1>6
  <1>8. v.e = w.e BY <1>2, <1>3, <1>7, InputsBind
  <1> QED BY <1>1, <1>5, <1>6, <1>7, <1>8 DEF v, w

\* deterministic_sign may be called with whatever the coordinator likes: two
\* answers under one derived nonce answer one challenge of one set of signers.
THEOREM OneNonceOneChallenge == Spec => []NonceServesOneChallenge
  <1>1. ASSUME Stateless, NEW a \in answers
        PROVE  ValuesOf(a) = SessionValues(a.request)
    BY <1>1, AnswersAnswer DEF ValuesOf, SessionValues, AggregateOf, WithAggnonce
  <1>2. Stateless => NonceServesOneChallenge
    <2> SUFFICES ASSUME Stateless, NEW a1 \in answers, NEW a2 \in answers,
                        InputsOf(a1.request) = InputsOf(a2.request)
                 PROVE  /\ a1.pubnonce = a2.pubnonce
                        /\ ValuesOf(a1).b = ValuesOf(a2).b /\ ValuesOf(a1).R = ValuesOf(a2).R
                        /\ ValuesOf(a1).e = ValuesOf(a2).e
                        /\ DeriveInterpolatingValue(a1.request.ctx.ids, a1.request.my_id)
                             = DeriveInterpolatingValue(a2.request.ctx.ids, a2.request.my_id)
      BY DEF NonceServesOneChallenge
    <2> QED BY <1>1, AnswersAnswer, SameInputsSameChallenge
  <1> QED BY <1>2, CallsAreStateless, PTL

-----------------------------------------------------------------------------
(* The aggregate of all public nonces.                                     *)

\* A sum of one and of two.
LEMMA ShortSums ==
  ASSUME NEW f
  PROVE  /\ f[1] \in Scalars => SumOver({1}, f) = f[1]
         /\ f[1] \in Scalars /\ f[2] \in Scalars => SumOver({1, 2}, f) = Add(f[1], f[2])
  <1>1. IsFiniteSet({}) /\ IsFiniteSet({1}) /\ IsFiniteSet({2}) /\ IsFiniteSet({1, 2})
    <2>1. IsFiniteSet({}) BY FS_EmptySet
    <2>2. IsFiniteSet({1}) /\ IsFiniteSet({2}) BY FS_Singleton
    <2>3. IsFiniteSet({1} \cup {2}) /\ {1} \cup {2} = {1, 2} BY <2>2, FS_AddElement
    <2> QED BY <2>1, <2>2, <2>3
  <1>2. ASSUME NEW i \in {1, 2}, f[i] \in Scalars PROVE SumOver({i}, f) = f[i]
    <2>1. SumOver({}, f) = 0 BY <1>1, SumLaws DEF ScalarsOn
    <2>2. {i} \ {i} = {} /\ ScalarsOn({i}, f) BY <1>2 DEF ScalarsOn
    <2>3. IsFiniteSet({i}) /\ i \in {i} BY <1>1
    <2>4. SumOver({i}, f) = Add(f[i], SumOver({i} \ {i}, f)) BY <2>2, <2>3, SumLaws
    <2> QED BY <1>2, <2>1, <2>2, <2>4, UnitsAndNegation
  <1>3. ASSUME f[1] \in Scalars, f[2] \in Scalars PROVE SumOver({1, 2}, f) = Add(f[1], f[2])
    <2>1. {1, 2} \ {1} = {2} /\ ScalarsOn({1, 2}, f) BY <1>3 DEF ScalarsOn
    <2>2. SumOver({1, 2}, f) = Add(f[1], SumOver({2}, f)) BY <1>1, <2>1, SumLaws
    <2> QED BY <1>2, <1>3, <2>2
  <1> QED BY <1>2, <1>3

\* All public nonces of the session, the deterministic signer's in its place.
AllPubnonces(r) == [OtherPubnonces(r) EXCEPT ![MyPosition(r)] = NonceOf(r).pubnonce]

\* A request of an honest coordinator to a signer that holds its own share.
HonestRequest(r) == r \in Requests /\ FromHonestCoordinator(r) /\ HoldsItsShare(r)

\* What an honest coordinator and a signer with its own share set up.
LEMMA HonestSetup ==
  ASSUME NEW r, HonestRequest(r)
  PROVE  /\ ValidParams(r.ctx.n, r.ctx.t, r.ctx.ids, r.ctx.pubshares, r.ctx.thresh_pk)
         /\ SignerIds(r.ctx.ids) /\ Len(r.ctx.ids) >= 1
         /\ Pubshares(r.ctx.ids, r.ctx.pubshares)
         /\ r.ctx.thresh_pk \in NonZero
         /\ r.ctx.thresh_pk = SumOfShares(r.ctx.ids, r.ctx.pubshares)
         /\ MyPosition(r) \in DOMAIN r.ctx.ids /\ r.ctx.ids[MyPosition(r)] = r.my_id
         /\ \A k \in DOMAIN r.ctx.ids : r.ctx.ids[k] = r.my_id => k = MyPosition(r)
         /\ r.shares = r.ctx.pubshares /\ r.secshare = r.ctx.pubshares[MyPosition(r)]
         /\ \A k \in DOMAIN r.ctx.ids : r.others[k] \in NonZero \X NonZero
  <1> DEFINE ids == r.ctx.ids
  <1>1. ValidParams(r.ctx.n, r.ctx.t, ids, r.ctx.pubshares, r.ctx.thresh_pk)
    BY HonestyAssumption, RequestsAssumption DEF HonestRequest, ValidParams
  <1>2. /\ SignerIds(ids) /\ Len(ids) >= 1 /\ Pubshares(ids, r.ctx.pubshares)
        /\ r.ctx.thresh_pk \in NonZero /\ r.ctx.thresh_pk = SumOfShares(ids, r.ctx.pubshares)
    BY <1>1, Validated
  <1>3. \E k \in DOMAIN ids : ids[k] = r.my_id
    BY DEF HonestRequest, FromHonestCoordinator, ToSet
  <1>4. MyPosition(r) \in DOMAIN ids /\ ids[MyPosition(r)] = r.my_id BY <1>3 DEF MyPosition
  <1>5. \A k \in DOMAIN ids : ids[k] = r.my_id => k = MyPosition(r)
    BY <1>2, <1>4 DEF SignerIds, IsInjective
  <1>6. /\ r.shares = r.ctx.pubshares
        /\ \A k \in DOMAIN ids : r.others[k] \in NonZero \X NonZero
    BY HonestyAssumption DEF HonestRequest
  <1>7. r.secshare = r.ctx.pubshares[MyPosition(r)] BY <1>6 DEF HonestRequest, HoldsItsShare
  <1> HIDE DEF ids
  <1> QED BY <1>1, <1>2, <1>4, <1>5, <1>6, <1>7 DEF ids

\* Every nonce of an honest session decodes.
LEMMA AllDecode ==
  ASSUME NEW r, HonestRequest(r), NonceIsGenerated(r)
  PROVE  /\ DOMAIN AllPubnonces(r) = 1 .. Len(r.ctx.ids)
         /\ AllPubnonces(r)[MyPosition(r)] = NonceOf(r).pubnonce
         /\ NonceOf(r).pubnonce = NonceOf(r).secnonce
         /\ NonceOf(r).pubnonce \in NonZero \X NonZero
         /\ \A k \in 1 .. Len(r.ctx.ids) :
              k # MyPosition(r) => /\ AllPubnonces(r)[k] = r.others[k]
                                   /\ OtherPubnonces(r)[k] = r.others[k]
         /\ \A k \in 1 .. Len(r.ctx.ids) : AllPubnonces(r)[k] \in NonZero \X NonZero
  <1> DEFINE n == Len(r.ctx.ids)
             mine == MyPosition(r)
             others == OtherPubnonces(r)
             all == AllPubnonces(r)
  <1>1. r.ctx.ids \in Seq(Nat) /\ DOMAIN r.ctx.ids = 1 .. n /\ mine \in 1 .. n
    BY HonestSetup DEF SignerIds
  <1>2. ASSUME NEW k_1 \in NonZero, NEW k_2 \in NonZero
        PROVE  /\ NonceGen(k_1, k_2).pubnonce = <<k_1, k_2>>
               /\ NonceGen(k_1, k_2).secnonce = <<k_1, k_2>>
    <2>1. k_1 \in Scalars /\ k_2 \in Scalars BY DEF NonZero
    <2>2. Mul(k_1, 1) = k_1 /\ Mul(k_2, 1) = k_2 BY <2>1, UnitsAndNegation
    <2> QED BY <2>2 DEF NonceGen, G
  <1>3. /\ NonceOf(r).pubnonce = NonceOf(r).secnonce
        /\ NonceOf(r).pubnonce \in NonZero \X NonZero
    <2>1. PICK k_1 \in NonZero, k_2 \in NonZero :
            DeriveNonce(InputsOf(r)) = Returns(NonceGen(k_1, k_2))
      BY DEF NonceIsGenerated
    <2>2. NonceOf(r) = NonceGen(k_1, k_2) BY <2>1 DEF NonceOf, Returns
    <2> QED BY <1>2, <2>2
  <1>4. /\ DOMAIN others = 1 .. n
        /\ \A k \in 1 .. n : k # mine => others[k] = NonceGen(r.others[k][1], r.others[k][2]).pubnonce
    BY <1>1 DEF OtherPubnonces
  <1>5. ASSUME NEW k \in 1 .. n PROVE r.others[k] \in NonZero \X NonZero BY <1>1, HonestSetup
  <1>6. ASSUME NEW k \in 1 .. n, k # mine PROVE others[k] = r.others[k]
    <2>1. PICK k_1 \in NonZero, k_2 \in NonZero : r.others[k] = <<k_1, k_2>> BY <1>5
    <2>2. others[k] = NonceGen(k_1, k_2).pubnonce BY <1>4, <1>6, <2>1
    <2> QED BY <1>2, <2>1, <2>2
  <1>7. /\ DOMAIN all = 1 .. n /\ all[mine] = NonceOf(r).pubnonce
        /\ \A k \in 1 .. n : k # mine => all[k] = others[k]
    <2> HIDE DEF others, mine
    <2> QED BY <1>1, <1>4 DEF AllPubnonces, others, mine
  <1> HIDE DEF n, mine, others, all
  <1>8. ASSUME NEW k \in 1 .. n PROVE all[k] \in NonZero \X NonZero
    BY <1>3, <1>5, <1>6, <1>7
  <1> QED BY <1>3, <1>6, <1>7, <1>8 DEF n, mine, others, all

\* What the coordinator makes of the nonces, with and without that of the
\* deterministic signer: the aggregate of all is its nonce added to the others.
NoncesAddUp(r) ==
  IF Len(r.ctx.ids) = 1
  THEN /\ r.aggothernonce = Omitted
       /\ NonceAgg(AllPubnonces(r)) = Returns(NonceOf(r).pubnonce)
  ELSE \E S1, S2 \in Scalars :
         /\ r.aggothernonce = <<S1, S2>>
         /\ NonceAgg(AllPubnonces(r))
              = Returns(<<Add(NonceOf(r).pubnonce[1], S1), Add(NonceOf(r).pubnonce[2], S2)>>)

\* Aggregating in two steps, first the others, gives the sum of all nonces.
LEMMA NoncesCombine ==
  ASSUME NEW r, HonestRequest(r), NonceIsGenerated(r)
  PROVE  NoncesAddUp(r)
  <1> DEFINE n == Len(r.ctx.ids)
             mine == MyPosition(r)
             others == OtherPubnonces(r)
             all == AllPubnonces(r)
             pub == NonceOf(r).pubnonce
             F(j) == [i \in DOMAIN all |-> all[i][j]]
  <1>1. n \in Nat /\ n >= 1 /\ mine \in 1 .. n /\ DOMAIN others = 1 .. n
    <2>1. r.ctx.ids \in Seq(Nat) /\ n >= 1 /\ mine \in DOMAIN r.ctx.ids
      BY HonestSetup DEF SignerIds
    <2> QED BY <2>1 DEF OtherPubnonces
  <1>2. /\ DOMAIN all = 1 .. n /\ all[mine] = pub /\ pub \in NonZero \X NonZero
        /\ \A k \in 1 .. n : k # mine => all[k] = others[k]
        /\ \A k \in 1 .. n : all[k] \in NonZero \X NonZero
    BY AllDecode
  <1>3. others = [k \in 1 .. n |-> others[k]] BY <1>1 DEF OtherPubnonces
  <1>4. r.aggothernonce = IF n = 1 THEN Omitted ELSE NonceAgg(RemoveAt(others, mine)).val
    BY DEF HonestRequest, FromHonestCoordinator
  <1> HIDE DEF n, mine, others, all, pub
  <1>5. NonceAgg(all) = Returns(<<SumOver(1 .. n, F(1)), SumOver(1 .. n, F(2))>>)
    BY <1>2, NonceAggSums
  <1>6. IsFiniteSet(1 .. n) /\ IsFiniteSet(1 .. n - 1) BY <1>1, FS_Interval
  <1>7. ASSUME NEW j \in {1, 2}
        PROVE  ScalarsOn(1 .. n, F(j)) /\ F(j)[mine] = pub[j] /\ pub[j] \in Scalars
    BY <1>1, <1>2 DEF ScalarsOn, NonZero
  <1>8. CASE n = 1
    <2>1. 1 .. n = {1} /\ mine = 1 BY <1>1, <1>8
    <2>2. F(1)[1] = pub[1] /\ F(2)[1] = pub[2] /\ pub[1] \in Scalars /\ pub[2] \in Scalars
      BY <1>7, <2>1
    <2> HIDE DEF F
    <2>3. SumOver(1 .. n, F(1)) = pub[1] /\ SumOver(1 .. n, F(2)) = pub[2]
      BY <2>1, <2>2, ShortSums
    <2>4. <<pub[1], pub[2]>> = pub BY <1>2
    <2> QED BY <1>4, <1>5, <1>8, <2>3, <2>4 DEF NoncesAddUp, n, all, pub
  <1>9. CASE n # 1
    <2> DEFINE V == {others[k] : k \in 1 .. n}
               rest == RemoveAt(others, mine)
               H(j) == [i \in DOMAIN rest |-> rest[i][j]]
               place(k) == IF k < mine THEN k ELSE k + 1
    <2>1. others \in Seq(V) /\ Len(others) = n
      <3>1. others \in [1 .. n -> V] BY <1>3
      <3> HIDE DEF V
      <3> QED BY <1>1, <3>1
    <2>2. DOMAIN rest = 1 .. n - 1 /\ \A k \in 1 .. n - 1 : rest[k] = others[place(k)]
      <3> HIDE DEF V
      <3> QED BY <1>1, <2>1, Removed
    <2>3. ASSUME NEW k \in 1 .. n - 1
          PROVE  rest[k] = all[place(k)] /\ rest[k] \in NonZero \X NonZero
      <3>1. place(k) \in 1 .. n /\ place(k) # mine BY <1>1
      <3> HIDE DEF place
      <3> QED BY <1>2, <2>2, <3>1
    <2> HIDE DEF rest, V
    <2>4. NonceAgg(rest) = Returns(<<SumOver(1 .. n - 1, H(1)), SumOver(1 .. n - 1, H(2))>>)
      BY <2>2, <2>3, NonceAggSums
    <2>5. ASSUME NEW j \in {1, 2}
          PROVE  /\ SumOver(1 .. n - 1, H(j)) \in Scalars
                 /\ SumOver(1 .. n, F(j)) = Add(pub[j], SumOver(1 .. n - 1, H(j)))
      <3>1. ScalarsOn(1 .. n - 1, H(j)) BY <2>2, <2>3 DEF ScalarsOn, NonZero
      <3>2. ASSUME NEW k \in 1 .. n - 1 PROVE H(j)[k] = F(j)[place(k)]
        <4>1. place(k) \in 1 .. n BY <1>1
        <4> HIDE DEF place
        <4> QED BY <1>2, <2>2, <2>3, <4>1
      <3>3. \A k \in 1 .. n - 1 : H(j)[k] = F(j)[IF k < mine THEN k ELSE k + 1] BY <3>2
      <3> HIDE DEF H, F, place
      <3>4. SumOver(1 .. n, F(j)) = Add(F(j)[mine], SumOver(1 .. n - 1, H(j)))
        BY <1>1, <1>7, <3>3, SumWithout
      <3> QED BY <1>6, <1>7, <3>1, <3>4, SumLaws
    <2> HIDE DEF H, F
    <2>6. r.aggothernonce = <<SumOver(1 .. n - 1, H(1)), SumOver(1 .. n - 1, H(2))>>
      BY <1>4, <1>9, <2>4 DEF Returns, rest
    <2>7. NonceAgg(all) = Returns(<<Add(pub[1], SumOver(1 .. n - 1, H(1))),
                                    Add(pub[2], SumOver(1 .. n - 1, H(2)))>>)
      BY <1>5, <2>5
    <2> QED BY <1>9, <2>5, <2>6, <2>7 DEF NoncesAddUp, n, all, pub
  <1> QED BY <1>8, <1>9

\* The nonce that the signer signs under is the aggregate that the coordinator
\* computes later, if the signer can decode the others' aggregate; if it
\* cannot, that one is infinite in a component.
LEMMA SameAggregate ==
  ASSUME NEW r, HonestRequest(r), NonceIsGenerated(r)
  PROVE  LET made == AggnonceWith(NonceOf(r).pubnonce, r.aggothernonce)
         IN  \/ /\ Succeeds(made) /\ NonceAgg(AllPubnonces(r)) = Returns(AggregateOf(r))
                /\ AggregateOf(r)[1] \in Scalars /\ AggregateOf(r)[2] \in Scalars
             \/ /\ made = InvalidContribution(None, "aggothernonce")
                /\ Infinity \in ToSet(r.aggothernonce)
  <1> DEFINE pub == NonceOf(r).pubnonce
             other == r.aggothernonce
             made == AggnonceWith(pub, other)
             all == AllPubnonces(r)
             pair == <<pub, other>>
             F(j) == [i \in DOMAIN pair |-> pair[i][j]]
  <1>1. NoncesAddUp(r) BY NoncesCombine
  <1>2. pub \in NonZero \X NonZero BY AllDecode
  <1>3. CASE Len(r.ctx.ids) = 1
    <2>1. other = Omitted /\ NonceAgg(all) = Returns(pub) BY <1>1, <1>3 DEF NoncesAddUp
    <2>2. made = Returns(pub) BY <2>1 DEF AggnonceWith
    <2>3. AggregateOf(r) = pub BY <2>2 DEF AggregateOf, Returns
    <2>4. Succeeds(made) BY <2>2 DEF Succeeds, Returns
    <2> HIDE DEF pub, made
    <2> QED BY <1>2, <2>1, <2>3, <2>4 DEF NonZero, pub, made
  <1>4. CASE Len(r.ctx.ids) # 1
    <2>1. PICK S1 \in Scalars, S2 \in Scalars :
            other = <<S1, S2>> /\ NonceAgg(all) = Returns(<<Add(pub[1], S1), Add(pub[2], S2)>>)
      BY <1>1, <1>4 DEF NoncesAddUp
    <2>2. other # Omitted
      <3>1. Len(<<S1, S2>>) = 2 /\ Len(<<>>) = 0 OBVIOUS
      <3> QED BY <2>1, <3>1 DEF Omitted
    <2> HIDE DEF other, pub, all
    <2>3. made = IF Succeeds(NonceAgg(pair)) \/ NonceAgg(pair) = AssertionError
                 THEN NonceAgg(pair) ELSE InvalidContribution(None, "aggothernonce")
      BY <2>2 DEF AggnonceWith
    <2>4. DOMAIN pair = {1, 2} /\ pair[1] = pub /\ pair[2] = <<S1, S2>> BY <2>1
    <2> HIDE DEF pair
    <2>5. CASE S1 # Infinity /\ S2 # Infinity
      <3>1. \A i \in DOMAIN pair : pair[i][1] \in NonZero /\ pair[i][2] \in NonZero
        BY <1>2, <2>4, <2>5 DEF Infinity, NonZero
      <3>2. NonceAgg(pair) = Returns(<<SumOver({1, 2}, F(1)), SumOver({1, 2}, F(2))>>)
        BY <2>4, <3>1, NonceAggSums
      <3>3. /\ F(1)[1] = pub[1] /\ F(1)[2] = S1 /\ F(2)[1] = pub[2] /\ F(2)[2] = S2
            /\ pub[1] \in Scalars /\ pub[2] \in Scalars
        BY <1>2, <2>4 DEF NonZero
      <3> HIDE DEF F
      <3>4. SumOver({1, 2}, F(1)) = Add(pub[1], S1) /\ SumOver({1, 2}, F(2)) = Add(pub[2], S2)
        BY <3>3, ShortSums
      <3>5. NonceAgg(pair) = NonceAgg(all) BY <2>1, <3>2, <3>4
      <3>6. Succeeds(NonceAgg(pair)) BY <3>2 DEF Succeeds, Returns
      <3>7. made = Returns(<<Add(pub[1], S1), Add(pub[2], S2)>>) BY <2>1, <2>3, <3>5, <3>6
      <3>8. AggregateOf(r) = <<Add(pub[1], S1), Add(pub[2], S2)>>
        BY <3>7 DEF AggregateOf, Returns, made, pub, other
      <3>9. Add(pub[1], S1) \in Scalars /\ Add(pub[2], S2) \in Scalars BY <3>3, Closed
      <3>10. Succeeds(made) BY <3>7 DEF Succeeds, Returns
      <3> HIDE DEF made
      <3> QED BY <2>1, <3>8, <3>9, <3>10 DEF made, pub, other, all
    <2>6. CASE S1 = Infinity \/ S2 = Infinity
      <3>1. Infinity \in ToSet(other)
        <4>1. DOMAIN <<S1, S2>> = {1, 2} /\ <<S1, S2>>[1] = S1 /\ <<S1, S2>>[2] = S2 OBVIOUS
        <4> QED BY <2>1, <2>6, <4>1 DEF ToSet
      <3>2. ~ Succeeds(NonceAgg(pair))
        <4> DEFINE ids == <<0, 0>>
        <4>1. ids \in Seq(Nat) /\ DOMAIN ids = {1, 2} OBVIOUS
        <4>2. ASSUME Succeeds(NonceAgg(pair)) PROVE FALSE
          <5>1. NonceAgg(pair) = Returns(NonceAgg(pair).val) BY <4>2, NonceAggSucceeds
          <5> HIDE DEF ids
          <5>2. \A i \in {1, 2} : pair[i][1] \in NonZero /\ pair[i][2] \in NonZero
            BY <2>4, <4>1, <5>1, NonceAggReturned
          <5>3. S1 \in NonZero /\ S2 \in NonZero BY <2>4, <5>2
          <5> QED BY <2>6, <5>3 DEF Infinity, NonZero
        <4> QED BY <4>2
      <3>3. NonceAgg(pair) # AssertionError
        <4> DEFINE ids == <<0, 0>>
        <4>1. ids \in Seq(Nat) /\ DOMAIN ids = {1, 2} OBVIOUS
        <4>2. \A i \in {1, 2} : pair[i][1] # WrongLength /\ pair[i][2] # WrongLength
          <5>1. pub[1] \in Scalars /\ pub[2] \in Scalars BY <1>2 DEF NonZero
          <5>2. WrongLength \notin Scalars BY DEF WrongLength, Scalars
          <5> QED BY <2>4, <5>1, <5>2
        <4> HIDE DEF ids
        <4>3. \E i \in {1, 2} : NonceAgg(pair) = InvalidContribution(i, "pubnonce")
          BY <2>4, <3>2, <4>1, <4>2, NonceAggBlames
        <4>4. \A i : InvalidContribution(i, "pubnonce").kind # AssertionError.kind
          BY DEF InvalidContribution, AssertionError
        <4> QED BY <4>3, <4>4
      <3>4. made = InvalidContribution(None, "aggothernonce") BY <2>3, <3>2, <3>3
      <3> HIDE DEF made
      <3> QED BY <3>1, <3>4 DEF made, pub, other
    <2> QED BY <2>5, <2>6
  <1> QED BY <1>3, <1>4

-----------------------------------------------------------------------------
(* The partial signatures of an honest session.                            *)

\* v are the session values under the aggregate of all nonces.
UnderAll(r, agg, v) ==
  /\ HonestRequest(r) /\ NonceIsGenerated(r)
  /\ NonceAgg(AllPubnonces(r)) = Returns(agg)
  /\ GetSessionValues(WithAggnonce(r, agg)) = Returns(v)
  /\ ValuesOk(WithAggnonce(r, agg), v) /\ Coefficients(v)

\* The partial signature that round two prescribes for position k.
RightPsig(r, k, v) ==
  PartialSig(AllPubnonces(r)[k][1], AllPubnonces(r)[k][2], r.ctx.pubshares[k], r.ctx.ids[k],
             r.ctx.ids, v)

\* Whoever signs with its nonce and its share sends the one prescribed.
LEMMA EverySignerSigns ==
  ASSUME NEW r, NEW agg, NEW v, UnderAll(r, agg, v), NEW k \in DOMAIN r.ctx.ids,
         NEW nonce, nonce = AllPubnonces(r)[k]
  PROVE  SignResult(nonce, r.ctx.pubshares[k], r.ctx.ids[k], WithAggnonce(r, agg))
           = Returns(RightPsig(r, k, v))
  <1> DEFINE ctx == WithAggnonce(r, agg)
             share == r.ctx.pubshares[k]
             my_id == r.ctx.ids[k]
             signed(n) == Sign(n, share, my_id, ctx)
  <1>1. r \in Requests /\ HonestRequest(r) BY DEF UnderAll, HonestRequest
  <1>2. ctx.ids = r.ctx.ids /\ ctx.pubshares = r.ctx.pubshares BY <1>1, Fields
  <1>3. SignerIds(r.ctx.ids) /\ Pubshares(r.ctx.ids, r.ctx.pubshares) BY <1>1, HonestSetup
  <1>4. share \in NonZero BY <1>3 DEF Pubshares
  <1>5. \A j \in DOMAIN r.ctx.ids : r.ctx.ids[j] = my_id => r.ctx.pubshares[j] = share
    BY <1>3 DEF SignerIds, IsInjective
  <1>6. my_id \in ToSet(r.ctx.ids) BY DEF ToSet
  <1>7. PICK k_1 \in NonZero, k_2 \in NonZero : nonce = <<k_1, k_2>>
    <2>1. DOMAIN r.ctx.ids = 1 .. Len(r.ctx.ids) BY <1>3 DEF SignerIds
    <2>2. nonce \in NonZero \X NonZero BY <1>1, <2>1, AllDecode DEF UnderAll
    <2> QED BY <2>2
  <1>8. GetSessionValues(ctx) = Returns(v) /\ Coefficients(v) BY DEF UnderAll
  <1> HIDE DEF ctx, share, my_id
  <1>9. signed(<<k_1, k_2>>).result = Returns(PartialSig(k_1, k_2, share, my_id, ctx.ids, v))
    BY <1>2, <1>3, <1>4, <1>5, <1>6, <1>8, SignReturns
  <1>10. signed(nonce).result = SignResult(nonce, share, my_id, ctx) BY DEF Sign
  <1>11. PartialSig(k_1, k_2, share, my_id, ctx.ids, v) = RightPsig(r, k, v)
    BY <1>2, <1>7 DEF RightPsig, share, my_id
  <1> HIDE DEF signed
  <1> QED BY <1>7, <1>9, <1>10, <1>11 DEF ctx, share, my_id

\* All of them satisfy the verification equation.
LEMMA RightPsigsVerify ==
  ASSUME NEW r, NEW agg, NEW v, UnderAll(r, agg, v), NEW psigs,
         \A k \in DOMAIN r.ctx.ids : psigs[k] = RightPsig(r, k, v)
  PROVE  AllVerified(psigs, AllPubnonces(r), r.ctx.ids, r.ctx.pubshares, v)
  <1> DEFINE ids == r.ctx.ids
             all == AllPubnonces(r)
             shares == r.ctx.pubshares
  <1>1. SignerIds(ids) /\ Pubshares(ids, shares) /\ Coefficients(v)
    BY HonestSetup DEF UnderAll
  <1>2. ASSUME NEW k \in DOMAIN ids PROVE all[k] \in NonZero \X NonZero
    <2>1. DOMAIN ids = 1 .. Len(ids) BY <1>1 DEF SignerIds
    <2> QED BY <2>1, AllDecode DEF UnderAll
  <1>3. ASSUME NEW k \in DOMAIN ids
        PROVE  /\ psigs[k] \in Scalars /\ shares[k] \in Scalars
               /\ all[k][1] \in Scalars /\ all[k][2] \in Scalars
               /\ PartialSigEquation(psigs[k], ids[k], all[k], shares[k], ids, v)
    <2>1. PICK k_1 \in NonZero, k_2 \in NonZero : all[k] = <<k_1, k_2>> BY <1>2
    <2>2. k_1 \in Scalars /\ k_2 \in Scalars /\ shares[k] \in Scalars
      BY <1>1 DEF Pubshares, NonZero
    <2>3. ids[k] \in ToSet(ids) BY DEF ToSet
    <2>4. psigs[k] = PartialSig(k_1, k_2, shares[k], ids[k], ids, v) BY <2>1 DEF RightPsig
    <2>5. <<Mul(k_1, G), Mul(k_2, G)>> = all[k] /\ Mul(shares[k], G) = shares[k]
      BY <2>1, <2>2, UnitsAndNegation DEF G
    <2> HIDE DEF ids, all, shares
    <2>6. /\ PartialSig(k_1, k_2, shares[k], ids[k], ids, v) \in Scalars
          /\ PartialSigEquation(PartialSig(k_1, k_2, shares[k], ids[k], ids, v), ids[k],
                                <<Mul(k_1, G), Mul(k_2, G)>>, Mul(shares[k], G), ids, v)
      BY <1>1, <2>2, <2>3, SigningEquation
    <2> QED BY <2>1, <2>2, <2>4, <2>5, <2>6
  <1> QED BY <1>3 DEF AllVerified

\* The context that partial_sig_verify completes.
Completed(ctx, agg) == [ctx EXCEPT !.knows_pubshares = TRUE, !.aggnonce = agg]

\* partial_sig_verify recomputes the aggregate nonce that its context lacks.
LEMMA VerifyRecomputes ==
  ASSUME NEW ctx, NEW pubnonces, NEW i \in DOMAIN ctx.ids, NEW psig, NEW agg,
         Len(pubnonces) = Len(ctx.ids), Len(ctx.pubshares) = Len(ctx.ids),
         Len(ctx.tweaks) = Len(ctx.is_xonly),
         ValidateSessionParams(ctx.n, ctx.t, ctx.ids, TRUE, ctx.pubshares, ctx.thresh_pk)
           = Returns(TRUE),
         NonceAgg(pubnonces) = Returns(agg)
  PROVE  PartialSigVerify(psig, pubnonces, ctx, i)
           = PartialSigVerifyInternal(psig, ctx.ids[i], pubnonces[i], ctx.pubshares[i],
                                      Completed(ctx, agg))
  <1> DEFINE verify(nonce) ==
               PartialSigVerifyInternal(psig, ctx.ids[i], pubnonces[i], ctx.pubshares[i],
                 [ctx EXCEPT !.knows_pubshares = TRUE, !.aggnonce = nonce])
             valid == ValidateSessionParams(ctx.n, ctx.t, ctx.ids, TRUE, ctx.pubshares,
                                            ctx.thresh_pk)
             aggregate == NonceAgg(pubnonces)
  <1>1. PartialSigVerify(psig, pubnonces, ctx, i)
          = Then(valid, LAMBDA u : Then(aggregate, LAMBDA nonce : verify(nonce)))
    BY DEF PartialSigVerify
  <1>2. valid = Returns(TRUE) /\ aggregate = Returns(agg) OBVIOUS
  <1> HIDE DEF verify, valid, aggregate
  <1>3. PartialSigVerify(psig, pubnonces, ctx, i) = verify(agg)
    BY <1>1, <1>2 DEF Then, Succeeds, Returns
  <1> QED BY <1>3 DEF verify, Completed

\* With public shares, the session has the same values as without.
LEMMA ValuesWithPubshares ==
  ASSUME NEW r, NEW agg, NEW v, UnderAll(r, agg, v)
  PROVE  GetSessionValues(Completed(r.ctx, agg)) = Returns(v)
  <1> DEFINE full == Completed(r.ctx, agg)
             ctx == WithAggnonce(r, agg)
  <1>1. r \in Requests /\ HonestRequest(r) BY DEF UnderAll, HonestRequest
  <1>2. /\ full.n = r.ctx.n /\ full.t = r.ctx.t /\ full.ids = r.ctx.ids
        /\ full.knows_pubshares = TRUE /\ full.pubshares = r.ctx.pubshares
        /\ full.thresh_pk = r.ctx.thresh_pk /\ full.aggnonce = agg
        /\ full.tweaks = r.ctx.tweaks /\ full.is_xonly = r.ctx.is_xonly /\ full.msg = r.ctx.msg
    BY <1>1, RequestsAssumption DEF ContextFields, Completed
  <1>3. /\ ctx.n = r.ctx.n /\ ctx.t = r.ctx.t /\ ctx.ids = r.ctx.ids
        /\ ctx.knows_pubshares = r.ctx.knows_pubshares /\ ctx.pubshares = r.ctx.pubshares
        /\ ctx.thresh_pk = r.ctx.thresh_pk /\ ctx.aggnonce = agg
        /\ ctx.tweaks = r.ctx.tweaks /\ ctx.is_xonly = r.ctx.is_xonly /\ ctx.msg = r.ctx.msg
    BY <1>1, Fields
  <1>4. ValidateSessionParams(r.ctx.n, r.ctx.t, r.ctx.ids, TRUE, r.ctx.pubshares,
                              r.ctx.thresh_pk) = Returns(TRUE)
    BY <1>1, HonestSetup DEF ValidParams
  <1>5. r.ctx.knows_pubshares \in BOOLEAN BY <1>1, RequestsAssumption
  <1>6. GetSessionValues(ctx) = Returns(v) BY DEF UnderAll
  <1> HIDE DEF full, ctx
  <1>7. GetSessionValues(ctx) = GetSessionValues(full)
    <2> DEFINE knows == r.ctx.knows_pubshares
    <2>1. /\ ctx.n = full.n /\ ctx.t = full.t /\ ctx.ids = full.ids
          /\ ctx.knows_pubshares = knows /\ knows \in BOOLEAN /\ full.knows_pubshares = TRUE
          /\ ctx.pubshares = full.pubshares /\ ctx.thresh_pk = full.thresh_pk
          /\ ctx.aggnonce = full.aggnonce /\ ctx.tweaks = full.tweaks
          /\ ctx.is_xonly = full.is_xonly /\ ctx.msg = full.msg
      BY <1>2, <1>3, <1>5
    <2>2. ValidateSessionParams(full.n, full.t, full.ids, TRUE, full.pubshares, full.thresh_pk)
            = Returns(TRUE)
      BY <1>2, <1>4
    <2> HIDE DEF knows
    <2> QED BY <2>1, <2>2, SameSessionValues
  <1> QED BY <1>6, <1>7 DEF full

-----------------------------------------------------------------------------
(* An answer completes the session.                                        *)

\* An answer to an honest coordinator is made under the aggregate of all nonces.
LEMMA AnswerUnderAll ==
  ASSUME NEW r, HonestRequest(r), AnswerOf(r)
  PROVE  UnderAll(r, AggregateOf(r), SessionValues(r))
  <1> DEFINE made == AggnonceWith(NonceOf(r).pubnonce, r.aggothernonce)
  <1>1. r \in Requests /\ NonceIsGenerated(r) BY DEF HonestRequest, AnswerOf
  <1>2. made.kind = "returns" BY DEF AnswerOf, Returns
  <1>3. made # InvalidContribution(None, "aggothernonce") BY <1>2 DEF InvalidContribution
  <1>4. NonceAgg(AllPubnonces(r)) = Returns(AggregateOf(r)) BY <1>1, <1>3, SameAggregate
  <1> QED BY <1>1, <1>4, ValuesOfAnswer DEF UnderAll

\* partial_sig_verify accepts it.
LEMMA AnswerIsAccepted ==
  ASSUME NEW r, NEW agg, NEW v, UnderAll(r, agg, v)
  PROVE  PartialSigVerify(RightPsig(r, MyPosition(r), v), AllPubnonces(r), r.ctx, MyPosition(r))
           = Returns(TRUE)
  <1> DEFINE ids == r.ctx.ids
             mine == MyPosition(r)
             all == AllPubnonces(r)
             shares == r.ctx.pubshares
             psig == RightPsig(r, mine, v)
             full == Completed(r.ctx, agg)
  <1>1. HonestRequest(r) /\ r \in Requests /\ NonceIsGenerated(r)
        /\ NonceAgg(all) = Returns(agg)
    BY DEF UnderAll, HonestRequest
  <1>2. mine \in DOMAIN ids /\ SignerIds(ids) /\ Pubshares(ids, shares)
        /\ ValidateSessionParams(r.ctx.n, r.ctx.t, ids, TRUE, shares, r.ctx.thresh_pk)
             = Returns(TRUE)
    BY <1>1, HonestSetup DEF ValidParams
  <1>3. Len(all) = Len(ids) /\ \A k \in DOMAIN ids : all[k] \in NonZero \X NonZero
    <2> DEFINE n == Len(ids)
               V == NonZero \X NonZero
    <2>1. n \in Nat /\ DOMAIN ids = 1 .. n BY <1>2 DEF SignerIds
    <2>2. DOMAIN all = 1 .. n /\ \A k \in 1 .. n : all[k] \in V BY <1>1, AllDecode
    <2>3. all = [k \in DOMAIN all |-> all[k]] BY DEF AllPubnonces
    <2> HIDE DEF all, n, V
    <2>4. all \in [1 .. n -> V] BY <2>2, <2>3
    <2>5. Len(all) = n BY <2>1, <2>4
    <2> QED BY <2>1, <2>2, <2>5 DEF n, V
  <1>4. Len(r.ctx.tweaks) = Len(r.ctx.is_xonly)
    <2>1. Succeeds(ThreshPubkeyAndTweak(r.ctx.thresh_pk, r.ctx.tweaks, r.ctx.is_xonly))
      BY <1>1, HonestyAssumption DEF HonestRequest
    <2>2. ~ Succeeds(ValueError("tweak modes")) BY ValueErrorsAre, KindsDiffer
    <2> QED BY <2>1, <2>2 DEF ThreshPubkeyAndTweak
  <1>5. PartialSigVerify(psig, all, r.ctx, mine)
          = PartialSigVerifyInternal(psig, ids[mine], all[mine], shares[mine], full)
    <2> DEFINE ctx == r.ctx
    <2>1. /\ mine \in DOMAIN ctx.ids /\ Len(all) = Len(ctx.ids)
          /\ Len(ctx.pubshares) = Len(ctx.ids) /\ Len(ctx.tweaks) = Len(ctx.is_xonly)
          /\ ValidateSessionParams(ctx.n, ctx.t, ctx.ids, TRUE, ctx.pubshares, ctx.thresh_pk)
               = Returns(TRUE)
          /\ NonceAgg(all) = Returns(agg)
      BY <1>1, <1>2, <1>3, <1>4 DEF Pubshares
    <2>2. full = Completed(ctx, agg) OBVIOUS
    <2> HIDE DEF ctx, full, mine, all, psig
    <2>3. PartialSigVerify(psig, all, ctx, mine)
            = PartialSigVerifyInternal(psig, ctx.ids[mine], all[mine], ctx.pubshares[mine],
                                       Completed(ctx, agg))
      BY <2>1, VerifyRecomputes
    <2> QED BY <2>2, <2>3 DEF ctx
  <1>6. GetSessionValues(full) = Returns(v) BY ValuesWithPubshares
  <1>7. full.ids = ids BY <1>1, RequestsAssumption DEF ContextFields, Completed
  <1>8. psig \in Scalars /\ PartialSigEquation(psig, ids[mine], all[mine], shares[mine], ids, v)
    <2> DEFINE psigs == [k \in DOMAIN ids |-> RightPsig(r, k, v)]
    <2>1. AllVerified(psigs, all, ids, shares, v) BY RightPsigsVerify
    <2>2. psigs[mine] = psig BY <1>2
    <2> HIDE DEF psigs, psig, mine, all, ids, shares
    <2> QED BY <1>2, <2>1, <2>2 DEF AllVerified
  <1>9. all[mine][1] \in NonZero /\ all[mine][2] \in NonZero /\ shares[mine] \in NonZero
    BY <1>2, <1>3 DEF Pubshares
  <1> HIDE DEF ids, mine, all, shares, psig, full
  <1>10. PartialSigVerifyInternal(psig, ids[mine], all[mine], shares[mine], full) = Returns(TRUE)
    BY <1>6, <1>7, <1>8, <1>9, Acceptance
  <1> QED BY <1>5, <1>10 DEF mine, all, psig

\* The aggregate of all partial signatures verifies.
LEMMA AllAggregate ==
  ASSUME NEW r, NEW agg, NEW v, UnderAll(r, agg, v), NEW psigs,
         psigs = [k \in DOMAIN r.ctx.ids |-> RightPsig(r, k, v)],
         SessionNonce(agg, v.b) # Infinity
  PROVE  SchnorrVerify(r.ctx.msg, ToXonly(v.Q), PartialSigAgg(psigs, WithAggnonce(r, agg)).val)
  <1> DEFINE ids == r.ctx.ids
             all == AllPubnonces(r)
             ctx == WithAggnonce(r, agg)
             final == <<ToXonly(v.R), Add(SumOver(DOMAIN ids, psigs), TweakSummand(v))>>
  <1>1. HonestRequest(r) /\ r \in Requests /\ NonceIsGenerated(r)
        /\ NonceAgg(all) = Returns(agg) /\ ValuesOk(ctx, v) /\ GetSessionValues(ctx) = Returns(v)
    BY DEF UnderAll, HonestRequest
  <1>2. /\ ctx.ids = ids /\ ctx.pubshares = r.ctx.pubshares /\ ctx.thresh_pk = r.ctx.thresh_pk
        /\ ctx.aggnonce = agg /\ ctx.msg = r.ctx.msg
    BY <1>1, Fields
  <1>3. /\ SignerIds(ids) /\ r.ctx.thresh_pk \in NonZero
        /\ r.ctx.thresh_pk = SumOfShares(ids, r.ctx.pubshares)
    BY <1>1, HonestSetup
  <1>4. AllVerified(psigs, all, ids, r.ctx.pubshares, v) BY RightPsigsVerify
  <1>5. agg = <<SumOfNonces(all, ids, 1), SumOfNonces(all, ids, 2)>>
    <2>1. ids \in Seq(Nat) /\ DOMAIN all = DOMAIN ids BY <1>1, <1>3, AllDecode DEF SignerIds
    <2> HIDE DEF ids, all
    <2> QED BY <1>1, <2>1, NonceAggReturned
  <1>6. /\ DOMAIN psigs = DOMAIN ids /\ Len(psigs) = Len(ids)
        /\ \A i \in DOMAIN psigs : psigs[i] \in Scalars
    <2>1. ids \in Seq(Nat) /\ DOMAIN psigs = DOMAIN ids BY <1>3 DEF SignerIds
    <2>2. \A i \in DOMAIN ids : psigs[i] \in Scalars BY <1>4 DEF AllVerified
    <2> HIDE DEF ids
    <2>3. psigs = [k \in DOMAIN ids |-> psigs[k]] BY <2>1 DEF ids
    <2>4. DOMAIN ids = 1 .. Len(ids) /\ Len(ids) \in Nat BY <2>1
    <2>5. psigs \in [1 .. Len(ids) -> Scalars] BY <2>2, <2>3, <2>4
    <2>6. Len(psigs) = Len(ids) BY <2>4, <2>5
    <2> QED BY <2>1, <2>2, <2>6
  <1> HIDE DEF ids, all, ctx, final
  <1>7. SchnorrVerify(ctx.msg, ToXonly(v.Q), final)
    BY <1>1, <1>2, <1>3, <1>4, <1>5, AggregateVerifies DEF final
  <1>8. PartialSigAgg(psigs, ctx) = Returns(final)
    BY <1>1, <1>2, <1>6, AggregateReturned DEF final
  <1> QED BY <1>2, <1>7, <1>8 DEF Returns, ctx

\* What an answer is in the terms of the session it is an answer to.
LEMMA AnswerInSession ==
  ASSUME Stateless, NEW a \in answers, FromHonestCoordinator(a.request),
         HoldsItsShare(a.request)
  PROVE  LET r == a.request
             v == SessionValues(r)
         IN  /\ UnderAll(r, AggregateOf(r), v)
             /\ Pubnonces(a) = AllPubnonces(r)
             /\ SessionOf(a) = WithAggnonce(r, AggregateOf(r))
             /\ a.psig = RightPsig(r, MyPosition(r), v)
             /\ Psigs(a) = [k \in DOMAIN r.ctx.ids |-> RightPsig(r, k, v)]
  <1> DEFINE r == a.request
             v == SessionValues(r)
             mine == MyPosition(r)
             agg == AggregateOf(r)
             ids == r.ctx.ids
  <1>1. /\ HonestRequest(r) /\ AnswerOf(r) /\ a.pubnonce = NonceOf(r).pubnonce
        /\ a.psig = SignedBy(r, agg).val
    BY AnswersAnswer DEF HonestRequest
  <1>2. UnderAll(r, agg, v) BY <1>1, AnswerUnderAll
  <1>3. Pubnonces(a) = AllPubnonces(r) BY <1>1 DEF Pubnonces, AllPubnonces
  <1>4. SessionOf(a) = WithAggnonce(r, agg)
    BY <1>2, <1>3 DEF SessionOf, WithAggnonce, UnderAll, Returns
  <1>5. /\ mine \in DOMAIN ids /\ ids[mine] = r.my_id /\ DOMAIN ids = 1 .. Len(ids)
        /\ r.shares = r.ctx.pubshares /\ r.secshare = r.ctx.pubshares[mine]
    BY <1>1, HonestSetup DEF SignerIds
  <1>6. /\ AllPubnonces(r)[mine] = NonceOf(r).secnonce
        /\ \A k \in DOMAIN ids : k # mine => AllPubnonces(r)[k] = r.others[k]
    BY <1>1, <1>5, AllDecode DEF AnswerOf
  <1> HIDE DEF r, v, mine, agg, ids
  <1>7. a.psig = RightPsig(r, mine, v)
    <2>1. SignResult(NonceOf(r).secnonce, r.ctx.pubshares[mine], r.ctx.ids[mine],
                     WithAggnonce(r, agg))
            = Returns(RightPsig(r, mine, v))
      BY <1>2, <1>5, <1>6, EverySignerSigns DEF ids
    <2>2. SignedBy(r, agg) = Returns(RightPsig(r, mine, v)) BY <1>5, <2>1 DEF SignedBy, ids
    <2> QED BY <1>1, <2>2 DEF Returns
  <1>8. ASSUME NEW k \in DOMAIN ids, k # mine
        PROVE  SignResult(r.others[k], r.shares[k], ids[k], SessionOf(a)).val = RightPsig(r, k, v)
    <2>1. SignResult(r.others[k], r.ctx.pubshares[k], r.ctx.ids[k], WithAggnonce(r, agg))
            = Returns(RightPsig(r, k, v))
      BY <1>2, <1>6, <1>8, EverySignerSigns DEF ids
    <2> QED BY <1>4, <1>5, <2>1 DEF Returns, ids
  <1>9. Psigs(a) = [k \in DOMAIN ids |-> RightPsig(r, k, v)]
    BY <1>7, <1>8 DEF Psigs, r, mine, ids
  <1> QED BY <1>2, <1>3, <1>4, <1>7, <1>9 DEF r, v, mine, agg, ids

\* The coordinator aggregates all public nonces only after the deterministic
\* signer signed: its answer is accepted all the same, and the signature that
\* is made of it and the others' answers verifies.
THEOREM AnswersComplete == Spec => []AnswerCompletesSession
  <1>1. ASSUME Stateless PROVE AnswerCompletesSession
    <2> SUFFICES ASSUME NEW a \in answers, FromHonestCoordinator(a.request),
                        HoldsItsShare(a.request)
                 PROVE  LET r == a.request
                            v == GetSessionValues(SessionOf(a)).val
                            final == PartialSigAgg(Psigs(a), SessionOf(a))
                        IN  /\ PartialSigVerify(a.psig, Pubnonces(a), r.ctx, MyPosition(r))
                                 = Returns(TRUE)
                            /\ SessionNonce(SessionOf(a).aggnonce, v.b) # Infinity =>
                                 SchnorrVerify(r.ctx.msg, ToXonly(v.Q), final.val)
      BY DEF AnswerCompletesSession
    <2> DEFINE r == a.request
               agg == AggregateOf(r)
               v == SessionValues(r)
               session == SessionOf(a)
               psigs == Psigs(a)
    <2>1. UnderAll(r, agg, v) /\ r \in Requests BY <1>1, AnswerInSession, AnswersAnswer
    <2>2. session = WithAggnonce(r, agg) /\ session.aggnonce = agg
      BY <1>1, <2>1, AnswerInSession, Fields
    <2>3. psigs = [k \in DOMAIN r.ctx.ids |-> RightPsig(r, k, v)] BY <1>1, AnswerInSession
    <2>4. a.psig = RightPsig(r, MyPosition(r), v) /\ Pubnonces(a) = AllPubnonces(r)
      BY <1>1, AnswerInSession
    <2> HIDE DEF r, agg, v, session, psigs
    <2>5. GetSessionValues(session).val = v BY <2>1, <2>2 DEF UnderAll, Returns
    <2>6. PartialSigVerify(a.psig, Pubnonces(a), r.ctx, MyPosition(r)) = Returns(TRUE)
      BY <2>1, <2>4, AnswerIsAccepted
    <2>7. SessionNonce(agg, v.b) # Infinity =>
            SchnorrVerify(r.ctx.msg, ToXonly(v.Q), PartialSigAgg(psigs, session).val)
      BY <2>1, <2>2, <2>3, AllAggregate
    <2> QED BY <2>2, <2>5, <2>6, <2>7 DEF r, session, psigs
  <1> QED BY <1>1, CallsAreStateless, PTL

-----------------------------------------------------------------------------
(* Who is turned away.                                                     *)

\* Everything up to the nonce of the others succeeds for an honest request.
LEMMA HonestStart ==
  ASSUME NEW r, HonestRequest(r)
  PROVE  /\ ValidContext(r.ctx) /\ Succeeds(Tweaked(r))
         /\ NonceIsGenerated(r) /\ Succeeds(DeriveNonce(InputsOf(r)))
  <1>1. ValidContext(r.ctx)
    <2> DEFINE ctx == r.ctx
               valid(knows) == ValidateSessionParams(ctx.n, ctx.t, ctx.ids, knows,
                                                     ctx.pubshares, ctx.thresh_pk)
    <2>1. valid(TRUE) = Returns(TRUE) /\ ctx.knows_pubshares \in BOOLEAN
      BY HonestyAssumption, RequestsAssumption DEF HonestRequest
    <2>3. valid(ctx.knows_pubshares) = Returns(TRUE)
      <3> DEFINE n == ctx.n
                 t == ctx.t
                 ids == ctx.ids
                 shares == ctx.pubshares
                 key == ctx.thresh_pk
                 knows == ctx.knows_pubshares
      <3>1. ValidateSessionParams(n, t, ids, TRUE, shares, key) = Returns(TRUE)
            /\ knows \in BOOLEAN
        BY <2>1
      <3>2. ValidateSessionParams(n, t, ids, knows, shares, key) = Returns(TRUE)
        <4> HIDE DEF n, t, ids, shares, key, knows
        <4> QED BY <3>1, PassUnknown
      <3> QED BY <3>2
    <2> QED BY <2>3 DEF ValidContext
  <1>2. Succeeds(Tweaked(r)) BY HonestyAssumption DEF HonestRequest, Tweaked
  <1>3. NonceIsGenerated(r) /\ Succeeds(DeriveNonce(InputsOf(r)))
    <2> DEFINE x == InputsOf(r)
               k(i) == ScalarOf(DetNonceHash(x, i))
    <2>1. k(0) \in NonZero /\ k(1) \in NonZero BY HashAssumption DEF HonestRequest
    <2>2. 0 \notin {k(0), k(1)} BY <2>1 DEF NonZero
    <2>3. DeriveNonce(x) = Returns(NonceGen(k(0), k(1))) BY <2>2 DEF DeriveNonce
    <2> HIDE DEF k, x
    <2>4. Succeeds(DeriveNonce(x)) BY <2>3 DEF Succeeds, Returns
    <2> QED BY <2>1, <2>3, <2>4 DEF NonceIsGenerated, x
  <1> QED BY <1>1, <1>2, <1>3

\* The signature itself is made whenever the nonces can be aggregated.
LEMMA HonestIsSigned ==
  ASSUME NEW r, HonestRequest(r), NonceIsGenerated(r),
         NonceAgg(AllPubnonces(r)) = Returns(AggregateOf(r)),
         AggregateOf(r)[1] \in Scalars, AggregateOf(r)[2] \in Scalars
  PROVE  Succeeds(SignedBy(r, AggregateOf(r)))
  <1> DEFINE agg == AggregateOf(r)
             ctx == WithAggnonce(r, agg)
             v == GetSessionValues(ctx).val
             mine == MyPosition(r)
  <1>1. r \in Requests /\ ValidContext(r.ctx) /\ Succeeds(Tweaked(r))
    BY HonestStart DEF HonestRequest
  <1>2. /\ SessionShape(ctx) /\ ctx.aggnonce = agg /\ ctx.n = r.ctx.n /\ ctx.t = r.ctx.t
        /\ ctx.ids = r.ctx.ids /\ ctx.knows_pubshares = r.ctx.knows_pubshares
        /\ ctx.pubshares = r.ctx.pubshares /\ ctx.thresh_pk = r.ctx.thresh_pk
        /\ ctx.tweaks = r.ctx.tweaks /\ ctx.is_xonly = r.ctx.is_xonly /\ ctx.msg = r.ctx.msg
    BY <1>1, Fields
  <1>3. HashesAreNonZero(ctx)
    <2>1. agg \in Scalars \X Scalars
      <3>1. agg = <<agg[1], agg[2]>>
        <4>1. \E w_1, w_2 : NonceAgg(AllPubnonces(r)) = Returns(<<w_1, w_2>>)
          BY AllDecode, NonceAggSums
        <4>2. PICK w_1, w_2 : NonceAgg(AllPubnonces(r)) = Returns(<<w_1, w_2>>) BY <4>1
        <4>3. agg = <<w_1, w_2>> BY <4>2 DEF Returns
        <4> QED BY <4>3
      <3> HIDE DEF agg
      <3>2. agg[1] \in Scalars /\ agg[2] \in Scalars BY DEF agg
      <3> QED BY <3>1, <3>2
    <2> HIDE DEF agg, ctx
    <2>2. \A R, Q \in EvenPoints :
            /\ ScalarOf(NonceCoefHash(Len(r.ctx.ids), SerializeIds(r.ctx.ids), agg, Q, r.ctx.msg))
                 \in NonZero
            /\ ScalarOf(ChallengeHash(R, Q, r.ctx.msg)) \in NonZero
      BY <2>1, HashAssumption DEF HonestRequest
    <2> QED BY <1>2, <2>2 DEF HashesAreNonZero
  <1> HIDE DEF ctx, agg
  <1>4. Succeeds(GetSessionValues(ctx))
    <2>1. ValidateSessionParams(ctx.n, ctx.t, ctx.ids, ctx.knows_pubshares, ctx.pubshares,
                                ctx.thresh_pk) = Returns(TRUE)
      BY <1>1, <1>2 DEF ValidContext
    <2>2. Succeeds(ThreshPubkeyAndTweak(ctx.thresh_pk, ctx.tweaks, ctx.is_xonly))
      BY <1>1, <1>2 DEF Tweaked
    <2>3. ctx.aggnonce[1] \in Scalars /\ ctx.aggnonce[2] \in Scalars BY <1>2 DEF agg
    <2> QED BY <1>2, <1>3, <2>1, <2>2, <2>3, SessionValuesExist
  <1>5. GetSessionValues(ctx) = Returns(v) /\ ValuesOk(ctx, v)
    BY <1>2, <1>4, SessionValuesReturned
  <1> HIDE DEF v
  <1>6. Coefficients(v) BY <1>5 DEF ValuesOk, Coefficients
  <1>7. UnderAll(r, agg, v) BY <1>5, <1>6 DEF UnderAll, ctx, agg
  <1>8. /\ mine \in DOMAIN r.ctx.ids /\ r.ctx.ids[mine] = r.my_id
        /\ r.secshare = r.ctx.pubshares[mine] /\ DOMAIN r.ctx.ids = 1 .. Len(r.ctx.ids)
    BY HonestSetup DEF SignerIds
  <1>9. AllPubnonces(r)[mine] = NonceOf(r).secnonce BY <1>8, AllDecode
  <1> HIDE DEF mine
  <1>10. SignResult(NonceOf(r).secnonce, r.ctx.pubshares[mine], r.ctx.ids[mine], ctx)
           = Returns(RightPsig(r, mine, v))
    BY <1>7, <1>8, <1>9, EverySignerSigns DEF ctx
  <1>11. SignedBy(r, agg) = Returns(RightPsig(r, mine, v)) BY <1>8, <1>10 DEF SignedBy, ctx
  <1> QED BY <1>11 DEF Succeeds, Returns, agg

\* The only error is the one for an infinite component.
LEMMA HonestResult ==
  ASSUME NEW r, HonestRequest(r)
  PROVE  \/ Succeeds(DeterministicSign(r))
         \/ /\ DeterministicSign(r) = InvalidContribution(None, "aggothernonce")
            /\ Infinity \in ToSet(r.aggothernonce)
  <1> DEFINE ctx == r.ctx
             valid == ValidateSessionParams(ctx.n, ctx.t, ctx.ids, ctx.knows_pubshares,
                                            ctx.pubshares, ctx.thresh_pk)
             tweaked == Tweaked(r)
             inputs == DeriveNonce(InputsOf(r))
             made == AggnonceWith(NonceOf(r).pubnonce, r.aggothernonce)
             signed == SignedBy(r, AggregateOf(r))
             answer == [pubnonce |-> NonceOf(r).pubnonce, psig |-> signed.val]
             ended == DeterministicSign(r)
             blame == InvalidContribution(None, "aggothernonce")
  <1>1. ended = IF Succeeds(valid)
                 THEN IF Succeeds(tweaked)
                      THEN IF Succeeds(inputs) THEN SignUnder(r, inputs.val) ELSE inputs
                      ELSE tweaked
                 ELSE valid
    BY DEF DeterministicSign, Then, Tweaked, InputsOf
  <1>2. SignUnder(r, inputs.val) = IF Succeeds(made)
                                   THEN IF Succeeds(signed) THEN Returns(answer) ELSE signed
                                   ELSE made
    BY DEF SignUnder, Then, SignedBy, AggregateOf, NonceOf, WithAggnonce
  <1>3. Succeeds(valid) /\ Succeeds(tweaked) /\ Succeeds(inputs) /\ NonceIsGenerated(r)
    BY HonestStart DEF ValidContext, Succeeds, Returns
  <1>4. \/ Succeeds(made) /\ Succeeds(signed)
        \/ made = blame /\ Infinity \in ToSet(r.aggothernonce)
    BY <1>3, SameAggregate, HonestIsSigned
  <1>5. ~ Succeeds(blame) BY DEF Succeeds, InvalidContribution
  <1>6. Succeeds(Returns(answer)) BY DEF Succeeds, Returns
  <1> HIDE DEF valid, tweaked, inputs, made, signed, answer, ended, blame
  <1>7. \/ Succeeds(ended)
        \/ ended = blame /\ Infinity \in ToSet(r.aggothernonce)
    BY <1>1, <1>2, <1>3, <1>4, <1>5, <1>6
  <1> QED BY <1>7 DEF ended, blame

\* An honest coordinator gets its answer, unless the nonces of the other
\* signers cancel in a component.
THEOREM HonestCoordinatorsAreServed == Spec => []HonestCoordinatorIsServed
  <1>1. ASSUME Stateless PROVE HonestCoordinatorIsServed
    <2> SUFFICES ASSUME NEW k \in DOMAIN calls, FromHonestCoordinator(calls[k].request),
                        HoldsItsShare(calls[k].request)
                 PROVE  LET r == calls[k].request
                            answer == calls[k].result
                        IN  \/ Succeeds(answer)
                            \/ /\ answer = InvalidContribution(None, "aggothernonce")
                               /\ Infinity \in ToSet(r.aggothernonce)
      BY DEF HonestCoordinatorIsServed
    <2>1. PICK r \in Requests : calls[k] = [request |-> r, result |-> DeterministicSign(r)]
      BY <1>1 DEF Stateless, Entries
    <2>2. calls[k].request = r /\ calls[k].result = DeterministicSign(r) BY <2>1
    <2>3. HonestRequest(r) BY <2>2 DEF HonestRequest
    <2> QED BY <2>2, <2>3, HonestResult
  <1> QED BY <1>1, CallsAreStateless, PTL

=============================================================================
