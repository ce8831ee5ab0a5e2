-------------------------- MODULE KeyMaterialProofs --------------------------
(***************************************************************************)
(* Key material is right for every group of prime order, every parity of y, *)
(* every n, t and polynomial, and every sequence of tweaks.                 *)
(*                                                                         *)
(* TweakedKey: TypeOK and AccumulatorsExplainKey together are inductive;    *)
(* what signers and verifiers rely on follows from them.                    *)
(*                                                                         *)
(* ThresholdKeys: what a validator finds at one base set decides what holds *)
(* at every set of signers, because shares that interpolate to each other   *)
(* lie on one polynomial.  That is a fact of algebra, proved here with      *)
(* divided differences by induction over sets of signers.                   *)
(***************************************************************************)
EXTENDS TweakedKey, ThresholdKeys, FrostSigningLaws

-----------------------------------------------------------------------------
(* One call of apply_tweak.                                                *)

\* What apply_tweak returns, when it returns.
LEMMA ApplyTweakReturns ==
  ASSUME NEW ctx, NEW tweak, NEW xonly,
         Succeeds(ApplyTweak(ctx, tweak, xonly))
  PROVE  LET g == TweakSign(ctx.Q, xonly)
             r == ApplyTweak(ctx, tweak, xonly).val
         IN  /\ tweak \in Scalars
             /\ r = [Q    |-> Add(Mul(g, ctx.Q), tweak),
                     gacc |-> Mul(g, ctx.gacc),
                     tacc |-> Add(tweak, Mul(g, ctx.tacc))]
             /\ Add(Mul(g, ctx.Q), tweak) # 0
  BY DEF ApplyTweak, Succeeds, Returns, ValueError, ScalarInRange, TweakedBy, Infinity

\* The new context after a step of the specification.
LEMMA TweakStep ==
  ASSUME NEW tweak, NEW xonly, Tweak(tweak, xonly)
  PROVE  LET g == TweakSign(tweak_ctx.Q, xonly)
             Q == Add(Mul(g, tweak_ctx.Q), tweak)
         IN  /\ tweak \in Scalars
             /\ tweak_ctx' = [Q    |-> Q,
                              gacc |-> Mul(g, tweak_ctx.gacc),
                              tacc |-> Add(tweak, Mul(g, tweak_ctx.tacc))]
             /\ Q # 0
  <1>1. Succeeds(ApplyTweak(tweak_ctx, tweak, xonly)) BY DEF Tweak
  <1>2. tweak_ctx' = ApplyTweak(tweak_ctx, tweak, xonly).val BY DEF Tweak
  <1> QED BY <1>1, <1>2, ApplyTweakReturns

-----------------------------------------------------------------------------
(* The inductive invariant.                                                *)

\* The context is made of scalars and explains its key.
IInv == TypeOK /\ AccumulatorsExplainKey

\* A key without tweaks explains itself.
LEMMA InitIInv == Init => IInv
  <1> SUFFICES ASSUME Init PROVE IInv OBVIOUS
  <1>1. thresh_pk \in NonZero /\ tweaks = <<>> /\ is_xonly = <<>> BY DEF Init
  <1>2. tweak_ctx = [Q |-> thresh_pk, gacc |-> 1, tacc |-> 0]
    BY <1>1 DEF Init, TweakCtxInit, PointDecodes, Returns
  <1>3. 0 \in Scalars /\ 1 \in Scalars /\ thresh_pk \in Scalars
    BY <1>1, UnitsAreScalars DEF NonZero
  <1>4. TypeOK BY <1>1, <1>2, <1>3 DEF TypeOK
  <1>5. Add(Mul(1, thresh_pk), 0) = thresh_pk BY <1>3, UnitsAndNegation
  <1> QED BY <1>2, <1>4, <1>5 DEF IInv, AccumulatorsExplainKey

\* A tweak of either mode preserves the invariant.
LEMMA NextIInv == IInv /\ [Next]_vars => IInv'
  <1> SUFFICES ASSUME IInv, [Next]_vars PROVE IInv' OBVIOUS
  <1>1. CASE UNCHANGED vars
    BY <1>1 DEF IInv, TypeOK, AccumulatorsExplainKey, vars
  <1>2. CASE Next
    <2>1. PICK tweak \in WireTweaks, xonly \in BOOLEAN : Tweak(tweak, xonly)
      BY <1>2 DEF Next
    <2> DEFINE g == TweakSign(tweak_ctx.Q, xonly)
               acc == tweak_ctx.gacc
               tacc == tweak_ctx.tacc
    <2>2. /\ thresh_pk \in Scalars /\ acc \in Scalars /\ tacc \in Scalars
          /\ tweak_ctx.Q \in Scalars
          /\ acc \in {1, Neg(1)}
          /\ tweak_ctx.Q = Add(Mul(acc, thresh_pk), tacc)
      BY DEF IInv, TypeOK, AccumulatorsExplainKey, NonZero
    <2>3. g \in {1, Neg(1)} /\ g \in Scalars BY Signs DEF TweakSign
    <2>4. /\ tweak \in Scalars
          /\ tweak_ctx' = [Q    |-> Add(Mul(g, tweak_ctx.Q), tweak),
                           gacc |-> Mul(g, acc),
                           tacc |-> Add(tweak, Mul(g, tacc))]
          /\ Add(Mul(g, tweak_ctx.Q), tweak) # 0
      BY <2>1, TweakStep
    <2>5. thresh_pk' = thresh_pk /\ tweaks' = Append(tweaks, tweak)
          /\ is_xonly' = Append(is_xonly, xonly)
      BY <2>1 DEF Tweak
    <2> HIDE DEF g, acc, tacc
    <2>6. TypeOK'
      <3>1. Mul(g, tweak_ctx.Q) \in Scalars /\ Mul(g, tacc) \in Scalars
            /\ Mul(g, acc) \in Scalars
        BY <2>2, <2>3, Closed
      <3>2. Add(Mul(g, tweak_ctx.Q), tweak) \in NonZero
            /\ Add(tweak, Mul(g, tacc)) \in Scalars
        BY <2>4, <3>1, Closed DEF NonZero
      <3>3. tweaks' \in Seq(Scalars) /\ is_xonly' \in Seq(BOOLEAN)
        BY <2>4, <2>5 DEF IInv, TypeOK
      <3> QED BY <2>4, <2>5, <3>1, <3>2, <3>3 DEF IInv, TypeOK
    <2>7. AccumulatorsExplainKey'
      <3>1. Mul(g, acc) \in {1, Neg(1)} BY <2>2, <2>3, Signs
      <3>2. Add(Mul(g, tweak_ctx.Q), tweak)
              = Add(Mul(Mul(g, acc), thresh_pk), Add(tweak, Mul(g, tacc)))
        BY <2>2, <2>3, <2>4, AccumulatorAlgebra
      <3> QED BY <2>4, <2>5, <3>1, <3>2 DEF AccumulatorsExplainKey
    <2> QED BY <2>6, <2>7 DEF IInv
  <1> QED BY <1>1, <1>2

\* The context always consists of a finite point and two scalars: no
\* sequence of calls of apply_tweak makes the key infinite.
THEOREM TweakedKeyTypeOK == Spec => []TypeOK
  <1>1. IInv => TypeOK BY DEF IInv
  <1> QED BY <1>1, InitIInv, NextIInv, PTL DEF Spec

\* For every order, parity and sequence of plain and x-only tweaks the
\* accumulators of apply_tweak explain the current key.
THEOREM TweakedKeyAccumulators == Spec => []AccumulatorsExplainKey
  <1>1. IInv => AccumulatorsExplainKey BY DEF IInv
  <1> QED BY <1>1, InitIInv, NextIInv, PTL DEF Spec

-----------------------------------------------------------------------------
(* Consequences.                                                           *)

\* The key that g * gacc and g * tacc describe is the published x-only key.
LEMMA IInvSignersKey == IInv => SignersKeyIsPublishedKey
  <1> SUFFICES ASSUME IInv PROVE SignersKeyIsPublishedKey OBVIOUS
  <1> DEFINE g == EvenSign(tweak_ctx.Q)
             acc == tweak_ctx.gacc
             tacc == tweak_ctx.tacc
             kP == Mul(Mul(g, acc), thresh_pk)
             gt == Mul(g, tacc)
  <1>1. /\ thresh_pk \in Scalars /\ acc \in Scalars /\ tacc \in Scalars
        /\ tweak_ctx.Q \in NonZero /\ tweak_ctx.Q \in Scalars
        /\ tweak_ctx.Q = Add(Mul(acc, thresh_pk), tacc)
    BY DEF IInv, TypeOK, AccumulatorsExplainKey, NonZero
  <1>2. g \in Scalars /\ 0 \in Scalars BY <1>1, EvenSignLaws, UnitsAreScalars
  <1>3. ToXonly(tweak_ctx.Q) = Mul(g, tweak_ctx.Q) BY <1>1, EvenSignLaws
  <1> HIDE DEF g, acc, tacc
  <1>4. Add(Mul(g, tweak_ctx.Q), 0) = Add(kP, Add(0, gt))
    BY <1>1, <1>2, AccumulatorAlgebra
  <1>5. Mul(g, tweak_ctx.Q) \in Scalars /\ gt \in Scalars BY <1>1, <1>2, Closed
  <1>6. Mul(g, tweak_ctx.Q) = Add(kP, gt) BY <1>4, <1>5, UnitsAndNegation
  <1> QED BY <1>3, <1>6 DEF SignersKeyIsPublishedKey, GetXonlyPk, g, acc, tacc

\* Signers and aggregator always work for the key that was published.
THEOREM TweakedKeySigners == Spec => []SignersKeyIsPublishedKey
  BY IInvSignersKey, InitIInv, NextIInv, PTL DEF Spec

\* The accumulators implement the plain and x-only tweak operations.
THEOREM TweakedKeyImplements == Spec => ImplementsTweaks
  <1> DEFINE key == Add(Mul(tweak_ctx.gacc, thresh_pk), tweak_ctx.tacc)
             history == <<key, tweaks, is_xonly>>
  <1>1. Init => Abstract!Init
    <2> SUFFICES ASSUME Init PROVE key \in NonZero /\ tweaks = <<>> /\ is_xonly = <<>>
      BY DEF Abstract!Init, Abstract!NonZero, Abstract!Scalars, NonZero, Scalars
    <2>1. key \in NonZero BY InitIInv DEF IInv, TypeOK, AccumulatorsExplainKey
    <2> QED BY <2>1 DEF Init
  <1>2. IInv /\ IInv' /\ [Next]_vars => [Abstract!Next]_history
    <2> SUFFICES ASSUME IInv, IInv', [Next]_vars, history' # history
                 PROVE  Abstract!Next
      OBVIOUS
    <2>1. key = tweak_ctx.Q /\ key' = tweak_ctx'.Q
      BY DEF IInv, AccumulatorsExplainKey
    <2>2. PICK tweak \in WireTweaks, xonly \in BOOLEAN : Tweak(tweak, xonly)
      BY DEF Next, vars
    <2>3. /\ tweak \in Scalars
          /\ tweak_ctx'.Q = Add(Mul(TweakSign(tweak_ctx.Q, xonly), tweak_ctx.Q), tweak)
          /\ tweak_ctx'.Q # 0
      BY <2>2, TweakStep
    <2>4. tweaks' = Append(tweaks, tweak) /\ is_xonly' = Append(is_xonly, xonly)
      BY <2>2 DEF Tweak
    <2>5. tweak_ctx.Q \in Scalars BY DEF IInv, TypeOK, NonZero
    <2>6. Mul(1, tweak_ctx.Q) = tweak_ctx.Q
          /\ Mul(Neg(1), tweak_ctx.Q) = Neg(tweak_ctx.Q)
      BY <2>5, UnitsAndNegation, NegIsMinusOne
    <2> HIDE DEF key
    <2>7. CASE xonly
      <3>1. key' = Add(ToXonly(key), tweak)
        BY <2>1, <2>3, <2>6, <2>7 DEF TweakSign, ToXonly
      <3>2. is_xonly' = Append(is_xonly, TRUE) BY <2>7, <2>4
      <3>3. Abstract!ApplyXonlyTweak(tweak)
        BY <2>1, <2>3, <2>4, <3>1, <3>2
        DEF key, Abstract!ApplyXonlyTweak, Abstract!TweakTo, Abstract!Infinity,
            Abstract!Add, Abstract!Neg, Abstract!ToXonly, Abstract!HasEvenY,
            Add, Neg, ToXonly, HasEvenY
      <3> QED BY <2>3, <3>3 DEF Abstract!Next, Abstract!Scalars, Scalars
    <2>8. CASE ~ xonly
      <3>1. key' = Add(key, tweak)
        BY <2>1, <2>3, <2>6, <2>8 DEF TweakSign
      <3>2. is_xonly' = Append(is_xonly, FALSE) BY <2>2, <2>8, <2>4
      <3>3. Abstract!ApplyPlainTweak(tweak)
        BY <2>1, <2>3, <2>4, <3>1, <3>2
        DEF key, Abstract!ApplyPlainTweak, Abstract!TweakTo, Abstract!Infinity,
            Abstract!Add, Add
      <3> QED BY <2>3, <3>3 DEF Abstract!Next, Abstract!Scalars, Scalars
    <2> QED BY <2>7, <2>8
  <1> QED BY <1>1, <1>2, InitIInv, NextIInv, PTL
          DEF Spec, ImplementsTweaks, Abstract!Spec, Abstract!vars

-----------------------------------------------------------------------------
(* Replaying the tweaks.                                                   *)

\* The lists of tweaks and modes have the same length.
Replayed == IInv /\ Len(tweaks) = Len(is_xonly) /\ ReplayReachesContext

\* The empty list replays to the context of the threshold key.
LEMMA InitReplayed == Init => Replayed
  <1> SUFFICES ASSUME Init PROVE Replayed OBVIOUS
  <1>1. thresh_pk \in NonZero /\ tweaks = <<>> /\ is_xonly = <<>> BY DEF Init
  <1>2. TweakCtxInit(thresh_pk) = Returns(tweak_ctx)
    BY <1>1 DEF Init, TweakCtxInit, PointDecodes, Returns
  <1>3. ThreshPubkeyAndTweak(thresh_pk, <<>>, <<>>) = TweakCtxInit(thresh_pk)
    BY <1>1, NoTweaks
  <1> QED BY <1>1, <1>2, <1>3, InitIInv DEF Replayed, ReplayReachesContext

\* One more tweak is one more round of the replay.
LEMMA NextReplayed == Replayed /\ [Next]_vars => Replayed'
  <1> SUFFICES ASSUME Replayed, [Next]_vars PROVE Replayed' OBVIOUS
  <1>1. IInv' BY NextIInv DEF Replayed
  <1>2. CASE UNCHANGED vars
    BY <1>1, <1>2 DEF Replayed, ReplayReachesContext, vars
  <1>3. CASE Next
    <2>1. PICK tweak \in WireTweaks, xonly \in BOOLEAN : Tweak(tweak, xonly)
      BY <1>3 DEF Next
    <2> DEFINE called == ApplyTweak(tweak_ctx, tweak, xonly)
    <2>2. /\ thresh_pk \in NonZero /\ tweaks \in Seq(Scalars) /\ is_xonly \in Seq(BOOLEAN)
          /\ Len(tweaks) = Len(is_xonly)
          /\ ThreshPubkeyAndTweak(thresh_pk, tweaks, is_xonly) = Returns(tweak_ctx)
      BY DEF Replayed, IInv, TypeOK, ReplayReachesContext
    <2>3. tweaks \in Seq(Int) /\ tweak \in Int
      <3>1. Scalars \subseteq Int /\ WireTweaks \subseteq Int
        BY OrderAssumption DEF Scalars, WireTweaks
      <3>2. tweaks \in Seq(Int)
        <4>1. tweaks \in [1 .. Len(tweaks) -> Scalars] /\ Len(tweaks) \in Nat BY <2>2
        <4>2. tweaks \in [1 .. Len(tweaks) -> Int] BY <3>1, <4>1
        <4> QED BY <4>1, <4>2
      <3> QED BY <2>1, <3>1, <3>2
    <2>4. /\ Succeeds(called) /\ tweak_ctx' = called.val
          /\ tweaks' = Append(tweaks, tweak) /\ is_xonly' = Append(is_xonly, xonly)
          /\ thresh_pk' = thresh_pk
      BY <2>1 DEF Tweak
    <2>5. called = Returns(tweak_ctx')
      BY <2>4 DEF ApplyTweak, Succeeds, Returns, ValueError
    <2>6. TweakRound(Returns(tweak_ctx), tweak, xonly) = called
      BY DEF TweakRound, Succeeds, Returns
    <2> HIDE DEF called
    <2>7. ThreshPubkeyAndTweak(thresh_pk, tweaks', is_xonly')
            = TweakRound(Returns(tweak_ctx), tweak, xonly)
      BY <2>2, <2>3, <2>4, OneTweakMore
    <2>8. Len(tweaks') = Len(is_xonly') BY <2>2, <2>4
    <2> QED BY <1>1, <2>4, <2>5, <2>6, <2>7, <2>8 DEF Replayed, ReplayReachesContext
  <1> QED BY <1>2, <1>3

\* Every session that replays the tweaks of a context works for its key.
THEOREM TweakedKeyReplays == Spec => []ReplayReachesContext
  <1>1. Replayed => ReplayReachesContext BY DEF Replayed
  <1> QED BY <1>1, InitReplayed, NextReplayed, PTL DEF Spec

-----------------------------------------------------------------------------
(* Lists of the elements of a set.                                         *)

\* A list in which every element of T occurs once is a list of signers.
LEMMA ListOfSet ==
  ASSUME NEW T \in SUBSET Ids, NEW ids \in SetToSeqs(T)
  PROVE  /\ SignerIds(ids) /\ ToSet(ids) = T
         /\ Len(ids) = Cardinality(T) /\ DOMAIN ids = 1 .. Len(ids)
  <1> DEFINE n == Cardinality(T)
  <1>1. N \in Nat /\ N <= MaxParticipants /\ MaxParticipants \in Nat
    BY KeysAssumption, ParticipantsAssumption
  <1>2. IsFiniteSet(T) /\ n \in Nat
    <2>1. 0 \in Int /\ N - 1 \in Int BY <1>1
    <2>2. IsFiniteSet(Ids) BY <2>1, FS_Interval DEF Ids
    <2> QED BY <2>2, FS_Subset, FS_CardinalityType
  <1>3. ids \in [1 .. n -> T] /\ \A i, j \in 1 .. n : i # j => ids[i] # ids[j]
    BY DEF SetToSeqs
  <1> HIDE DEF n
  <1>4. IsFiniteSet(1 .. n) /\ Cardinality(1 .. n) = n
    <2>1. 1 \in Int /\ n \in Int /\ n >= 0 BY <1>2
    <2>2. IsFiniteSet(1 .. n) /\ Cardinality(1 .. n) = IF 1 > n THEN 0 ELSE n - 1 + 1
      BY <2>1, FS_Interval
    <2> QED BY <2>1, <2>2
  <1>5. ids \in Injection(1 .. n, T) BY <1>3 DEF Injection, IsInjective
  <1>6. ids \in Surjection(1 .. n, T) BY <1>2, <1>4, <1>5, FS_Injection DEF n
  <1>7. \A x \in Ids : x \in Nat /\ x < MaxParticipants BY <1>1 DEF Ids
  <1>8. ids \in Seq(Nat) /\ Len(ids) = n
    <2>1. ids = [k \in 1 .. n |-> ids[k]] BY <1>3
    <2>2. \A k \in 1 .. n : ids[k] \in Nat BY <1>3, <1>7
    <2> QED BY <1>2, <2>1, <2>2
  <1>9. DOMAIN ids = 1 .. n BY <1>3
  <1>10. SignerIds(ids)
    <2>1. IsInjective(ids) BY <1>3, <1>9 DEF IsInjective
    <2>2. \A k \in DOMAIN ids : ids[k] < MaxParticipants BY <1>3, <1>7, <1>9
    <2> QED BY <1>8, <2>1, <2>2 DEF SignerIds
  <1>11. ToSet(ids) = T
    <2>1. \A y \in T : \E x \in 1 .. n : ids[x] = y BY <1>6 DEF Surjection
    <2>2. ToSet(ids) = {ids[k] : k \in 1 .. n} BY <1>9 DEF ToSet
    <2> QED BY <1>3, <2>1, <2>2
  <1> QED BY <1>8, <1>9, <1>10, <1>11 DEF n

\* There is one.
LEMMA SetHasList ==
  ASSUME NEW T, IsFiniteSet(T)
  PROVE  SetToSeqs(T) # {} /\ SetToSeq(T) \in SetToSeqs(T)
  <1> DEFINE n == Cardinality(T)
  <1>1. n \in Nat /\ ExistsBijection(1 .. n, T) BY FS_CardinalityType
  <1>2. PICK f : f \in Bijection(1 .. n, T) BY <1>1 DEF ExistsBijection
  <1>3. f \in [1 .. n -> T] /\ IsInjective(f) BY <1>2 DEF Bijection, Injection
  <1>4. SetToSeq(T) \in [1 .. n -> T] /\ IsInjective(SetToSeq(T)) BY <1>3 DEF SetToSeq
  <1>5. SetToSeq(T) \in SetToSeqs(T) BY <1>4 DEF SetToSeqs, IsInjective
  <1> QED BY <1>5

\* The present ids in order are such a list.
LEMMA OrderedList ==
  ASSUME NEW T \in SUBSET Ids
  PROVE  InOrder(T) \in SetToSeqs(T)
  <1> DEFINE n == Cardinality(T)
             s == InOrder(T)
  <1>1. N \in Nat BY KeysAssumption, ParticipantsAssumption
  <1>2. IsFiniteSet(T) /\ n \in Nat /\ T \in SUBSET Nat
    <2>1. 0 \in Int /\ N - 1 \in Int BY <1>1
    <2>2. IsFiniteSet(Ids) /\ Ids \subseteq Nat BY <2>1, FS_Interval DEF Ids
    <2> QED BY <2>2, FS_Subset, FS_CardinalityType
  <1>3. \E q : Increasing(q, n, T) BY <1>2, IncreasingList
  <1>4. s \in [1 .. n -> T] /\ \A i, j \in 1 .. n : i < j => s[i] < s[j]
    BY <1>3 DEF InOrder, Increasing
  <1> HIDE DEF s, n
  <1>5. ASSUME NEW i \in 1 .. n, NEW j \in 1 .. n, i # j PROVE s[i] # s[j]
    <2>1. s[i] \in Int /\ s[j] \in Int
      <3>1. s[i] \in T /\ s[j] \in T BY <1>4
      <3>2. T \subseteq Int BY <1>2
      <3> QED BY <3>1, <3>2
    <2>2. i < j \/ j < i BY <1>2, <1>5
    <2> QED BY <1>4, <2>1, <2>2
  <1> QED BY <1>4, <1>5 DEF SetToSeqs, s, n


-----------------------------------------------------------------------------
(* The two validators.                                                     *)

\* A copy of key material, and its values as a function of the nodes.
Infos == [t : 1 .. N, thresh_pk : WirePoints, pubshares : [Ids -> WirePoints \cup {None}]]
Values(inf) == [k \in Ids \cup {-1} |-> IF k = -1 THEN inf.thresh_pk ELSE inf.pubshares[k]]
Holds(inf) == {i \in Ids : inf.pubshares[i] # None}
SharesAt(inf, ids) == [k \in DOMAIN ids |-> inf.pubshares[ids[k]]]

\* What is held at T decodes, and so does the threshold public key.
Decoded(inf, T) == inf.thresh_pk \in NonZero /\ \A i \in T : inf.pubshares[i] \in NonZero

\* The ids and -1 are nodes.
LEMMA IdsAreNodes ==
  /\ N \in Nat /\ N >= 1 /\ N <= MaxParticipants
  /\ Ids \cup {-1} \in SUBSET Nodes /\ -1 \notin Ids /\ IsFiniteSet(Ids) /\ Cardinality(Ids) = N
  <1>1. N \in Nat /\ N >= 1 /\ N <= MaxParticipants /\ MaxParticipants \in Nat
    BY KeysAssumption, ParticipantsAssumption
  <1>2. Ids \cup {-1} \in SUBSET Nodes /\ -1 \notin Ids BY <1>1 DEF Ids, Nodes
  <1>3. IsFiniteSet(Ids) /\ Cardinality(Ids) = N
    <2>1. 0 \in Int /\ N - 1 \in Int /\ 0 <= N - 1 BY <1>1
    <2>2. /\ IsFiniteSet(0 .. N - 1)
          /\ Cardinality(0 .. N - 1) = IF 0 > N - 1 THEN 0 ELSE (N - 1) - 0 + 1
      BY <2>1, FS_Interval
    <2> QED BY <1>1, <2>1, <2>2 DEF Ids
  <1> QED BY <1>1, <1>2, <1>3

\* Where everything decodes, the values are scalars.
LEMMA DecodedValues ==
  ASSUME NEW inf \in Infos, NEW T \in SUBSET Ids, Decoded(inf, T)
  PROVE  /\ ScalarsOn(T \cup {-1}, Values(inf)) /\ ScalarsOn(T, Values(inf))
         /\ Values(inf)[-1] = inf.thresh_pk
         /\ \A i \in T : Values(inf)[i] = inf.pubshares[i]
  <1>1. -1 \notin Ids BY IdsAreNodes
  <1>2. Values(inf)[-1] = inf.thresh_pk BY DEF Values
  <1>3. \A i \in T : Values(inf)[i] = inf.pubshares[i] BY <1>1 DEF Values
  <1> QED BY <1>2, <1>3 DEF ScalarsOn, Decoded, NonZero

\* The interpolated key of a list is the threshold public key exactly when the
\* divided difference over its signers and -1 is zero.
LEMMA ThreshPubkeyLiesOn ==
  ASSUME NEW inf \in Infos, NEW ids, SignerIds(ids), ToSet(ids) \in SUBSET Ids,
         Decoded(inf, ToSet(ids))
  PROVE  DeriveThreshPubkey(ids, SharesAt(inf, ids)) = Returns(inf.thresh_pk)
           <=> Divided(ToSet(ids) \cup {-1}, Values(inf)) = 0
  <1> DEFINE T == ToSet(ids)
             f == Values(inf)
             Q == DerivePubshareAt(ids, SharesAt(inf, ids), -1)
  <1>1. ScalarsOn(T \cup {-1}, f) /\ ScalarsOn(T, f) /\ f[-1] = inf.thresh_pk
    BY DecodedValues
  <1>2. \A k \in DOMAIN ids : SharesAt(inf, ids)[k] = f[ids[k]]
    <2>1. \A k \in DOMAIN ids : ids[k] \in T BY DEF ToSet
    <2> QED BY <2>1, DecodedValues DEF SharesAt
  <1>3. T \in SUBSET Nodes /\ -1 \in Nodes \ T BY IdsAreNodes, NodeSets
  <1>4. Q = Interpolated(T, f, -1) BY <1>1, <1>2, <1>3, InterpolatedOverList
  <1>5. Q = f[-1] <=> Divided(T \cup {-1}, f) = 0 BY <1>1, <1>3, <1>4, LiesOn
  <1>6. DeriveThreshPubkey(ids, SharesAt(inf, ids)) = Returns(inf.thresh_pk) <=> Q = inf.thresh_pk
    <2>1. DeriveThreshPubkey(ids, SharesAt(inf, ids))
            = IF Q = Infinity THEN ValueError("infinite threshold key") ELSE Returns(Q)
      BY DEF DeriveThreshPubkey
    <2>2. inf.thresh_pk # Infinity BY DEF Decoded, NonZero, Infinity
    <2> HIDE DEF Q
    <2>3. \A v, w : Returns(v) = Returns(w) <=> v = w BY DEF Returns
    <2> QED BY <2>1, <2>2, <2>3, ValueErrorsAre
  <1> QED BY <1>1, <1>5, <1>6

\* validate_session_params accepts a list of enough holders exactly when.
LEMMA ListAccepted ==
  ASSUME NEW inf \in Infos, NEW T \in SUBSET Ids, Cardinality(T) >= inf.t,
         NEW ids \in SetToSeqs(T)
  PROVE  Succeeds(ValidateSessionParams(N, inf.t, ids, TRUE, SharesAt(inf, ids), inf.thresh_pk))
           <=> Decoded(inf, T) /\ Divided(T \cup {-1}, Values(inf)) = 0
  <1> DEFINE shares == SharesAt(inf, ids)
             pk == inf.thresh_pk
             t == inf.t
  <1>1. SignerIds(ids) /\ ToSet(ids) = T /\ Len(ids) = Cardinality(T) /\ DOMAIN ids = 1 .. Len(ids)
    BY ListOfSet
  <1>2. Len(ids) \in t .. N
    <2>1. Cardinality(T) \in Nat /\ Cardinality(T) <= N
      BY IdsAreNodes, FS_Subset, FS_CardinalityType
    <2>2. t \in 1 .. N /\ N \in Nat BY IdsAreNodes DEF Infos
    <2> QED BY <1>1, <2>1, <2>2
  <1>3. shares = [k \in 1 .. Len(ids) |-> inf.pubshares[ids[k]]] /\ Len(shares) = Len(ids)
    <2>1. Len(ids) \in Nat BY <1>1 DEF SignerIds
    <2> QED BY <1>1, <2>1 DEF SharesAt
  <1>4. ToSet(ids) = {ids[k] : k \in DOMAIN ids} BY DEF ToSet
  <1>5. /\ \A k \in DOMAIN ids : ids[k] \in 0 .. N - 1
        /\ (\A k \in DOMAIN ids : shares[k] \in NonZero) <=> (\A i \in T : inf.pubshares[i] \in NonZero)
    <2>1. T = {ids[k] : k \in DOMAIN ids} BY <1>1, <1>4
    <2>2. \A k \in DOMAIN ids : ids[k] \in T /\ ids[k] \in 0 .. N - 1 BY <2>1 DEF Ids
    <2>3. \A k \in DOMAIN ids : shares[k] = inf.pubshares[ids[k]] BY <1>1, <1>3
    <2> HIDE DEF shares
    <2>4. ASSUME \A k \in DOMAIN ids : shares[k] \in NonZero
          PROVE  \A i \in T : inf.pubshares[i] \in NonZero
      BY <2>1, <2>3, <2>4
    <2>5. ASSUME \A i \in T : inf.pubshares[i] \in NonZero
          PROVE  \A k \in DOMAIN ids : shares[k] \in NonZero
      BY <2>2, <2>3, <2>5
    <2> QED BY <2>2, <2>4, <2>5
  <1>6. t \in 1 .. N /\ N <= MaxParticipants /\ ~ HasDuplicates(ids)
    BY <1>1, IdsAreNodes DEF Infos, SignerIds, HasDuplicates
  <1> HIDE DEF shares, t, pk
  <1>7. Succeeds(ValidateSessionParams(N, t, ids, TRUE, shares, pk))
          <=> /\ \A k \in DOMAIN ids : shares[k] \in NonZero
              /\ DeriveThreshPubkey(ids, shares) = Returns(pk)
    <2> DEFINE valid == ValidateSessionParams(N, t, ids, TRUE, shares, pk)
    <2>1. Succeeds(valid) <=> valid = Returns(TRUE)
      <3>1. valid = Returns(TRUE) \/ IsValueError(valid) BY ParamsChecked
      <3>2. Succeeds(Returns(TRUE)) BY DEF Succeeds, Returns
      <3> HIDE DEF valid
      <3> QED BY <3>1, <3>2, KindsDiffer
    <2>2. valid = Returns(TRUE) <=> ParamsPass(N, t, ids, TRUE, shares, pk) BY ParamsChecked
    <2>3. ~ (N > MaxParticipants) BY <1>6, IdsAreNodes, ParticipantsAssumption
    <2>4. ParamsPass(N, t, ids, TRUE, shares, pk)
            <=> /\ \A k \in DOMAIN ids : shares[k] \in NonZero
                /\ DeriveThreshPubkey(ids, shares) = Returns(pk)
      BY <1>2, <1>3, <1>5, <1>6, <2>3 DEF ParamsPass, PointDecodes
    <2> QED BY <2>1, <2>2, <2>4
  <1>8. ASSUME \A k \in DOMAIN ids : shares[k] \in NonZero, DeriveThreshPubkey(ids, shares) = Returns(pk)
        PROVE  pk \in NonZero
    <2>1. Len(shares) = Len(ids) BY <1>3
    <2>2. Pubshares(ids, shares) BY <1>8, <2>1 DEF Pubshares
    <2>3. ValidParams(N, t, ids, shares, pk)
      <3>1. ValidateSessionParams(N, t, ids, TRUE, shares, pk) = Returns(TRUE)
        BY <1>7, <1>8, ParamsChecked, KindsDiffer
      <3>2. N \in Int /\ t \in Int /\ ids \in Seq(Nat)
        BY <1>1, <1>6, IdsAreNodes DEF SignerIds
      <3> QED BY <3>1, <3>2 DEF ValidParams
    <2> QED BY <2>3, Validated
  <1>9. Decoded(inf, T) <=> pk \in NonZero /\ \A k \in DOMAIN ids : shares[k] \in NonZero
    BY <1>5 DEF Decoded, pk
  <1>10. ASSUME Decoded(inf, T)
         PROVE  DeriveThreshPubkey(ids, shares) = Returns(pk)
                  <=> Divided(T \cup {-1}, Values(inf)) = 0
    BY <1>1, <1>10, ThreshPubkeyLiesOn DEF shares, pk
  <1> QED BY <1>7, <1>8, <1>9, <1>10 DEF shares, pk, t

\* The first t of a list of the holders, and the rest of it.
Base(inf) == SubSeq(InOrder(Holds(inf)), 1, inf.t)
Further(inf) == FurtherIds(InOrder(Holds(inf)), inf.t)

\* They divide the holders.
LEMMA BaseSet ==
  ASSUME NEW inf \in Infos, Cardinality(Holds(inf)) >= inf.t
  PROVE  /\ SignerIds(Base(inf)) /\ ToSet(Base(inf)) \in SUBSET Holds(inf)
         /\ Base(inf) \in [1 .. inf.t -> Holds(inf)]
         /\ Cardinality(ToSet(Base(inf))) = inf.t
         /\ ToSet(Further(inf)) = Holds(inf) \ ToSet(Base(inf))
         /\ Len(InOrder(Holds(inf))) = Cardinality(Holds(inf))
  <1> DEFINE H == Holds(inf)
             s == InOrder(H)
             n == Cardinality(H)
             t == inf.t
             B == Base(inf)
             R == Further(inf)
  <1>1. H \in SUBSET Ids BY DEF Holds
  <1>2. s \in SetToSeqs(H) BY <1>1, OrderedList
  <1> HIDE DEF H, s
  <1>3. SignerIds(s) /\ ToSet(s) = H /\ Len(s) = n /\ DOMAIN s = 1 .. n
    BY <1>1, <1>2, ListOfSet
  <1>4. /\ s \in Seq(Nat) /\ n \in Nat
        /\ \A k, l \in 1 .. n : s[k] = s[l] => k = l
        /\ \A k \in 1 .. n : s[k] \in H /\ s[k] \in Nat /\ s[k] < MaxParticipants
        /\ H = {s[k] : k \in 1 .. n}
    <2>1. \A k \in 1 .. n : s[k] \in Nat /\ s[k] < MaxParticipants BY <1>3 DEF SignerIds
    <2>2. H = {s[k] : k \in 1 .. n} BY <1>3 DEF ToSet
    <2>3. s \in Seq(Nat) /\ n \in Nat BY <1>3 DEF SignerIds
    <2>4. \A k, l \in 1 .. n : s[k] = s[l] => k = l BY <1>3 DEF SignerIds, IsInjective
    <2> QED BY <2>1, <2>2, <2>3, <2>4
  <1>5. t \in Nat /\ 1 <= t /\ t <= n
    <2>1. t \in 1 .. N /\ N \in Nat BY IdsAreNodes DEF Infos
    <2>2. n >= t BY DEF H
    <2> QED BY <1>4, <2>1, <2>2
  <1>6. B = [k \in 1 .. t |-> s[k]]
    <2>1. B = SubSeq(s, 1, t) BY DEF Base, s, H
    <2> HIDE DEF B, t, n
    <2> QED BY <1>3, <1>4, <1>5, <2>1
  <1>7. R = [k \in 1 .. n - t |-> s[k + t]]
    <2>1. R = SubSeq(s, t + 1, n) BY <1>3 DEF Further, FurtherIds, s, H
    <2> HIDE DEF R, t, n
    <2> QED BY <1>3, <1>4, <1>5, <2>1
  <1> HIDE DEF t, n, B, R
  <1>8. \A k \in 1 .. t : k \in 1 .. n /\ B[k] = s[k] BY <1>4, <1>5, <1>6
  <1>9. DOMAIN B = 1 .. t /\ DOMAIN R = 1 .. n - t BY <1>6, <1>7
  <1>10. B \in Seq(Nat) /\ Len(B) = t
    <2>1. B = [k \in 1 .. t |-> B[k]] BY <1>6
    <2>2. \A k \in 1 .. t : B[k] \in Nat BY <1>4, <1>8
    <2> QED BY <1>5, <2>1, <2>2
  <1>11. SignerIds(B)
    <2>1. IsInjective(B) BY <1>4, <1>8, <1>9 DEF IsInjective
    <2>2. \A k \in DOMAIN B : B[k] < MaxParticipants BY <1>4, <1>8, <1>9
    <2> QED BY <1>10, <2>1, <2>2 DEF SignerIds
  <1>12. ToSet(B) = {s[k] : k \in 1 .. t}
    <2>1. ToSet(B) = {B[k] : k \in 1 .. t} BY <1>9 DEF ToSet
    <2> QED BY <1>8, <2>1
  <1>13. B \in [1 .. t -> H] BY <1>4, <1>6, <1>8
  <1>14. Cardinality(ToSet(B)) = t
    <2>1. B \in Bijection(1 .. t, ToSet(B))
      <3>1. \A k, l \in 1 .. t : B[k] = B[l] => k = l BY <1>4, <1>8
      <3>2. ToSet(B) = {B[k] : k \in 1 .. t} BY <1>9 DEF ToSet
      <3>3. B \in [1 .. t -> ToSet(B)] BY <1>6, <3>2, <1>8, <1>12
      <3> QED BY <3>1, <3>2, <3>3 DEF Bijection, Injection, Surjection, IsInjective
    <2>2. IsFiniteSet(1 .. t) /\ Cardinality(1 .. t) = t
      <3>1. 1 \in Int /\ t \in Int /\ t >= 0 BY <1>5
      <3>2. IsFiniteSet(1 .. t) /\ Cardinality(1 .. t) = IF 1 > t THEN 0 ELSE t - 1 + 1
        BY <3>1, FS_Interval
      <3> QED BY <3>1, <3>2
    <2>3. ExistsBijection(1 .. t, ToSet(B)) BY <2>1 DEF ExistsBijection
    <2> QED BY <2>2, <2>3, FS_Bijection
  <1>15. ToSet(R) = H \ ToSet(B)
    <2>1. ToSet(R) = {R[k] : k \in 1 .. n - t} BY <1>9 DEF ToSet
    <2>2. \A k \in 1 .. n - t : k + t \in 1 .. n /\ k + t \notin 1 .. t /\ R[k] = s[k + t]
      BY <1>4, <1>5, <1>7
    <2>3. ASSUME NEW k \in 1 .. n - t PROVE R[k] \in H \ ToSet(B)
      <3>1. R[k] \in H BY <1>4, <2>2
      <3>2. \A l \in 1 .. t : s[l] # s[k + t] BY <1>4, <1>8, <2>2
      <3> QED BY <1>12, <2>2, <3>1, <3>2
    <2>4. ASSUME NEW x \in H \ ToSet(B) PROVE x \in ToSet(R)
      <3>1. PICK k \in 1 .. n : x = s[k] BY <1>4
      <3>2. k \notin 1 .. t BY <1>12, <3>1
      <3>3. k - t \in 1 .. n - t /\ (k - t) + t = k BY <1>4, <1>5, <3>2
      <3>4. R[k - t] = x BY <2>2, <3>1, <3>3
      <3> QED BY <2>1, <3>3, <3>4
    <2> QED BY <2>1, <2>3, <2>4
  <1>16. ToSet(B) \in SUBSET H BY <1>4, <1>8, <1>12
  <1> QED BY <1>3, <1>11, <1>13, <1>14, <1>15, <1>16 DEF B, R, H, s, n, t

\* validate_threshold_info accepts a copy exactly when everything in it decodes,
\* enough is left, and every node it looks at lies on the base polynomial.
LEMMA InfoChecks ==
  ASSUME NEW inf \in Infos
  PROVE  Succeeds(ValidateThresholdInfo(inf))
           <=> /\ Decoded(inf, Holds(inf))
               /\ Cardinality(Holds(inf)) >= inf.t
               /\ \A i \in Holds(inf) \ ToSet(Base(inf)) :
                    Divided(ToSet(Base(inf)) \cup {i}, Values(inf)) = 0
               /\ Divided(ToSet(Base(inf)) \cup {-1}, Values(inf)) = 0
  <1> DEFINE H == Holds(inf)
             t == inf.t
             s == InOrder(H)
             B == Base(inf)
             R == Further(inf)
             points == [k \in 1 .. t |-> inf.pubshares[B[k]]]
             Lie == \A i \in ToSet(R) : LiesOnPolynomial(B, points, i, inf.pubshares[i])
             Key == DeriveThreshPubkey(B, points) = Returns(inf.thresh_pk)
  <1>1. DOMAIN inf.pubshares = Ids /\ inf.t \in 1 .. N BY DEF Infos
  <1>2. Succeeds(ValidateThresholdInfo(inf))
          <=> /\ t \in 1 .. Cardinality(Ids) /\ Cardinality(Ids) <= MaxParticipants
              /\ inf.thresh_pk \in NonZero /\ \A i \in H : inf.pubshares[i] \in NonZero
              /\ Len(s) >= t /\ Lie /\ Key
    <2> DEFINE matched == ExpectThreshPubkey(B, points, inf.thresh_pk)
               valid == ValidateThresholdInfo(inf)
               n == Cardinality(Ids)
    <2>1. valid = IF t \notin 1 .. n THEN ValueError("threshold")
                  ELSE IF n > MaxParticipants THEN ValueError("participant count")
                  ELSE IF ~ (inf.thresh_pk \in NonZero) THEN ValueError("threshold key")
                  ELSE IF \E i \in H : ~ (inf.pubshares[i] \in NonZero)
                       THEN ValueError("pubshare")
                  ELSE IF Len(s) < t THEN ValueError("missing pubshares")
                  ELSE IF \E i \in ToSet(R) : ~ LiesOnPolynomial(B, points, i, inf.pubshares[i])
                       THEN ValueError("polynomial")
                  ELSE matched
      BY <1>1 DEF ValidateThresholdInfo, PointDecodes, Holds, Base, Further
    <2>2. Succeeds(matched) <=> Key
      <3>1. /\ matched = Returns(TRUE) \/ IsValueError(matched)
            /\ matched = Returns(TRUE) <=> Key
        BY ExpectedKey
      <3>2. Succeeds(Returns(TRUE)) BY DEF Succeeds, Returns
      <3> HIDE DEF matched, Key
      <3> QED BY <3>1, <3>2, KindsDiffer
    <2>3. \A check : ~ Succeeds(ValueError(check)) BY ValueErrorsAre, KindsDiffer
    <2>4. n > MaxParticipants <=> ~ (n <= MaxParticipants)
      BY <1>1, IdsAreNodes, ParticipantsAssumption
    <2>5. Len(s) < t <=> ~ (Len(s) >= t)
      <3>1. H \in SUBSET Ids BY DEF Holds
      <3>2. Len(s) = Cardinality(H) BY <3>1, OrderedList, ListOfSet
      <3>3. Cardinality(H) \in Nat BY <3>1, IdsAreNodes, FS_Subset, FS_CardinalityType
      <3> HIDE DEF s, H
      <3> QED BY <1>1, <3>2, <3>3
    <2> HIDE DEF matched, t, s, B, R, points, Key, H
    <2> QED BY <2>1, <2>2, <2>3, <2>4, <2>5
  <1>3. t \in 1 .. Cardinality(Ids) /\ Cardinality(Ids) <= MaxParticipants
    BY <1>1, IdsAreNodes
  <1>4. H \in SUBSET Ids BY DEF Holds
  <1> HIDE DEF H, t, s, B, R, points, Lie, Key
  <1>5. Len(s) = Cardinality(H)
    <2>1. Len(s) = Cardinality(H) BY <1>4, OrderedList, ListOfSet DEF s
    <2> QED BY <2>1
  <1>6. ASSUME Decoded(inf, H), Cardinality(H) >= t
        PROVE  /\ Lie <=> \A i \in H \ ToSet(B) : Divided(ToSet(B) \cup {i}, Values(inf)) = 0
               /\ Key <=> Divided(ToSet(B) \cup {-1}, Values(inf)) = 0
    <2>1. /\ SignerIds(B) /\ ToSet(B) \in SUBSET H /\ B \in [1 .. t -> H]
          /\ ToSet(R) = H \ ToSet(B)
      BY <1>6, BaseSet DEF H, t, B, R
    <2>2. Decoded(inf, ToSet(B)) BY <1>6, <2>1 DEF Decoded
    <2>3. points = SharesAt(inf, B) BY <2>1 DEF points, SharesAt
    <2>4. Key <=> Divided(ToSet(B) \cup {-1}, Values(inf)) = 0
      BY <1>4, <2>1, <2>2, <2>3, ThreshPubkeyLiesOn DEF Key
    <2>5. ASSUME NEW i \in ToSet(R)
          PROVE  LiesOnPolynomial(B, points, i, inf.pubshares[i])
                   <=> Divided(ToSet(B) \cup {i}, Values(inf)) = 0
      <3> DEFINE f == Values(inf)
                 T == ToSet(B)
      <3>1. ScalarsOn(H, f) /\ \A j \in H : f[j] = inf.pubshares[j]
        BY <1>4, <1>6, DecodedValues
      <3>2. ScalarsOn(T, f) /\ ScalarsOn(T \cup {i}, f) BY <2>1, <3>1 DEF ScalarsOn
      <3>3. i \in Nodes \ T /\ T \in SUBSET Nodes BY <1>4, <2>1, IdsAreNodes
      <3>4. \A k \in DOMAIN B : points[k] = f[B[k]] BY <2>1, <3>1 DEF points
      <3>5. DerivePubshareAt(B, points, i) = Interpolated(T, f, i)
        BY <2>1, <3>2, <3>3, <3>4, InterpolatedOverList
      <3>6. f[i] = inf.pubshares[i] BY <2>1, <3>1
      <3>7. Interpolated(T, f, i) = f[i] <=> Divided(T \cup {i}, f) = 0
        BY <3>2, <3>3, LiesOn
      <3> QED BY <3>5, <3>6, <3>7 DEF LiesOnPolynomial
    <2>6. Lie <=> \A i \in ToSet(R) : Divided(ToSet(B) \cup {i}, Values(inf)) = 0
      BY <2>5 DEF Lie
    <2> QED BY <2>1, <2>4, <2>6
  <1>7. Decoded(inf, H) <=> inf.thresh_pk \in NonZero /\ \A i \in H : inf.pubshares[i] \in NonZero
    BY DEF Decoded
  <1> QED BY <1>2, <1>3, <1>5, <1>6, <1>7 DEF H, t, B

\* So it looks at t shares and then at one more at a time, and finds what a look
\* at every set of t or more would find.
LEMMA InfoAccepted ==
  ASSUME NEW inf \in Infos
  PROVE  Succeeds(ValidateThresholdInfo(inf))
           <=> /\ Decoded(inf, Holds(inf))
               /\ Cardinality(Holds(inf)) >= inf.t
               /\ \A T \in SUBSET Holds(inf) :
                    Cardinality(T) >= inf.t => Divided(T \cup {-1}, Values(inf)) = 0
  <1> DEFINE H == Holds(inf)
             t == inf.t
             B == ToSet(Base(inf))
             f == Values(inf)
             M == H \cup {-1}
  <1>1. H \in SUBSET Ids BY DEF Holds
  <1>2. M \in SUBSET Nodes /\ -1 \notin H /\ -1 \in Nodes BY <1>1, IdsAreNodes
  <1> SUFFICES ASSUME Decoded(inf, H), Cardinality(H) >= t
               PROVE  (/\ \A i \in H \ B : Divided(B \cup {i}, f) = 0
                       /\ Divided(B \cup {-1}, f) = 0)
                      <=> \A T \in SUBSET H : Cardinality(T) >= t => Divided(T \cup {-1}, f) = 0
    BY InfoChecks
  <1>3. B \in SUBSET H /\ Cardinality(B) = t BY BaseSet
  <1>4. ScalarsOn(M, f) BY <1>1, DecodedValues
  <1>5. t \in Nat /\ \A T \in SUBSET H : IsFiniteSet(T) /\ Cardinality(T) \in Nat
    BY <1>2, <1>3, NodeSets
  <1> HIDE DEF H, t, B, f
  <1>6. ASSUME \A i \in H \ B : Divided(B \cup {i}, f) = 0, Divided(B \cup {-1}, f) = 0,
               NEW T \in SUBSET H, Cardinality(T) >= t
        PROVE  Divided(T \cup {-1}, f) = 0
    <2>1. \A i \in M \ B : Divided(B \cup {i}, f) = 0 BY <1>6
    <2>2. T \cup {-1} \in SUBSET M /\ B \in SUBSET M BY <1>3
    <2>3. Cardinality(T \cup {-1}) > Cardinality(B)
      <3>1. Cardinality(T \cup {-1}) = Cardinality(T) + 1 BY <1>2, <1>5, FS_AddElement
      <3> QED BY <1>3, <1>5, <1>6, <3>1
    <2> HIDE DEF M
    <2> QED BY <1>2, <1>4, <2>1, <2>2, <2>3, BaseDetermines
  <1>7. ASSUME \A T \in SUBSET H : Cardinality(T) >= t => Divided(T \cup {-1}, f) = 0
        PROVE  /\ Divided(B \cup {-1}, f) = 0
               /\ \A i \in H \ B : Divided(B \cup {i}, f) = 0
    <2>1. Divided(B \cup {-1}, f) = 0 BY <1>3, <1>5, <1>7
    <2>2. ASSUME NEW i \in H \ B PROVE Divided(B \cup {i}, f) = 0
      <3>1. B \cup {i} \in SUBSET H BY <1>3
      <3>2. Cardinality(B \cup {i}) = t + 1 BY <1>3, <1>5, FS_AddElement
      <3>3. Divided((B \cup {i}) \cup {-1}, f) = 0 BY <1>5, <1>7, <3>1, <3>2
      <3>4. B \in SUBSET Nodes /\ -1 \notin B /\ i \in Nodes \ B /\ i # -1 BY <1>2, <1>3
      <3>5. ScalarsOn(B \cup {i, -1}, f) BY <1>3, <1>4 DEF ScalarsOn
      <3> QED BY <2>1, <3>3, <3>4, <3>5, NodeDetermined
    <2> QED BY <2>1, <2>2
  <1> QED BY <1>6, <1>7

-----------------------------------------------------------------------------
(* The machine.                                                            *)

\* f is the polynomial that was dealt.
IsDealt(f) ==
  /\ Below(info.t, f) /\ f[-1] = thresh_sk
  /\ \A i \in Ids : f[i] = secshares[i]

\* A copy that nobody altered holds some of what the dealer handed out.
Unaltered ==
  /\ thresh_sk \in NonZero /\ info.thresh_pk = thresh_sk
  /\ \A i \in Ids : secshares[i] \in NonZero /\ info.pubshares[i] \in {None, secshares[i]}
  /\ \E f : IsDealt(f)

\* The inductive invariant: a dealt copy is altered or a part of what was dealt,
\* and the verdict is about the copy as it is.
KeysInv ==
  /\ info \in Infos /\ altered \in Nat
  /\ phase = "dealt" /\ altered = 0 => Unaltered
  /\ phase = "checked" => verdict = ValidateThresholdInfo(info)

\* What is on the wire.
LEMMA WireValues ==
  /\ NonZero \subseteq WirePoints /\ Order \in WirePoints /\ None \notin WirePoints
  /\ None \notin NonZero
  BY OrderAssumption DEF NonZero, Scalars, WirePoints, None

\* What the dealer deals are the values of a polynomial of t coefficients.
LEMMA SharesAreValues ==
  ASSUME NEW sk \in NonZero, NEW t \in 1 .. N, NEW coeffs \in [1 .. t - 1 -> NonZero]
  PROVE  /\ Below(t, Evaluated(Append(coeffs, sk)))
         /\ Evaluated(Append(coeffs, sk))[-1] = sk
         /\ \A i \in Ids : /\ SecretShareShard(sk, coeffs, N)[i] = Evaluated(Append(coeffs, sk))[i]
                           /\ SecretShareShard(sk, coeffs, N)[i] \in Scalars
         /\ SecretShareShard(sk, coeffs, N)
              = [i \in Ids |-> SecretShareShard(sk, coeffs, N)[i]]
  <1>1. N \in 1 .. MaxParticipants BY KeysAssumption
  <1> QED BY <1>1, DealtShares DEF Ids

\* Before the dealer has run, nothing is claimed.
LEMMA InitKeys == KeysInit => KeysInv
  <1> SUFFICES ASSUME KeysInit PROVE KeysInv
    OBVIOUS
  <1>1. info \in Infos
    BY WireValues, IdsAreNodes DEF KeysInit, NoInfo, Infos
  <1> QED BY <1>1 DEF KeysInit, KeysInv

\* The copy loses what it was dealt, or counts as altered.
LEMMA NextKeys == KeysInv /\ [KeysNext]_keyVars => KeysInv'
  <1> SUFFICES ASSUME KeysInv, [KeysNext]_keyVars PROVE KeysInv'
    OBVIOUS
  <1>1. ASSUME NEW sk \in NonZero, NEW t \in 1 .. N, NEW coeffs \in [1 .. t - 1 -> NonZero],
               TrustedDealerKeygen(sk, t, coeffs)
        PROVE  KeysInv'
    <2> DEFINE shares == SecretShareShard(sk, coeffs, N)
               f == Evaluated(Append(coeffs, sk))
    <2>1. /\ Below(t, f) /\ f[-1] = sk
          /\ \A i \in Ids : shares[i] = f[i] /\ shares[i] \in Scalars
          /\ shares = [i \in Ids |-> shares[i]]
      BY SharesAreValues
    <2>2. /\ thresh_sk' = sk /\ secshares' = shares /\ altered' = altered
          /\ IF \A i \in Ids : shares[i] # 0
             THEN /\ phase' = "dealt"
                  /\ info' = [t |-> t, thresh_pk |-> sk, pubshares |-> shares]
             ELSE phase' = "aborted" /\ info' = info
      BY <1>1 DEF TrustedDealerKeygen
    <2> HIDE DEF shares, f
    <2>3. CASE \A i \in Ids : shares[i] # 0
      <3>1. \A i \in Ids : shares[i] \in NonZero BY <2>1, <2>3 DEF NonZero
      <3>2. shares \in [Ids -> NonZero] BY <2>1, <3>1
      <3>3. info' \in Infos BY <2>2, <2>3, <3>2, WireValues DEF Infos
      <3>4. /\ info'.t = t /\ info'.thresh_pk = sk /\ info'.pubshares = shares BY <2>2, <2>3
      <3>5. IsDealt(f)' BY <2>1, <2>2, <3>4 DEF IsDealt
      <3>6. Unaltered' BY <2>2, <3>1, <3>4, <3>5 DEF Unaltered
      <3> QED BY <2>2, <2>3, <3>3, <3>6 DEF KeysInv
    <2>4. CASE ~ \A i \in Ids : shares[i] # 0
      BY <2>2, <2>4 DEF KeysInv
    <2> QED BY <2>3, <2>4
  <1>2. ASSUME NEW i \in Ids, LosePubshare(i) PROVE KeysInv'
    <2>1. /\ phase = "dealt" /\ phase' = phase /\ altered' = altered
          /\ thresh_sk' = thresh_sk /\ secshares' = secshares
          /\ info' = [info EXCEPT !.pubshares[i] = None]
      BY <1>2 DEF LosePubshare
    <2>2. /\ info' \in Infos /\ info'.t = info.t /\ info'.thresh_pk = info.thresh_pk
          /\ \A j \in Ids : info'.pubshares[j] \in {None, info.pubshares[j]}
      BY <2>1 DEF KeysInv, Infos
    <2>3. ASSUME Unaltered PROVE Unaltered'
      <3>1. PICK f : IsDealt(f) BY <2>3 DEF Unaltered
      <3>2. IsDealt(f)' BY <2>1, <2>2, <3>1 DEF IsDealt
      <3> QED BY <2>1, <2>2, <2>3, <3>2 DEF Unaltered
    <2> QED BY <2>1, <2>2, <2>3 DEF KeysInv
  <1>3. ASSUME NEW i \in Ids, NEW w \in WirePoints, AlterPubshare(i, w) PROVE KeysInv'
    <2>1. /\ phase = "dealt" /\ phase' = phase /\ altered' = altered + 1
          /\ info' = [info EXCEPT !.pubshares[i] = w]
      BY <1>3 DEF AlterPubshare
    <2>2. info' \in Infos BY <2>1 DEF KeysInv, Infos
    <2>3. altered' \in Nat /\ altered' # 0 BY <2>1 DEF KeysInv
    <2> QED BY <2>1, <2>2, <2>3 DEF KeysInv
  <1>4. ASSUME NEW w \in WirePoints, AlterThreshPk(w) PROVE KeysInv'
    <2>1. /\ phase = "dealt" /\ phase' = phase /\ altered' = altered + 1
          /\ info' = [info EXCEPT !.thresh_pk = w]
      BY <1>4 DEF AlterThreshPk
    <2>2. info' \in Infos BY <2>1 DEF KeysInv, Infos
    <2>3. altered' \in Nat /\ altered' # 0 BY <2>1 DEF KeysInv
    <2> QED BY <2>1, <2>2, <2>3 DEF KeysInv
  <1>5. CASE Validate BY <1>5 DEF Validate, KeysInv
  <1>6. CASE UNCHANGED keyVars
    <2>1. /\ phase' = phase /\ info' = info /\ altered' = altered /\ verdict' = verdict
          /\ thresh_sk' = thresh_sk /\ secshares' = secshares
      BY <1>6 DEF keyVars
    <2>2. ASSUME Unaltered PROVE Unaltered'
      <3>1. PICK f : IsDealt(f) BY <2>2 DEF Unaltered
      <3>2. IsDealt(f)' BY <2>1, <3>1 DEF IsDealt
      <3> QED BY <2>1, <2>2, <3>2 DEF Unaltered
    <2> QED BY <2>1, <2>2 DEF KeysInv
  <1> QED BY <1>1, <1>2, <1>3, <1>4, <1>5, <1>6 DEF KeysNext

\* The lists of the specification are the lists of the lemmas.
LEMMA ListsOfHolders ==
  /\ Present = Holds(info)
  /\ \A ids : SharesOf(ids) = SharesAt(info, ids)
  /\ \A ids \in SignerLists :
       \E T \in SUBSET Holds(info) : Cardinality(T) >= info.t /\ ids \in SetToSeqs(T)
  /\ \A T \in SUBSET Holds(info) : Cardinality(T) >= info.t => SetToSeqs(T) \subseteq SignerLists
  BY DEF Present, Holds, SharesOf, SharesAt, SignerLists

\* A verdict on a copy is a verdict on every list drawn from it.
LEMMA VerdictMeansLists ==
  ASSUME info \in Infos
  PROVE  Succeeds(ValidateThresholdInfo(info))
           <=> /\ Cardinality(Present) >= info.t
               /\ \A ids \in SignerLists : SessionAccepts(ids)
  <1> DEFINE H == Holds(info)
  <1>1. H \in SUBSET Ids /\ Present = H BY ListsOfHolders DEF Holds
  <1>2. ASSUME NEW T \in SUBSET H, Cardinality(T) >= info.t, NEW ids \in SetToSeqs(T)
        PROVE  SessionAccepts(ids)
                 <=> Decoded(info, T) /\ Divided(T \cup {-1}, Values(info)) = 0
    <2>1. T \in SUBSET Ids BY <1>1
    <2>2. Succeeds(ValidateSessionParams(N, info.t, ids, TRUE, SharesAt(info, ids), info.thresh_pk))
            <=> Decoded(info, T) /\ Divided(T \cup {-1}, Values(info)) = 0
      BY <1>2, <2>1, ListAccepted
    <2>3. SharesOf(ids) = SharesAt(info, ids) BY ListsOfHolders
    <2> QED BY <2>2, <2>3 DEF SessionAccepts
  <1>3. ASSUME NEW T \in SUBSET H PROVE SetToSeqs(T) # {}
    <2>1. IsFiniteSet(T) BY <1>1, IdsAreNodes, FS_Subset
    <2> QED BY <2>1, SetHasList
  <1>4. ASSUME Succeeds(ValidateThresholdInfo(info))
        PROVE  /\ Cardinality(Present) >= info.t
               /\ \A ids \in SignerLists : SessionAccepts(ids)
    <2>1. /\ Decoded(info, H) /\ Cardinality(H) >= info.t
          /\ \A T \in SUBSET H :
               Cardinality(T) >= info.t => Divided(T \cup {-1}, Values(info)) = 0
      BY <1>4, InfoAccepted
    <2>2. ASSUME NEW ids \in SignerLists PROVE SessionAccepts(ids)
      <3>1. PICK T \in SUBSET H : Cardinality(T) >= info.t /\ ids \in SetToSeqs(T)
        BY ListsOfHolders
      <3>2. Decoded(info, T) BY <2>1, <3>1 DEF Decoded
      <3> QED BY <1>2, <2>1, <3>1, <3>2
    <2> QED BY <1>1, <2>1, <2>2
  <1>5. ASSUME Cardinality(Present) >= info.t, \A ids \in SignerLists : SessionAccepts(ids)
        PROVE  Succeeds(ValidateThresholdInfo(info))
    <2>1. ASSUME NEW T \in SUBSET H, Cardinality(T) >= info.t
          PROVE  Decoded(info, T) /\ Divided(T \cup {-1}, Values(info)) = 0
      <3>1. PICK ids \in SetToSeqs(T) : TRUE BY <1>3
      <3>2. ids \in SignerLists BY <2>1, ListsOfHolders
      <3> QED BY <1>2, <1>5, <2>1, <3>1, <3>2
    <2>2. Cardinality(H) >= info.t /\ H \in SUBSET H BY <1>1, <1>5
    <2> HIDE DEF H
    <2>3. Decoded(info, H) BY <2>1, <2>2
    <2> QED BY <2>1, <2>2, <2>3, InfoAccepted DEF H
  <1> QED BY <1>4, <1>5

(* validate_threshold_info accepts a copy of the key material, whatever was  *)
(* lost of it or altered in it, exactly when validate_session_params accepts *)
(* every list of t or more signers that can be drawn from it: for every n,   *)
(* t, polynomial and group of prime order.                                   *)
THEOREM CopiesAreAcceptedIffUsable == KeysSpec => []AcceptsIffEverySignerListWorks
  <1>1. KeysInv => AcceptsIffEverySignerListWorks
    BY VerdictMeansLists DEF KeysInv, AcceptsIffEverySignerListWorks
  <1> QED BY <1>1, InitKeys, NextKeys, PTL DEF KeysSpec

\* A list of holders of an unaltered copy: their shares combine, and their public
\* shares are accepted.
LEMMA UnalteredCombines ==
  ASSUME info \in Infos, Unaltered, NEW ids \in SignerLists
  PROVE  /\ SecretShareCombine([k \in DOMAIN ids |-> secshares[ids[k]]], ids) = thresh_sk
         /\ SessionAccepts(ids)
  <1>1. PICK T \in SUBSET Holds(info) : Cardinality(T) >= info.t /\ ids \in SetToSeqs(T)
    BY ListsOfHolders
  <1>2. PICK f : IsDealt(f) BY DEF Unaltered
  <1>3. T \in SUBSET Ids /\ \A i \in T : info.pubshares[i] = secshares[i]
    BY <1>1 DEF Holds, Unaltered
  <1>4. SignerIds(ids) /\ ToSet(ids) = T /\ DOMAIN ids = 1 .. Len(ids) BY <1>1, <1>3, ListOfSet
  <1>5. /\ T \in SUBSET Nodes /\ T \cup {-1} \in SUBSET Nodes /\ -1 \in Nodes \ T
        /\ IsFiniteSet(T) /\ Cardinality(T) \in Nat
    BY <1>3, IdsAreNodes, NodeSets
  <1>6. ScalarsOn(T \cup {-1}, f) /\ ScalarsOn(T, f)
    BY <1>2, <1>5 DEF IsDealt, Below, ScalarsOn
  <1>7. Divided(T \cup {-1}, f) = 0
    <2>1. Cardinality(T \cup {-1}) = Cardinality(T) + 1 BY <1>5, FS_AddElement
    <2>2. info.t \in Int BY IdsAreNodes DEF Infos
    <2>3. Cardinality(T \cup {-1}) > info.t BY <1>1, <1>5, <2>1, <2>2
    <2> QED BY <1>2, <1>5, <2>3 DEF IsDealt, Below
  <1>8. SessionAccepts(ids)
    <2>1. Decoded(info, T) BY <1>3 DEF Decoded, Unaltered
    <2>2. \A k \in T \cup {-1} : Values(info)[k] = f[k]
      BY <1>2, <1>3, <2>1, DecodedValues DEF IsDealt, Unaltered
    <2>3. Divided(T \cup {-1}, Values(info)) = 0 BY <1>5, <1>6, <1>7, <2>2, DividedOfSame
    <2>4. Succeeds(ValidateSessionParams(N, info.t, ids, TRUE, SharesAt(info, ids), info.thresh_pk))
      BY <1>1, <1>3, <2>1, <2>3, ListAccepted
    <2>5. SharesOf(ids) = SharesAt(info, ids) BY ListsOfHolders
    <2> QED BY <2>4, <2>5 DEF SessionAccepts
  <1>9. SecretShareCombine([k \in DOMAIN ids |-> secshares[ids[k]]], ids) = thresh_sk
    <2> DEFINE shares == [k \in DOMAIN ids |-> secshares[ids[k]]]
               u == [k \in DOMAIN ids |-> Mul(shares[k], DeriveInterpolatingValue(ids, ids[k]))]
               v == [k \in DOMAIN ids |-> Mul(DeriveInterpolatingValue(ids, ids[k]), shares[k])]
    <2>1. \A k \in DOMAIN ids : ids[k] \in T BY <1>4 DEF ToSet
    <2>2. \A k \in DOMAIN ids : shares[k] = f[ids[k]] /\ shares[k] \in Scalars
      BY <1>2, <1>3, <1>6, <2>1 DEF IsDealt, ScalarsOn
    <2>3. \A k \in DOMAIN ids : DeriveInterpolatingValue(ids, ids[k]) \in Scalars
      BY <1>4, <2>1, InterpolatingValue DEF NonZero
    <2>4. u = v BY <2>2, <2>3, Commutes
    <2>5. SecretShareCombine(shares, ids) = SumOver(DOMAIN ids, u) BY DEF SecretShareCombine
    <2> HIDE DEF shares
    <2>6. DerivePubshareAt(ids, shares, -1) = SumOver(DOMAIN ids, v)
      BY <1>4, ThreshPubkeyIsSum
    <2>7. DerivePubshareAt(ids, shares, -1) = Interpolated(T, f, -1)
      BY <1>4, <1>5, <1>6, <2>2, InterpolatedOverList
    <2>8. Interpolated(T, f, -1) = f[-1] BY <1>5, <1>6, <1>7, LiesOn
    <2>9. f[-1] = thresh_sk BY <1>2 DEF IsDealt
    <2> HIDE DEF u, v
    <2> QED BY <2>4, <2>5, <2>6, <2>7, <2>8, <2>9 DEF shares
  <1> QED BY <1>8, <1>9

(* Any t or more dealt shares, listed in any order, combine to the secret,   *)
(* and their public shares are accepted: for every n, t, polynomial and      *)
(* group of prime order.                                                     *)
THEOREM DealtSharesCombine == KeysSpec => []SharesCombine
  <1>1. KeysInv => SharesCombine BY UnalteredCombines DEF KeysInv, SharesCombine
  <1> QED BY <1>1, InitKeys, NextKeys, PTL DEF KeysSpec

=============================================================================
