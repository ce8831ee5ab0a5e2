--------------------------- MODULE FrostSigningLaws ---------------------------
(***************************************************************************)
(* What the operators of FrostKeys, FrostTweaks and FrostSigning compute,    *)
(* for every prime Order, every parity of y, every list of signers and       *)
(* every hash: Lagrange interpolation, the loop over the tweaks, where       *)
(* EvenSign is the sign of the even representative, the verification         *)
(* equation of a partial signature, and BIP340 verification of the           *)
(* aggregate.                                                              *)
(***************************************************************************)
EXTENDS FrostSigning, PrimeFieldLaws

-----------------------------------------------------------------------------
(* Lagrange coefficients.                                                  *)

\* f negates a throughout S.
Opposite(S, f, a) == \A x \in S : a[x] \in Scalars /\ f[x] = Neg(a[x])

\* Two products over one set change by the same sign when all factors do.
LEMMA ProductOfOpposites ==
  ASSUME NEW S, IsFiniteSet(S), NEW a, NEW f, Opposite(S, f, a),
         NEW b, NEW g, Opposite(S, g, b)
  PROVE  \E s \in {1, Neg(1)} : /\ ProductOver(S, f) = Mul(s, ProductOver(S, a))
                                /\ ProductOver(S, g) = Mul(s, ProductOver(S, b))
  <1> DEFINE Good == {T \in SUBSET S :
                        \E s \in {1, Neg(1)} : /\ ProductOver(T, f) = Mul(s, ProductOver(T, a))
                                               /\ ProductOver(T, g) = Mul(s, ProductOver(T, b))}
  <1>1. ASSUME NEW T \in SUBSET S
        PROVE  /\ IsFiniteSet(T) /\ ScalarsOn(T, f) /\ ScalarsOn(T, a)
               /\ ScalarsOn(T, g) /\ ScalarsOn(T, b)
    BY FS_Subset, Closed DEF ScalarsOn, Opposite
  <1>2. ASSUME NEW T \in SUBSET S, \A U \in SUBSET T : U # T => U \in Good
        PROVE  T \in Good
    <2>1. CASE T = {}
      <3>1. /\ ProductOver(T, f) = 1 /\ ProductOver(T, a) = 1
            /\ ProductOver(T, g) = 1 /\ ProductOver(T, b) = 1
        BY <1>1, <2>1, ProductLaws
      <3>2. Mul(1, 1) = 1 BY UnitsAreScalars, UnitsAndNegation
      <3> QED BY <3>1, <3>2
    <2>2. CASE T # {}
      <3>1. PICK x \in T : TRUE BY <2>2
      <3> DEFINE U == T \ {x}
      <3>2. PICK s \in {1, Neg(1)} : /\ ProductOver(U, f) = Mul(s, ProductOver(U, a))
                                     /\ ProductOver(U, g) = Mul(s, ProductOver(U, b))
        BY <1>2, <3>1
      <3>3. s \in Scalars /\ Neg(s) \in {1, Neg(1)}
        BY <3>2, UnitsAreScalars, UnitsAndNegation
      <3>4. /\ ProductOver(T, f) = Mul(f[x], ProductOver(U, f))
            /\ ProductOver(T, a) = Mul(a[x], ProductOver(U, a))
            /\ ProductOver(T, g) = Mul(g[x], ProductOver(U, g))
            /\ ProductOver(T, b) = Mul(b[x], ProductOver(U, b))
        BY <1>1, OneSplitOff
      <3>5. /\ ProductOver(U, a) \in Scalars /\ ProductOver(U, b) \in Scalars
            /\ a[x] \in Scalars /\ b[x] \in Scalars
            /\ f[x] = Neg(a[x]) /\ g[x] = Neg(b[x])
        BY <1>1, ProductLaws DEF Opposite
      <3>6. \A p, q \in Scalars : Mul(Neg(p), Mul(s, q)) = Mul(Neg(s), Mul(p, q))
        <4> SUFFICES ASSUME NEW p \in Scalars, NEW q \in Scalars
                     PROVE  Mul(Neg(p), Mul(s, q)) = Mul(Neg(s), Mul(p, q))
          OBVIOUS
        <4> DEFINE pq == Mul(p, q)
                   sq == Mul(s, q)
        <4>1. pq \in Scalars /\ sq \in Scalars BY <3>3, Closed
        <4>2. Mul(Neg(p), sq) = Neg(Mul(p, sq)) /\ Mul(Neg(s), pq) = Neg(Mul(s, pq))
          BY <3>3, <4>1, SignLaws
        <4>3. Mul(p, sq) = Mul(s, pq) BY <3>3, MulSwap
        <4> QED BY <4>2, <4>3
      <3>7. /\ ProductOver(T, f) = Mul(Neg(s), ProductOver(T, a))
            /\ ProductOver(T, g) = Mul(Neg(s), ProductOver(T, b))
        BY <3>2, <3>4, <3>5, <3>6
      <3> QED BY <3>3, <3>7
    <2> QED BY <2>1, <2>2
  <1> HIDE DEF Good
  <1>3. S \in Good BY <1>2, SubsetInduction
  <1> QED BY <1>3 DEF Good

\* Which does not change their quotient.
LEMMA QuotientOfOpposites ==
  ASSUME NEW s \in {1, Neg(1)}, NEW a \in Scalars, NEW b \in NonZero
  PROVE  Div(Mul(s, a), Mul(s, b)) = Div(a, b)
  <1>1. b \in Scalars /\ Inv(b) \in Scalars /\ Mul(b, Inv(b)) = 1
    BY Invertible DEF NonZero
  <1>2. CASE s = 1 BY <1>1, <1>2, UnitsAndNegation
  <1>3. CASE s = Neg(1)
    <2>1. Mul(s, a) = Neg(a) /\ Mul(s, b) = Neg(b) BY <1>1, <1>3, NegIsMinusOne
    <2>2. Neg(b) \in NonZero /\ Neg(Inv(b)) \in Scalars BY <1>1, NegNonZero, Closed
    <2>3. Mul(Neg(b), Neg(Inv(b))) = 1 BY <1>1, SignLaws
    <2>4. Inv(Neg(b)) = Neg(Inv(b)) BY <2>2, <2>3, InverseLaws
    <2> QED BY <1>1, <2>1, <2>4, SignLaws DEF Div
  <1> QED BY <1>2, <1>3

\* A list of signers that passes the checks of validate_session_params.
SignerIds(ids) ==
  /\ ids \in Seq(Nat) /\ IsInjective(ids)
  /\ \A k \in DOMAIN ids : ids[k] < MaxParticipants

\* Identifiers differ modulo Order, and none is -1.
LEMMA IdsModuloOrder ==
  ASSUME NEW i \in Nat, i < MaxParticipants, NEW j \in Nat, j < MaxParticipants
  PROVE  /\ ScalarOf(j + 1) \in NonZero
         /\ i # j => ScalarOf(j - i) \in NonZero
         /\ ScalarOf(-1 - j) = Neg(ScalarOf(j + 1))
         /\ ScalarOf(i - j) = Neg(ScalarOf(j - i))
  <1>1. ASSUME NEW d \in Int
        PROVE  ScalarOf(d) \in Scalars /\ ScalarOf(-d) = Neg(ScalarOf(d))
    <2> DEFINE q == d \div Order
               r == d % Order
    <2>1. q \in Int /\ r \in Scalars /\ d = Order * q + r BY Division
    <2>2. r \in Int BY <2>1, Closed
    <2> HIDE DEF q, r
    <2>3. -d = -r + Order * (-q) /\ -d \in Int /\ -r \in Int /\ -q \in Int
      BY <2>1, <2>2, OrderAssumption
    <2>4. ((-d) % Order) = ((-r) % Order) BY <2>3, SameResidue
    <2> QED BY <2>1, <2>4 DEF ScalarOf, Neg, r
  <1>2. ASSUME NEW d \in 1 .. Order - 1 PROVE ScalarOf(d) \in NonZero /\ ScalarOf(-d) \in NonZero
    <2>1. d \in Scalars /\ d # 0 BY OrderAssumption DEF Scalars
    <2>2. d \in NonZero /\ ScalarOf(d) = d BY <2>1, SmallResidue DEF NonZero, ScalarOf
    <2>3. ScalarOf(-d) = Neg(d) BY <1>1, <2>2, OrderAssumption
    <2> QED BY <2>2, <2>3, NegNonZero
  <1>3. ScalarOf(j + 1) \in NonZero
    <2>1. j + 1 \in 1 .. Order - 1 BY ParticipantsAssumption, OrderAssumption
    <2> QED BY <1>2, <2>1
  <1>4. ASSUME i # j PROVE ScalarOf(j - i) \in NonZero
    <2>1. CASE i < j
      <3>1. j - i \in 1 .. Order - 1 BY <2>1, ParticipantsAssumption, OrderAssumption
      <3> QED BY <1>2, <3>1
    <2>2. CASE j < i
      <3>1. i - j \in 1 .. Order - 1 /\ j - i = -(i - j)
        BY <2>2, ParticipantsAssumption, OrderAssumption
      <3> QED BY <1>2, <3>1
    <2> QED BY <1>4, <2>1, <2>2
  <1>5. -1 - j = -(j + 1) /\ i - j = -(j - i) /\ j + 1 \in Int /\ j - i \in Int OBVIOUS
  <1> QED BY <1>1, <1>3, <1>4, <1>5

\* The coefficient at x = -1 in identifier space is the one for the secret, and
\* every signer has a part in the signature.
LEMMA InterpolatingValue ==
  ASSUME NEW ids, SignerIds(ids), NEW my_id \in ToSet(ids), NEW others,
         others = ToSet(ids) \ {my_id}
  PROVE  /\ DeriveInterpolatingValue(ids, my_id) \in NonZero
         /\ Div(ProductOver(others, [j \in others |-> ScalarOf(-1 - j)]),
                ProductOver(others, [j \in others |-> ScalarOf(my_id - j)]))
              = DeriveInterpolatingValue(ids, my_id)
  <1> DEFINE a == [j \in others |-> ScalarOf(j + 1)]
             b == [j \in others |-> ScalarOf(j - my_id)]
             f == [j \in others |-> ScalarOf(-1 - j)]
             g == [j \in others |-> ScalarOf(my_id - j)]
  <1>1. IsFiniteSet(others)
    <2>1. DOMAIN ids = 1 .. Len(ids) /\ Len(ids) \in Nat BY DEF SignerIds
    <2>2. IsFiniteSet(DOMAIN ids) BY <2>1, FS_Interval
    <2>3. ids \in Surjection(DOMAIN ids, ToSet(ids))
      BY DEF SignerIds, Surjection, ToSet
    <2> QED BY <2>2, <2>3, FS_Surjection, FS_Subset
  <1>2. /\ my_id \in Nat /\ my_id < MaxParticipants
        /\ \A j \in others : j \in Nat /\ j < MaxParticipants /\ j # my_id
    BY DEF SignerIds, ToSet
  <1>3. \A j \in others : a[j] \in NonZero /\ b[j] \in NonZero BY <1>2, IdsModuloOrder
  <1>4. Opposite(others, f, a) /\ Opposite(others, g, b)
    BY <1>2, <1>3, IdsModuloOrder DEF Opposite, NonZero
  <1>5. DeriveInterpolatingValue(ids, my_id) = Div(ProductOver(others, a), ProductOver(others, b))
    BY DEF DeriveInterpolatingValue
  <1> HIDE DEF a, b, f, g
  <1>6. PICK s \in {1, Neg(1)} : /\ ProductOver(others, f) = Mul(s, ProductOver(others, a))
                                 /\ ProductOver(others, g) = Mul(s, ProductOver(others, b))
    BY <1>1, <1>4, ProductOfOpposites
  <1>7. ProductOver(others, a) \in NonZero /\ ProductOver(others, b) \in NonZero
    BY <1>1, <1>3, ProductIsNonZero
  <1>8. DeriveInterpolatingValue(ids, my_id) \in NonZero
    BY <1>5, <1>7, Invertible, InverseLaws, NoZeroDivisors, Commutes DEF Div, NonZero
  <1>9. Div(ProductOver(others, f), ProductOver(others, g))
          = DeriveInterpolatingValue(ids, my_id)
    BY <1>5, <1>6, <1>7, QuotientOfOpposites DEF NonZero
  <1> QED BY <1>8, <1>9 DEF f, g

\* The threshold key is the sum of the public shares times the coefficients that
\* the signers use.
LEMMA ThreshPubkeyIsSum ==
  ASSUME NEW ids, SignerIds(ids), NEW points
  PROVE  DerivePubshareAt(ids, points, -1)
           = SumOver(DOMAIN ids,
                     [k \in DOMAIN ids |-> Mul(DeriveInterpolatingValue(ids, ids[k]), points[k])])
  <1> DEFINE coefficient(my_id) ==
               Div(ProductOver(ToSet(ids) \ {my_id},
                               [j \in ToSet(ids) \ {my_id} |-> ScalarOf(-1 - j)]),
                   ProductOver(ToSet(ids) \ {my_id},
                               [j \in ToSet(ids) \ {my_id} |-> ScalarOf(my_id - j)]))
  <1>1. DerivePubshareAt(ids, points, -1)
          = SumOver(DOMAIN ids, [k \in DOMAIN ids |-> Mul(coefficient(ids[k]), points[k])])
    BY DEF DerivePubshareAt
  <1>2. ASSUME NEW k \in DOMAIN ids
        PROVE  coefficient(ids[k]) = DeriveInterpolatingValue(ids, ids[k])
    <2>1. ids[k] \in ToSet(ids) BY DEF ToSet
    <2> QED BY <2>1, InterpolatingValue
  <1> HIDE DEF coefficient
  <1>3. [k \in DOMAIN ids |-> Mul(coefficient(ids[k]), points[k])]
          = [k \in DOMAIN ids |-> Mul(DeriveInterpolatingValue(ids, ids[k]), points[k])]
    BY <1>2
  <1> QED BY <1>1, <1>3

\* The interpolated public key.
SumOfShares(ids, pubshares) ==
  SumOver(DOMAIN ids, [k \in DOMAIN ids |-> Mul(DeriveInterpolatingValue(ids, ids[k]), pubshares[k])])

\* What validate_session_params lets through.
Pubshares(ids, pubshares) ==
  Len(pubshares) = Len(ids) /\ \A k \in DOMAIN ids : pubshares[k] \in NonZero

\* A ValueError, whichever check raised it.
IsValueError(r) == r.kind = "ValueError"

\* It is none of the other ends of a call.
LEMMA KindsDiffer ==
  ASSUME NEW r, IsValueError(r)
  PROVE  /\ ~ Succeeds(r) /\ r # AssertionError /\ r # RuntimeError
         /\ \A v : r # Returns(v)
         /\ \A idx, contrib : r # InvalidContribution(idx, contrib)
  BY DEF IsValueError, Succeeds, Returns, AssertionError, RuntimeError, InvalidContribution

\* A check that fails ends in one.
LEMMA ValueErrorsAre ==
  \A check : IsValueError(ValueError(check)) /\ \A v : ValueError(check) # Returns(v)
  BY DEF IsValueError, ValueError, Returns

\* The comparison with the threshold key returns TRUE or raises.
LEMMA ExpectedKey ==
  ASSUME NEW ids, NEW points, NEW thresh_pk
  PROVE  LET valid == ExpectThreshPubkey(ids, points, thresh_pk)
         IN  /\ valid = Returns(TRUE) \/ IsValueError(valid)
             /\ valid = Returns(TRUE) <=> DeriveThreshPubkey(ids, points) = Returns(thresh_pk)
  <1> DEFINE Q == DerivePubshareAt(ids, points, -1)
             key == DeriveThreshPubkey(ids, points)
             valid == ExpectThreshPubkey(ids, points, thresh_pk)
  <1>1. key = IF Q = Infinity THEN ValueError("infinite threshold key") ELSE Returns(Q)
    BY DEF DeriveThreshPubkey
  <1>2. valid = IF Succeeds(key)
                THEN IF key.val = thresh_pk THEN Returns(TRUE) ELSE ValueError("key mismatch")
                ELSE key
    BY DEF ExpectThreshPubkey, Then
  <1> HIDE DEF Q, key, valid
  <1>3. CASE Q = Infinity
    <2>1. key = ValueError("infinite threshold key") BY <1>1, <1>3
    <2>2. IsValueError(key) /\ key # Returns(thresh_pk) BY <2>1, ValueErrorsAre
    <2>3. ~ Succeeds(key) BY <2>2, KindsDiffer
    <2>4. valid = key BY <1>2, <2>3
    <2>5. valid # Returns(TRUE) BY <2>2, <2>4, KindsDiffer
    <2> QED BY <2>2, <2>4, <2>5 DEF key, valid
  <1>4. CASE Q # Infinity
    <2>1. key = Returns(Q) BY <1>1, <1>4
    <2>2. Succeeds(key) /\ key.val = Q BY <2>1 DEF Succeeds, Returns
    <2>3. key = Returns(thresh_pk) <=> Q = thresh_pk BY <2>1 DEF Returns
    <2>4. valid = IF Q = thresh_pk THEN Returns(TRUE) ELSE ValueError("key mismatch")
      BY <1>2, <2>2
    <2> QED BY <2>3, <2>4, ValueErrorsAre DEF key, valid
  <1> QED BY <1>3, <1>4

\* What every check of validate_session_params finds in order.
ParamsPass(n, t, ids, knows_pubshares, pubshares, thresh_pk) ==
  /\ t \in 1 .. n /\ ~ (n > MaxParticipants) /\ Len(ids) \in t .. n
  /\ knows_pubshares => Len(pubshares) = Len(ids)
  /\ \A k \in DOMAIN ids : ids[k] \in 0 .. n - 1
  /\ knows_pubshares => \A k \in DOMAIN ids : PointDecodes(pubshares[k])
  /\ ~ HasDuplicates(ids)
  /\ knows_pubshares => DeriveThreshPubkey(ids, pubshares) = Returns(thresh_pk)

\* It returns TRUE if they all do, and raises otherwise.
LEMMA ParamsChecked ==
  ASSUME NEW n, NEW t, NEW ids, NEW knows_pubshares, NEW pubshares, NEW thresh_pk
  PROVE  LET valid == ValidateSessionParams(n, t, ids, knows_pubshares, pubshares, thresh_pk)
         IN  /\ valid = Returns(TRUE) \/ IsValueError(valid)
             /\ valid = Returns(TRUE)
                  <=> ParamsPass(n, t, ids, knows_pubshares, pubshares, thresh_pk)
  <1> DEFINE valid == ValidateSessionParams(n, t, ids, knows_pubshares, pubshares, thresh_pk)
             matched == ExpectThreshPubkey(ids, pubshares, thresh_pk)
             known == knows_pubshares /\ Len(pubshares) # Len(ids)
             bad == BadIds(n, ids) \cup
                      {k \in DOMAIN ids : knows_pubshares /\ ~ PointDecodes(pubshares[k])}
             first == IF Min(bad) \in BadIds(n, ids) THEN "id" ELSE "pubshare"
  <1>1. valid = IF t \notin 1 .. n THEN ValueError("threshold")
                ELSE IF n > MaxParticipants THEN ValueError("participant count")
                ELSE IF Len(ids) \notin t .. n THEN ValueError("signer count")
                ELSE IF known THEN ValueError("pubshare count")
                ELSE IF bad # {} THEN ValueError(first)
                ELSE IF HasDuplicates(ids) THEN ValueError("duplicate ids")
                ELSE IF knows_pubshares THEN matched
                ELSE Returns(TRUE)
    BY DEF ValidateSessionParams
  <1>2. bad = {} <=> /\ \A k \in DOMAIN ids : ids[k] \in 0 .. n - 1
                     /\ knows_pubshares => \A k \in DOMAIN ids : PointDecodes(pubshares[k])
    BY DEF BadIds
  <1>3. /\ matched = Returns(TRUE) \/ IsValueError(matched)
        /\ matched = Returns(TRUE) <=> DeriveThreshPubkey(ids, pubshares) = Returns(thresh_pk)
    BY ExpectedKey
  <1> HIDE DEF valid, matched, bad, first
  <1>4. valid = Returns(TRUE) \/ IsValueError(valid) BY <1>1, <1>3, ValueErrorsAre
  <1>5. valid = Returns(TRUE) <=> ParamsPass(n, t, ids, knows_pubshares, pubshares, thresh_pk)
    BY <1>1, <1>2, <1>3, ValueErrorsAre DEF ParamsPass
  <1> QED BY <1>4, <1>5 DEF valid

\* Without the public shares there are fewer checks.
LEMMA PassUnknown ==
  ASSUME NEW n, NEW t, NEW ids, NEW pubshares, NEW thresh_pk, NEW knows \in BOOLEAN,
         ValidateSessionParams(n, t, ids, TRUE, pubshares, thresh_pk) = Returns(TRUE)
  PROVE  ValidateSessionParams(n, t, ids, knows, pubshares, thresh_pk) = Returns(TRUE)
  <1>1. CASE knows = TRUE BY <1>1
  <1>2. CASE knows = FALSE
    <2>1. ParamsPass(n, t, ids, TRUE, pubshares, thresh_pk) BY ParamsChecked
    <2>2. ParamsPass(n, t, ids, FALSE, pubshares, thresh_pk) BY <2>1 DEF ParamsPass
    <2>3. ValidateSessionParams(n, t, ids, FALSE, pubshares, thresh_pk) = Returns(TRUE)
      BY <2>2, ParamsChecked
    <2> QED BY <1>2, <2>3
  <1> QED BY <1>1, <1>2

\* What validate_session_params, when it returns, has found.
ValidParams(n, t, ids, pubshares, thresh_pk) ==
  /\ n \in Int /\ t \in Int /\ ids \in Seq(Nat)
  /\ ValidateSessionParams(n, t, ids, TRUE, pubshares, thresh_pk) = Returns(TRUE)

\* What that says of the ids, the public shares and the threshold public key.
LEMMA Validated ==
  ASSUME NEW n, NEW t, NEW ids, NEW pubshares, NEW thresh_pk,
         ValidParams(n, t, ids, pubshares, thresh_pk)
  PROVE  /\ SignerIds(ids) /\ Len(ids) >= 1
         /\ Pubshares(ids, pubshares)
         /\ thresh_pk \in NonZero
         /\ thresh_pk = SumOfShares(ids, pubshares)
  <1>1. /\ t \in 1 .. n /\ n <= MaxParticipants /\ Len(ids) \in t .. n
        /\ Len(pubshares) = Len(ids)
        /\ \A k \in DOMAIN ids : ids[k] \in 0 .. n - 1
        /\ \A k \in DOMAIN ids : PointDecodes(pubshares[k])
        /\ IsInjective(ids)
        /\ n \in Int /\ ids \in Seq(Nat)
        /\ DeriveThreshPubkey(ids, pubshares) = Returns(thresh_pk)
    <2>1. ParamsPass(n, t, ids, TRUE, pubshares, thresh_pk)
      BY ParamsChecked DEF ValidParams
    <2> QED BY <2>1, ParticipantsAssumption DEF ParamsPass, ValidParams, HasDuplicates
  <1>2. \A k \in DOMAIN ids : ids[k] < MaxParticipants BY <1>1, ParticipantsAssumption
  <1>3. SignerIds(ids) BY <1>1, <1>2 DEF SignerIds
  <1>4. thresh_pk = DerivePubshareAt(ids, pubshares, -1) /\ thresh_pk # Infinity
    BY <1>1 DEF DeriveThreshPubkey, Returns, ValueError
  <1>5. ASSUME NEW k \in DOMAIN ids
        PROVE  Mul(DeriveInterpolatingValue(ids, ids[k]), pubshares[k]) \in Scalars
    <2>1. ids[k] \in ToSet(ids) BY DEF ToSet
    <2> QED BY <1>1, <1>3, <2>1, InterpolatingValue, Closed DEF PointDecodes, NonZero
  <1> DEFINE f == [k \in DOMAIN ids |-> Mul(DeriveInterpolatingValue(ids, ids[k]), pubshares[k])]
  <1>6. ScalarsOn(DOMAIN ids, f) BY <1>5 DEF ScalarsOn
  <1>7. IsFiniteSet(DOMAIN ids) BY <1>1, FS_Interval
  <1> HIDE DEF f
  <1>8. thresh_pk = SumOver(DOMAIN ids, f) BY <1>3, <1>4, ThreshPubkeyIsSum DEF f
  <1>9. thresh_pk \in NonZero BY <1>4, <1>6, <1>7, <1>8, SumLaws DEF NonZero, Infinity
  <1> QED BY <1>1, <1>3, <1>8, <1>9 DEF PointDecodes, Pubshares, SumOfShares, f

-----------------------------------------------------------------------------
(* Replaying a list of tweaks.                                             *)

\* A sign is a scalar, and so is its product with a sign.
LEMMA Signs ==
  /\ 1 \in Scalars /\ Neg(1) \in Scalars
  /\ \A g, h \in {1, Neg(1)} : Mul(g, h) \in {1, Neg(1)}
  <1>1. 1 \in Scalars /\ Neg(1) \in Scalars BY UnitsAreScalars
  <1>2. Mul(Neg(1), Neg(1)) = 1 BY <1>1, NegIsMinusOne, UnitsAndNegation
  <1>3. Mul(1, 1) = 1 /\ Mul(1, Neg(1)) = Neg(1) /\ Mul(Neg(1), 1) = Neg(1)
    BY <1>1, UnitsAndNegation
  <1> QED BY <1>1, <1>2, <1>3

\* Multiplying a key by g and adding t keeps it explained when the
\* accumulators are updated the same way.
LEMMA AccumulatorAlgebra ==
  ASSUME NEW g \in Scalars, NEW t \in Scalars, NEW acc \in Scalars,
         NEW tacc \in Scalars, NEW P \in Scalars
  PROVE  Add(Mul(g, Add(Mul(acc, P), tacc)), t)
           = Add(Mul(Mul(g, acc), P), Add(t, Mul(g, tacc)))
  <1> DEFINE aP == Mul(acc, P)
             gaP == Mul(g, aP)
             gt == Mul(g, tacc)
  <1>1. aP \in Scalars /\ gaP \in Scalars /\ gt \in Scalars BY Closed
  <1>2. Mul(g, Add(aP, tacc)) = Add(gaP, gt) BY <1>1, Distributes
  <1>3. Add(Add(gaP, gt), t) = Add(gaP, Add(gt, t)) BY <1>1, AddAssoc
  <1>4. Add(gt, t) = Add(t, gt) BY <1>1, Commutes
  <1>5. Mul(Mul(g, acc), P) = gaP BY MulAssoc
  <1> QED BY <1>2, <1>3, <1>4, <1>5

\* Tweak contexts whose accumulators express the key in terms of pk.
Explained(pk) ==
  {ctx \in [Q : NonZero, gacc : {1, Neg(1)}, tacc : Scalars] :
     pk \in NonZero /\ ctx.Q = Add(Mul(ctx.gacc, pk), ctx.tacc)}

\* The checks that refuse a threshold key or a tweak.
TweakChecks ==
  {"threshold key", "tweak modes", "tweak length", "tweak range", "infinite tweaked key"}

\* apply_tweak keeps a context explained.
LEMMA ApplyTweakExplains ==
  ASSUME NEW pk, NEW ctx \in Explained(pk), NEW tweak, NEW xonly
  PROVE  \/ \E check \in TweakChecks : ApplyTweak(ctx, tweak, xonly) = ValueError(check)
         \/ \E new \in Explained(pk) : ApplyTweak(ctx, tweak, xonly) = Returns(new)
  <1> DEFINE g == TweakSign(ctx.Q, xonly)
             new == TweakedBy(ctx, g, tweak)
  <1>1. \/ \E check \in TweakChecks : ApplyTweak(ctx, tweak, xonly) = ValueError(check)
        \/ /\ ApplyTweak(ctx, tweak, xonly) = Returns(new)
           /\ tweak \in Scalars /\ new.Q # 0
    BY DEF ApplyTweak, ScalarInRange, Infinity, TweakChecks
  <1>2. ASSUME tweak \in Scalars, new.Q # 0 PROVE new \in Explained(pk)
    <2> DEFINE Q == ctx.Q
               acc == ctx.gacc
               tacc == ctx.tacc
    <2>1. /\ Q \in Scalars /\ acc \in {1, Neg(1)} /\ tacc \in Scalars /\ pk \in Scalars
          /\ pk \in NonZero /\ Q = Add(Mul(acc, pk), tacc)
      BY DEF Explained, NonZero
    <2>2. g \in {1, Neg(1)} /\ g \in Scalars /\ acc \in Scalars
      BY <2>1, Signs DEF TweakSign
    <2>3. new = [Q |-> Add(Mul(g, Q), tweak), gacc |-> Mul(g, acc),
                 tacc |-> Add(tweak, Mul(g, tacc))]
      BY DEF TweakedBy
    <2> HIDE DEF g, Q, acc, tacc, new
    <2>4. Mul(g, acc) \in {1, Neg(1)} BY <2>1, <2>2, Signs
    <2>5. Add(Mul(g, Q), tweak) = Add(Mul(Mul(g, acc), pk), Add(tweak, Mul(g, tacc)))
      BY <1>2, <2>1, <2>2, AccumulatorAlgebra
    <2>6. Mul(g, Q) \in Scalars /\ Mul(g, tacc) \in Scalars BY <2>1, <2>2, Closed
    <2>7. Add(Mul(g, Q), tweak) \in NonZero /\ Add(tweak, Mul(g, tacc)) \in Scalars
      BY <1>2, <2>3, <2>6, Closed DEF NonZero
    <2> QED BY <2>1, <2>3, <2>4, <2>5, <2>7 DEF Explained
  <1> QED BY <1>1, <1>2

\* One round of the loop of thresh_pubkey_and_tweak.
TweakRound(r, tweak, xonly) == IF Succeeds(r) THEN ApplyTweak(r.val, tweak, xonly) ELSE r

\* What the loop can have reached: an error, or a context that explains pk.
TweakResults(pk) ==
  {ValueError(check) : check \in TweakChecks} \cup {Returns(ctx) : ctx \in Explained(pk)}

\* s consists of the first m elements of l.
Prefix(s, l, m) == Len(s) = m /\ \A i \in 1 .. m : s[i] = l[i]

\* after[m] is what thresh_pubkey_and_tweak has after the first m tweaks.
LoopResults(after, pk, tweaks, is_xonly) ==
  /\ after[0] = TweakCtxInit(pk)
  /\ \A m \in 1 .. Len(tweaks) : after[m] = TweakRound(after[m - 1], tweaks[m], is_xonly[m])
  /\ \A m \in 0 .. Len(tweaks) : \A tw \in Seq(Int), xo \in Seq(BOOLEAN) :
       Prefix(tw, tweaks, m) /\ Prefix(xo, is_xonly, m)
         => ThreshPubkeyAndTweak(pk, tw, xo) = after[m]

\* The loop runs, and whatever it has reached explains the key.
LEMMA TweakLoop ==
  ASSUME NEW pk, NEW tweaks \in Seq(Int), NEW is_xonly \in Seq(BOOLEAN),
         Len(tweaks) = Len(is_xonly)
  PROVE  \E after \in [0 .. Len(tweaks) -> TweakResults(pk)] :
           LoopResults(after, pk, tweaks, is_xonly)
  <1> DEFINE n == Len(tweaks)
             S == 1 .. n
             V == TweakResults(pk)
             base == TweakCtxInit(pk)
             c == [s \in SUBSET S |-> Max(s)]
             h == [i \in S |-> [r \in V |-> TweakRound(r, tweaks[i], is_xonly[i])]]
  <1>1. IsFiniteSet(S) /\ n \in Nat /\ S = DOMAIN tweaks /\ S \subseteq Int BY FS_Interval
  <1>2. ASSUME NEW s \in SUBSET S, s # {} PROVE c[s] = Max(s) /\ c[s] \in s
    <2>1. IsFiniteSet(s) /\ s \in SUBSET Int BY <1>1, FS_Subset
    <2> QED BY <1>2, <2>1, Extremes
  <1>3. base \in V
    <2>1. CASE pk \notin NonZero
      BY <2>1 DEF TweakCtxInit, PointDecodes, TweakResults, TweakChecks
    <2>2. CASE pk \in NonZero
      <3> DEFINE ctx == [Q |-> pk, gacc |-> 1, tacc |-> 0]
      <3>1. base = Returns(ctx) BY <2>2 DEF TweakCtxInit, PointDecodes
      <3>2. pk \in Scalars /\ 0 \in Scalars BY <2>2, UnitsAreScalars DEF NonZero
      <3>3. pk = Add(Mul(1, pk), 0) BY <3>2, UnitsAndNegation
      <3>4. ctx \in Explained(pk) BY <2>2, <3>2, <3>3 DEF Explained
      <3> QED BY <3>1, <3>4 DEF TweakResults
    <2> QED BY <2>1, <2>2
  <1>4. h \in [S -> [V -> V]]
    <2>1. ASSUME NEW r \in V, NEW i \in S PROVE TweakRound(r, tweaks[i], is_xonly[i]) \in V
      <3>1. CASE \E check \in TweakChecks : r = ValueError(check)
        BY <3>1 DEF TweakResults, TweakRound, Succeeds, ValueError
      <3>2. ASSUME NEW ctx \in Explained(pk), r = Returns(ctx)
            PROVE  TweakRound(r, tweaks[i], is_xonly[i]) \in V
        <4>1. TweakRound(r, tweaks[i], is_xonly[i]) = ApplyTweak(ctx, tweaks[i], is_xonly[i])
          BY <3>2 DEF TweakRound, Succeeds, Returns
        <4> QED BY <4>1, ApplyTweakExplains DEF TweakResults
      <3> QED BY <3>1, <3>2 DEF TweakResults
    <2> QED BY <2>1
  <1> HIDE DEF c, h, base, V
  <1>5. PICK g \in [SUBSET S -> V] : IsFold(g, S, c, base, h)
    BY <1>1, <1>2, <1>3, <1>4, FoldExists
  <1> DEFINE after == [m \in 0 .. n |-> g[1 .. m]]
  <1>6. ASSUME NEW m \in 0 .. n PROVE 1 .. m \in SUBSET S BY <1>1
  <1>7. after \in [0 .. n -> V] BY <1>6
  <1>8. after[0] = base
    <2>1. 1 .. 0 = {} /\ 0 \in 0 .. n BY <1>1
    <2>2. g[{}] = base BY <1>5 DEF IsFold
    <2> QED BY <2>1, <2>2
  <1>9. ASSUME NEW s \in SUBSET S, s # {}
        PROVE  g[s] = TweakRound(g[s \ {Max(s)}], tweaks[Max(s)], is_xonly[Max(s)])
    <2>1. g[s] = h[c[s]][g[s \ {c[s]}]] BY <1>5, <1>9 DEF IsFold
    <2>2. c[s] = Max(s) /\ c[s] \in S /\ g[s \ {c[s]}] \in V BY <1>2, <1>9
    <2> QED BY <2>1, <2>2 DEF h
  <1>10. ASSUME NEW m \in 1 .. n
         PROVE  after[m] = TweakRound(after[m - 1], tweaks[m], is_xonly[m])
    <2> DEFINE s == 1 .. m
    <2>1. /\ s \in SUBSET S /\ s # {} /\ m \in s /\ m \in 0 .. n /\ m - 1 \in 0 .. n
          /\ \A i \in s : i <= m
      <3> HIDE DEF n, after
      <3>1. m \in Int /\ 1 <= m /\ m <= n /\ n \in Int BY <1>1, <1>10
      <3>2. m \in 0 .. n /\ m - 1 \in 0 .. n /\ m \in s /\ \A i \in s : i <= m BY <3>1
      <3>3. \A i \in s : i \in S BY <3>1
      <3> QED BY <3>2, <3>3
    <2>2. Max(s) = m
      <3>1. IsFiniteSet(s) /\ s \in SUBSET Int BY <1>1, <2>1, FS_Subset
      <3>2. Max(s) \in s /\ \A y \in s : Max(s) >= y BY <2>1, <3>1, Extremes
      <3> QED BY <2>1, <3>2
    <2>3. s \ {m} = 1 .. m - 1 BY <1>1
    <2>4. after[m] = g[s] /\ after[m - 1] = g[1 .. m - 1] BY <2>1
    <2> HIDE DEF s, after
    <2>5. g[s] = TweakRound(g[s \ {Max(s)}], tweaks[Max(s)], is_xonly[Max(s)])
      BY <1>9, <2>1
    <2> QED BY <2>2, <2>3, <2>4, <2>5
  <1>11. ASSUME NEW m \in 0 .. n, NEW tw \in Seq(Int), NEW xo \in Seq(BOOLEAN),
                Prefix(tw, tweaks, m), Prefix(xo, is_xonly, m)
         PROVE  ThreshPubkeyAndTweak(pk, tw, xo) = after[m]
    <2> DEFINE T == 1 .. m
               k == [s \in SUBSET T |-> g[s]]
               Equation(q) ==
                 q = [s \in SUBSET T |-> IF s = {} THEN base
                                         ELSE IF Succeeds(q[s \ {Max(s)}])
                                         THEN ApplyTweak(q[s \ {Max(s)}].val, tw[Max(s)], xo[Max(s)])
                                         ELSE q[s \ {Max(s)}]]
    <2>1. T \in SUBSET S /\ IsFiniteSet(T) /\ DOMAIN tw = T /\ Len(tw) = Len(xo)
      BY <1>1, <1>6, <1>11, FS_Subset DEF Prefix
    <2>2. ASSUME NEW s \in SUBSET T, s # {}
          PROVE  Max(s) \in s /\ tw[Max(s)] = tweaks[Max(s)] /\ xo[Max(s)] = is_xonly[Max(s)]
      BY <1>2, <1>11, <2>1, <2>2 DEF Prefix
    <2>3. Equation(k)
      <3>1. ASSUME NEW s \in SUBSET T, s # {}
            PROVE  k[s] = IF Succeeds(k[s \ {Max(s)}])
                          THEN ApplyTweak(k[s \ {Max(s)}].val, tw[Max(s)], xo[Max(s)])
                          ELSE k[s \ {Max(s)}]
        BY <1>9, <2>1, <2>2, <3>1 DEF TweakRound
      <3>2. g[{}] = base BY <1>5 DEF IsFold
      <3> QED BY <3>1, <3>2
    <2> HIDE DEF k
    <2>4. ASSUME NEW q, Equation(q) PROVE q = k
      <3> DEFINE Good == {U \in SUBSET T : q[U] = k[U]}
      <3>1. ASSUME NEW U \in SUBSET T, \A s \in SUBSET U : s # U => s \in Good
            PROVE  U \in Good
        <4> DEFINE x == Max(U)
        <4>1. CASE U = {} BY <2>3, <2>4, <4>1
        <4>2. CASE U # {}
          <5>1. U \ {x} \in Good BY <2>2, <3>1, <4>2
          <5> QED BY <2>3, <2>4, <4>2, <5>1
        <4> QED BY <4>1, <4>2
      <3> HIDE DEF Good, T
      <3>2. IsFiniteSet(T) BY <2>1
      <3>3. \A U \in SUBSET T : U \in Good BY <3>1, <3>2, SubsetInduction
      <3>4. \A U \in SUBSET T : q[U] = k[U] BY <3>3 DEF Good
      <3> QED BY <2>3, <2>4, <3>4
    <2> DEFINE D == [i \in DOMAIN tw |-> i]
               Fold(q) ==
                 q = [s \in SUBSET DOMAIN D |->
                        IF s = {} THEN base
                        ELSE IF Succeeds(q[s \ {Max(s)}])
                        THEN ApplyTweak(q[s \ {Max(s)}].val, tw[D[Max(s)]], xo[D[Max(s)]])
                        ELSE q[s \ {Max(s)}]]
    <2>5. ThreshPubkeyAndTweak(pk, tw, xo) = (CHOOSE q : Fold(q))[DOMAIN D]
      BY <2>1 DEF ThreshPubkeyAndTweak, FoldLeftDomain, FoldLeft, MapThenFoldSet, base
    <2>6. \A q : Fold(q) <=> Equation(q)
      <3>1. DOMAIN D = T BY <2>1
      <3>2. ASSUME NEW s \in SUBSET T, s # {} PROVE D[Max(s)] = Max(s)
        BY <2>1, <2>2, <3>2
      <3> HIDE DEF D
      <3> QED BY <3>1, <3>2
    <2> HIDE DEF Fold, Equation
    <2>7. (CHOOSE q : Fold(q)) = k BY <2>3, <2>4, <2>6
    <2>8. ThreshPubkeyAndTweak(pk, tw, xo) = k[T] BY <2>1, <2>5, <2>7
    <2> QED BY <2>8 DEF k
  <1> HIDE DEF after
  <1>12. LoopResults(after, pk, tweaks, is_xonly) BY <1>8, <1>10, <1>11 DEF LoopResults, base
  <1> QED BY <1>7, <1>12 DEF V

\* Every replay that ends in a context ends in one that explains its key.
LEMMA TweaksExplain ==
  ASSUME NEW pk, NEW tweaks \in Seq(Int), NEW is_xonly \in Seq(BOOLEAN)
  PROVE  ThreshPubkeyAndTweak(pk, tweaks, is_xonly) \in TweakResults(pk)
  <1> DEFINE n == Len(tweaks)
             r == ThreshPubkeyAndTweak(pk, tweaks, is_xonly)
  <1>1. CASE n # Len(is_xonly)
    BY <1>1 DEF ThreshPubkeyAndTweak, TweakResults, TweakChecks
  <1>2. CASE n = Len(is_xonly)
    <2>1. PICK after \in [0 .. n -> TweakResults(pk)] : LoopResults(after, pk, tweaks, is_xonly)
      BY <1>2, TweakLoop
    <2>2. n \in 0 .. n /\ Prefix(tweaks, tweaks, n) /\ Prefix(is_xonly, is_xonly, n)
      BY <1>2 DEF Prefix
    <2>3. r = after[n] BY <2>1, <2>2 DEF LoopResults
    <2> HIDE DEF n, r
    <2> QED BY <2>1, <2>2, <2>3 DEF r
  <1> QED BY <1>1, <1>2

\* A list without tweaks leaves the untweaked key.
LEMMA NoTweaks ==
  ASSUME NEW pk \in NonZero
  PROVE  ThreshPubkeyAndTweak(pk, <<>>, <<>>) = TweakCtxInit(pk)
  <1>1. <<>> \in Seq(Int) /\ <<>> \in Seq(BOOLEAN) /\ Len(<<>>) = 0 OBVIOUS
  <1>2. PICK after \in [0 .. 0 -> TweakResults(pk)] : LoopResults(after, pk, <<>>, <<>>)
    BY <1>1, TweakLoop
  <1>3. Prefix(<<>>, <<>>, 0) BY <1>1 DEF Prefix
  <1>4. ThreshPubkeyAndTweak(pk, <<>>, <<>>) = after[0] BY <1>1, <1>2, <1>3 DEF LoopResults
  <1> QED BY <1>1, <1>2, <1>4 DEF LoopResults

\* A tweak more is a round of the loop more.
LEMMA OneTweakMore ==
  ASSUME NEW pk \in NonZero, NEW tweaks \in Seq(Int), NEW is_xonly \in Seq(BOOLEAN),
         Len(tweaks) = Len(is_xonly), NEW tweak \in Int, NEW xonly \in BOOLEAN
  PROVE  ThreshPubkeyAndTweak(pk, Append(tweaks, tweak), Append(is_xonly, xonly))
           = TweakRound(ThreshPubkeyAndTweak(pk, tweaks, is_xonly), tweak, xonly)
  <1> DEFINE tw == Append(tweaks, tweak)
             xo == Append(is_xonly, xonly)
             n == Len(tweaks)
  <1>1. /\ tw \in Seq(Int) /\ xo \in Seq(BOOLEAN) /\ n \in Nat
        /\ Len(tw) = n + 1 /\ Len(xo) = n + 1
        /\ tw[n + 1] = tweak /\ xo[n + 1] = xonly
        /\ Prefix(tweaks, tw, n) /\ Prefix(is_xonly, xo, n)
    BY DEF Prefix
  <1>2. Prefix(tw, tw, n + 1) /\ Prefix(xo, xo, n + 1) BY <1>1 DEF Prefix
  <1> HIDE DEF tw, xo, n
  <1>3. PICK after \in [0 .. Len(tw) -> TweakResults(pk)] : LoopResults(after, pk, tw, xo)
    BY <1>1, TweakLoop
  <1>4. ThreshPubkeyAndTweak(pk, tweaks, is_xonly) = after[n]
    BY <1>1, <1>3 DEF LoopResults
  <1>5. ThreshPubkeyAndTweak(pk, tw, xo) = after[n + 1]
    BY <1>1, <1>2, <1>3 DEF LoopResults
  <1>6. after[n + 1] = TweakRound(after[n], tweak, xonly)
    BY <1>1, <1>3 DEF LoopResults
  <1> QED BY <1>4, <1>5, <1>6 DEF tw, xo

-----------------------------------------------------------------------------
(* The values of a session.                                                *)

\* The types of the fields of a session context that a session is set up with.
SessionShape(ctx) ==
  /\ ctx.n \in Int /\ ctx.t \in Int /\ ctx.ids \in Seq(Nat)
  /\ ctx.tweaks \in Seq(Int) /\ ctx.is_xonly \in Seq(BOOLEAN)

\* v relates the key, the nonce, the coefficient and the challenge of ctx as
\* get_session_values computes them.
ValuesOk(ctx, v) ==
  /\ v.Q \in NonZero /\ v.gacc \in {1, Neg(1)} /\ v.tacc \in Scalars
  /\ v.Q = Add(Mul(v.gacc, ctx.thresh_pk), v.tacc)
  /\ ThreshPubkeyAndTweak(ctx.thresh_pk, ctx.tweaks, ctx.is_xonly)
       = Returns([Q |-> v.Q, gacc |-> v.gacc, tacc |-> v.tacc])
  /\ v.b \in NonZero /\ v.e \in NonZero /\ v.R \in NonZero
  /\ v.b = ScalarOf(NonceCoefHash(Len(ctx.ids), SerializeIds(ctx.ids), ctx.aggnonce,
                                  ToXonly(v.Q), ctx.msg))
  /\ \A j \in 1 .. 2 : ctx.aggnonce[j] \in Scalars
  /\ v.R = FinalNonce(ctx.aggnonce, v.b)
  /\ v.e = ScalarOf(ChallengeHash(ToXonly(v.R), ToXonly(v.Q), ctx.msg))

\* What get_session_values returns, when it returns.
LEMMA SessionValuesReturned ==
  ASSUME NEW ctx, SessionShape(ctx), Succeeds(GetSessionValues(ctx))
  PROVE  /\ GetSessionValues(ctx) = Returns(GetSessionValues(ctx).val)
         /\ ValuesOk(ctx, GetSessionValues(ctx).val)
         /\ ValidateSessionParams(ctx.n, ctx.t, ctx.ids, ctx.knows_pubshares, ctx.pubshares,
                                  ctx.thresh_pk) = Returns(TRUE)
  <1> DEFINE valid == ValidateSessionParams(ctx.n, ctx.t, ctx.ids, ctx.knows_pubshares,
                                            ctx.pubshares, ctx.thresh_pk)
             r == ThreshPubkeyAndTweak(ctx.thresh_pk, ctx.tweaks, ctx.is_xonly)
             values == GetSessionValues(ctx)
             v == values.val
  <1>1. valid = Returns(TRUE) \/ IsValueError(valid) BY ParamsChecked
  <1> HIDE DEF valid
  <1>2. valid = Returns(TRUE) /\ values = Then(r, LAMBDA tweak_ctx : ValuesOfKey(ctx, tweak_ctx))
    BY <1>1 DEF GetSessionValues, Then, Succeeds, Returns, IsValueError, valid
  <1>3. r \in TweakResults(ctx.thresh_pk) BY TweaksExplain DEF SessionShape
  <1> HIDE DEF r, values
  <1>4. PICK tweak_ctx \in Explained(ctx.thresh_pk) :
          r = Returns(tweak_ctx) /\ values = ValuesOfKey(ctx, tweak_ctx)
    <2>1. Succeeds(r) BY <1>2 DEF Then, values
    <2> QED BY <1>2, <1>3, <2>1 DEF TweakResults, Then, Succeeds, Returns, ValueError
  <1> DEFINE Q == tweak_ctx.Q
             b == ScalarOf(NonceCoefHash(Len(ctx.ids), SerializeIds(ctx.ids), ctx.aggnonce,
                                         ToXonly(Q), ctx.msg))
             R == FinalNonce(ctx.aggnonce, b)
             e == ScalarOf(ChallengeHash(ToXonly(R), ToXonly(Q), ctx.msg))
             bad == {j \in 1 .. 2 : ~ PointOrInfinityDecodes(ctx.aggnonce[j])}
  <1>5. /\ values = Returns([Q |-> Q, gacc |-> tweak_ctx.gacc, tacc |-> tweak_ctx.tacc,
                             b |-> b, R |-> R, e |-> e])
        /\ b \in NonZero /\ bad = {} /\ e \in NonZero
    <2>1. values = IF b \notin NonZero THEN AssertionError
                   ELSE IF bad # {}
                   THEN IF ctx.aggnonce[Min(bad)] = WrongLength
                        THEN AssertionError ELSE InvalidContribution(None, "aggnonce")
                   ELSE IF e \notin NonZero THEN AssertionError
                   ELSE Returns([Q |-> Q, gacc |-> tweak_ctx.gacc, tacc |-> tweak_ctx.tacc,
                                 b |-> b, R |-> R, e |-> e])
      BY <1>4 DEF ValuesOfKey
    <2>2. values.kind = "returns" BY DEF Succeeds, values
    <2> HIDE DEF b, R, e, bad, Q
    <2> QED BY <2>1, <2>2 DEF AssertionError, InvalidContribution, Returns
  <1>6. \A j \in 1 .. 2 : ctx.aggnonce[j] \in Scalars BY <1>5 DEF PointOrInfinityDecodes
  <1>7. R \in NonZero
    <2>1. ctx.aggnonce[1] \in Scalars /\ ctx.aggnonce[2] \in Scalars /\ b \in Scalars
      BY <1>5, <1>6 DEF NonZero
    <2>2. Add(ctx.aggnonce[1], Mul(b, ctx.aggnonce[2])) \in Scalars /\ 1 \in Scalars
      BY <2>1, Closed, UnitsAreScalars
    <2> HIDE DEF b
    <2> QED BY <2>2 DEF FinalNonce, SessionNonce, Infinity, G, NonZero
  <1>8. v = [Q |-> Q, gacc |-> tweak_ctx.gacc, tacc |-> tweak_ctx.tacc, b |-> b, R |-> R, e |-> e]
    BY <1>5 DEF Returns
  <1>9. ValuesOk(ctx, v)
    <2>1. /\ v.Q = Q /\ v.gacc = tweak_ctx.gacc /\ v.tacc = tweak_ctx.tacc
          /\ v.b = b /\ v.R = R /\ v.e = e
      BY <1>8
    <2>2. tweak_ctx = [Q |-> Q, gacc |-> tweak_ctx.gacc, tacc |-> tweak_ctx.tacc]
      BY DEF Explained
    <2>3. /\ Q \in NonZero /\ tweak_ctx.gacc \in {1, Neg(1)} /\ tweak_ctx.tacc \in Scalars
          /\ Q = Add(Mul(tweak_ctx.gacc, ctx.thresh_pk), tweak_ctx.tacc)
      BY DEF Explained
    <2>4. r = Returns([Q |-> Q, gacc |-> tweak_ctx.gacc, tacc |-> tweak_ctx.tacc])
      BY <1>4, <2>2
    <2>5. /\ R = FinalNonce(ctx.aggnonce, b)
          /\ e = ScalarOf(ChallengeHash(ToXonly(R), ToXonly(Q), ctx.msg))
          /\ b = ScalarOf(NonceCoefHash(Len(ctx.ids), SerializeIds(ctx.ids), ctx.aggnonce,
                                        ToXonly(Q), ctx.msg))
      OBVIOUS
    <2> HIDE DEF Q, b, R, e, v
    <2> QED BY <1>5, <1>6, <1>7, <2>1, <2>3, <2>4, <2>5 DEF ValuesOk, r
  <1>10. values = Returns(v) BY <1>5, <1>8
  <1> QED BY <1>2, <1>9, <1>10 DEF values, valid

-----------------------------------------------------------------------------
(* The equations of a partial and of a final signature.                    *)

\* The sign that makes a finite point even really does, and squares to one.
LEMMA EvenSignLaws ==
  ASSUME NEW P \in NonZero
  PROVE  /\ EvenSign(P) \in {1, Neg(1)}
         /\ ToXonly(P) = Mul(EvenSign(P), P)
         /\ HasEvenY(ToXonly(P))
         /\ ToXonly(Neg(P)) = ToXonly(P)
  <1>1. P \in Scalars /\ P # 0 /\ P \in 1 .. Order - 1
    BY OrderAssumption DEF NonZero, Scalars
  <1>2. Neg(P) = Order - P /\ Neg(P) \in 1 .. Order - 1 /\ Neg(Neg(P)) = P
    BY <1>1, UnitsAndNegation, OrderAssumption
  <1>3. (P \in EvenPoints) # (Neg(P) \in EvenPoints)
    BY <1>1, <1>2, ParityAssumption
  <1>4. Mul(1, P) = P /\ Mul(Neg(1), P) = Neg(P)
    BY <1>1, UnitsAndNegation, NegIsMinusOne
  <1>5. CASE P \in EvenPoints
    <2>1. Neg(P) \notin EvenPoints BY <1>3, <1>5
    <2> QED BY <1>2, <1>4, <1>5, <2>1 DEF EvenSign, ToXonly, HasEvenY
  <1>6. CASE P \notin EvenPoints
    <2>1. Neg(P) \in EvenPoints BY <1>3, <1>6
    <2> QED BY <1>2, <1>4, <1>6, <2>1 DEF EvenSign, ToXonly, HasEvenY
  <1> QED BY <1>5, <1>6

\* A summand can be taken off.
LEMMA TakeOff ==
  ASSUME NEW a \in Scalars, NEW b \in Scalars
  PROVE  Add(Neg(a), Add(a, b)) = b /\ Sub(Add(a, b), b) = a
  <1>1. Neg(a) \in Scalars /\ Neg(b) \in Scalars BY Closed
  <1>2. Add(Neg(a), Add(a, b)) = Add(Add(a, Neg(a)), b) BY <1>1, AddAssoc, Commutes
  <1>3. Add(Add(a, b), Neg(b)) = Add(a, Add(b, Neg(b))) BY <1>1, AddAssoc
  <1> QED BY <1>2, <1>3, UnitsAndNegation DEF Sub

\* What the lemmas on signatures need to know of the session values.
Coefficients(v) ==
  /\ v.Q \in NonZero /\ v.gacc \in {1, Neg(1)} /\ v.b \in NonZero /\ v.e \in NonZero

\* The factor of a public share in the verification equation.
ShareFactor(ids, my_id, v) ==
  Mul(Mul(v.e, DeriveInterpolatingValue(ids, my_id)), Mul(EvenSign(v.Q), v.gacc))

\* The factor of a share never vanishes: a share cannot be exchanged for another.
LEMMA ShareFactorNonZero ==
  ASSUME NEW ids, SignerIds(ids), NEW my_id \in ToSet(ids), NEW v, Coefficients(v)
  PROVE  /\ ShareFactor(ids, my_id, v) \in NonZero
         /\ Mul(EvenSign(v.Q), v.gacc) \in {1, Neg(1)}
  <1>1. DeriveInterpolatingValue(ids, my_id) \in NonZero BY InterpolatingValue
  <1>2. Mul(EvenSign(v.Q), v.gacc) \in {1, Neg(1)}
    BY EvenSignLaws, Signs DEF Coefficients
  <1>3. 1 \in NonZero /\ Neg(1) \in NonZero
    <2>1. 1 \in NonZero BY UnitsAreScalars DEF NonZero
    <2> QED BY <2>1, NegNonZero
  <1>4. v.e \in NonZero BY DEF Coefficients
  <1>5. Mul(v.e, DeriveInterpolatingValue(ids, my_id)) \in NonZero BY <1>1, <1>4, NoZeroDivisors
  <1>6. Mul(EvenSign(v.Q), v.gacc) \in NonZero BY <1>2, <1>3
  <1> QED BY <1>2, <1>5, <1>6, NoZeroDivisors DEF ShareFactor

\* What sign computes satisfies the equation that is verified.
LEMMA SigningEquation ==
  ASSUME NEW ids, SignerIds(ids), NEW my_id \in ToSet(ids), NEW v, Coefficients(v),
         NEW k_1 \in Scalars, NEW k_2 \in Scalars, NEW secshare \in Scalars
  PROVE  /\ PartialSig(k_1, k_2, secshare, my_id, ids, v) \in Scalars
         /\ PartialSigEquation(PartialSig(k_1, k_2, secshare, my_id, ids, v), my_id,
                               <<Mul(k_1, G), Mul(k_2, G)>>, Mul(secshare, G), ids, v)
  <1> DEFINE a == DeriveInterpolatingValue(ids, my_id)
             g == Mul(EvenSign(v.Q), v.gacc)
             b == v.b
             ea == Mul(v.e, a)
             s == PartialSig(k_1, k_2, secshare, my_id, ids, v)
  <1>1. a \in Scalars /\ v.e \in Scalars /\ b \in Scalars
    BY InterpolatingValue DEF Coefficients, NonZero
  <1>2. g \in Scalars BY ShareFactorNonZero, Signs
  <1>3. ea \in Scalars BY <1>1, Closed
  <1>4. Mul(k_1, G) = k_1 /\ Mul(k_2, G) = k_2 /\ Mul(secshare, G) = secshare
    BY UnitsAndNegation DEF G
  <1>5. Mul(b, k_2) \in Scalars /\ Neg(k_1) \in Scalars /\ Neg(k_2) \in Scalars
    BY <1>1, Closed
  <1>6. Neg(Add(k_1, Mul(b, k_2))) = Add(Neg(k_1), Mul(b, Neg(k_2)))
    BY <1>1, <1>5, SignLaws
  <1>7. Mul(ea, Mul(g, secshare)) = Mul(Mul(ea, g), secshare) BY <1>2, <1>3, MulAssoc
  <1> DEFINE n == IF HasEvenY(v.R) THEN Add(k_1, Mul(b, k_2)) ELSE Neg(Add(k_1, Mul(b, k_2)))
             share == Mul(Mul(ea, g), secshare)
  <1>8. s = Add(n, share)
    BY <1>6, <1>7 DEF PartialSig
  <1>9. n \in Scalars /\ share \in Scalars BY <1>2, <1>3, <1>5, Closed
  <1>10. s \in Scalars /\ Mul(s, G) = s
    <2>1. s \in Scalars BY <1>8, <1>9, Closed
    <2> HIDE DEF s
    <2> QED BY <2>1, UnitsAndNegation DEF G
  <1>11. PartialSigEquation(s, my_id, <<k_1, k_2>>, secshare, ids, v)
           <=> Mul(s, G) = Add(n, share)
    BY DEF PartialSigEquation, SessionNonce
  <1> HIDE DEF s
  <1> QED BY <1>4, <1>8, <1>10, <1>11 DEF s

\* No partial signature satisfies the equation for two public shares.
LEMMA EquationBindsShare ==
  ASSUME NEW ids, SignerIds(ids), NEW my_id \in ToSet(ids), NEW v, Coefficients(v),
         NEW s, NEW pubnonce, pubnonce[1] \in Scalars, pubnonce[2] \in Scalars,
         NEW P \in Scalars, NEW Q \in Scalars,
         PartialSigEquation(s, my_id, pubnonce, P, ids, v),
         PartialSigEquation(s, my_id, pubnonce, Q, ids, v)
  PROVE  P = Q
  <1> DEFINE c == ShareFactor(ids, my_id, v)
             Re == SessionNonce(pubnonce, v.b)
             n == IF HasEvenY(v.R) THEN Re ELSE Neg(Re)
  <1>1. c \in NonZero /\ c \in Scalars BY ShareFactorNonZero DEF NonZero
  <1>2. n \in Scalars
    <2>1. v.b \in Scalars BY DEF Coefficients, NonZero
    <2>2. Re \in Scalars BY <2>1, Closed DEF SessionNonce
    <2> QED BY <2>2, Closed
  <1>3. Mul(s, G) = Add(n, Mul(c, P)) /\ Mul(s, G) = Add(n, Mul(c, Q))
    BY DEF PartialSigEquation, ShareFactor
  <1> HIDE DEF n, c
  <1>4. Mul(c, P) \in Scalars /\ Mul(c, Q) \in Scalars BY <1>1, Closed
  <1>5. Mul(c, P) = Mul(c, Q)
    <2>1. Add(Neg(n), Add(n, Mul(c, P))) = Mul(c, P) /\ Add(Neg(n), Add(n, Mul(c, Q))) = Mul(c, Q)
      BY <1>2, <1>4, TakeOff
    <2> QED BY <1>3, <2>1
  <1> QED BY <1>1, <1>5, CancelFactor

\* A common factor is taken out of a sum.
LEMMA SumScaled ==
  ASSUME NEW S, IsFiniteSet(S), NEW b, ScalarsOn(S, b), NEW c \in Scalars,
         NEW f, \A x \in S : f[x] = Mul(c, b[x])
  PROVE  SumOver(S, f) = Mul(c, SumOver(S, b))
  <1> DEFINE zeros == [x \in S |-> 0]
             z == SumOver(S, zeros)
  <1>1. 0 \in Scalars /\ 1 \in Scalars BY UnitsAreScalars
  <1>2. ScalarsOn(S, zeros) BY <1>1 DEF ScalarsOn
  <1>3. \A x \in S : zeros[x] = Add(zeros[x], Mul(1, zeros[x]))
    BY <1>1, UnitsAndNegation
  <1>4. \A x \in S : f[x] = Add(zeros[x], Mul(c, b[x]))
    <2>1. \A x \in S : Mul(c, b[x]) \in Scalars BY Closed DEF ScalarsOn
    <2> QED BY <2>1, UnitsAndNegation
  <1> HIDE DEF zeros
  <1>5. z \in Scalars /\ z = Add(z, Mul(1, z)) BY <1>1, <1>2, <1>3, SumIsLinear, SumLaws
  <1>6. z = 0
    <2>1. z = Add(z, z) BY <1>5, UnitsAndNegation
    <2>2. Add(Neg(z), Add(z, z)) = z BY <1>5, TakeOff
    <2>3. Add(Neg(z), z) = 0 BY <1>5, Closed, Commutes, UnitsAndNegation
    <2> QED BY <2>1, <2>2, <2>3
  <1>7. SumOver(S, f) = Add(z, Mul(c, SumOver(S, b))) BY <1>2, <1>4, SumIsLinear
  <1>8. Mul(c, SumOver(S, b)) \in Scalars BY SumLaws, Closed
  <1> QED BY <1>6, <1>7, <1>8, UnitsAndNegation

\* Every signer's contributions satisfy the equation.
AllVerified(psigs, pubnonces, ids, pubshares, v) ==
  \A i \in DOMAIN ids :
    /\ psigs[i] \in Scalars /\ pubshares[i] \in Scalars
    /\ pubnonces[i][1] \in Scalars /\ pubnonces[i][2] \in Scalars
    /\ PartialSigEquation(psigs[i], ids[i], pubnonces[i], pubshares[i], ids, v)

\* The sum of the j-th components of all public nonces.
SumOfNonces(pubnonces, ids, j) == SumOver(DOMAIN ids, [i \in DOMAIN ids |-> pubnonces[i][j]])

\* The nonces of all signers add up to the aggregate nonce under b.
LEMMA SumOfSessionNonces ==
  ASSUME NEW S, IsFiniteSet(S), NEW n1, ScalarsOn(S, n1), NEW n2, ScalarsOn(S, n2),
         NEW b \in Scalars, NEW f, \A i \in S : f[i] = Add(n1[i], Mul(b, n2[i]))
  PROVE  SumOver(S, f) = SessionNonce(<<SumOver(S, n1), SumOver(S, n2)>>, b)
  <1>1. SumOver(S, f) = Add(SumOver(S, n1), Mul(b, SumOver(S, n2))) BY SumIsLinear
  <1> QED BY <1>1 DEF SessionNonce

\* The partial signatures of all signers add up to +-R + e*g*gacc * pk.
LEMMA SumOfPsigs ==
  ASSUME NEW ids, SignerIds(ids), NEW v, Coefficients(v), NEW psigs, NEW pubnonces,
         NEW pubshares, AllVerified(psigs, pubnonces, ids, pubshares, v)
  PROVE  SumOver(DOMAIN ids, psigs)
           = Add(Mul(EvenSign(v.R), SessionNonce(<<SumOfNonces(pubnonces, ids, 1),
                                                   SumOfNonces(pubnonces, ids, 2)>>, v.b)),
                 Mul(Mul(v.e, Mul(EvenSign(v.Q), v.gacc)), SumOfShares(ids, pubshares)))
  <1> DEFINE S == DOMAIN ids
             n1 == [i \in S |-> pubnonces[i][1]]
             n2 == [i \in S |-> pubnonces[i][2]]
             n == [i \in S |-> Add(n1[i], Mul(v.b, n2[i]))]
             sg == EvenSign(v.R)
             m == [i \in S |-> Mul(sg, n[i])]
             w == [i \in S |-> Mul(DeriveInterpolatingValue(ids, ids[i]), pubshares[i])]
             g == Mul(EvenSign(v.Q), v.gacc)
             c == Mul(v.e, g)
  <1>1. IsFiniteSet(S)
    <2>1. S = 1 .. Len(ids) /\ Len(ids) \in Nat BY DEF SignerIds
    <2> QED BY <2>1, FS_Interval
  <1>2. v.b \in Scalars /\ v.e \in Scalars BY DEF Coefficients, NonZero
  <1>3. ScalarsOn(S, n1) /\ ScalarsOn(S, n2) BY DEF ScalarsOn, AllVerified
  <1>4. ScalarsOn(S, n) BY <1>2, <1>3, Closed DEF ScalarsOn
  <1>5. sg \in {1, Neg(1)} /\ sg \in Scalars BY Signs DEF EvenSign
  <1>6. ScalarsOn(S, m) BY <1>4, <1>5, Closed DEF ScalarsOn
  <1>7. ASSUME NEW i \in S
        PROVE  /\ ids[i] \in ToSet(ids)
               /\ DeriveInterpolatingValue(ids, ids[i]) \in Scalars
               /\ w[i] \in Scalars /\ pubshares[i] \in Scalars
    <2>1. ids[i] \in ToSet(ids) BY DEF ToSet
    <2>2. DeriveInterpolatingValue(ids, ids[i]) \in Scalars BY <2>1, InterpolatingValue DEF NonZero
    <2>3. pubshares[i] \in Scalars BY DEF AllVerified
    <2> QED BY <2>1, <2>2, <2>3, Closed
  <1>8. ScalarsOn(S, w) BY <1>7 DEF ScalarsOn
  <1>9. c \in Scalars /\ g \in Scalars
    <2>1. EvenSign(v.Q) \in Scalars /\ v.gacc \in Scalars
      BY Signs DEF EvenSign, Coefficients
    <2> QED BY <1>2, <2>1, Closed
  <1>10. ASSUME NEW i \in S PROVE psigs[i] = Add(m[i], Mul(c, w[i]))
    <2> DEFINE a == DeriveInterpolatingValue(ids, ids[i])
               P == pubshares[i]
               Re == SessionNonce(pubnonces[i], v.b)
    <2>1. /\ psigs[i] \in Scalars
          /\ Mul(psigs[i], G) = Add(IF HasEvenY(v.R) THEN Re ELSE Neg(Re),
                                    Mul(Mul(Mul(v.e, a), g), P))
      BY DEF AllVerified, PartialSigEquation
    <2>2. Mul(psigs[i], G) = psigs[i] BY <2>1, UnitsAndNegation DEF G
    <2>3. Re = n[i] /\ Re \in Scalars BY <1>4 DEF SessionNonce, ScalarsOn
    <2>4. m[i] = IF HasEvenY(v.R) THEN Re ELSE Neg(Re)
      BY <2>3, NegIsMinusOne, UnitsAndNegation DEF EvenSign
    <2>5. Mul(Mul(Mul(v.e, a), g), P) = Mul(c, w[i])
      <3>1. a \in Scalars /\ P \in Scalars /\ w[i] = Mul(a, P) BY <1>7
      <3>2. Mul(Mul(v.e, a), g) = Mul(c, a)
        BY <1>2, <1>9, <3>1, MulAssoc, Commutes
      <3> HIDE DEF a, P, c, w, g
      <3>3. Mul(Mul(c, a), P) = Mul(c, Mul(a, P)) BY <1>9, <3>1, MulAssoc
      <3> QED BY <3>1, <3>2, <3>3
    <2> HIDE DEF m, w, c, Re
    <2> QED BY <2>1, <2>2, <2>4, <2>5
  <1> HIDE DEF m, w, c, n, n1, n2, sg
  <1>11. SumOver(S, psigs) = Add(SumOver(S, m), Mul(c, SumOver(S, w)))
    BY <1>1, <1>6, <1>8, <1>9, <1>10, SumIsLinear
  <1>12. SumOver(S, m) = Mul(sg, SumOver(S, n)) BY <1>1, <1>4, <1>5, SumScaled DEF m
  <1>13. SumOver(S, n) = SessionNonce(<<SumOver(S, n1), SumOver(S, n2)>>, v.b)
    BY <1>1, <1>2, <1>3, SumOfSessionNonces DEF n
  <1> QED BY <1>11, <1>12, <1>13 DEF SumOfNonces, SumOfShares, n1, n2, w, c, sg

\* BIP340 verification is the equation s*G = R + e*P of points with even y.
LEMMA VerifyEquation ==
  ASSUME NEW msg, NEW R \in NonZero, NEW Q \in NonZero, NEW s \in Scalars,
         s = Add(ToXonly(R), Mul(ChallengeOf(ToXonly(R), ToXonly(Q), msg), ToXonly(Q))),
         ChallengeOf(ToXonly(R), ToXonly(Q), msg) \in Scalars
  PROVE  SchnorrVerify(msg, ToXonly(Q), <<ToXonly(R), s>>)
  <1> DEFINE xR == ToXonly(R)
             xQ == ToXonly(Q)
             eQ == Mul(ChallengeOf(xR, xQ, msg), xQ)
  <1>1. xR \in EvenPoints /\ xQ \in EvenPoints BY EvenSignLaws DEF HasEvenY
  <1>2. xR \in NonZero /\ xR \in Scalars /\ xQ \in Scalars
    BY NegNonZero DEF ToXonly, NonZero
  <1>3. eQ \in Scalars BY <1>2, Closed
  <1>4. Mul(s, G) = s BY UnitsAndNegation DEF G
  <1> HIDE DEF xR, xQ, eQ
  <1>5. Sub(Add(xR, eQ), eQ) = xR BY <1>2, <1>3, TakeOff
  <1>6. s = Add(xR, eQ) BY DEF xR, xQ, eQ
  <1>7. Sub(Mul(s, G), eQ) = xR BY <1>4, <1>5, <1>6
  <1>8. SchnorrVerify(msg, xQ, <<xR, s>>)
    BY <1>1, <1>2, <1>7 DEF SchnorrVerify, ScalarInRange, Infinity, HasEvenY, NonZero, eQ
  <1> QED BY <1>8 DEF xR, xQ

\* When every partial signature satisfies its equation, and the nonces do not
\* cancel, the sum with the tweak summand verifies under the tweaked key.
LEMMA AggregateVerifies ==
  ASSUME NEW ctx, SignerIds(ctx.ids), NEW v, ValuesOk(ctx, v), ctx.thresh_pk \in NonZero,
         ctx.thresh_pk = SumOfShares(ctx.ids, ctx.pubshares),
         NEW psigs, NEW pubnonces,
         AllVerified(psigs, pubnonces, ctx.ids, ctx.pubshares, v),
         ctx.aggnonce = <<SumOfNonces(pubnonces, ctx.ids, 1), SumOfNonces(pubnonces, ctx.ids, 2)>>,
         SessionNonce(ctx.aggnonce, v.b) # Infinity
  PROVE  SchnorrVerify(ctx.msg, ToXonly(v.Q),
           <<ToXonly(v.R), Add(SumOver(DOMAIN ctx.ids, psigs), TweakSummand(v))>>)
  <1> DEFINE pk == ctx.thresh_pk
             g == EvenSign(v.Q)
             e == v.e
             gacc == v.gacc
             tacc == v.tacc
             xR == ToXonly(v.R)
             xQ == ToXonly(v.Q)
             eg == Mul(e, g)
             sum == SumOver(DOMAIN ctx.ids, psigs)
             s == Add(sum, TweakSummand(v))
  <1>1. Coefficients(v) BY DEF Coefficients, ValuesOk
  <1>2. /\ pk \in Scalars /\ e \in Scalars /\ gacc \in Scalars /\ tacc \in Scalars
        /\ g \in Scalars /\ v.Q \in Scalars /\ v.Q = Add(Mul(gacc, pk), tacc)
        /\ v.Q \in NonZero /\ v.R \in NonZero /\ v.R \in Scalars
    BY Signs DEF ValuesOk, NonZero, EvenSign
  <1>3. v.R = SessionNonce(ctx.aggnonce, v.b) BY DEF ValuesOk, FinalNonce
  <1>4. sum = Add(Mul(EvenSign(v.R), v.R), Mul(Mul(e, Mul(g, gacc)), pk))
    BY <1>1, <1>3, SumOfPsigs
  <1>5. xR = Mul(EvenSign(v.R), v.R) /\ xQ = Mul(g, v.Q) BY <1>2, EvenSignLaws
  <1>6. xR \in Scalars /\ xQ \in Scalars
    BY <1>2, Closed DEF ToXonly
  <1>7. TweakSummand(v) = Mul(eg, tacc) BY DEF TweakSummand
  <1>8. ChallengeOf(xR, xQ, ctx.msg) = e BY DEF ValuesOk, ChallengeOf
  <1> HIDE DEF pk, g, e, gacc, tacc, xR, xQ, sum
  <1>9. eg \in Scalars /\ Mul(gacc, pk) \in Scalars BY <1>2, Closed
  <1>10. Mul(Mul(e, Mul(g, gacc)), pk) = Mul(eg, Mul(gacc, pk))
    <2>1. Mul(e, Mul(g, gacc)) = Mul(eg, gacc) BY <1>2, MulAssoc
    <2> HIDE DEF eg
    <2> QED BY <1>2, <1>9, <2>1, MulAssoc
  <1>11. Mul(e, xQ) = Add(Mul(eg, Mul(gacc, pk)), Mul(eg, tacc))
    <2>1. Mul(e, Mul(g, v.Q)) = Mul(eg, v.Q) BY <1>2, MulAssoc
    <2> HIDE DEF eg
    <2> QED BY <1>2, <1>5, <1>9, <2>1, Distributes
  <1> HIDE DEF eg
  <1>12. Mul(eg, Mul(gacc, pk)) \in Scalars /\ Mul(eg, tacc) \in Scalars BY <1>2, <1>9, Closed
  <1>13. s = Add(xR, Mul(e, xQ))
    BY <1>4, <1>5, <1>6, <1>7, <1>10, <1>11, <1>12, AddAssoc
  <1>14. s \in Scalars
    <2>1. Mul(e, xQ) \in Scalars BY <1>2, <1>6, Closed
    <2> HIDE DEF s
    <2> QED BY <1>6, <1>13, <2>1, Closed
  <1> HIDE DEF s
  <1>15. SchnorrVerify(ctx.msg, xQ, <<xR, s>>)
    BY <1>2, <1>8, <1>13, <1>14, VerifyEquation DEF xR, xQ
  <1> QED BY <1>15 DEF xR, xQ, s, sum

-----------------------------------------------------------------------------
(* What the calls of the two rounds return.                                *)

\* No hash of a session is 0 modulo Order.
HashesAreNonZero(ctx) ==
  \A R, Q \in EvenPoints :
    /\ ScalarOf(NonceCoefHash(Len(ctx.ids), SerializeIds(ctx.ids), ctx.aggnonce, Q, ctx.msg))
         \in NonZero
    /\ ScalarOf(ChallengeHash(R, Q, ctx.msg)) \in NonZero

\* The session values exist if the tweaks apply and the aggregate nonce is one.
LEMMA SessionValuesExist ==
  ASSUME NEW ctx, SessionShape(ctx),
         ValidateSessionParams(ctx.n, ctx.t, ctx.ids, ctx.knows_pubshares, ctx.pubshares,
                               ctx.thresh_pk) = Returns(TRUE),
         Succeeds(ThreshPubkeyAndTweak(ctx.thresh_pk, ctx.tweaks, ctx.is_xonly)),
         ctx.aggnonce[1] \in Scalars, ctx.aggnonce[2] \in Scalars, HashesAreNonZero(ctx)
  PROVE  Succeeds(GetSessionValues(ctx))
  <1> DEFINE valid == ValidateSessionParams(ctx.n, ctx.t, ctx.ids, ctx.knows_pubshares,
                                            ctx.pubshares, ctx.thresh_pk)
             r == ThreshPubkeyAndTweak(ctx.thresh_pk, ctx.tweaks, ctx.is_xonly)
             values == GetSessionValues(ctx)
  <1>1. valid = Returns(TRUE) OBVIOUS
  <1> HIDE DEF valid
  <1>2. values = Then(r, LAMBDA tweak_ctx : ValuesOfKey(ctx, tweak_ctx))
    BY <1>1 DEF GetSessionValues, Then, Succeeds, Returns, valid
  <1>3. r \in TweakResults(ctx.thresh_pk) /\ Succeeds(r) BY TweaksExplain DEF SessionShape
  <1> HIDE DEF r
  <1>4. PICK tweak_ctx \in Explained(ctx.thresh_pk) : values = ValuesOfKey(ctx, tweak_ctx)
    BY <1>2, <1>3 DEF TweakResults, Then, Succeeds, Returns, ValueError
  <1> HIDE DEF values
  <1> DEFINE Q == tweak_ctx.Q
             b == ScalarOf(NonceCoefHash(Len(ctx.ids), SerializeIds(ctx.ids), ctx.aggnonce,
                                         ToXonly(Q), ctx.msg))
             R == FinalNonce(ctx.aggnonce, b)
             e == ScalarOf(ChallengeHash(ToXonly(R), ToXonly(Q), ctx.msg))
             bad == {j \in 1 .. 2 : ~ PointOrInfinityDecodes(ctx.aggnonce[j])}
             v == [Q |-> Q, gacc |-> tweak_ctx.gacc, tacc |-> tweak_ctx.tacc,
                   b |-> b, R |-> R, e |-> e]
  <1>5. Q \in NonZero BY DEF Explained
  <1>6. ToXonly(Q) \in EvenPoints BY <1>5, EvenSignLaws DEF HasEvenY
  <1>7. b \in NonZero BY <1>6 DEF HashesAreNonZero
  <1>8. R \in NonZero
    <2> HIDE DEF b
    <2>1. b \in Scalars BY <1>7 DEF NonZero
    <2>2. Add(ctx.aggnonce[1], Mul(b, ctx.aggnonce[2])) \in Scalars /\ 1 \in Scalars
      BY <2>1, Closed, UnitsAreScalars
    <2> QED BY <2>2 DEF FinalNonce, SessionNonce, Infinity, G, NonZero
  <1>9. ToXonly(R) \in EvenPoints
    <2> HIDE DEF R
    <2> QED BY <1>8, EvenSignLaws DEF HasEvenY
  <1>10. e \in NonZero
    <2> HIDE DEF R
    <2> QED BY <1>6, <1>9 DEF HashesAreNonZero
  <1>11. bad = {} BY DEF PointOrInfinityDecodes
  <1>12. values = IF b \notin NonZero THEN AssertionError
                  ELSE IF bad # {}
                  THEN IF ctx.aggnonce[Min(bad)] = WrongLength
                       THEN AssertionError ELSE InvalidContribution(None, "aggnonce")
                  ELSE IF e \notin NonZero THEN AssertionError ELSE Returns(v)
    BY <1>4 DEF ValuesOfKey
  <1> HIDE DEF Q, b, R, e, bad, v
  <1>13. values = Returns(v) BY <1>7, <1>10, <1>11, <1>12
  <1> QED BY <1>13 DEF Succeeds, Returns, values

\* What get_session_values finds valid.
ValidContext(ctx) ==
  ValidateSessionParams(ctx.n, ctx.t, ctx.ids, ctx.knows_pubshares, ctx.pubshares,
                        ctx.thresh_pk) = Returns(TRUE)

\* Session values are the same where the parameters are valid and the key and
\* the tweaks are the same, if they are the same of every tweaked key.
LEMMA SameValuesOfKey ==
  ASSUME NEW ctx, NEW other, ValidContext(ctx), ValidContext(other),
         other.thresh_pk = ctx.thresh_pk, other.tweaks = ctx.tweaks,
         other.is_xonly = ctx.is_xonly,
         \A tweak_ctx : ValuesOfKey(other, tweak_ctx) = ValuesOfKey(ctx, tweak_ctx)
  PROVE  GetSessionValues(other) = GetSessionValues(ctx)
  <1> DEFINE valid(c) == ValidateSessionParams(c.n, c.t, c.ids, c.knows_pubshares, c.pubshares,
                                               c.thresh_pk)
             r == ThreshPubkeyAndTweak(ctx.thresh_pk, ctx.tweaks, ctx.is_xonly)
  <1>1. valid(ctx) = Returns(TRUE) /\ valid(other) = Returns(TRUE) BY DEF ValidContext
  <1>2. /\ GetSessionValues(ctx) =
             Then(valid(ctx), LAMBDA u : Then(r, LAMBDA tweak_ctx : ValuesOfKey(ctx, tweak_ctx)))
        /\ GetSessionValues(other) =
             Then(valid(other), LAMBDA u : Then(r, LAMBDA tweak_ctx : ValuesOfKey(other, tweak_ctx)))
    BY DEF GetSessionValues
  <1> HIDE DEF valid, r
  <1> QED BY <1>1, <1>2 DEF Then, Succeeds, Returns

\* Whether a signer knows the public shares does not change its session values.
LEMMA SameSessionValues ==
  ASSUME NEW ctx, NEW knows \in BOOLEAN, NEW other,
         other.n = ctx.n, other.t = ctx.t, other.ids = ctx.ids,
         other.knows_pubshares = knows, ctx.knows_pubshares = TRUE,
         other.pubshares = ctx.pubshares, other.thresh_pk = ctx.thresh_pk,
         other.aggnonce = ctx.aggnonce, other.tweaks = ctx.tweaks,
         other.is_xonly = ctx.is_xonly, other.msg = ctx.msg,
         ValidateSessionParams(ctx.n, ctx.t, ctx.ids, TRUE, ctx.pubshares, ctx.thresh_pk)
           = Returns(TRUE)
  PROVE  GetSessionValues(other) = GetSessionValues(ctx)
  <1>1. ValidContext(ctx) BY DEF ValidContext
  <1>2. ValidateSessionParams(ctx.n, ctx.t, ctx.ids, knows, ctx.pubshares, ctx.thresh_pk)
          = Returns(TRUE)
    <2> DEFINE n == ctx.n
               t == ctx.t
               ids == ctx.ids
               shares == ctx.pubshares
               key == ctx.thresh_pk
    <2>1. ValidateSessionParams(n, t, ids, TRUE, shares, key) = Returns(TRUE) OBVIOUS
    <2> HIDE DEF n, t, ids, shares, key
    <2>2. ValidateSessionParams(n, t, ids, knows, shares, key) = Returns(TRUE)
      BY <2>1, PassUnknown
    <2> QED BY <2>2 DEF n, t, ids, shares, key
  <1>3. ValidContext(other) BY <1>2 DEF ValidContext
  <1>4. \A tweak_ctx : ValuesOfKey(other, tweak_ctx) = ValuesOfKey(ctx, tweak_ctx)
    BY DEF ValuesOfKey
  <1> QED BY <1>1, <1>3, <1>4, SameValuesOfKey

\* A call that returns a truth value.
LEMMA TruthReturned ==
  ASSUME NEW b \in BOOLEAN
  PROVE  /\ Returns(b) = Returns(TRUE) <=> b = TRUE
         /\ Returns(b) \in {Returns(TRUE), Returns(FALSE)}
  <1>1. Returns(TRUE).val = TRUE /\ Returns(b).val = b BY DEF Returns
  <1>2. b = TRUE \/ b = FALSE OBVIOUS
  <1> QED BY <1>1, <1>2

\* What partial_sig_verify_internal accepts, under session values v.
LEMMA Acceptance ==
  ASSUME NEW ctx, NEW v, GetSessionValues(ctx) = Returns(v),
         NEW psig, NEW my_id, NEW pubnonce, NEW pubshare
  PROVE  LET accepted == PartialSigVerifyInternal(psig, my_id, pubnonce, pubshare, ctx)
         IN  /\ accepted = Returns(TRUE) <=>
                  /\ psig \in Scalars /\ pubnonce[1] \in NonZero /\ pubnonce[2] \in NonZero
                  /\ pubshare \in NonZero
                  /\ PartialSigEquation(psig, my_id, pubnonce, pubshare, ctx.ids, v)
             /\ accepted \in {Returns(TRUE), Returns(FALSE)}
  <1> DEFINE accepts == /\ ScalarInRange(psig)
                        /\ PointDecodes(pubnonce[1]) /\ PointDecodes(pubnonce[2])
                        /\ PointDecodes(pubshare)
                        /\ PartialSigEquation(psig, my_id, pubnonce, pubshare, ctx.ids, v)
             accepted == PartialSigVerifyInternal(psig, my_id, pubnonce, pubshare, ctx)
  <1>1. accepted = Returns(accepts)
    BY DEF PartialSigVerifyInternal, Then, Succeeds, Returns
  <1>2. accepts \in BOOLEAN OBVIOUS
  <1>3. accepts = TRUE <=>
          /\ psig \in Scalars /\ pubnonce[1] \in NonZero /\ pubnonce[2] \in NonZero
          /\ pubshare \in NonZero
          /\ PartialSigEquation(psig, my_id, pubnonce, pubshare, ctx.ids, v)
    BY DEF ScalarInRange, PointDecodes
  <1> HIDE DEF accepts, accepted
  <1>4. /\ accepted = Returns(TRUE) <=> accepts = TRUE
        /\ accepted \in {Returns(TRUE), Returns(FALSE)}
    BY <1>1, <1>2, TruthReturned
  <1> QED BY <1>3, <1>4 DEF accepted

\* An aggregate nonce sums points that all decoded.
LEMMA NonceAggReturned ==
  ASSUME NEW ids \in Seq(Nat), NEW pubnonces, DOMAIN pubnonces = DOMAIN ids, NEW agg,
         NonceAgg(pubnonces) = Returns(agg)
  PROVE  /\ agg = <<SumOfNonces(pubnonces, ids, 1), SumOfNonces(pubnonces, ids, 2)>>
         /\ \A i \in DOMAIN ids : pubnonces[i][1] \in NonZero /\ pubnonces[i][2] \in NonZero
         /\ agg[1] \in Scalars /\ agg[2] \in Scalars
  <1> DEFINE bad(j) == {i \in DOMAIN pubnonces : ~ PointDecodes(pubnonces[i][j])}
             failure(j) == IF pubnonces[Min(bad(j))][j] = WrongLength
                           THEN AssertionError
                           ELSE InvalidContribution(FirstOf(bad(j)), "pubnonce")
             R(j) == SumOver(DOMAIN pubnonces, [i \in DOMAIN pubnonces |-> pubnonces[i][j]])
  <1>1. NonceAgg(pubnonces) = IF bad(1) # {} THEN failure(1)
                              ELSE IF bad(2) # {} THEN failure(2)
                              ELSE Returns(<<R(1), R(2)>>)
    BY DEF NonceAgg
  <1>2. \A j \in 1 .. 2 : failure(j).kind # "returns"
    BY DEF AssertionError, InvalidContribution
  <1>3. R(1) = SumOfNonces(pubnonces, ids, 1) /\ R(2) = SumOfNonces(pubnonces, ids, 2)
    BY DEF SumOfNonces
  <1> HIDE DEF failure, R
  <1>4. bad(1) = {} /\ bad(2) = {} /\ agg = <<R(1), R(2)>>
    <2> HIDE DEF bad
    <2>1. 1 \in 1 .. 2 /\ 2 \in 1 .. 2 OBVIOUS
    <2>2. failure(1).kind # "returns" /\ failure(2).kind # "returns" BY <1>2, <2>1
    <2>3. \A w : Returns(w).kind = "returns" /\ Returns(w).val = w BY DEF Returns
    <2>4. bad(1) = {} BY <1>1, <2>2, <2>3
    <2>5. bad(2) = {} BY <1>1, <2>2, <2>3, <2>4
    <2>6. Returns(agg) = Returns(<<R(1), R(2)>>) BY <1>1, <2>4, <2>5
    <2> QED BY <2>3, <2>4, <2>5, <2>6
  <1>5. \A i \in DOMAIN ids : pubnonces[i][1] \in NonZero /\ pubnonces[i][2] \in NonZero
    BY <1>4 DEF PointDecodes
  <1>6. ASSUME NEW j \in 1 .. 2 PROVE SumOfNonces(pubnonces, ids, j) \in Scalars
    <2> DEFINE f == [i \in DOMAIN ids |-> pubnonces[i][j]]
    <2>1. ScalarsOn(DOMAIN ids, f) BY <1>5 DEF ScalarsOn, NonZero
    <2>2. IsFiniteSet(DOMAIN ids) BY FS_Interval
    <2> HIDE DEF f
    <2>3. SumOver(DOMAIN ids, f) \in Scalars BY <2>1, <2>2, SumLaws
    <2> QED BY <2>3 DEF SumOfNonces, f
  <1> QED BY <1>3, <1>4, <1>5, <1>6

\* It returns the sums if every contribution decodes.
LEMMA NonceAggSums ==
  ASSUME NEW pubnonces,
         \A i \in DOMAIN pubnonces : pubnonces[i][1] \in NonZero /\ pubnonces[i][2] \in NonZero
  PROVE  NonceAgg(pubnonces)
           = Returns(<<SumOver(DOMAIN pubnonces, [i \in DOMAIN pubnonces |-> pubnonces[i][1]]),
                       SumOver(DOMAIN pubnonces, [i \in DOMAIN pubnonces |-> pubnonces[i][2]])>>)
  <1> DEFINE bad(j) == {i \in DOMAIN pubnonces : ~ PointDecodes(pubnonces[i][j])}
  <1>1. bad(1) = {} /\ bad(2) = {} BY DEF PointDecodes
  <1> QED BY <1>1 DEF NonceAgg

\* What it returns when it succeeds is a result.
LEMMA NonceAggSucceeds ==
  ASSUME NEW pubnonces, Succeeds(NonceAgg(pubnonces))
  PROVE  NonceAgg(pubnonces) = Returns(NonceAgg(pubnonces).val)
  <1> DEFINE bad(j) == {i \in DOMAIN pubnonces : ~ PointDecodes(pubnonces[i][j])}
             failure(j) == IF pubnonces[Min(bad(j))][j] = WrongLength
                           THEN AssertionError
                           ELSE InvalidContribution(FirstOf(bad(j)), "pubnonce")
             R(j) == SumOver(DOMAIN pubnonces, [i \in DOMAIN pubnonces |-> pubnonces[i][j]])
             agg == NonceAgg(pubnonces)
  <1>1. agg = IF bad(1) # {} THEN failure(1)
              ELSE IF bad(2) # {} THEN failure(2)
              ELSE Returns(<<R(1), R(2)>>)
    BY DEF NonceAgg
  <1>2. failure(1).kind # "returns" /\ failure(2).kind # "returns"
    BY DEF AssertionError, InvalidContribution
  <1>3. agg.kind = "returns" BY DEF Succeeds
  <1>4. \A w : Returns(w).val = w BY DEF Returns
  <1> HIDE DEF failure, bad, R, agg
  <1>5. agg = Returns(<<R(1), R(2)>>) BY <1>1, <1>2, <1>3
  <1>6. agg = Returns(agg.val) BY <1>4, <1>5
  <1> QED BY <1>6 DEF agg

\* If it fails, a contribution is to blame that does not decode, unless one is
\* of the wrong length.
LEMMA NonceAggBlames ==
  ASSUME NEW ids \in Seq(Nat), NEW pubnonces, DOMAIN pubnonces = DOMAIN ids,
         \A i \in DOMAIN ids : pubnonces[i][1] # WrongLength /\ pubnonces[i][2] # WrongLength,
         ~ Succeeds(NonceAgg(pubnonces))
  PROVE  \E i \in DOMAIN ids :
           /\ pubnonces[i][1] \notin NonZero \/ pubnonces[i][2] \notin NonZero
           /\ NonceAgg(pubnonces) = InvalidContribution(i, "pubnonce")
  <1> DEFINE bad(j) == {i \in DOMAIN pubnonces : ~ PointDecodes(pubnonces[i][j])}
             failure(j) == IF pubnonces[Min(bad(j))][j] = WrongLength
                           THEN AssertionError
                           ELSE InvalidContribution(FirstOf(bad(j)), "pubnonce")
             R(j) == SumOver(DOMAIN pubnonces, [i \in DOMAIN pubnonces |-> pubnonces[i][j]])
  <1>1. NonceAgg(pubnonces) = IF bad(1) # {} THEN failure(1)
                              ELSE IF bad(2) # {} THEN failure(2)
                              ELSE Returns(<<R(1), R(2)>>)
    BY DEF NonceAgg
  <1>2. ASSUME NEW j \in 1 .. 2, bad(j) # {}
        PROVE  /\ Min(bad(j)) \in DOMAIN ids /\ pubnonces[Min(bad(j))][j] \notin NonZero
               /\ failure(j) = InvalidContribution(Min(bad(j)), "pubnonce")
    <2>1. bad(j) \in SUBSET DOMAIN ids /\ DOMAIN ids = 1 .. Len(ids) OBVIOUS
    <2>2. IsFiniteSet(DOMAIN ids) BY FS_Interval
    <2>3. IsFiniteSet(bad(j)) /\ bad(j) \in SUBSET Int BY <2>1, <2>2, FS_Subset
    <2>4. Min(bad(j)) \in bad(j) BY <1>2, <2>3, Extremes
    <2>5. j = 1 \/ j = 2 OBVIOUS
    <2>6. pubnonces[Min(bad(j))][j] # WrongLength BY <2>4, <2>5
    <2> QED BY <2>4, <2>6 DEF PointDecodes, FirstOf
  <1>3. bad(1) # {} \/ bad(2) # {}
    <2> HIDE DEF bad, failure, R
    <2> QED BY <1>1 DEF Succeeds, Returns
  <1> HIDE DEF bad, failure, R
  <1>4. CASE bad(1) # {} BY <1>1, <1>2, <1>4
  <1>5. CASE bad(1) = {} BY <1>1, <1>2, <1>3, <1>5
  <1> QED BY <1>4, <1>5

\* The place sign looks its own public share up at holds its own identifier.
LEMMA OwnPlace ==
  ASSUME NEW ids, SignerIds(ids), NEW my_id \in ToSet(ids)
  PROVE  LET places == {k \in DOMAIN ids : ids[k] = my_id} IN Min(places) \in places
  <1> DEFINE places == {k \in DOMAIN ids : ids[k] = my_id}
  <1>1. ids \in Seq(Nat) BY DEF SignerIds
  <1>2. DOMAIN ids = 1 .. Len(ids) /\ Len(ids) \in Nat BY <1>1
  <1>3. IsFiniteSet(1 .. Len(ids)) BY <1>2, FS_Interval
  <1>4. places \subseteq 1 .. Len(ids) BY <1>2
  <1>5. places # {} BY DEF ToSet
  <1> HIDE DEF places
  <1>6. IsFiniteSet(places) BY <1>3, <1>4, FS_Subset
  <1>7. places \in SUBSET Int BY <1>2, <1>4
  <1>8. Min(places) \in places BY <1>5, <1>6, <1>7, Extremes
  <1> QED BY <1>8 DEF places

\* Every summand of the partial signature is there: what sign returns, and that
\* the nonce is gone afterwards.
LEMMA SignReturns ==
  ASSUME NEW ctx, SignerIds(ctx.ids), NEW v, GetSessionValues(ctx) = Returns(v), Coefficients(v),
         NEW my_id \in ToSet(ctx.ids), NEW k_1 \in NonZero, NEW k_2 \in NonZero, NEW secshare
  PROVE  LET signed == Sign(<<k_1, k_2>>, secshare, my_id, ctx)
             psig == PartialSig(k_1, k_2, secshare, my_id, ctx.ids, v)
         IN  /\ signed.secnonce = ZeroedSecnonce
             /\ Succeeds(signed.result) => secshare \in NonZero /\ signed.result = Returns(psig)
             /\ (/\ secshare \in NonZero
                 /\ ctx.knows_pubshares =>
                      \A k \in DOMAIN ctx.ids : ctx.ids[k] = my_id => ctx.pubshares[k] = secshare)
                  => signed.result = Returns(psig)
  <1> DEFINE secnonce == <<k_1, k_2>>
             psig == PartialSig(k_1, k_2, secshare, my_id, ctx.ids, v)
             pubnonce == <<Mul(k_1, G), Mul(k_2, G)>>
             place == Min({k \in DOMAIN ctx.ids : ctx.ids[k] = my_id})
             refused == \/ ~ NonZeroScalarInRange(k_1) \/ ~ NonZeroScalarInRange(k_2)
                        \/ ~ NonZeroScalarInRange(secshare)
                        \/ my_id \notin ToSet(ctx.ids)
                        \/ ctx.knows_pubshares /\ ctx.pubshares[place] # Mul(secshare, G)
             checked == PartialSigVerifyInternal(psig, my_id, pubnonce, Mul(secshare, G), ctx)
             result == Sign(secnonce, secshare, my_id, ctx).result
  <1>1. \A j \in 1 .. 2 : NonZeroScalarInRange(secnonce[j]) BY DEF NonZeroScalarInRange
  <1>2. Sign(secnonce, secshare, my_id, ctx).secnonce = ZeroedSecnonce
    <2>1. Succeeds(GetSessionValues(ctx)) BY DEF Succeeds, Returns
    <2> HIDE DEF secnonce
    <2> QED BY <1>1, <2>1 DEF Sign, Overwrite
  <1>3. /\ refused => IsValueError(result)
        /\ ~ refused =>
             result = IF checked = Returns(TRUE) THEN Returns(psig) ELSE AssertionError
    <2>1. result = SignWith(secnonce, secshare, my_id, ctx, v)
      BY DEF Sign, SignResult, Then, Succeeds, Returns
    <2>2. secnonce[1] = k_1 /\ secnonce[2] = k_2 OBVIOUS
    <2> HIDE DEF result, secnonce
    <2> QED BY <2>1, <2>2, ValueErrorsAre DEF SignWith
  <1>4. secshare \in NonZero =>
          /\ Mul(secshare, G) = secshare /\ Mul(k_1, G) = k_1 /\ Mul(k_2, G) = k_2
    BY UnitsAndNegation DEF NonZero, G
  <1>5. ASSUME secshare \in NonZero PROVE checked = Returns(TRUE)
    <2>1. k_1 \in Scalars /\ k_2 \in Scalars /\ secshare \in Scalars BY <1>5 DEF NonZero
    <2>2. psig \in Scalars /\ PartialSigEquation(psig, my_id, pubnonce, Mul(secshare, G), ctx.ids, v)
      BY <2>1, SigningEquation
    <2>3. pubnonce[1] \in NonZero /\ pubnonce[2] \in NonZero /\ Mul(secshare, G) \in NonZero
      BY <1>4, <1>5
    <2> HIDE DEF psig, pubnonce
    <2> QED BY <2>2, <2>3, Acceptance
  <1>6. Succeeds(result) => ~ refused /\ result = Returns(psig)
    <2> HIDE DEF refused, checked, psig, result
    <2>1. ~ Succeeds(AssertionError) BY DEF Succeeds, AssertionError
    <2>2. refused => ~ Succeeds(result)
      <3>1. IsValueError(result) => ~ Succeeds(result) BY KindsDiffer
      <3> QED BY <1>3, <3>1
    <2> QED BY <1>3, <2>1, <2>2
  <1>7. ~ refused => secshare \in NonZero BY DEF NonZeroScalarInRange
  <1>8. ASSUME secshare \in NonZero,
               ctx.knows_pubshares =>
                 \A k \in DOMAIN ctx.ids : ctx.ids[k] = my_id => ctx.pubshares[k] = secshare
        PROVE  ~ refused
    <2> DEFINE places == {k \in DOMAIN ctx.ids : ctx.ids[k] = my_id}
    <2>1. Min(places) \in places BY OwnPlace
    <2>2. ctx.knows_pubshares => ctx.pubshares[place] = secshare BY <1>8, <2>1
    <2> QED BY <1>1, <1>4, <1>8, <2>2 DEF NonZeroScalarInRange
  <1> HIDE DEF refused, checked, psig, place
  <1>9. secshare \in NonZero /\ ~ refused => result = Returns(psig) BY <1>3, <1>5
  <1> QED BY <1>2, <1>6, <1>7, <1>8, <1>9 DEF psig

\* A context whose aggnonce is the one of the public nonces: what
\* partial_sig_verify puts into it is there already.
OwnContext(ctx, pubnonces) ==
  /\ Len(pubnonces) = Len(ctx.ids) /\ Len(ctx.pubshares) = Len(ctx.ids)
  /\ Len(ctx.tweaks) = Len(ctx.is_xonly)
  /\ ValidateSessionParams(ctx.n, ctx.t, ctx.ids, TRUE, ctx.pubshares, ctx.thresh_pk)
       = Returns(TRUE)
  /\ NonceAgg(pubnonces) = Returns(ctx.aggnonce)
  /\ [ctx EXCEPT !.knows_pubshares = TRUE, !.aggnonce = ctx.aggnonce] = ctx

\* So it verifies under that very context.
LEMMA VerifyUnderOwnContext ==
  ASSUME NEW ctx, NEW pubnonces, OwnContext(ctx, pubnonces), NEW i, i \in DOMAIN ctx.ids,
         NEW psig
  PROVE  PartialSigVerify(psig, pubnonces, ctx, i)
           = PartialSigVerifyInternal(psig, ctx.ids[i], pubnonces[i], ctx.pubshares[i], ctx)
  <1> DEFINE verify(agg) ==
               PartialSigVerifyInternal(psig, ctx.ids[i], pubnonces[i], ctx.pubshares[i],
                 [ctx EXCEPT !.knows_pubshares = TRUE, !.aggnonce = agg])
             valid == ValidateSessionParams(ctx.n, ctx.t, ctx.ids, TRUE, ctx.pubshares,
                                            ctx.thresh_pk)
             aggregate == NonceAgg(pubnonces)
  <1>1. PartialSigVerify(psig, pubnonces, ctx, i)
          = Then(valid, LAMBDA u : Then(aggregate, LAMBDA agg : verify(agg)))
    BY DEF PartialSigVerify, OwnContext
  <1>2. valid = Returns(TRUE) /\ aggregate = Returns(ctx.aggnonce) BY DEF OwnContext
  <1>3. verify(ctx.aggnonce)
          = PartialSigVerifyInternal(psig, ctx.ids[i], pubnonces[i], ctx.pubshares[i], ctx)
    BY DEF OwnContext
  <1> HIDE DEF verify, valid, aggregate
  <1> QED BY <1>1, <1>2, <1>3 DEF Then, Succeeds, Returns

\* partial_sig_agg of encoded scalars that are in range.
LEMMA AggregateReturned ==
  ASSUME NEW ctx, NEW v, GetSessionValues(ctx) = Returns(v),
         NEW psigs, Len(psigs) = Len(ctx.ids), \A i \in DOMAIN psigs : psigs[i] \in Scalars
  PROVE  PartialSigAgg(psigs, ctx)
           = Returns(<<ToXonly(v.R), Add(SumOver(DOMAIN psigs, psigs), TweakSummand(v))>>)
  <1> DEFINE bad == {i \in DOMAIN psigs : ~ ScalarInRange(psigs[i])}
  <1>1. bad = {} BY DEF ScalarInRange
  <1> QED BY <1>1 DEF PartialSigAgg, Then, Succeeds, Returns


-----------------------------------------------------------------------------
(* The order in which the signers are listed.                              *)

\* A sum may be taken in another order, and over other indices.
LEMMA SumReindexed ==
  ASSUME NEW S, IsFiniteSet(S), NEW I, IsFiniteSet(I), NEW p, p \in Bijection(S, I),
         NEW f, ScalarsOn(I, f), NEW g, \A x \in S : g[x] = f[p[x]]
  PROVE  SumOver(S, g) = SumOver(I, f)
  <1> DEFINE image(T) == {p[x] : x \in T}
             Good == {T \in SUBSET S : SumOver(T, g) = SumOver(image(T), f)}
  <1>1. /\ p \in [S -> I] /\ (\A x, y \in S : p[x] = p[y] => x = y)
        /\ \A y \in I : \E x \in S : p[x] = y
    BY DEF Bijection, Injection, Surjection, IsInjective
  <1>2. ScalarsOn(S, g) BY <1>1 DEF ScalarsOn
  <1>3. ASSUME NEW T \in SUBSET S
        PROVE  /\ IsFiniteSet(T) /\ ScalarsOn(T, g)
               /\ image(T) \in SUBSET I /\ IsFiniteSet(image(T)) /\ ScalarsOn(image(T), f)
    <2>1. image(T) \in SUBSET I BY <1>1
    <2> HIDE DEF image
    <2> QED BY <1>2, <2>1, FS_Subset DEF ScalarsOn
  <1>4. ASSUME NEW T \in SUBSET S, \A U \in SUBSET T : U # T => U \in Good
        PROVE  T \in Good
    <2>1. CASE T = {}
      <3>1. image(T) = {} BY <2>1
      <3> HIDE DEF image
      <3>2. SumOver(T, g) = 0 /\ SumOver(image(T), f) = 0 BY <1>3, <2>1, <3>1, SumLaws
      <3> QED BY <3>2
    <2>2. CASE T # {}
      <3>1. PICK x \in T : TRUE BY <2>2
      <3> DEFINE U == T \ {x}
      <3>2. SumOver(U, g) = SumOver(image(U), f) BY <1>4, <3>1
      <3>3. image(U) = image(T) \ {p[x]} /\ p[x] \in image(T) BY <1>1
      <3>4. g[x] = f[p[x]] OBVIOUS
      <3> HIDE DEF image
      <3>5. SumOver(T, g) = Add(g[x], SumOver(U, g)) BY <1>3, SumLaws
      <3>6. SumOver(image(T), f) = Add(f[p[x]], SumOver(image(T) \ {p[x]}, f))
        BY <1>3, <3>3, SumLaws
      <3> QED BY <3>2, <3>3, <3>4, <3>5, <3>6
    <2> QED BY <2>1, <2>2
  <1>5. image(S) = I BY <1>1
  <1> HIDE DEF Good, image
  <1>6. S \in Good BY <1>4, SubsetInduction
  <1> QED BY <1>5, <1>6 DEF Good

\* A list without its element i, summed up.
LEMMA SumWithout ==
  ASSUME NEW n \in Nat, NEW i \in 1 .. n, NEW f, ScalarsOn(1 .. n, f), NEW g,
         \A k \in 1 .. n - 1 : g[k] = f[IF k < i THEN k ELSE k + 1]
  PROVE  SumOver(1 .. n, f) = Add(f[i], SumOver(1 .. n - 1, g))
  <1> DEFINE S == 1 .. n - 1
             I == (1 .. n) \ {i}
             p == [k \in S |-> IF k < i THEN k ELSE k + 1]
  <1>1. IsFiniteSet(1 .. n) /\ IsFiniteSet(S) BY FS_Interval
  <1>2. IsFiniteSet(I) /\ ScalarsOn(I, f) BY <1>1, FS_Subset DEF ScalarsOn
  <1>3. p \in Bijection(S, I)
    <2>1. p \in [S -> I] OBVIOUS
    <2>2. \A x, y \in S : p[x] = p[y] => x = y OBVIOUS
    <2>3. ASSUME NEW y \in I PROVE \E x \in S : p[x] = y
      <3> DEFINE x == IF y < i THEN y ELSE y - 1
      <3>1. x \in S /\ p[x] = y OBVIOUS
      <3> QED BY <3>1
    <2> HIDE DEF p, S, I
    <2> QED BY <2>1, <2>2, <2>3 DEF Bijection, Injection, Surjection, IsInjective
  <1>4. \A k \in S : g[k] = f[p[k]] OBVIOUS
  <1> HIDE DEF S, p, I
  <1>5. SumOver(S, g) = SumOver(I, f) BY <1>1, <1>2, <1>3, <1>4, SumReindexed
  <1>6. SumOver(1 .. n, f) = Add(f[i], SumOver(I, f))
    <2>1. SumOver(1 .. n, f) = Add(f[i], SumOver((1 .. n) \ {i}, f)) BY <1>1, SumLaws
    <2> QED BY <2>1 DEF I
  <1> QED BY <1>5, <1>6 DEF S

\* Which elements RemoveAt leaves.
LEMMA Removed ==
  ASSUME NEW V, NEW s \in Seq(V), NEW i \in 1 .. Len(s)
  PROVE  /\ RemoveAt(s, i) \in Seq(V) /\ DOMAIN RemoveAt(s, i) = 1 .. Len(s) - 1
         /\ \A k \in 1 .. Len(s) - 1 : RemoveAt(s, i)[k] = s[IF k < i THEN k ELSE k + 1]
  <1> DEFINE head == SubSeq(s, 1, i - 1)
             tail == SubSeq(s, i + 1, Len(s))
             n == Len(s)
  <1>1. n \in Nat /\ i \in Int /\ 1 <= i /\ i <= n OBVIOUS
  <1>2. head \in Seq(V) /\ Len(head) = i - 1 /\ \A k \in 1 .. i - 1 : head[k] = s[k] OBVIOUS
  <1>3. tail \in Seq(V) /\ Len(tail) = n - i /\ \A k \in 1 .. n - i : tail[k] = s[k + i]
    OBVIOUS
  <1>4. RemoveAt(s, i) = head \o tail BY DEF RemoveAt
  <1> HIDE DEF head, tail
  <1>5. /\ head \o tail \in Seq(V) /\ Len(head \o tail) = n - 1
        /\ \A k \in 1 .. n - 1 : (head \o tail)[k] = IF k < i THEN head[k] ELSE tail[k - (i - 1)]
    <2>1. head \o tail \in Seq(V) /\ Len(head \o tail) = Len(head) + Len(tail)
      <3>1. head \in Seq(V) /\ tail \in Seq(V) BY <1>2, <1>3
      <3> QED BY <3>1
    <2>2. Len(head \o tail) = n - 1 BY <1>1, <1>2, <1>3, <2>1
    <2>3. \A k \in 1 .. Len(head) + Len(tail) :
            (head \o tail)[k] = IF k <= Len(head) THEN head[k] ELSE tail[k - Len(head)]
      BY <1>2, <1>3
    <2>4. ASSUME NEW k \in 1 .. n - 1
          PROVE  (head \o tail)[k] = IF k < i THEN head[k] ELSE tail[k - (i - 1)]
      <3>1. k \in 1 .. Len(head) + Len(tail) /\ (k <= Len(head) <=> k < i)
        BY <1>1, <1>2, <1>3, <2>2
      <3> QED BY <1>2, <2>3, <3>1
    <2> QED BY <2>1, <2>2, <2>4
  <1>6. ASSUME NEW k \in 1 .. n - 1
        PROVE  RemoveAt(s, i)[k] = s[IF k < i THEN k ELSE k + 1]
    <2>1. CASE k < i BY <1>1, <1>2, <1>4, <1>5, <2>1
    <2>2. CASE k >= i
      <3>1. k - (i - 1) \in 1 .. n - i /\ k - (i - 1) + i = k + 1 BY <1>1, <2>2
      <3>2. tail[k - (i - 1)] = s[k + 1] BY <1>3, <3>1
      <3> QED BY <1>1, <1>4, <1>5, <2>2, <3>2
    <2> QED BY <1>1, <2>1, <2>2
  <1> QED BY <1>1, <1>4, <1>5, <1>6

\* What is listed at the positions S, listed in the order p.
Rearranged(S, list, p, other) == other = [k \in S |-> list[p[k]]]

\* What depends on the list only through the set of its elements.
LEMMA SameSigners ==
  ASSUME NEW ids, SignerIds(ids), NEW p, p \in Bijection(DOMAIN ids, DOMAIN ids),
         NEW other, Rearranged(DOMAIN ids, ids, p, other)
  PROVE  /\ SignerIds(other) /\ DOMAIN other = DOMAIN ids /\ Len(other) = Len(ids)
         /\ ToSet(other) = ToSet(ids)
         /\ SerializeIds(other) = SerializeIds(ids)
         /\ \A my_id : DeriveInterpolatingValue(other, my_id) = DeriveInterpolatingValue(ids, my_id)
  <1>1. /\ p \in [DOMAIN ids -> DOMAIN ids]
        /\ (\A x, y \in DOMAIN ids : p[x] = p[y] => x = y)
        /\ \A y \in DOMAIN ids : \E x \in DOMAIN ids : p[x] = y
    BY DEF Bijection, Injection, Surjection, IsInjective
  <1>2. /\ ids \in Seq(Nat) /\ DOMAIN ids = 1 .. Len(ids) /\ Len(ids) \in Nat
        /\ \A k, l \in DOMAIN ids : ids[k] = ids[l] => k = l
        /\ \A k \in DOMAIN ids : ids[k] \in Nat /\ ids[k] < MaxParticipants
    BY DEF SignerIds, IsInjective
  <1>3. DOMAIN other = DOMAIN ids /\ \A k \in DOMAIN ids : other[k] = ids[p[k]]
    BY DEF Rearranged
  <1>4. other \in Seq(Nat) /\ Len(other) = Len(ids)
    <2>1. other \in [1 .. Len(ids) -> Nat] BY <1>1, <1>2, <1>3 DEF Rearranged
    <2> QED BY <1>2, <2>1
  <1>5. ToSet(other) = ToSet(ids) BY <1>1, <1>3 DEF ToSet
  <1>6. SignerIds(other)
    <2>1. \A k \in DOMAIN other : k \in DOMAIN ids /\ p[k] \in DOMAIN ids /\ other[k] = ids[p[k]]
      BY <1>1, <1>3
    <2>2. IsInjective(other)
      <3> SUFFICES ASSUME NEW k \in DOMAIN other, NEW l \in DOMAIN other, other[k] = other[l]
                   PROVE  k = l
        BY DEF IsInjective
      <3>1. p[k] = p[l] BY <1>2, <2>1
      <3> QED BY <1>1, <2>1, <3>1
    <2>3. \A k \in DOMAIN other : other[k] < MaxParticipants BY <1>2, <2>1
    <2> QED BY <1>4, <2>2, <2>3 DEF SignerIds
  <1>7. SerializeIds(other) = SerializeIds(ids) BY <1>3, <1>5 DEF SerializeIds
  <1>8. \A my_id : DeriveInterpolatingValue(other, my_id) = DeriveInterpolatingValue(ids, my_id)
    BY <1>5 DEF DeriveInterpolatingValue
  <1> QED BY <1>3, <1>4, <1>5, <1>6, <1>7, <1>8

\* The interpolated key, and with it the validity of the parameters.
LEMMA SameParams ==
  ASSUME NEW n, NEW t, NEW ids, NEW pubshares, NEW thresh_pk,
         ValidParams(n, t, ids, pubshares, thresh_pk),
         NEW p, p \in Bijection(DOMAIN ids, DOMAIN ids),
         NEW others, Rearranged(DOMAIN ids, ids, p, others),
         NEW shares, Rearranged(DOMAIN ids, pubshares, p, shares)
  PROVE  ValidParams(n, t, others, shares, thresh_pk)
  <1>1. /\ SignerIds(ids) /\ ids \in Seq(Nat) /\ n \in Int /\ t \in Int
        /\ Len(pubshares) = Len(ids) /\ \A k \in DOMAIN ids : pubshares[k] \in NonZero
        /\ thresh_pk \in NonZero /\ thresh_pk = SumOfShares(ids, pubshares)
    <2>1. ids \in Seq(Nat) /\ n \in Int /\ t \in Int BY DEF ValidParams
    <2>2. /\ SignerIds(ids) /\ Pubshares(ids, pubshares) /\ thresh_pk \in NonZero
          /\ thresh_pk = SumOfShares(ids, pubshares)
      BY Validated
    <2> QED BY <2>1, <2>2 DEF Pubshares
  <1>2. /\ t \in 1 .. n /\ n <= MaxParticipants /\ Len(ids) \in t .. n
        /\ \A k \in DOMAIN ids : ids[k] \in 0 .. n - 1
    <2>1. ParamsPass(n, t, ids, TRUE, pubshares, thresh_pk)
      BY ParamsChecked DEF ValidParams
    <2> QED BY <2>1, ParticipantsAssumption DEF ParamsPass, ValidParams
  <1>3. p \in [DOMAIN ids -> DOMAIN ids] BY DEF Bijection, Injection
  <1>4. /\ SignerIds(others) /\ DOMAIN others = DOMAIN ids /\ Len(others) = Len(ids)
        /\ \A my_id : DeriveInterpolatingValue(others, my_id) = DeriveInterpolatingValue(ids, my_id)
    BY <1>1, SameSigners
  <1>5. \A k \in DOMAIN ids : shares[k] \in NonZero /\ shares[k] = pubshares[p[k]]
                             /\ others[k] = ids[p[k]]
    BY <1>1, <1>3 DEF Rearranged
  <1>6. Len(shares) = Len(others)
    <2>1. DOMAIN ids = 1 .. Len(ids) /\ Len(ids) \in Nat BY <1>1
    <2>2. shares \in [1 .. Len(ids) -> NonZero] BY <1>5, <2>1 DEF Rearranged
    <2> QED BY <1>4, <2>1, <2>2
  <1> DEFINE w == [k \in DOMAIN ids |-> Mul(DeriveInterpolatingValue(ids, ids[k]), pubshares[k])]
             x == [k \in DOMAIN others |-> Mul(DeriveInterpolatingValue(others, others[k]), shares[k])]
  <1>7. ScalarsOn(DOMAIN ids, w)
    <2>1. ASSUME NEW k \in DOMAIN ids PROVE w[k] \in Scalars
      <3>1. ids[k] \in ToSet(ids) BY DEF ToSet
      <3> QED BY <1>1, <3>1, InterpolatingValue, Closed DEF NonZero
    <2> QED BY <2>1 DEF ScalarsOn
  <1>8. \A k \in DOMAIN ids : x[k] = w[p[k]] BY <1>3, <1>4, <1>5
  <1>9. IsFiniteSet(DOMAIN ids) BY <1>1, FS_Interval
  <1> HIDE DEF w, x
  <1>10. SumOver(DOMAIN ids, x) = SumOver(DOMAIN ids, w) BY <1>7, <1>8, <1>9, SumReindexed
  <1>11. DerivePubshareAt(others, shares, -1) = thresh_pk
    <2>1. DerivePubshareAt(others, shares, -1) = SumOver(DOMAIN others, x)
      BY <1>4, ThreshPubkeyIsSum DEF x
    <2>2. thresh_pk = SumOver(DOMAIN ids, w) BY <1>1 DEF SumOfShares, w
    <2> QED BY <1>4, <1>10, <2>1, <2>2
  <1>12. DeriveThreshPubkey(others, shares) = Returns(thresh_pk)
    BY <1>1, <1>11 DEF DeriveThreshPubkey, NonZero, Infinity
  <1>13. ~ HasDuplicates(others) BY <1>4 DEF HasDuplicates, SignerIds
  <1>14. \A k \in DOMAIN others : others[k] \in 0 .. n - 1 /\ PointDecodes(shares[k])
    BY <1>2, <1>3, <1>4, <1>5 DEF PointDecodes
  <1>15. ParamsPass(n, t, others, TRUE, shares, thresh_pk)
    BY <1>1, <1>2, <1>4, <1>6, <1>12, <1>13, <1>14, ParticipantsAssumption DEF ParamsPass, SignerIds
  <1>16. ValidateSessionParams(n, t, others, TRUE, shares, thresh_pk) = Returns(TRUE)
    BY <1>15, ParamsChecked
  <1> QED BY <1>1, <1>4, <1>16 DEF ValidParams, SignerIds

\* No two partial signatures satisfy the equation of a signer.
LEMMA EquationBindsPsig ==
  ASSUME NEW r, r \in Scalars, NEW s, s \in Scalars,
         NEW my_id, NEW pubnonce, NEW pubshare, NEW ids, NEW v,
         PartialSigEquation(r, my_id, pubnonce, pubshare, ids, v),
         PartialSigEquation(s, my_id, pubnonce, pubshare, ids, v)
  PROVE  r = s
  <1>1. Mul(r, G) = Mul(s, G) BY DEF PartialSigEquation
  <1> QED BY <1>1, UnitsAndNegation DEF G

-----------------------------------------------------------------------------
(* The serialized ids.                                                     *)

\* s lists the elements of T in increasing order.
Increasing(s, n, T) ==
  s \in [1 .. n -> T] /\ \A i, j \in 1 .. n : i < j => s[i] < s[j]

\* Every finite set of numbers can be listed in increasing order.
LEMMA IncreasingList ==
  ASSUME NEW S, IsFiniteSet(S), S \in SUBSET Nat
  PROVE  \E s : Increasing(s, Cardinality(S), S)
  <1> DEFINE Good == {T \in SUBSET S : \E s : Increasing(s, Cardinality(T), T)}
  <1>1. ASSUME NEW T \in SUBSET S, \A U \in SUBSET T : U # T => U \in Good
        PROVE  T \in Good
    <2>1. CASE T = {}
      <3>1. Cardinality(T) = 0 BY <2>1, FS_EmptySet
      <3>2. Increasing(<<>>, 0, T) BY DEF Increasing
      <3> QED BY <3>1, <3>2
    <2>2. CASE T # {}
      <3> DEFINE m == Max(T)
                 U == T \ {m}
                 n == Cardinality(U)
      <3>1. IsFiniteSet(T) /\ T \in SUBSET Int
        <4>1. T \subseteq Nat /\ T \subseteq Int OBVIOUS
        <4> QED BY <4>1, FS_Subset
      <3>2. m \in T /\ \A x \in T : m >= x BY <2>2, <3>1, Extremes
      <3>3. IsFiniteSet(U) /\ U \in SUBSET T /\ U # T BY <3>1, <3>2, FS_Subset
      <3>4. n \in Nat /\ Cardinality(T) = n + 1
        BY <3>1, <3>2, FS_RemoveElement, FS_CardinalityType, <3>3
      <3>5. PICK s : Increasing(s, n, U) BY <1>1, <3>3
      <3> DEFINE longer == [i \in 1 .. n + 1 |-> IF i = n + 1 THEN m ELSE s[i]]
      <3>6. \A x \in U : x < m
        <4>1. \A x \in U : x \in T /\ x # m BY <3>2
        <4> HIDE DEF m, U
        <4> SUFFICES ASSUME NEW x \in U PROVE x < m OBVIOUS
        <4>2. x \in Int /\ m \in Int BY <3>1, <3>2, <4>1
        <4>3. m >= x /\ x # m BY <3>2, <4>1
        <4> QED BY <4>2, <4>3
      <3> HIDE DEF m, U, n
      <3>7. \A i \in 1 .. n : s[i] \in U /\ longer[i] = s[i] BY <3>4, <3>5 DEF Increasing
      <3>8. longer[n + 1] = m BY <3>4
      <3>9. longer \in [1 .. n + 1 -> T]
        <4>1. \A i \in 1 .. n + 1 : i # n + 1 => i \in 1 .. n BY <3>4
        <4>2. \A i \in 1 .. n + 1 : longer[i] \in T BY <3>2, <3>3, <3>7, <3>8, <4>1
        <4> QED BY <4>2
      <3>10. ASSUME NEW i \in 1 .. n + 1, NEW j \in 1 .. n + 1, i < j
             PROVE  longer[i] < longer[j]
        <4>1. i \in 1 .. n /\ longer[i] = s[i] BY <3>4, <3>7, <3>10
        <4>2. CASE j = n + 1 BY <3>6, <3>7, <3>8, <4>1, <4>2
        <4>3. CASE j # n + 1
          <5>1. j \in 1 .. n BY <3>4, <4>3
          <5> QED BY <3>5, <3>7, <3>10, <4>1, <5>1 DEF Increasing
        <4> QED BY <4>2, <4>3
      <3> HIDE DEF longer
      <3>11. Increasing(longer, n + 1, T) BY <3>9, <3>10 DEF Increasing
      <3> QED BY <3>4, <3>11
    <2> QED BY <2>1, <2>2
  <1> HIDE DEF Good
  <1>2. S \in Good BY <1>1, SubsetInduction
  <1> QED BY <1>2 DEF Good

\* The signers can be read off the serialized ids.
LEMMA SerializedSigners ==
  ASSUME NEW ids, SignerIds(ids)
  PROVE  {SerializeIds(ids)[k] : k \in 1 .. Len(ids)} = ToSet(ids)
  <1> DEFINE n == Len(ids)
             S == ToSet(ids)
             ser == SerializeIds(ids)
  <1>1. /\ ids \in Seq(Nat) /\ n \in Nat /\ DOMAIN ids = 1 .. n
        /\ \A k, l \in 1 .. n : ids[k] = ids[l] => k = l
    BY DEF SignerIds, IsInjective
  <1>2. S \in SUBSET Nat /\ S = {ids[k] : k \in 1 .. n} BY <1>1 DEF ToSet
  <1>3. ids \in Bijection(1 .. n, S)
    BY <1>1, <1>2 DEF Bijection, Injection, Surjection, IsInjective
  <1> HIDE DEF n, S
  <1>4. IsFiniteSet(S) /\ Cardinality(S) = n /\ IsFiniteSet(1 .. n) /\ Cardinality(1 .. n) = n
    <2>1. IsFiniteSet(1 .. n) /\ Cardinality(1 .. n) = n
      <3>1. 1 \in Int /\ n \in Int /\ n >= 0 BY <1>1
      <3>2. IsFiniteSet(1 .. n) /\ Cardinality(1 .. n) = IF 1 > n THEN 0 ELSE n - 1 + 1
        BY <3>1, FS_Interval
      <3> QED BY <3>1, <3>2
    <2>2. ExistsBijection(1 .. n, S) BY <1>3 DEF ExistsBijection
    <2> QED BY <2>1, <2>2, FS_Bijection
  <1>5. PICK s : Increasing(s, n, S) BY <1>2, <1>4, IncreasingList
  <1>6. ser = CHOOSE s2 \in [1 .. n -> S] : \A i, j \in 1 .. n : i < j => s2[i] < s2[j]
    BY <1>1 DEF SerializeIds, S, n
  <1>7. ser \in [1 .. n -> S] /\ \A i, j \in 1 .. n : i < j => ser[i] < ser[j]
    BY <1>5, <1>6 DEF Increasing
  <1> HIDE DEF ser
  <1>8. ser \in Injection(1 .. n, S)
    <2>1. \A i \in 1 .. n : ser[i] \in Int BY <1>2, <1>7
    <2>2. \A i, j \in 1 .. n : i # j => i < j \/ j < i BY <1>1
    <2>3. \A i, j \in 1 .. n : ser[i] = ser[j] => i = j BY <1>7, <2>1, <2>2
    <2> QED BY <1>7, <2>3 DEF Injection, IsInjective
  <1>9. ser \in Surjection(1 .. n, S) BY <1>4, <1>8, FS_Injection
  <1>10. {ser[k] : k \in 1 .. n} = S BY <1>7, <1>9 DEF Surjection
  <1> QED BY <1>10 DEF ser, S, n

-----------------------------------------------------------------------------
(* Interpolation over sets of nodes: the ids, and -1 for the secret.  The   *)
(* divided difference of f over T is the sum of f[k] / prod (k - j); it is  *)
(* 0 for every T of more than m nodes when f is a polynomial of m           *)
(* coefficients, and one such 0 is what a validator of the code looks for.  *)

Nodes == -1 .. MaxParticipants - 1

\* The factors x - j of a basis polynomial.
Offsets(x) == [j \in Nodes |-> ScalarOf(x - j)]
Away(S, k) == ProductOver(S \ {k}, Offsets(k))
Terms(S, f) == [k \in S |-> Mul(f[k], Inv(Away(S, k)))]
Divided(S, f) == SumOver(S, Terms(S, f))

\* Nodes are finitely many, and so are those of any set of them.
LEMMA NodeSets ==
  /\ IsFiniteSet(Nodes) /\ Nodes \subseteq Int /\ -1 \in Nodes
  /\ \A S \in SUBSET Nodes : IsFiniteSet(S) /\ Cardinality(S) \in Nat
  <1>1. MaxParticipants \in Nat \ {0} BY ParticipantsAssumption
  <1>2. -1 \in Int /\ MaxParticipants - 1 \in Int BY <1>1
  <1>3. IsFiniteSet(Nodes) BY <1>2, FS_Interval DEF Nodes
  <1>4. Nodes \subseteq Int /\ -1 \in Nodes BY <1>1 DEF Nodes
  <1> QED BY <1>3, <1>4, FS_Subset, FS_CardinalityType

\* A difference of integers, reduced, is the difference of what they reduce to.
LEMMA ScalarOfSum ==
  ASSUME NEW a \in Int, NEW b \in Int
  PROVE  /\ ScalarOf(a) \in Scalars
         /\ ScalarOf(a + b) = Add(ScalarOf(a), ScalarOf(b))
  <1>1. ScalarOf(a) \in Scalars /\ ScalarOf(b) \in Scalars BY Division DEF ScalarOf
  <1>2. ScalarOf(a) \in Int /\ ScalarOf(b) \in Int BY <1>1, Closed
  <1>3. Add(ScalarOf(a), ScalarOf(b)) = ((a + ScalarOf(b)) % Order)
    BY <1>2, ReduceSummand DEF Add, ScalarOf
  <1>4. ((ScalarOf(b) + a) % Order) = ((b + a) % Order) BY ReduceSummand DEF ScalarOf
  <1>5. ScalarOf(b) + a = a + ScalarOf(b) /\ b + a = a + b BY <1>2
  <1> QED BY <1>1, <1>3, <1>4, <1>5 DEF ScalarOf

\* Distinct nodes differ modulo the order.
LEMMA NodesApart ==
  ASSUME NEW i \in Nodes, NEW j \in Nodes
  PROVE  /\ Offsets(i)[j] = ScalarOf(i - j) /\ ScalarOf(i - j) \in Scalars
         /\ i # j => ScalarOf(i - j) \in NonZero
         /\ ScalarOf(i - i) = 0
         /\ ScalarOf(i - j) = Neg(ScalarOf(j - i))
         /\ \A a \in Nodes : ScalarOf(i - j) = Add(ScalarOf(i - a), ScalarOf(a - j))
  <1>1. i \in Int /\ j \in Int /\ i >= -1 /\ j >= -1
        /\ i < MaxParticipants /\ j < MaxParticipants
    BY ParticipantsAssumption DEF Nodes
  <1>2. Offsets(i)[j] = ScalarOf(i - j) /\ ScalarOf(i - j) \in Scalars
    BY <1>1, ScalarOfSum DEF Offsets
  <1>3. ScalarOf(i - i) = 0
    BY <1>1, SmallResidue, UnitsAreScalars DEF ScalarOf
  <1>4. ASSUME NEW a \in Nodes
        PROVE  ScalarOf(i - j) = Add(ScalarOf(i - a), ScalarOf(a - j))
    <2>1. a \in Int BY NodeSets
    <2>2. i - a \in Int /\ a - j \in Int /\ i - j = (i - a) + (a - j) BY <1>1, <2>1
    <2> QED BY <2>2, ScalarOfSum
  <1>5. ScalarOf(i - j) = Neg(ScalarOf(j - i))
    <2> DEFINE x == ScalarOf(i - j)
               y == ScalarOf(j - i)
    <2>1. x \in Scalars /\ y \in Scalars
      <3>1. i - j \in Int /\ j - i \in Int BY <1>1
      <3> QED BY <3>1, ScalarOfSum
    <2>2. i - j \in Int /\ j - i \in Int /\ (i - j) + (j - i) = 0 /\ i - i = 0 BY <1>1
    <2>3. Add(x, y) = 0 BY <1>3, <2>2, ScalarOfSum
    <2> HIDE DEF x, y
    <2>4. Add(Neg(y), Add(y, x)) = x BY <2>1, TakeOff
    <2>5. Add(y, x) = 0 BY <2>1, <2>3, Commutes
    <2> QED BY <2>1, <2>4, <2>5, Closed, UnitsAndNegation DEF x, y
  <1>6. ASSUME i # j PROVE ScalarOf(i - j) \in NonZero
    <2>1. ASSUME NEW d \in 1 .. Order - 1 PROVE ScalarOf(d) \in NonZero
      <3>1. d \in Scalars /\ d # 0 BY OrderAssumption DEF Scalars
      <3> QED BY <3>1, SmallResidue DEF NonZero, ScalarOf
    <2>2. MaxParticipants \in Int /\ Order \in Int /\ MaxParticipants < Order
      BY ParticipantsAssumption, OrderAssumption
    <2>3. CASE j < i
      <3>1. i - j \in 1 .. Order - 1 BY <1>1, <2>2, <2>3
      <3> QED BY <2>1, <3>1
    <2>4. CASE i < j
      <3>1. j - i \in 1 .. Order - 1 BY <1>1, <2>2, <2>4
      <3> QED BY <1>5, <2>1, <3>1, NegNonZero
    <2> QED BY <1>1, <1>6, <2>3, <2>4
  <1> QED BY <1>2, <1>3, <1>4, <1>5, <1>6

\* A sum or product depends on the function only at the summed-up places.
LEMMA SameSummands ==
  ASSUME NEW S, IsFiniteSet(S), NEW f, ScalarsOn(S, f), NEW g, \A x \in S : g[x] = f[x]
  PROVE  SumOver(S, g) = SumOver(S, f) /\ ProductOver(S, g) = ProductOver(S, f)
  <1> DEFINE Good == {T \in SUBSET S : /\ SumOver(T, g) = SumOver(T, f)
                                       /\ ProductOver(T, g) = ProductOver(T, f)}
  <1>1. ASSUME NEW T \in SUBSET S
        PROVE  IsFiniteSet(T) /\ ScalarsOn(T, f) /\ ScalarsOn(T, g)
    BY FS_Subset DEF ScalarsOn
  <1>2. ASSUME NEW T \in SUBSET S, \A U \in SUBSET T : U # T => U \in Good
        PROVE  T \in Good
    <2>1. CASE T = {} BY <1>1, <2>1, SumLaws, ProductLaws
    <2>2. CASE T # {}
      <3>1. PICK x \in T : TRUE BY <2>2
      <3>2. T \ {x} \in Good BY <1>2, <3>1
      <3>3. g[x] = f[x] OBVIOUS
      <3>4. /\ SumOver(T, f) = Add(f[x], SumOver(T \ {x}, f))
            /\ SumOver(T, g) = Add(g[x], SumOver(T \ {x}, g))
            /\ ProductOver(T, f) = Mul(f[x], ProductOver(T \ {x}, f))
            /\ ProductOver(T, g) = Mul(g[x], ProductOver(T \ {x}, g))
        BY <1>1, OneSplitOff
      <3> QED BY <3>2, <3>3, <3>4
    <2> QED BY <2>1, <2>2
  <1> HIDE DEF Good
  <1>3. S \in Good BY <1>2, SubsetInduction
  <1> QED BY <1>3 DEF Good

\* Zeros add up to zero.
LEMMA SumOfZeros ==
  ASSUME NEW S, IsFiniteSet(S), NEW f, \A x \in S : f[x] = 0
  PROVE  SumOver(S, f) = 0
  <1>1. 0 \in Scalars /\ ScalarsOn(S, f) BY UnitsAreScalars DEF ScalarsOn
  <1>2. \A x \in S : f[x] = Mul(0, f[x]) BY <1>1, UnitsAndNegation
  <1> QED BY <1>1, <1>2, SumScaled, SumLaws, UnitsAndNegation

\* Products of distances between nodes are not zero, and lose one factor when
\* a node is left out.
LEMMA AwayLaws ==
  ASSUME NEW S \in SUBSET Nodes, NEW k \in Nodes
  PROVE  /\ Away(S, k) \in NonZero /\ Inv(Away(S, k)) \in Scalars
         /\ \A a \in S \ {k} : Away(S, k) = Mul(ScalarOf(k - a), Away(S \ {a}, k))
  <1> DEFINE T == S \ {k}
  <1>1. IsFiniteSet(T) BY NodeSets, FS_Subset
  <1>2. \A j \in T : Offsets(k)[j] \in NonZero /\ Offsets(k)[j] = ScalarOf(k - j)
    BY NodesApart
  <1>3. ScalarsOn(T, Offsets(k)) BY <1>2 DEF ScalarsOn, NonZero
  <1> HIDE DEF T
  <1>4. ProductOver(T, Offsets(k)) \in NonZero BY <1>1, <1>2, ProductIsNonZero
  <1>5. ASSUME NEW a \in T
        PROVE  ProductOver(T, Offsets(k)) = Mul(ScalarOf(k - a), ProductOver(T \ {a}, Offsets(k)))
    BY <1>1, <1>2, <1>3, OneSplitOff
  <1>6. \A a \in T : T \ {a} = (S \ {a}) \ {k} BY DEF T
  <1> QED BY <1>4, <1>5, <1>6, Invertible DEF Away, T

-----------------------------------------------------------------------------
(* Divided differences.                                                    *)

\* Every term is a scalar.
LEMMA DividedIsScalar ==
  ASSUME NEW T \in SUBSET Nodes, NEW f, ScalarsOn(T, f)
  PROVE  /\ ScalarsOn(T, Terms(T, f)) /\ Divided(T, f) \in Scalars
         /\ \A k \in T : Terms(T, f)[k] = Mul(f[k], Inv(Away(T, k)))
  <1>1. ASSUME NEW k \in T PROVE Mul(f[k], Inv(Away(T, k))) \in Scalars
    <2>1. Inv(Away(T, k)) \in Scalars /\ f[k] \in Scalars BY AwayLaws DEF ScalarsOn
    <2> QED BY <2>1, Closed
  <1>2. ScalarsOn(T, Terms(T, f)) BY <1>1 DEF ScalarsOn, Terms
  <1>3. \A k \in T : Terms(T, f)[k] = Mul(f[k], Inv(Away(T, k))) BY DEF Terms
  <1> QED BY <1>2, <1>3, NodeSets, SumLaws DEF Divided

\* They depend on f linearly.
LEMMA DividedIsLinear ==
  ASSUME NEW T \in SUBSET Nodes, NEW f, ScalarsOn(T, f), NEW g, ScalarsOn(T, g),
         NEW c \in Scalars, NEW h, \A k \in T : h[k] = Add(f[k], Mul(c, g[k]))
  PROVE  Divided(T, h) = Add(Divided(T, f), Mul(c, Divided(T, g)))
  <1>1. ScalarsOn(T, h)
    <2>1. ASSUME NEW k \in T PROVE h[k] \in Scalars
      <3>1. f[k] \in Scalars /\ g[k] \in Scalars BY DEF ScalarsOn
      <3> QED BY <3>1, Closed
    <2> QED BY <2>1 DEF ScalarsOn
  <1>2. ASSUME NEW k \in T
        PROVE  Terms(T, h)[k] = Add(Terms(T, f)[k], Mul(c, Terms(T, g)[k]))
    <2> DEFINE fk == f[k]
               gk == g[k]
               w == Inv(Away(T, k))
    <2>1. fk \in Scalars /\ gk \in Scalars /\ w \in Scalars BY AwayLaws DEF ScalarsOn
    <2>2. /\ Terms(T, f)[k] = Mul(fk, w) /\ Terms(T, g)[k] = Mul(gk, w)
          /\ Terms(T, h)[k] = Mul(Add(fk, Mul(c, gk)), w)
      BY DEF Terms
    <2> HIDE DEF fk, gk, w
    <2>3. Mul(c, gk) \in Scalars /\ Add(fk, Mul(c, gk)) \in Scalars BY <2>1, Closed
    <2>4. Mul(Add(fk, Mul(c, gk)), w) = Mul(w, Add(fk, Mul(c, gk))) BY <2>1, <2>3, Commutes
    <2>5. Mul(w, Add(fk, Mul(c, gk))) = Add(Mul(w, fk), Mul(w, Mul(c, gk)))
      BY <2>1, <2>3, Distributes
    <2>6. Mul(w, Mul(c, gk)) = Mul(c, Mul(w, gk)) BY <2>1, MulSwap
    <2>7. Mul(w, fk) = Mul(fk, w) /\ Mul(w, gk) = Mul(gk, w) BY <2>1, Commutes
    <2> QED BY <2>2, <2>4, <2>5, <2>6, <2>7
  <1>3. /\ IsFiniteSet(T) /\ ScalarsOn(T, Terms(T, f)) /\ ScalarsOn(T, Terms(T, g))
    BY NodeSets, DividedIsScalar
  <1> QED BY <1>2, <1>3, SumIsLinear DEF Divided

\* And on nothing else than f's values at the nodes.
LEMMA DividedOfSame ==
  ASSUME NEW T \in SUBSET Nodes, NEW f, ScalarsOn(T, f), NEW g, \A k \in T : g[k] = f[k]
  PROVE  Divided(T, g) = Divided(T, f)
  <1>1. \A k \in T : Terms(T, g)[k] = Terms(T, f)[k] BY DEF Terms
  <1> QED BY <1>1, NodeSets, DividedIsScalar, SameSummands DEF Divided

\* A function that vanishes has no divided difference.
LEMMA DividedOfZero ==
  ASSUME NEW T \in SUBSET Nodes, NEW f, \A k \in T : f[k] = 0
  PROVE  Divided(T, f) = 0
  <1>1. \A k \in T : Terms(T, f)[k] = 0
    <2>1. \A k \in T : Inv(Away(T, k)) \in Scalars BY AwayLaws
    <2> QED BY <2>1, UnitsAndNegation DEF Terms
  <1> QED BY <1>1, NodeSets, SumOfZeros DEF Divided

\* A common factor cancels in a quotient.
LEMMA CancelQuotient ==
  ASSUME NEW d \in NonZero, NEW w \in NonZero, NEW x \in Scalars
  PROVE  Mul(Mul(d, x), Inv(Mul(d, w))) = Mul(x, Inv(w))
  <1> DEFINE u == Inv(w)
             v == Inv(Mul(d, w))
  <1>1. d \in Scalars /\ w \in Scalars BY DEF NonZero
  <1>2. Mul(d, w) \in NonZero /\ Mul(d, w) \in Scalars BY NoZeroDivisors DEF NonZero
  <1>3. u \in Scalars /\ v \in Scalars /\ Mul(w, u) = 1 /\ Mul(Mul(d, w), v) = 1
    BY <1>2, Invertible
  <1> HIDE DEF u, v
  <1>4. Mul(d, v) \in Scalars /\ Mul(w, Mul(d, v)) = 1
    <2>1. Mul(d, v) \in Scalars BY <1>1, <1>3, Closed
    <2>2. Mul(Mul(d, w), v) = Mul(d, Mul(w, v)) BY <1>1, <1>3, MulAssoc
    <2>3. Mul(d, Mul(w, v)) = Mul(w, Mul(d, v)) BY <1>1, <1>3, MulSwap
    <2> QED BY <1>3, <2>1, <2>2, <2>3
  <1>5. Mul(d, v) = u BY <1>4, InverseLaws DEF u
  <1>6. Mul(Mul(d, x), v) = Mul(x, Mul(d, v))
    <2>1. Mul(d, x) = Mul(x, d) BY <1>1, Commutes
    <2> QED BY <1>1, <1>3, <2>1, MulAssoc
  <1> QED BY <1>5, <1>6 DEF u, v

\* g is f times the factor x - a.
RaisedBy(S, f, a, g) == \A k \in S : g[k] = Mul(ScalarOf(k - a), f[k])

\* A factor that vanishes at a node takes the node out.
LEMMA DividedByFactor ==
  ASSUME NEW T \in SUBSET Nodes, NEW f, ScalarsOn(T, f), NEW a \in T, NEW g,
         RaisedBy(T, f, a, g)
  PROVE  Divided(T, g) = Divided(T \ {a}, f)
  <1> DEFINE U == T \ {a}
  <1>1. ScalarsOn(T, g)
    <2>1. ASSUME NEW k \in T PROVE g[k] \in Scalars
      <3>1. f[k] \in Scalars /\ ScalarOf(k - a) \in Scalars BY NodesApart DEF ScalarsOn
      <3> QED BY <3>1, Closed DEF RaisedBy
    <2> QED BY <2>1 DEF ScalarsOn
  <1>2. IsFiniteSet(T) /\ U \in SUBSET Nodes /\ ScalarsOn(U, f) BY NodeSets DEF ScalarsOn
  <1>3. Terms(T, g)[a] = 0
    <2>1. ScalarOf(a - a) = 0 /\ f[a] \in Scalars /\ Inv(Away(T, a)) \in Scalars
      BY NodesApart, AwayLaws DEF ScalarsOn
    <2>2. g[a] = 0 BY <2>1, UnitsAndNegation DEF RaisedBy
    <2> QED BY <2>1, <2>2, UnitsAndNegation DEF Terms
  <1>4. ASSUME NEW k \in U PROVE Terms(T, g)[k] = Terms(U, f)[k]
    <2> DEFINE d == ScalarOf(k - a)
               w == Away(U, k)
    <2>1. /\ d \in NonZero /\ w \in NonZero /\ f[k] \in Scalars /\ g[k] = Mul(d, f[k])
      BY <1>2, NodesApart, AwayLaws DEF ScalarsOn, RaisedBy
    <2>2. Away(T, k) = Mul(d, w) BY AwayLaws
    <2>3. Terms(T, g)[k] = Mul(g[k], Inv(Away(T, k))) /\ Terms(U, f)[k] = Mul(f[k], Inv(w))
      BY DEF Terms
    <2> HIDE DEF d, w, U
    <2> QED BY <2>1, <2>2, <2>3, CancelQuotient
  <1> HIDE DEF U
  <1>5. ScalarsOn(T, Terms(T, g)) /\ ScalarsOn(U, Terms(U, f)) /\ IsFiniteSet(U)
    BY <1>1, <1>2, DividedIsScalar, NodeSets
  <1>6. Divided(T, g) = Add(Terms(T, g)[a], SumOver(U, Terms(T, g)))
    BY <1>2, <1>5, SumLaws DEF Divided, U
  <1>7. SumOver(U, Terms(T, g)) = Divided(U, f) BY <1>4, <1>5, SameSummands DEF Divided
  <1>8. Divided(U, f) \in Scalars BY <1>2, DividedIsScalar
  <1> QED BY <1>3, <1>6, <1>7, <1>8, UnitsAndNegation DEF U

\* For any other factor x - a = (x - b) + (b - a).
LEMMA DividedRaised ==
  ASSUME NEW T \in SUBSET Nodes, NEW f, ScalarsOn(T, f), NEW a \in Nodes, NEW b \in T,
         NEW g, RaisedBy(T, f, a, g)
  PROVE  Divided(T, g) = Add(Divided(T \ {b}, f), Mul(ScalarOf(b - a), Divided(T, f)))
  <1> DEFINE h == [k \in T |-> Mul(ScalarOf(k - b), f[k])]
             c == ScalarOf(b - a)
  <1>1. c \in Scalars BY NodesApart
  <1>2. ASSUME NEW k \in T PROVE h[k] \in Scalars /\ g[k] = Add(h[k], Mul(c, f[k]))
    <2> DEFINE x == f[k]
               kb == ScalarOf(k - b)
    <2>1. x \in Scalars /\ kb \in Scalars /\ ScalarOf(k - a) = Add(kb, c)
      BY NodesApart DEF ScalarsOn
    <2>2. h[k] = Mul(kb, x) /\ g[k] = Mul(Add(kb, c), x) BY <2>1 DEF RaisedBy
    <2> HIDE DEF x, kb, c, h
    <2>3. Add(kb, c) \in Scalars /\ Mul(kb, x) \in Scalars BY <1>1, <2>1, Closed
    <2>4. Mul(Add(kb, c), x) = Mul(x, Add(kb, c)) BY <2>1, <2>3, Commutes
    <2>5. Mul(x, Add(kb, c)) = Add(Mul(x, kb), Mul(x, c)) BY <1>1, <2>1, Distributes
    <2>6. Mul(x, kb) = Mul(kb, x) /\ Mul(x, c) = Mul(c, x) BY <1>1, <2>1, Commutes
    <2> QED BY <2>2, <2>3, <2>4, <2>5, <2>6 DEF x
  <1>3. RaisedBy(T, f, b, h) BY DEF RaisedBy
  <1> HIDE DEF h
  <1>4. ScalarsOn(T, h) BY <1>2 DEF ScalarsOn
  <1>5. Divided(T, g) = Add(Divided(T, h), Mul(c, Divided(T, f)))
    BY <1>1, <1>2, <1>4, DividedIsLinear
  <1>6. Divided(T, h) = Divided(T \ {b}, f) BY <1>3, DividedByFactor
  <1> QED BY <1>5, <1>6

\* The recurrence between divided differences.
LEMMA DividedRecurrence ==
  ASSUME NEW T \in SUBSET Nodes, NEW f, ScalarsOn(T, f), NEW a \in T, NEW b \in T
  PROVE  Divided(T \ {a}, f) = Add(Divided(T \ {b}, f), Mul(ScalarOf(b - a), Divided(T, f)))
  <1> DEFINE g == [k \in T |-> Mul(ScalarOf(k - a), f[k])]
  <1>1. RaisedBy(T, f, a, g) BY DEF RaisedBy
  <1> HIDE DEF g
  <1> QED BY <1>1, DividedByFactor, DividedRaised


-----------------------------------------------------------------------------
(* Polynomials.                                                            *)

\* f is a polynomial of at most m coefficients, as far as the nodes can tell.
Below(m, f) ==
  /\ ScalarsOn(Nodes, f)
  /\ \A T \in SUBSET Nodes : Cardinality(T) > m => Divided(T, f) = 0

\* At any set of nodes, f is a function to scalars.
LEMMA OnNodes ==
  ASSUME NEW f, ScalarsOn(Nodes, f), NEW T \in SUBSET Nodes
  PROVE  ScalarsOn(T, f) /\ Divided(T, f) \in Scalars
  <1>1. ScalarsOn(T, f) BY DEF ScalarsOn
  <1> QED BY <1>1, DividedIsScalar

\* A set of more than one node has two, and one node fewer without either.
LEMMA TwoNodes ==
  ASSUME NEW T \in SUBSET Nodes, Cardinality(T) > 1
  PROVE  \E a, b \in T : /\ a # b
                         /\ Cardinality(T \ {a}) = Cardinality(T) - 1
                         /\ Cardinality(T \ {b}) = Cardinality(T) - 1
  <1>1. IsFiniteSet(T) /\ Cardinality(T) \in Nat BY NodeSets
  <1>2. T # {} BY FS_EmptySet
  <1>3. PICK a \in T : TRUE BY <1>2
  <1>4. \A x \in T : Cardinality(T \ {x}) = Cardinality(T) - 1 BY <1>1, FS_RemoveElement
  <1>5. Cardinality(T \ {a}) # 0 BY <1>1, <1>4
  <1>6. T \ {a} # {} BY <1>5, FS_EmptySet
  <1>7. PICK b \in T \ {a} : TRUE BY <1>6
  <1> QED BY <1>4, <1>7

\* A constant is a polynomial of one coefficient.
LEMMA ConstantBelow ==
  ASSUME NEW c \in Scalars, NEW f, \A k \in Nodes : f[k] = c
  PROVE  Below(1, f)
  <1> DEFINE Good == {T \in SUBSET Nodes : /\ Cardinality(T) = 1 => Divided(T, f) = c
                                           /\ Cardinality(T) > 1 => Divided(T, f) = 0}
  <1>1. ScalarsOn(Nodes, f) BY DEF ScalarsOn
  <1>2. ASSUME NEW T \in SUBSET Nodes, \A U \in SUBSET T : U # T => U \in Good
        PROVE  T \in Good
    <2>0. IsFiniteSet(T) /\ Cardinality(T) \in Nat BY NodeSets
    <2>1. CASE Cardinality(T) = 1
      <3>1. PICK x : T = {x} BY <2>0, <2>1, FS_Singleton
      <3>2. x \in Nodes /\ T \ {x} = {} /\ x \in T BY <3>1
      <3>3. Away(T, x) = 1
        <4>1. ProductOver({}, Offsets(x)) = 1
          BY ProductLaws, FS_EmptySet DEF ScalarsOn
        <4> QED BY <3>2, <4>1 DEF Away
      <3>4. Inv(1) = 1
        <4>1. 1 \in NonZero /\ 1 \in Scalars BY UnitsAreScalars DEF NonZero
        <4>2. Mul(1, 1) = 1 BY <4>1, UnitsAndNegation
        <4> QED BY <4>1, <4>2, InverseLaws
      <3>5. Terms(T, f)[x] = c
        <4>1. Terms(T, f)[x] = Mul(f[x], Inv(Away(T, x))) BY <3>2 DEF Terms
        <4> QED BY <3>2, <3>3, <3>4, <4>1, UnitsAndNegation
      <3>6. ScalarsOn(T, Terms(T, f)) BY <1>1, OnNodes, DividedIsScalar
      <3>7. Divided(T, f) = Add(Terms(T, f)[x], SumOver(T \ {x}, Terms(T, f)))
        BY <2>0, <3>2, <3>6, SumLaws DEF Divided
      <3>8. SumOver(T \ {x}, Terms(T, f)) = 0 BY <3>2, SumOfZeros, FS_EmptySet
      <3> QED BY <2>1, <3>5, <3>7, <3>8, UnitsAndNegation
    <2>2. CASE Cardinality(T) > 1
      <3>1. PICK a, b \in T : /\ a # b
                              /\ Cardinality(T \ {a}) = Cardinality(T) - 1
                              /\ Cardinality(T \ {b}) = Cardinality(T) - 1
        BY <2>2, TwoNodes
      <3> DEFINE A == T \ {a}
                 B == T \ {b}
                 d == ScalarOf(b - a)
                 D == Divided(T, f)
      <3>2. A \in Good /\ B \in Good BY <1>2
      <3>3. Cardinality(A) = Cardinality(B) /\ Cardinality(A) >= 1 /\ Cardinality(A) \in Int
        BY <2>0, <2>2, <3>1
      <3>4. Divided(A, f) = Divided(B, f)
        <4> HIDE DEF A, B
        <4>1. CASE Cardinality(A) = 1 BY <3>2, <3>3, <4>1
        <4>2. CASE Cardinality(A) > 1 BY <3>2, <3>3, <4>2
        <4> QED BY <3>3, <4>1, <4>2
      <3>5. Divided(A, f) = Add(Divided(B, f), Mul(d, D)) BY <1>1, OnNodes, DividedRecurrence
      <3>6. d \in NonZero /\ D \in Scalars /\ Divided(B, f) \in Scalars
        BY <1>1, <3>1, OnNodes, NodesApart
      <3> HIDE DEF A, B, d, D
      <3>7. Mul(d, D) = 0
        <4> DEFINE m == Mul(d, D)
                   s == Divided(B, f)
        <4>1. m \in Scalars /\ s \in Scalars /\ s = Add(s, m) BY <3>4, <3>5, <3>6, Closed DEF NonZero
        <4> HIDE DEF m, s
        <4>2. Add(Neg(s), Add(s, m)) = m BY <4>1, TakeOff
        <4>3. Add(Neg(s), s) = 0 BY <4>1, Closed, Commutes, UnitsAndNegation
        <4> QED BY <4>1, <4>2, <4>3 DEF m
      <3>8. D = 0 BY <3>6, <3>7, NoZeroDivisors DEF NonZero
      <3> QED BY <2>2, <3>8 DEF D
    <2> QED BY <2>1, <2>2
  <1> HIDE DEF Good
  <1>3. \A T \in SUBSET Nodes : T \in Good BY <1>2, NodeSets, SubsetInduction
  <1> QED BY <1>1, <1>3 DEF Good, Below

\* A factor x - a adds a coefficient.
LEMMA BelowRaised ==
  ASSUME NEW m \in Nat, NEW f, Below(m, f), NEW a \in Nodes, NEW g, RaisedBy(Nodes, f, a, g)
  PROVE  Below(m + 1, g)
  <1>1. ScalarsOn(Nodes, f) BY DEF Below
  <1>2. ScalarsOn(Nodes, g)
    <2>1. ASSUME NEW k \in Nodes PROVE g[k] \in Scalars
      <3>1. f[k] \in Scalars /\ ScalarOf(k - a) \in Scalars BY <1>1, NodesApart DEF ScalarsOn
      <3> QED BY <3>1, Closed DEF RaisedBy
    <2> QED BY <2>1 DEF ScalarsOn
  <1>3. ASSUME NEW T \in SUBSET Nodes, Cardinality(T) > m + 1
        PROVE  Divided(T, g) = 0
    <2>1. IsFiniteSet(T) /\ Cardinality(T) \in Nat BY NodeSets
    <2>2. T # {} BY <1>3, FS_EmptySet
    <2>3. PICK b \in T : TRUE BY <2>2
    <2>4. Cardinality(T \ {b}) > m /\ Cardinality(T) > m
      <3>1. Cardinality(T \ {b}) = Cardinality(T) - 1 BY <2>1, <2>3, FS_RemoveElement
      <3> QED BY <1>3, <2>1, <3>1
    <2>5. Divided(T \ {b}, f) = 0 /\ Divided(T, f) = 0 BY <2>4 DEF Below
    <2>6. ScalarsOn(T, f) /\ RaisedBy(T, f, a, g) BY <1>1 DEF ScalarsOn, RaisedBy
    <2>7. Divided(T, g) = Add(Divided(T \ {b}, f), Mul(ScalarOf(b - a), Divided(T, f)))
      BY <2>3, <2>6, DividedRaised
    <2>8. ScalarOf(b - a) \in Scalars /\ 0 \in Scalars BY <2>3, NodesApart, UnitsAreScalars
    <2> QED BY <2>5, <2>7, <2>8, UnitsAndNegation
  <1> QED BY <1>2, <1>3 DEF Below

\* Polynomials are added and scaled.
LEMMA BelowLinear ==
  ASSUME NEW m \in Nat, NEW f, Below(m, f), NEW g, Below(m, g), NEW c \in Scalars,
         NEW h, \A k \in Nodes : h[k] = Add(f[k], Mul(c, g[k]))
  PROVE  Below(m, h)
  <1>1. ScalarsOn(Nodes, f) /\ ScalarsOn(Nodes, g) BY DEF Below
  <1>2. ScalarsOn(Nodes, h)
    <2>1. ASSUME NEW k \in Nodes PROVE h[k] \in Scalars
      <3>1. f[k] \in Scalars /\ g[k] \in Scalars BY <1>1 DEF ScalarsOn
      <3> QED BY <3>1, Closed
    <2> QED BY <2>1 DEF ScalarsOn
  <1>3. ASSUME NEW T \in SUBSET Nodes, Cardinality(T) > m
        PROVE  Divided(T, h) = 0
    <2>1. Divided(T, f) = 0 /\ Divided(T, g) = 0 BY <1>3 DEF Below
    <2>2. ScalarsOn(T, f) /\ ScalarsOn(T, g) BY <1>1, OnNodes
    <2>3. \A k \in T : h[k] = Add(f[k], Mul(c, g[k])) OBVIOUS
    <2>4. Divided(T, h) = Add(Divided(T, f), Mul(c, Divided(T, g)))
      BY <2>2, <2>3, DividedIsLinear
    <2> QED BY <2>1, <2>4, UnitsAreScalars, UnitsAndNegation
  <1> QED BY <1>2, <1>3 DEF Below

\* Nothing is lost by allowing for more coefficients.
LEMMA BelowMore ==
  ASSUME NEW m \in Nat, NEW n \in Nat, m <= n, NEW f, Below(m, f)
  PROVE  Below(n, f)
  <1>1. ASSUME NEW T \in SUBSET Nodes, Cardinality(T) > n PROVE Cardinality(T) > m
    <2>1. Cardinality(T) \in Nat BY NodeSets
    <2> QED BY <1>1, <2>1
  <1> QED BY <1>1 DEF Below

\* Zero is the polynomial of no coefficients.
LEMMA ZeroBelow ==
  ASSUME NEW f, \A k \in Nodes : f[k] = 0
  PROVE  Below(0, f)
  <1>1. ScalarsOn(Nodes, f) BY UnitsAreScalars DEF ScalarsOn
  <1>2. \A T \in SUBSET Nodes : Divided(T, f) = 0
    <2>1. ASSUME NEW T \in SUBSET Nodes PROVE Divided(T, f) = 0
      <3>1. \A k \in T : f[k] = 0 OBVIOUS
      <3> QED BY <3>1, DividedOfZero
    <2> QED BY <2>1
  <1> QED BY <1>1, <1>2 DEF Below

\* The product of x - j over a set of nodes.
ProductAt(S) == [x \in Nodes |-> ProductOver(S, Offsets(x))]

\* It has one coefficient more than factors.
LEMMA ProductBelow ==
  ASSUME NEW S \in SUBSET Nodes
  PROVE  Below(Cardinality(S) + 1, ProductAt(S))
  <1> DEFINE Good == {T \in SUBSET S : Below(Cardinality(T) + 1, ProductAt(T))}
  <1>1. IsFiniteSet(S) BY NodeSets
  <1>2. ASSUME NEW T \in SUBSET S, \A U \in SUBSET T : U # T => U \in Good
        PROVE  T \in Good
    <2>1. IsFiniteSet(T) /\ T \in SUBSET Nodes /\ Cardinality(T) \in Nat BY NodeSets
    <2>2. ASSUME NEW x \in Nodes PROVE ScalarsOn(T, Offsets(x))
      BY NodesApart DEF ScalarsOn
    <2>3. CASE T = {}
      <3>1. \A x \in Nodes : ProductAt(T)[x] = 1 BY <2>1, <2>2, <2>3, ProductLaws DEF ProductAt
      <3>2. Below(1, ProductAt(T)) BY <3>1, UnitsAreScalars, ConstantBelow
      <3>3. Cardinality(T) + 1 = 1 BY <2>3, FS_EmptySet
      <3> QED BY <3>2, <3>3
    <2>4. CASE T # {}
      <3>1. PICK a \in T : TRUE BY <2>4
      <3> DEFINE U == T \ {a}
      <3>2. Below(Cardinality(U) + 1, ProductAt(U)) BY <1>2, <3>1
      <3>3. Cardinality(U) + 1 = Cardinality(T) /\ Cardinality(U) \in Nat /\ a \in Nodes
        <4>1. Cardinality(U) = Cardinality(T) - 1 BY <2>1, <3>1, FS_RemoveElement
        <4>2. a \in Nodes /\ Cardinality(U) \in Nat BY <2>1, <3>1, NodeSets
        <4> HIDE DEF U
        <4> QED BY <2>1, <4>1, <4>2
      <3>4. RaisedBy(Nodes, ProductAt(U), a, ProductAt(T))
        <4>1. ASSUME NEW x \in Nodes
              PROVE  ProductAt(T)[x] = Mul(ScalarOf(x - a), ProductAt(U)[x])
          <5>1. ProductOver(T, Offsets(x)) = Mul(Offsets(x)[a], ProductOver(U, Offsets(x)))
            BY <2>1, <2>2, <3>1, ProductLaws
          <5>2. Offsets(x)[a] = ScalarOf(x - a) BY <3>3, NodesApart
          <5> QED BY <5>1, <5>2 DEF ProductAt
        <4> QED BY <4>1 DEF RaisedBy
      <3> HIDE DEF U
      <3> QED BY <2>1, <3>2, <3>3, <3>4, BelowRaised
    <2> QED BY <2>3, <2>4
  <1> HIDE DEF Good
  <1>3. S \in Good BY <1>1, <1>2, SubsetInduction
  <1> QED BY <1>3 DEF Good

-----------------------------------------------------------------------------
(* Interpolation: derive_interpolating_value at any x, for a set of nodes.  *)

Basis(B, k, x) == Div(ProductOver(B \ {k}, Offsets(x)), Away(B, k))
BasisTerms(B, f, x) == [k \in B |-> Mul(Basis(B, k, x), f[k])]
Interpolated(B, f, x) == SumOver(B, BasisTerms(B, f, x))

\* Every term is a scalar.
LEMMA BasisIsScalar ==
  ASSUME NEW B \in SUBSET Nodes, NEW f, ScalarsOn(B, f), NEW x \in Nodes
  PROVE  /\ \A k \in B : /\ ProductOver(B \ {k}, Offsets(x)) \in Scalars
                         /\ Basis(B, k, x) \in Scalars
                         /\ BasisTerms(B, f, x)[k] = Mul(Basis(B, k, x), f[k])
         /\ ScalarsOn(B, BasisTerms(B, f, x))
         /\ Interpolated(B, f, x) \in Scalars
  <1>1. ASSUME NEW k \in B
        PROVE  /\ ProductOver(B \ {k}, Offsets(x)) \in Scalars /\ Basis(B, k, x) \in Scalars
               /\ Mul(Basis(B, k, x), f[k]) \in Scalars
    <2>1. IsFiniteSet(B \ {k}) BY NodeSets, FS_Subset
    <2>2. ScalarsOn(B \ {k}, Offsets(x)) BY NodesApart DEF ScalarsOn
    <2>3. ProductOver(B \ {k}, Offsets(x)) \in Scalars BY <2>1, <2>2, ProductLaws
    <2>4. Inv(Away(B, k)) \in Scalars BY AwayLaws
    <2>5. Basis(B, k, x) \in Scalars BY <2>3, <2>4, Closed DEF Basis, Div
    <2> QED BY <2>3, <2>5, Closed DEF ScalarsOn
  <1>2. ScalarsOn(B, BasisTerms(B, f, x)) BY <1>1 DEF ScalarsOn, BasisTerms
  <1>3. Interpolated(B, f, x) \in Scalars BY <1>2, NodeSets, SumLaws DEF Interpolated
  <1> QED BY <1>1, <1>2, <1>3 DEF BasisTerms

\* At its own nodes the polynomial has the values it is drawn through.
LEMMA InterpolatedAtNode ==
  ASSUME NEW B \in SUBSET Nodes, NEW f, ScalarsOn(B, f), NEW x \in B
  PROVE  Interpolated(B, f, x) = f[x]
  <1> DEFINE F == BasisTerms(B, f, x)
  <1>1. IsFiniteSet(B) /\ IsFiniteSet(B \ {x}) BY NodeSets, FS_Subset
  <1>2. ScalarsOn(B, F) /\ \A k \in B : F[k] = Mul(Basis(B, k, x), f[k]) BY BasisIsScalar
  <1> HIDE DEF F
  <1>3. ASSUME NEW k \in B \ {x} PROVE F[k] = 0
    <2> DEFINE T == B \ {k}
    <2>1. IsFiniteSet(T) BY NodeSets, FS_Subset
    <2>2. ScalarsOn(T, Offsets(x)) BY NodesApart DEF ScalarsOn
    <2>3. x \in T /\ Offsets(x)[x] = 0 BY NodesApart
    <2>4. IsFiniteSet(T \ {x}) /\ ScalarsOn(T \ {x}, Offsets(x))
      BY <2>1, <2>2, FS_Subset DEF ScalarsOn
    <2>5. ProductOver(T, Offsets(x)) = Mul(0, ProductOver(T \ {x}, Offsets(x)))
      BY <2>1, <2>2, <2>3, ProductLaws
    <2>6. ProductOver(T, Offsets(x)) = 0 BY <2>4, <2>5, ProductLaws, UnitsAndNegation
    <2>7. Basis(B, k, x) = 0
      <3>1. Inv(Away(B, k)) \in Scalars BY AwayLaws
      <3> QED BY <2>6, <3>1, UnitsAndNegation DEF Basis, Div
    <2> QED BY <1>2, <2>7, UnitsAndNegation DEF ScalarsOn
  <1>4. F[x] = f[x]
    <2>1. Away(B, x) \in NonZero BY AwayLaws
    <2>2. Basis(B, x, x) = 1
      <3>1. Basis(B, x, x) = Mul(Away(B, x), Inv(Away(B, x))) BY DEF Basis, Div, Away
      <3> QED BY <2>1, <3>1, Invertible
    <2> QED BY <1>2, <2>2, UnitsAndNegation DEF ScalarsOn
  <1>5. SumOver(B, F) = Add(F[x], SumOver(B \ {x}, F)) BY <1>1, <1>2, SumLaws
  <1>6. SumOver(B \ {x}, F) = 0 BY <1>1, <1>3, SumOfZeros
  <1>7. f[x] \in Scalars BY DEF ScalarsOn
  <1> QED BY <1>4, <1>5, <1>6, <1>7, UnitsAndNegation DEF Interpolated, F

\* It misses the value at another node by the divided difference.
LEMMA InterpolationError ==
  ASSUME NEW B \in SUBSET Nodes, NEW i \in Nodes \ B, NEW f, ScalarsOn(B \cup {i}, f)
  PROVE  /\ Away(B, i) \in NonZero
         /\ f[i] = Add(Interpolated(B, f, i), Mul(Away(B, i), Divided(B \cup {i}, f)))
  <1> DEFINE T == B \cup {i}
             W == Away(B, i)
             u == Terms(T, f)
             v == BasisTerms(B, f, i)
             s == SumOver(B, u)
  <1>1. T \in SUBSET Nodes /\ ScalarsOn(B, f) /\ f[i] \in Scalars BY DEF ScalarsOn
  <1>2. T \ {i} = B /\ i \in T /\ B \ {i} = B OBVIOUS
  <1>3. IsFiniteSet(B) /\ IsFiniteSet(T) BY <1>1, NodeSets
  <1>4. W \in NonZero /\ W \in Scalars /\ Inv(W) \in Scalars BY AwayLaws DEF NonZero
  <1>5. W = ProductOver(B, Offsets(i)) /\ Away(T, i) = W BY <1>2 DEF Away
  <1>6. ScalarsOn(T, u) /\ Divided(T, f) = Add(u[i], s)
    <2>1. ScalarsOn(T, u) BY <1>1, DividedIsScalar
    <2> HIDE DEF T, u
    <2> QED BY <1>2, <1>3, <2>1, SumLaws DEF Divided, u
  <1>7. ScalarsOn(B, u) BY <1>6 DEF ScalarsOn
  <1>8. s \in Scalars BY <1>3, <1>7, SumLaws
  <1>9. u[i] = Mul(f[i], Inv(W))
    BY <1>2, <1>5 DEF Terms
  <1>10. ASSUME NEW k \in B PROVE v[k] = Mul(Neg(W), u[k])
    <2> DEFINE d == ScalarOf(k - i)
               w == Away(B, k)
               p == ProductOver(B \ {k}, Offsets(i))
               y == f[k]
    <2>1. d \in NonZero /\ ScalarOf(i - k) = Neg(d) /\ Offsets(i)[k] = ScalarOf(i - k)
      BY NodesApart
    <2>2. w \in NonZero /\ Inv(w) \in Scalars /\ p \in Scalars /\ y \in Scalars
      BY <1>1, AwayLaws, BasisIsScalar DEF ScalarsOn
    <2>3. W = Mul(Neg(d), p)
      <3>1. ScalarsOn(B, Offsets(i)) BY NodesApart DEF ScalarsOn
      <3>2. ProductOver(B, Offsets(i)) = Mul(Offsets(i)[k], p) BY <1>3, <3>1, ProductLaws
      <3> QED BY <1>5, <2>1, <3>2
    <2>4. Away(T, k) = Mul(d, w)
      <3>1. Away(T, k) = Mul(d, Away(T \ {i}, k)) BY <1>1, AwayLaws
      <3> QED BY <1>2, <3>1
    <2>5. v[k] = Mul(Mul(p, Inv(w)), y) BY DEF BasisTerms, Basis, Div
    <2>6. u[k] = Mul(y, Inv(Mul(d, w)))
      <3>1. u[k] = Mul(y, Inv(Away(T, k))) BY DEF Terms
      <3> QED BY <2>4, <3>1
    <2> HIDE DEF d, w, p, y, u, v, W
    <2> DEFINE z == Inv(Mul(d, w))
    <2>7. d \in Scalars /\ w \in Scalars /\ z \in Scalars
      BY <2>1, <2>2, NoZeroDivisors, Invertible DEF NonZero
    <2>8. Mul(d, z) = Inv(w)
      <3>1. 1 \in Scalars BY UnitsAreScalars
      <3>2. Mul(Mul(d, 1), Inv(Mul(d, w))) = Mul(1, Inv(w)) BY <2>1, <2>2, <3>1, CancelQuotient
      <3> QED BY <2>2, <2>7, <3>2, UnitsAndNegation
    <2> HIDE DEF z
    <2>9. Neg(W) = Mul(d, p)
      <3>1. Neg(d) \in Scalars /\ Neg(Neg(d)) = d BY <2>7, Closed, UnitsAndNegation
      <3> QED BY <2>2, <2>3, <3>1, SignLaws
    <2>10. Mul(Mul(d, p), Mul(y, z)) = Mul(Mul(p, Mul(d, z)), y)
      <3>1. Mul(d, p) = Mul(p, d) /\ Mul(y, z) = Mul(z, y) BY <2>2, <2>7, Commutes
      <3>2. Mul(d, z) \in Scalars /\ Mul(p, d) \in Scalars /\ Mul(z, y) \in Scalars
        BY <2>2, <2>7, Closed
      <3>3. Mul(Mul(p, d), Mul(z, y)) = Mul(Mul(Mul(p, d), z), y)
        BY <2>2, <2>7, <3>2, MulAssoc
      <3>4. Mul(Mul(p, d), z) = Mul(p, Mul(d, z)) BY <2>2, <2>7, MulAssoc
      <3> QED BY <3>1, <3>3, <3>4
    <2> QED BY <2>5, <2>6, <2>8, <2>9, <2>10 DEF z
  <1> HIDE DEF T, u, v, s, W
  <1>11. Interpolated(B, f, i) = Mul(Neg(W), s)
    <2>1. Neg(W) \in Scalars BY <1>4, Closed
    <2> QED BY <1>3, <1>7, <1>10, <2>1, SumScaled DEF Interpolated, v, s
  <1>12. Mul(W, Divided(T, f)) = Add(f[i], Mul(W, s))
    <2>1. u[i] \in Scalars BY <1>2, <1>6 DEF ScalarsOn
    <2>2. Mul(W, Add(u[i], s)) = Add(Mul(W, u[i]), Mul(W, s)) BY <1>4, <1>8, <2>1, Distributes
    <2>3. Mul(W, u[i]) = f[i]
      <3>1. Mul(W, Mul(f[i], Inv(W))) = Mul(f[i], Mul(W, Inv(W))) BY <1>1, <1>4, MulSwap
      <3>2. Mul(W, Inv(W)) = 1 BY <1>4, Invertible
      <3> QED BY <1>1, <1>9, <3>1, <3>2, UnitsAndNegation
    <2> QED BY <1>6, <2>2, <2>3
  <1>13. Add(Mul(Neg(W), s), Add(f[i], Mul(W, s))) = f[i]
    <2> DEFINE q == Mul(W, s)
    <2>1. q \in Scalars /\ Mul(Neg(W), s) = Neg(q) /\ Neg(q) \in Scalars
      BY <1>4, <1>8, Closed, SignLaws
    <2> HIDE DEF q
    <2>2. Add(f[i], q) = Add(q, f[i]) BY <1>1, <2>1, Commutes
    <2>3. Add(Neg(q), Add(q, f[i])) = f[i] BY <1>1, <2>1, TakeOff
    <2> QED BY <2>1, <2>2, <2>3 DEF q
  <1> QED BY <1>4, <1>11, <1>12, <1>13 DEF T, W

\* So it has that value exactly when the divided difference is zero.
LEMMA LiesOn ==
  ASSUME NEW B \in SUBSET Nodes, NEW i \in Nodes \ B, NEW f, ScalarsOn(B \cup {i}, f)
  PROVE  Interpolated(B, f, i) = f[i] <=> Divided(B \cup {i}, f) = 0
  <1> DEFINE a == Interpolated(B, f, i)
             w == Away(B, i)
             d == Divided(B \cup {i}, f)
  <1>1. w \in NonZero /\ f[i] = Add(a, Mul(w, d)) BY InterpolationError
  <1>2. a \in Scalars /\ d \in Scalars /\ w \in Scalars
    <2>1. ScalarsOn(B, f) BY DEF ScalarsOn
    <2>2. a \in Scalars BY <2>1, BasisIsScalar
    <2>3. d \in Scalars BY DividedIsScalar
    <2> QED BY <1>1, <2>2, <2>3 DEF NonZero
  <1> HIDE DEF a, w, d
  <1>3. ASSUME d = 0 PROVE a = f[i] BY <1>1, <1>2, <1>3, UnitsAndNegation
  <1>4. ASSUME a = f[i] PROVE d = 0
    <2> DEFINE m == Mul(w, d)
    <2>1. m \in Scalars /\ a = Add(a, m) BY <1>1, <1>2, <1>4, Closed
    <2> HIDE DEF m
    <2>2. Add(Neg(a), Add(a, m)) = m BY <1>2, <2>1, TakeOff
    <2>3. Add(Neg(a), a) = 0 BY <1>2, Closed, Commutes, UnitsAndNegation
    <2>4. Mul(w, d) = 0 BY <2>1, <2>2, <2>3 DEF m
    <2> QED BY <1>1, <1>2, <2>4, NoZeroDivisors DEF NonZero
  <1> QED BY <1>3, <1>4 DEF a, d

\* The part of the interpolation polynomial that belongs to the nodes of S.
PartOf(B, f, S) == [x \in Nodes |-> SumOver(S, BasisTerms(B, f, x))]

\* The polynomial through the points at B has as many coefficients as B nodes.
LEMMA InterpolatedBelow ==
  ASSUME NEW B \in SUBSET Nodes, NEW f, ScalarsOn(B, f)
  PROVE  Below(Cardinality(B), PartOf(B, f, B))
  <1> DEFINE m == Cardinality(B)
             Good == {S \in SUBSET B : Below(m, PartOf(B, f, S))}
  <1>1. IsFiniteSet(B) /\ m \in Nat BY NodeSets
  <1>2. ASSUME NEW S \in SUBSET B, \A U \in SUBSET S : U # S => U \in Good
        PROVE  S \in Good
    <2>1. IsFiniteSet(S) /\ S \in SUBSET Nodes BY NodeSets
    <2>2. ASSUME NEW x \in Nodes PROVE ScalarsOn(S, BasisTerms(B, f, x))
      <3>1. ScalarsOn(B, BasisTerms(B, f, x)) BY BasisIsScalar
      <3> QED BY <3>1 DEF ScalarsOn
    <2>3. CASE S = {}
      <3>1. \A x \in Nodes : PartOf(B, f, S)[x] = 0 BY <2>1, <2>3, SumOfZeros DEF PartOf
      <3>2. Below(0, PartOf(B, f, S)) BY <3>1, ZeroBelow
      <3> HIDE DEF m
      <3>3. Below(m, PartOf(B, f, S)) BY <1>1, <3>2, BelowMore
      <3> QED BY <3>3
    <2>4. CASE S # {}
      <3>1. PICK k \in S : TRUE BY <2>4
      <3> DEFINE U == S \ {k}
                 c == Mul(Inv(Away(B, k)), f[k])
      <3>2. Below(m, PartOf(B, f, U)) BY <1>2, <3>1
      <3>3. Below(m, ProductAt(B \ {k}))
        <4>1. Cardinality(B \ {k}) = m - 1 /\ Cardinality(B \ {k}) \in Nat
          BY <1>1, <3>1, NodeSets, FS_RemoveElement
        <4>2. Cardinality(B \ {k}) + 1 = m BY <1>1, <4>1
        <4> QED BY <4>2, ProductBelow
      <3>4. Inv(Away(B, k)) \in Scalars /\ f[k] \in Scalars BY AwayLaws DEF ScalarsOn
      <3>5. c \in Scalars BY <3>4, Closed
      <3>6. ASSUME NEW x \in Nodes
            PROVE  PartOf(B, f, S)[x]
                     = Add(PartOf(B, f, U)[x], Mul(c, ProductAt(B \ {k})[x]))
        <4> DEFINE p == ProductOver(B \ {k}, Offsets(x))
                   F == BasisTerms(B, f, x)
                   w == Inv(Away(B, k))
                   y == f[k]
                   r == SumOver(U, F)
        <4>1. p \in Scalars /\ F[k] = Mul(Basis(B, k, x), y) BY BasisIsScalar
        <4>2. Basis(B, k, x) = Mul(p, w) BY DEF Basis, Div
        <4>3. SumOver(S, F) = Add(F[k], r) BY <2>1, <2>2, <3>1, SumLaws
        <4>4. r \in Scalars
          <5>1. IsFiniteSet(U) BY <2>1, FS_Subset
          <5>2. ScalarsOn(U, F) BY <2>2 DEF ScalarsOn
          <5> QED BY <5>1, <5>2, SumLaws
        <4>5. /\ PartOf(B, f, S)[x] = SumOver(S, F) /\ PartOf(B, f, U)[x] = r
              /\ ProductAt(B \ {k})[x] = p
          BY DEF PartOf, ProductAt
        <4>6. w \in Scalars /\ y \in Scalars BY <3>4
        <4>7. F[k] = Mul(Mul(p, w), y) BY <4>1, <4>2
        <4>8. c = Mul(w, y) OBVIOUS
        <4> HIDE DEF p, F, w, y, r, c, U
        <4>9. Mul(Mul(p, w), y) = Mul(c, p) /\ Mul(c, p) \in Scalars
          <5>1. Mul(Mul(p, w), y) = Mul(p, Mul(w, y)) BY <4>1, <4>6, MulAssoc
          <5> QED BY <3>5, <4>1, <4>8, <5>1, Commutes, Closed
        <4>10. Add(Mul(c, p), r) = Add(r, Mul(c, p)) BY <4>4, <4>9, Commutes
        <4> QED BY <4>3, <4>5, <4>7, <4>9, <4>10
      <3> HIDE DEF U, c, m
      <3>7. Below(m, PartOf(B, f, S)) BY <1>1, <3>2, <3>3, <3>5, <3>6, BelowLinear
      <3> QED BY <3>7
    <2> QED BY <2>3, <2>4
  <1> HIDE DEF Good
  <1>3. B \in Good BY <1>1, <1>2, SubsetInduction
  <1> QED BY <1>3 DEF Good

\* What lies on the polynomial through the base set, node by node, lies on one
\* polynomial, whichever nodes are then chosen.
LEMMA BaseDetermines ==
  ASSUME NEW M \in SUBSET Nodes, NEW B \in SUBSET M, NEW f, ScalarsOn(M, f),
         \A i \in M \ B : Divided(B \cup {i}, f) = 0,
         NEW T \in SUBSET M, Cardinality(T) > Cardinality(B)
  PROVE  Divided(T, f) = 0
  <1> DEFINE g == PartOf(B, f, B)
  <1>1. B \in SUBSET Nodes /\ T \in SUBSET Nodes /\ ScalarsOn(B, f) /\ ScalarsOn(T, f)
    BY DEF ScalarsOn
  <1>2. ASSUME NEW x \in M PROVE g[x] = f[x]
    <2>1. g[x] = Interpolated(B, f, x) BY DEF PartOf, Interpolated
    <2>2. CASE x \in B BY <1>1, <2>1, <2>2, InterpolatedAtNode
    <2>3. CASE x \notin B
      <3>1. x \in Nodes \ B /\ ScalarsOn(B \cup {x}, f) BY <2>3 DEF ScalarsOn
      <3>2. Divided(B \cup {x}, f) = 0 BY <2>3
      <3> QED BY <1>1, <2>1, <3>1, <3>2, LiesOn
    <2> QED BY <2>2, <2>3
  <1>3. Below(Cardinality(B), g) BY <1>1, InterpolatedBelow
  <1> HIDE DEF g
  <1>4. Divided(T, g) = 0 BY <1>1, <1>3 DEF Below
  <1>5. Divided(T, g) = Divided(T, f) BY <1>1, <1>2, DividedOfSame
  <1> QED BY <1>4, <1>5

\* Conversely, a node must lie on the polynomial through the base set if the base
\* set gives the value at -1 with the node and without it.
LEMMA NodeDetermined ==
  ASSUME NEW B \in SUBSET Nodes, -1 \notin B, NEW i \in Nodes \ B, i # -1,
         NEW f, ScalarsOn(B \cup {i, -1}, f),
         Divided(B \cup {-1}, f) = 0, Divided((B \cup {i}) \cup {-1}, f) = 0
  PROVE  Divided(B \cup {i}, f) = 0
  <1> DEFINE T == B \cup {i, -1}
  <1>1. T \in SUBSET Nodes /\ -1 \in Nodes BY NodeSets
  <1>2. /\ T \ {-1} = B \cup {i} /\ T \ {i} = B \cup {-1} /\ T = (B \cup {i}) \cup {-1}
        /\ i \in T /\ -1 \in T
    OBVIOUS
  <1> HIDE DEF T
  <1>3. ScalarsOn(T, f) BY DEF T
  <1>4. Divided(T \ {-1}, f)
          = Add(Divided(T \ {i}, f), Mul(ScalarOf(i - (-1)), Divided(T, f)))
    BY <1>1, <1>2, <1>3, DividedRecurrence
  <1>5. ScalarOf(i - (-1)) \in Scalars /\ 0 \in Scalars BY <1>1, NodesApart, UnitsAreScalars
  <1>6. Divided(T, f) = 0 /\ Divided(T \ {i}, f) = 0 BY <1>2
  <1>7. Add(0, Mul(ScalarOf(i - (-1)), 0)) = 0 BY <1>5, UnitsAndNegation
  <1> QED BY <1>2, <1>4, <1>6, <1>7

\* The list behind a set of signers: what the code interpolates over a list is
\* the interpolation over the set, when the points are f at the ids.
LEMMA InterpolatedOverList ==
  ASSUME NEW ids, SignerIds(ids), NEW f, ScalarsOn(ToSet(ids), f), NEW points,
         \A k \in DOMAIN ids : points[k] = f[ids[k]], NEW x \in Nodes
  PROVE  /\ ToSet(ids) \in SUBSET Nodes /\ -1 \notin ToSet(ids)
         /\ Cardinality(ToSet(ids)) = Len(ids)
         /\ DerivePubshareAt(ids, points, x) = Interpolated(ToSet(ids), f, x)
  <1> DEFINE n == Len(ids)
             B == ToSet(ids)
  <1>1. /\ ids \in Seq(Nat) /\ n \in Nat /\ DOMAIN ids = 1 .. n
        /\ \A k, l \in 1 .. n : ids[k] = ids[l] => k = l
        /\ \A k \in 1 .. n : ids[k] \in Nat /\ ids[k] < MaxParticipants
    BY DEF SignerIds, IsInjective
  <1>2. B = {ids[k] : k \in 1 .. n} BY <1>1 DEF ToSet
  <1>3. B \in SUBSET Nodes /\ -1 \notin B
    BY <1>1, <1>2, ParticipantsAssumption DEF Nodes
  <1>4. ids \in Bijection(1 .. n, B)
    BY <1>1, <1>2 DEF Bijection, Injection, Surjection, IsInjective
  <1> HIDE DEF n, B
  <1>5. IsFiniteSet(1 .. n) /\ Cardinality(1 .. n) = n
    <2>1. 1 \in Int /\ n \in Int /\ n >= 0 BY <1>1
    <2>2. IsFiniteSet(1 .. n) /\ Cardinality(1 .. n) = IF 1 > n THEN 0 ELSE n - 1 + 1
      BY <2>1, FS_Interval
    <2> QED BY <2>1, <2>2
  <1>6. IsFiniteSet(B) /\ Cardinality(B) = n
    <2>1. ExistsBijection(1 .. n, B) BY <1>4 DEF ExistsBijection
    <2> QED BY <1>5, <2>1, FS_Bijection
  <1> DEFINE coefficient(my_id) ==
               Div(ProductOver(ToSet(ids) \ {my_id},
                               [j \in ToSet(ids) \ {my_id} |-> ScalarOf(x - j)]),
                   ProductOver(ToSet(ids) \ {my_id},
                               [j \in ToSet(ids) \ {my_id} |-> ScalarOf(my_id - j)]))
             F == [k \in DOMAIN ids |-> Mul(coefficient(ids[k]), points[k])]
             V == BasisTerms(B, f, x)
  <1>7. DerivePubshareAt(ids, points, x) = SumOver(DOMAIN ids, F) BY DEF DerivePubshareAt
  <1>8. ASSUME NEW k \in B PROVE coefficient(k) = Basis(B, k, x)
    <2> DEFINE T == B \ {k}
    <2>1. IsFiniteSet(T) /\ T \in SUBSET Nodes /\ k \in Nodes BY <1>3, <1>6, FS_Subset
    <2>2. ScalarsOn(T, Offsets(x)) /\ ScalarsOn(T, Offsets(k))
      BY <2>1, NodesApart DEF ScalarsOn
    <2>3. ProductOver(T, [j \in T |-> ScalarOf(x - j)]) = ProductOver(T, Offsets(x))
      <3> DEFINE g == [j \in T |-> ScalarOf(x - j)]
      <3>1. \A j \in T : g[j] = Offsets(x)[j] BY <2>1, NodesApart
      <3> HIDE DEF g, T
      <3> QED BY <2>1, <2>2, <3>1, SameSummands DEF g
    <2>4. ProductOver(T, [j \in T |-> ScalarOf(k - j)]) = ProductOver(T, Offsets(k))
      <3> DEFINE g == [j \in T |-> ScalarOf(k - j)]
      <3>1. \A j \in T : g[j] = Offsets(k)[j] BY <2>1, NodesApart
      <3> HIDE DEF g, T
      <3> QED BY <2>1, <2>2, <3>1, SameSummands DEF g
    <2> QED BY <2>3, <2>4 DEF Basis, Away, B
  <1> HIDE DEF coefficient
  <1>9. ScalarsOn(B, V) /\ \A k \in B : V[k] = Mul(Basis(B, k, x), f[k])
    <2>1. ScalarsOn(B, f) BY DEF B
    <2>2. ScalarsOn(B, BasisTerms(B, f, x)) BY <1>3, <2>1, BasisIsScalar
    <2> QED BY <2>2 DEF BasisTerms
  <1>10. \A k \in 1 .. n : F[k] = V[ids[k]]
    <2>1. ASSUME NEW k \in 1 .. n PROVE F[k] = V[ids[k]]
      <3>1. ids[k] \in B /\ points[k] = f[ids[k]] /\ F[k] = Mul(coefficient(ids[k]), points[k])
        BY <1>1, <1>2
      <3> QED BY <1>8, <1>9, <3>1
    <2> QED BY <2>1
  <1> HIDE DEF F, V
  <1>11. SumOver(1 .. n, F) = SumOver(B, V)
    <2> DEFINE S == 1 .. n
    <2>1. /\ IsFiniteSet(S) /\ IsFiniteSet(B) /\ ids \in Bijection(S, B) /\ ScalarsOn(B, V)
          /\ \A k \in S : F[k] = V[ids[k]]
      BY <1>4, <1>5, <1>6, <1>9, <1>10
    <2> HIDE DEF S
    <2>2. SumOver(S, F) = SumOver(B, V) BY <2>1, SumReindexed
    <2> QED BY <2>2 DEF S
  <1> QED BY <1>1, <1>3, <1>6, <1>7, <1>11 DEF Interpolated, V, B, n

-----------------------------------------------------------------------------
(* The dealer's polynomial.                                                *)

\* after[m] is what Horner's rule has at every node after m coefficients.
Levels(after, n, coeffs) ==
  /\ \A x \in Nodes : after[0][x] = 0
  /\ \A m \in 1 .. n : \A x \in Nodes :
       after[m][x] = Add(Mul(after[m - 1][x], ScalarOf(x + 1)), coeffs[m])
  /\ \A x \in Nodes : PolynomialEvaluate(coeffs, ScalarOf(x + 1)) = after[n][x]

\* Horner's rule runs through the coefficients.
LEMMA HornersRule ==
  ASSUME NEW n \in Nat, NEW coeffs \in [1 .. n -> Scalars]
  PROVE  \E after \in [0 .. n -> [Nodes -> Scalars]] : Levels(after, n, coeffs)
  <1> DEFINE S == 1 .. n
             V == [Nodes -> Scalars]
             base == [x \in Nodes |-> 0]
             c == [s \in SUBSET S |-> Max(s)]
             h == [i \in S |-> [r \in V |->
                     [x \in Nodes |-> Add(Mul(r[x], ScalarOf(x + 1)), coeffs[i])]]]
  <1>1. IsFiniteSet(S) /\ S = DOMAIN coeffs /\ S \subseteq Int BY FS_Interval
  <1>2. ASSUME NEW s \in SUBSET S, s # {} PROVE c[s] = Max(s) /\ c[s] \in s
    <2>1. IsFiniteSet(s) /\ s \in SUBSET Int BY <1>1, FS_Subset
    <2> QED BY <1>2, <2>1, Extremes
  <1>3. base \in V BY UnitsAreScalars
  <1>4. h \in [S -> [V -> V]]
    <2>1. ASSUME NEW r \in V, NEW i \in S, NEW x \in Nodes
          PROVE  Add(Mul(r[x], ScalarOf(x + 1)), coeffs[i]) \in Scalars
      <3>1. x + 1 \in Int BY NodeSets
      <3>2. ScalarOf(x + 1) \in Scalars BY <3>1, ScalarOfSum
      <3>3. r[x] \in Scalars /\ coeffs[i] \in Scalars OBVIOUS
      <3> QED BY <3>2, <3>3, Closed
    <2> QED BY <2>1
  <1> HIDE DEF c, h, base, V
  <1>5. PICK g \in [SUBSET S -> V] : IsFold(g, S, c, base, h)
    BY <1>1, <1>2, <1>3, <1>4, FoldExists
  <1> DEFINE after == [m \in 0 .. n |-> g[1 .. m]]
  <1>6. ASSUME NEW m \in 0 .. n PROVE 1 .. m \in SUBSET S OBVIOUS
  <1>7. after \in [0 .. n -> V] BY <1>6
  <1>8. g[{}] = base /\ after[0] = base
    <2>1. 1 .. 0 = {} /\ 0 \in 0 .. n OBVIOUS
    <2>2. g[{}] = base BY <1>5 DEF IsFold
    <2> QED BY <2>1, <2>2
  <1>9. ASSUME NEW s \in SUBSET S, s # {}, NEW x \in Nodes
        PROVE  g[s][x] = Add(Mul(g[s \ {Max(s)}][x], ScalarOf(x + 1)), coeffs[Max(s)])
    <2>1. g[s] = h[c[s]][g[s \ {c[s]}]] BY <1>5, <1>9 DEF IsFold
    <2>2. c[s] = Max(s) /\ c[s] \in S /\ g[s \ {c[s]}] \in V BY <1>2, <1>9
    <2> QED BY <2>1, <2>2 DEF h
  <1>10. ASSUME NEW m \in 1 .. n, NEW x \in Nodes
         PROVE  after[m][x] = Add(Mul(after[m - 1][x], ScalarOf(x + 1)), coeffs[m])
    <2> DEFINE s == 1 .. m
    <2>1. /\ s \in SUBSET S /\ s # {} /\ m \in s /\ m \in 0 .. n /\ m - 1 \in 0 .. n
          /\ \A i \in s : i <= m
      OBVIOUS
    <2>2. Max(s) = m
      <3>1. IsFiniteSet(s) /\ s \in SUBSET Int BY <1>1, <2>1, FS_Subset
      <3>2. Max(s) \in s /\ \A y \in s : Max(s) >= y BY <2>1, <3>1, Extremes
      <3> QED BY <2>1, <3>2
    <2>3. s \ {m} = 1 .. m - 1 OBVIOUS
    <2>4. after[m] = g[s] /\ after[m - 1] = g[1 .. m - 1] BY <2>1
    <2> HIDE DEF s, after
    <2>5. g[s][x] = Add(Mul(g[s \ {Max(s)}][x], ScalarOf(x + 1)), coeffs[Max(s)])
      BY <1>9, <2>1
    <2> QED BY <2>2, <2>3, <2>4, <2>5
  <1>11. ASSUME NEW x \in Nodes PROVE PolynomialEvaluate(coeffs, ScalarOf(x + 1)) = after[n][x]
    <2> DEFINE a == ScalarOf(x + 1)
               k == [s \in SUBSET S |-> g[s][x]]
               Equation(q) ==
                 q = [s \in SUBSET DOMAIN coeffs |->
                        IF s = {} THEN 0
                        ELSE Add(Mul(q[s \ {Max(s)}], a), coeffs[Max(s)])]
    <2>1. Equation(k)
      <3>1. ASSUME NEW s \in SUBSET S, s # {}
            PROVE  k[s] = Add(Mul(k[s \ {Max(s)}], a), coeffs[Max(s)])
        BY <1>9, <3>1
      <3>2. k[{}] = 0 BY <1>8 DEF base
      <3> HIDE DEF a
      <3> QED BY <1>1, <3>1, <3>2
    <2> HIDE DEF k, a
    <2>2. ASSUME NEW q, Equation(q) PROVE q = k
      <3> DEFINE Good == {U \in SUBSET S : q[U] = k[U]}
      <3>1. ASSUME NEW U \in SUBSET S, \A s \in SUBSET U : s # U => s \in Good
            PROVE  U \in Good
        <4> DEFINE m == Max(U)
        <4>1. CASE U = {} BY <1>1, <2>1, <2>2, <4>1
        <4>2. CASE U # {}
          <5>1. m \in U BY <1>2, <4>2
          <5>2. U \ {m} \in Good BY <3>1, <5>1
          <5> QED BY <1>1, <2>1, <2>2, <4>2, <5>2
        <4> QED BY <4>1, <4>2
      <3>4. IsFiniteSet(S) BY <1>1
      <3> HIDE DEF Good, S
      <3>2. \A U \in SUBSET S : U \in Good BY <3>1, <3>4, SubsetInduction
      <3>3. \A U \in SUBSET S : q[U] = k[U] BY <3>2 DEF Good
      <3> QED BY <1>1, <2>1, <2>2, <3>3
    <2>3. PolynomialEvaluate(coeffs, a) = (CHOOSE q : Equation(q))[DOMAIN coeffs]
      BY DEF PolynomialEvaluate, FoldLeft, MapThenFoldSet
    <2> HIDE DEF Equation
    <2>4. (CHOOSE q : Equation(q)) = k BY <2>1, <2>2
    <2>5. k[S] = g[S][x] /\ after[n] = g[S] BY DEF k
    <2> QED BY <1>1, <2>3, <2>4, <2>5 DEF a
  <1> HIDE DEF after
  <1>12. \A x \in Nodes : after[0][x] = 0 BY <1>8 DEF base
  <1>13. Levels(after, n, coeffs) BY <1>10, <1>11, <1>12 DEF Levels
  <1> QED BY <1>7, <1>13 DEF V

\* The values of a polynomial of n coefficients at the nodes.
Evaluated(coeffs) == [x \in Nodes |-> PolynomialEvaluate(coeffs, ScalarOf(x + 1))]

\* It is such a polynomial, and the last coefficient is its value at -1.
LEMMA EvaluatedBelow ==
  ASSUME NEW n \in Nat, NEW coeffs \in [1 .. n -> Scalars]
  PROVE  /\ Below(n, Evaluated(coeffs))
         /\ n # 0 => Evaluated(coeffs)[-1] = coeffs[n]
  <1>1. PICK after \in [0 .. n -> [Nodes -> Scalars]] : Levels(after, n, coeffs)
    BY HornersRule
  <1> DEFINE S == 1 .. n
             Good == {T \in SUBSET S : \A m \in 0 .. n : T = 1 .. m => Below(m, after[m])}
  <1>2. IsFiniteSet(S) BY FS_Interval
  <1>3. ASSUME NEW T \in SUBSET S, \A U \in SUBSET T : U # T => U \in Good
        PROVE  T \in Good
    <2> SUFFICES ASSUME NEW m \in 0 .. n, T = 1 .. m PROVE Below(m, after[m])
      OBVIOUS
    <2>1. CASE m = 0 BY <1>1, <2>1, ZeroBelow DEF Levels
    <2>2. CASE m # 0
      <3> DEFINE U == 1 .. m - 1
                 f == after[m - 1]
                 g == [x \in Nodes |-> Mul(ScalarOf(x - (-1)), f[x])]
                 one == [x \in Nodes |-> 1]
      <3>1. m \in 1 .. n /\ m - 1 \in 0 .. n /\ m - 1 \in Nat /\ m \in Nat /\ coeffs[m] \in Scalars
        BY <2>2
      <3>2. U \in SUBSET T /\ U # T
        <4>1. m \in T /\ m \notin U BY <3>1
        <4> QED BY <3>1, <4>1
      <3>3. Below(m - 1, f) BY <1>3, <3>1, <3>2
      <3>4. RaisedBy(Nodes, f, -1, g) BY DEF RaisedBy
      <3>5. \A x \in Nodes : one[x] = 1 OBVIOUS
      <3>6. ASSUME NEW x \in Nodes PROVE after[m][x] = Add(g[x], Mul(coeffs[m], one[x]))
        <4>1. after[m][x] = Add(Mul(f[x], ScalarOf(x + 1)), coeffs[m]) BY <1>1, <3>1 DEF Levels
        <4>2. x - (-1) = x + 1 /\ x + 1 \in Int BY NodeSets
        <4>3. ScalarOf(x + 1) \in Scalars BY <4>2, ScalarOfSum
        <4>4. f[x] \in Scalars BY <3>1
        <4>5. g[x] = Mul(ScalarOf(x + 1), f[x]) BY <4>2
        <4> HIDE DEF f, g, one
        <4>6. Mul(f[x], ScalarOf(x + 1)) = g[x] BY <4>3, <4>4, <4>5, Commutes
        <4>7. Mul(coeffs[m], one[x]) = coeffs[m] BY <3>1, <3>5, UnitsAndNegation
        <4> QED BY <4>1, <4>6, <4>7
      <3> HIDE DEF f, g, one
      <3>7. Below(m, g)
        <4>1. Below((m - 1) + 1, g) BY <3>1, <3>3, <3>4, NodeSets, BelowRaised
        <4>2. (m - 1) + 1 = m BY <3>1
        <4> QED BY <4>1, <4>2
      <3>8. Below(m, one)
        <4>1. Below(1, one) BY <3>5, UnitsAreScalars, ConstantBelow
        <4>2. 1 <= m /\ 1 \in Nat BY <3>1
        <4> QED BY <3>1, <4>1, <4>2, BelowMore
      <3> QED BY <3>1, <3>6, <3>7, <3>8, BelowLinear
    <2> QED BY <2>1, <2>2
  <1> HIDE DEF Good, S
  <1>4. S \in Good BY <1>2, <1>3, SubsetInduction
  <1>5. Below(n, after[n])
    <2>1. n \in 0 .. n /\ S = 1 .. n BY DEF S
    <2> QED BY <1>4, <2>1 DEF Good
  <1>6. Evaluated(coeffs) = after[n]
    <2>1. \A x \in Nodes : PolynomialEvaluate(coeffs, ScalarOf(x + 1)) = after[n][x]
      BY <1>1 DEF Levels
    <2>2. n \in 0 .. n OBVIOUS
    <2>3. after[n] \in [Nodes -> Scalars] BY <2>2
    <2> QED BY <2>1, <2>3 DEF Evaluated
  <1>7. ASSUME n # 0 PROVE after[n][-1] = coeffs[n]
    <2>1. n \in 1 .. n /\ n - 1 \in 0 .. n /\ -1 \in Nodes BY <1>7, NodeSets
    <2>2. after[n][-1] = Add(Mul(after[n - 1][-1], ScalarOf(-1 + 1)), coeffs[n])
      BY <1>1, <2>1 DEF Levels
    <2>3. ScalarOf(-1 + 1) = 0
      <3>1. -1 + 1 = 0 OBVIOUS
      <3> QED BY <3>1, SmallResidue, UnitsAreScalars DEF ScalarOf
    <2>4. after[n - 1][-1] \in Scalars /\ coeffs[n] \in Scalars BY <2>1
    <2> QED BY <2>2, <2>3, <2>4, UnitsAndNegation
  <1> QED BY <1>5, <1>6, <1>7

-----------------------------------------------------------------------------
(* The dealer's shares.                                                    *)

\* What the dealer deals are the values of a polynomial of t coefficients.
LEMMA DealtShares ==
  ASSUME NEW sk \in NonZero, NEW n \in 1 .. MaxParticipants, NEW t \in 1 .. n,
         NEW coeffs \in [1 .. t - 1 -> NonZero]
  PROVE  /\ Below(t, Evaluated(Append(coeffs, sk)))
         /\ Evaluated(Append(coeffs, sk))[-1] = sk
         /\ \A i \in 0 .. n - 1 :
              /\ SecretShareShard(sk, coeffs, n)[i] = Evaluated(Append(coeffs, sk))[i]
              /\ SecretShareShard(sk, coeffs, n)[i] \in Scalars
         /\ SecretShareShard(sk, coeffs, n)
              = [i \in 0 .. n - 1 |-> SecretShareShard(sk, coeffs, n)[i]]
  <1> DEFINE all == Append(coeffs, sk)
             f == Evaluated(all)
             shares == SecretShareShard(sk, coeffs, n)
  <1>1. t \in Nat /\ t # 0 /\ t - 1 \in Nat BY ParticipantsAssumption
  <1>2. coeffs \in Seq(NonZero) /\ Len(coeffs) = t - 1
    <2>1. coeffs = [k \in 1 .. t - 1 |-> coeffs[k]] OBVIOUS
    <2>2. \A k \in 1 .. t - 1 : coeffs[k] \in NonZero OBVIOUS
    <2> QED BY <1>1, <2>1, <2>2
  <1>3. all \in [1 .. t -> Scalars] /\ all[t] = sk
    <2>1. all \in Seq(NonZero) /\ Len(all) = t /\ all[t] = sk
      <3>1. all \in Seq(NonZero) /\ Len(all) = Len(coeffs) + 1 /\ all[Len(coeffs) + 1] = sk
        BY <1>2
      <3>2. Len(coeffs) + 1 = t BY <1>1, <1>2
      <3> QED BY <3>1, <3>2
    <2> HIDE DEF all
    <2>2. DOMAIN all = 1 .. t /\ \A k \in 1 .. t : all[k] \in NonZero BY <1>1, <2>1
    <2>3. all = [k \in 1 .. t |-> all[k]] BY <1>1, <2>1
    <2> QED BY <2>1, <2>2, <2>3 DEF NonZero
  <1> HIDE DEF all
  <1>4. Below(t, f) /\ f[-1] = sk BY <1>1, <1>3, EvaluatedBelow
  <1>5. shares = [i \in 0 .. n - 1 |-> PolynomialEvaluate(all, ScalarOf(i + 1))]
    BY DEF SecretShareShard, all
  <1>6. \A i \in 0 .. n - 1 : i \in Nodes BY ParticipantsAssumption DEF Nodes
  <1>7. \A i \in 0 .. n - 1 : shares[i] = f[i] BY <1>5, <1>6 DEF Evaluated
  <1>8. \A i \in 0 .. n - 1 : f[i] \in Scalars BY <1>4, <1>6 DEF Below, ScalarsOn
  <1>9. shares = [i \in 0 .. n - 1 |-> shares[i]] BY <1>5
  <1> HIDE DEF f, shares
  <1> QED BY <1>4, <1>7, <1>8, <1>9 DEF f, shares, all

\* The shares of any t or more of them interpolate to the secret, and combine to it.
LEMMA DealtListsInterpolate ==
  ASSUME NEW sk \in NonZero, NEW n \in 1 .. MaxParticipants, NEW t \in 1 .. n,
         NEW coeffs \in [1 .. t - 1 -> NonZero],
         NEW ids, SignerIds(ids), ToSet(ids) \in SUBSET (0 .. n - 1), Len(ids) >= t,
         NEW s, \A k \in DOMAIN ids : s[k] = SecretShareShard(sk, coeffs, n)[ids[k]]
  PROVE  /\ DerivePubshareAt(ids, s, -1) = sk
         /\ SecretShareCombine(s, ids) = sk
  <1> DEFINE f == Evaluated(Append(coeffs, sk))
             T == ToSet(ids)
             u == [k \in DOMAIN ids |-> Mul(s[k], DeriveInterpolatingValue(ids, ids[k]))]
             v == [k \in DOMAIN ids |-> Mul(DeriveInterpolatingValue(ids, ids[k]), s[k])]
  <1>1. /\ Below(t, f) /\ f[-1] = sk
        /\ \A i \in 0 .. n - 1 : SecretShareShard(sk, coeffs, n)[i] = f[i]
    BY DealtShares
  <1>2. T \in SUBSET Nodes /\ T \cup {-1} \in SUBSET Nodes /\ -1 \in Nodes \ T
    <2>1. 0 .. n - 1 \subseteq Nodes \ {-1} BY ParticipantsAssumption DEF Nodes
    <2> QED BY <2>1, NodeSets
  <1>3. \A k \in DOMAIN ids : ids[k] \in T BY DEF ToSet
  <1>4. \A k \in DOMAIN ids : s[k] = f[ids[k]] BY <1>1, <1>3
  <1> HIDE DEF f, T
  <1>5. ScalarsOn(T \cup {-1}, f) /\ ScalarsOn(T, f) BY <1>1, <1>2 DEF Below, ScalarsOn
  <1>6. Cardinality(T) = Len(ids) /\ DerivePubshareAt(ids, s, -1) = Interpolated(T, f, -1)
    BY <1>2, <1>4, <1>5, InterpolatedOverList DEF T
  <1>7. Divided(T \cup {-1}, f) = 0
    <2>1. IsFiniteSet(T) /\ Cardinality(T) \in Nat BY <1>2, NodeSets
    <2>2. Cardinality(T \cup {-1}) = Cardinality(T) + 1 BY <1>2, <2>1, FS_AddElement
    <2>3. t \in Int BY ParticipantsAssumption
    <2>4. Cardinality(T \cup {-1}) > t BY <1>6, <2>1, <2>2, <2>3
    <2> QED BY <1>1, <1>2, <2>4 DEF Below
  <1>8. DerivePubshareAt(ids, s, -1) = sk BY <1>1, <1>2, <1>5, <1>6, <1>7, LiesOn
  <1>9. \A k \in DOMAIN ids : s[k] \in Scalars BY <1>3, <1>4, <1>5 DEF ScalarsOn
  <1>10. \A k \in DOMAIN ids : DeriveInterpolatingValue(ids, ids[k]) \in Scalars
    BY <1>3, InterpolatingValue DEF NonZero, T
  <1>11. u = v BY <1>9, <1>10, Commutes
  <1>12. SecretShareCombine(s, ids) = SumOver(DOMAIN ids, u) BY DEF SecretShareCombine
  <1>13. DerivePubshareAt(ids, s, -1) = SumOver(DOMAIN ids, v) BY ThreshPubkeyIsSum
  <1> HIDE DEF u, v
  <1> QED BY <1>8, <1>11, <1>12, <1>13

=============================================================================
