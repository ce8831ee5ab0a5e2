------------------------------ MODULE FrostKeys ------------------------------
(***************************************************************************)
(* Key material of a t-of-n group: Lagrange interpolation over signer ids,  *)
(* the trusted dealer, and the two validators of frost_ref/signing.py.      *)
(*                                                                         *)
(* A Python list is a sequence, so position idx of the code is idx + 1      *)
(* here.  Participant ids stay 0-based, as in the code: id i sits at the    *)
(* polynomial x-coordinate i + 1.                                           *)
(*                                                                         *)
(* In this and the other modules, a definition with a suffix after "_" and  *)
(* marked "Slip" is a plausible mistake in the definition it precedes.      *)
(* Nothing uses it; it documents, for a property, which mistake it catches. *)
(***************************************************************************)
EXTENDS ScalarGroup, CallResults, SequencesExt

\* MAX_PARTICIPANTS; ids must stay distinct modulo Order.
CONSTANT MaxParticipants

ASSUME ParticipantsAssumption ==
  MaxParticipants \in Nat \ {0} /\ MaxParticipants < Order

\* The `None` entry of a pubshares list; no encoding is negative.
None == -1

-----------------------------------------------------------------------------
(* The error that blames a contribution.                                   *)

\* idx is the list position of the signer at fault, None the coordinator.
InvalidContribution(idx, contrib) ==
  [kind |-> "InvalidContributionError", idx |-> idx, contrib |-> contrib]

-----------------------------------------------------------------------------
(* Interpolation.                                                          *)

HasDuplicates(ids) == ~ IsInjective(ids)

\* The Lagrange coefficient of my_id for the secret, at x-coordinate 0.
DeriveInterpolatingValue(ids, my_id) ==
  LET others == ToSet(ids) \ {my_id}
  IN  Div(ProductOver(others, [j \in others |-> ScalarOf(j + 1)]),
          ProductOver(others, [j \in others |-> ScalarOf(j - my_id)]))

\* Interpolates in identifier space: x = -1 is the secret.
DerivePubshareAt(ids, points, x) ==
  LET coefficient(my_id) ==
        LET others == ToSet(ids) \ {my_id}
        IN  Div(ProductOver(others, [j \in others |-> ScalarOf(x - j)]),
                ProductOver(others, [j \in others |-> ScalarOf(my_id - j)]))
  IN  SumOver(DOMAIN ids,
              [k \in DOMAIN ids |-> Mul(coefficient(ids[k]), points[k])])

DeriveThreshPubkey(ids, points) ==
  LET Q == DerivePubshareAt(ids, points, -1)
  IN  IF Q = Infinity THEN ValueError("infinite threshold key") ELSE Returns(Q)

\* Both validators end by comparing the key that the public shares lead to.
ExpectThreshPubkey(ids, points, thresh_pk) ==
  Then(DeriveThreshPubkey(ids, points),
       LAMBDA Q : IF Q = thresh_pk THEN Returns(TRUE) ELSE ValueError("key mismatch"))

-----------------------------------------------------------------------------
(* The trusted dealer.                                                     *)

\* Horner's rule; the first coefficient has the highest degree.
PolynomialEvaluate(coeffs, x) ==
  FoldLeft(LAMBDA res, c : Add(Mul(res, x), c), 0, coeffs)

\* Slip: participant i gets the share at x-coordinate i.
SecretShareShard_AtId(secret, coeffs, n) ==
  [i \in 0 .. n - 1 |-> PolynomialEvaluate(Append(coeffs, secret), ScalarOf(i))]

SecretShareShard(secret, coeffs, n) ==
  [i \in 0 .. n - 1 |-> PolynomialEvaluate(Append(coeffs, secret), ScalarOf(i + 1))]

SecretShareCombine(shares, ids) ==
  SumOver(DOMAIN ids,
          [k \in DOMAIN ids |-> Mul(shares[k], DeriveInterpolatingValue(ids, ids[k]))])

-----------------------------------------------------------------------------
(* validate_threshold_info: info has the fields t, thresh_pk and pubshares, *)
(* the last a function from the ids 0 .. n-1 to encodings or None.          *)

\* The order in which a list of public shares is read: by increasing id.
InOrder(S) ==
  CHOOSE s \in [1 .. Cardinality(S) -> S] : \A i, j \in DOMAIN s : i < j => s[i] < s[j]

\* The present ids behind the base set.
\* Slip: the first one is skipped.
FurtherIds_FromNext(parsed, t) == SubSeq(parsed, t + 2, Len(parsed))

FurtherIds(parsed, t) == SubSeq(parsed, t + 1, Len(parsed))

LiesOnPolynomial(ids, points, id, point) == DerivePubshareAt(ids, points, id) = point

ValidateThresholdInfo(info) ==
  LET n == Cardinality(DOMAIN info.pubshares)
      present == {i \in DOMAIN info.pubshares : info.pubshares[i] # None}
      parsed == InOrder(present)
      base_ids == SubSeq(parsed, 1, info.t)
      base_points == [k \in 1 .. info.t |-> info.pubshares[base_ids[k]]]
  IN  IF info.t \notin 1 .. n THEN ValueError("threshold")
      ELSE IF n > MaxParticipants THEN ValueError("participant count")
      ELSE IF ~ PointDecodes(info.thresh_pk) THEN ValueError("threshold key")
      ELSE IF \E i \in present : ~ PointDecodes(info.pubshares[i]) THEN ValueError("pubshare")
      ELSE IF Len(parsed) < info.t THEN ValueError("missing pubshares")
      ELSE IF \E i \in ToSet(FurtherIds(parsed, info.t)) :
                ~ LiesOnPolynomial(base_ids, base_points, i, info.pubshares[i])
           THEN ValueError("polynomial")
      ELSE ExpectThreshPubkey(base_ids, base_points, info.thresh_pk)

-----------------------------------------------------------------------------
(* validate_session_params, one check after the other.                     *)

\* The positions of ids out of range.
\* Slip: the range ends one too late.
BadIds_UpToN(n, ids) == {k \in DOMAIN ids : ids[k] \notin 0 .. n}

BadIds(n, ids) == {k \in DOMAIN ids : ids[k] \notin 0 .. n - 1}

\* One loop looks at ids and public shares, at each position at the id first.
\* knows_pubshares is FALSE for the code's pubshares = None.
ValidateSessionParams(n, t, ids, knows_pubshares, pubshares, thresh_pk) ==
  LET bad == BadIds(n, ids) \cup
               {k \in DOMAIN ids : knows_pubshares /\ ~ PointDecodes(pubshares[k])}
  IN  IF t \notin 1 .. n THEN ValueError("threshold")
      ELSE IF n > MaxParticipants THEN ValueError("participant count")
      ELSE IF Len(ids) \notin t .. n THEN ValueError("signer count")
      ELSE IF knows_pubshares /\ Len(pubshares) # Len(ids) THEN ValueError("pubshare count")
      ELSE IF bad # {} THEN ValueError(IF Min(bad) \in BadIds(n, ids) THEN "id" ELSE "pubshare")
      ELSE IF HasDuplicates(ids) THEN ValueError("duplicate ids")
      ELSE IF knows_pubshares THEN ExpectThreshPubkey(ids, pubshares, thresh_pk)
      ELSE Returns(TRUE)

=============================================================================
