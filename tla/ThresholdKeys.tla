---------------------------- MODULE ThresholdKeys ----------------------------
(***************************************************************************)
(* The life of one party's copy of the key material: a trusted dealer deals *)
(* a t-of-n key, the copy then loses entries or arrives altered, and the    *)
(* party runs validate_threshold_info on what it holds.                     *)
(***************************************************************************)
EXTENDS FrostKeys

CONSTANTS
  N,            \* number of participants
  MaxAltered    \* bound: how many entries of the copy arrive altered

ASSUME KeysAssumption == N \in 1 .. MaxParticipants /\ MaxAltered \in Nat

VARIABLES
  phase,      \* "start", "dealt", "aborted" (an assertion failed), "checked"
  thresh_sk,  \* the dealt secret
  secshares,  \* id -> secret share
  info,       \* the party's ThresholdInfo
  altered,    \* how many entries of info are not the dealer's
  verdict     \* what validate_threshold_info returned

keyVars == <<phase, thresh_sk, secshares, info, altered, verdict>>

Ids == 0 .. N - 1
\* Encodings a copy may hold: every point, and one that decodes to nothing.
WirePoints == 1 .. Order

NoInfo == [t |-> 1, thresh_pk |-> Order, pubshares |-> [i \in Ids |-> None]]

-----------------------------------------------------------------------------

KeysInit ==
  /\ phase = "start"
  /\ thresh_sk = 0
  /\ secshares = [i \in Ids |-> 0]
  /\ info = NoInfo
  /\ altered = 0
  /\ verdict = Returns(FALSE)

\* The hash that derives the coefficients is any choice of nonzero scalars.
TrustedDealerKeygen(sk, t, coeffs) ==
  LET shares == SecretShareShard(sk, coeffs, N)
  IN  /\ phase = "start"
      /\ thresh_sk' = sk
      /\ secshares' = shares
      /\ IF \A i \in Ids : shares[i] # 0
         THEN /\ phase' = "dealt"
              /\ info' = [t |-> t, thresh_pk |-> sk, pubshares |-> shares]
         ELSE phase' = "aborted" /\ UNCHANGED info
      /\ UNCHANGED <<altered, verdict>>

\* A party need not have every public share.
LosePubshare(i) ==
  /\ phase = "dealt"
  /\ info.pubshares[i] # None
  /\ info' = [info EXCEPT !.pubshares[i] = None]
  /\ UNCHANGED <<phase, thresh_sk, secshares, altered, verdict>>

AlterPubshare(i, w) ==
  /\ phase = "dealt" /\ altered < MaxAltered
  /\ w # secshares[i]
  /\ info.pubshares[i] = secshares[i]
  /\ info' = [info EXCEPT !.pubshares[i] = w]
  /\ altered' = altered + 1
  /\ UNCHANGED <<phase, thresh_sk, secshares, verdict>>

AlterThreshPk(w) ==
  /\ phase = "dealt" /\ altered < MaxAltered
  /\ w # thresh_sk
  /\ info.thresh_pk = thresh_sk
  /\ info' = [info EXCEPT !.thresh_pk = w]
  /\ altered' = altered + 1
  /\ UNCHANGED <<phase, thresh_sk, secshares, verdict>>

Validate ==
  /\ phase = "dealt"
  /\ phase' = "checked"
  /\ verdict' = ValidateThresholdInfo(info)
  /\ UNCHANGED <<thresh_sk, secshares, info, altered>>

KeysNext ==
  \/ \E sk \in NonZero, t \in 1 .. N : \E coeffs \in [1 .. t - 1 -> NonZero] :
       TrustedDealerKeygen(sk, t, coeffs)
  \/ \E i \in Ids : LosePubshare(i)
  \/ \E i \in Ids, w \in WirePoints : AlterPubshare(i, w)
  \/ \E w \in WirePoints : AlterThreshPk(w)
  \/ Validate

KeysSpec == KeysInit /\ [][KeysNext]_keyVars

-----------------------------------------------------------------------------

Present == {i \in Ids : info.pubshares[i] # None}
SignerLists == UNION {SetToSeqs(S) : S \in {T \in SUBSET Present : Cardinality(T) >= info.t}}
SharesOf(ids) == [k \in DOMAIN ids |-> info.pubshares[ids[k]]]
SessionAccepts(ids) ==
  Succeeds(ValidateSessionParams(N, info.t, ids, TRUE, SharesOf(ids), info.thresh_pk))

(* validate_threshold_info looks at one base set and then at each further   *)
(* share; it accepts exactly the material of which every selectable signer  *)
(* list, of any size from t up and in any order, later passes               *)
(* validate_session_params.                                                 *)
AcceptsIffEverySignerListWorks ==
  phase = "checked" =>
    (Succeeds(verdict) <=> /\ Cardinality(Present) >= info.t
                           /\ \A ids \in SignerLists : SessionAccepts(ids))

(* Any t or more dealt secret shares, in any order, combine to the dealt    *)
(* secret (secret_share_combine inverts secret_share_shard), and every list *)
(* of dealt public shares is accepted with the dealt key.  With the         *)
(* previous property, a copy that only lost entries is accepted as long as  *)
(* t public shares remain.                                                  *)
SharesCombine ==
  phase = "dealt" /\ altered = 0 =>
    \A ids \in SignerLists :
      /\ SecretShareCombine([k \in DOMAIN ids |-> secshares[ids[k]]], ids) = thresh_sk
      /\ SessionAccepts(ids)

=============================================================================
