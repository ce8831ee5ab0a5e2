------------------------------ MODULE VectorCases ------------------------------
(***************************************************************************)
(* The generators of test vectors.  A generator builds the cases of a test   *)
(* group one after the other, runs each against the implementation, and      *)
(* raises if one does not end the way the case is meant to.                  *)
(*                                                                         *)
(* A case holds the indices into the pools that the vector file holds, and  *)
(* positions in lists, such as signer_index, count from 1 as in the other    *)
(* modules.  Case numbers, comments and the JSON are left out.              *)
(***************************************************************************)
EXTENDS VectorInputs

VARIABLES
  file,       \* which vector file is generated
  inputs,     \* the material of the test group
  secnonces,  \* the buffers behind its pool of secret nonces
  pending,    \* the cases that are left to run
  done,       \* the cases that were run, with their results
  raised      \* whether an assertion ended the generator

casesVars == <<file, inputs, secnonces, pending, done, raised>>

-----------------------------------------------------------------------------
(* Cases.                                                                  *)

Agg(in, indices) == NonceAgg(Taken(in.pubnonces, indices)).val

\* Signer 0 in the signer set ids, everything as it should be.
Case(in, ids) ==
  [call |-> "sign", my_id |-> 0, ids |-> ids, knows_pubshares |-> TRUE,
   pubshares |-> ids, pubnonces |-> ids, secshare |-> 0, secnonce |-> 0,
   aggnonce |-> Agg(in, ids), tweaks |-> <<>>, is_xonly |-> <<>>, msg |-> Msgs[1],
   psigs |-> <<>>, signer_index |-> 1, aux_rand |-> None]

Valid(c) == [case |-> c, want |-> "answer", fault |-> "none"]

\* A verification that is meant to return False.
Fails(c) == [case |-> c, want |-> "fail", fault |-> "none"]

\* A case that is meant to raise, and the fault that its comment names: the check
\* that is to refuse the call, or the contribution that is to be blamed.
Refused(c, check) == [case |-> c, want |-> "ValueError", fault |-> check]
Blamed(c, contrib) == [case |-> c, want |-> "InvalidContributionError", fault |-> contrib]

When(condition, cases) == IF condition THEN cases ELSE <<>>

Session(in, c) ==
  [n |-> in.n, t |-> in.t, ids |-> c.ids, knows_pubshares |-> c.knows_pubshares,
   pubshares |-> Taken(in.pubshares, c.pubshares), thresh_pk |-> in.thresh_pk,
   aggnonce |-> c.aggnonce, tweaks |-> c.tweaks, is_xonly |-> c.is_xonly, msg |-> c.msg]

Verify(in, c, psig, i) ==
  PartialSigVerify(psig, Taken(in.pubnonces, c.pubnonces), Session(in, c), i)

\* The partial signatures of all signers of the case, each by its own material.
Psigs(in, c) ==
  [k \in DOMAIN c.ids |->
     SignResult(in.secnonces[c.ids[k]], in.secshares[c.ids[k]], c.ids[k], Session(in, c)).val]

-----------------------------------------------------------------------------
(* sign_verify.py.                                                         *)

\* Whether AltSet is a set other than MinSet.
HasAltSubset(in) == in.t >= 2 /\ in.t < in.n

\* The first n - 1 nonces and the one that cancels them.
InverseIndices(in) == IdRange(0, in.n - 1) \o <<in.n + 1>>

SignValidTests(in) ==
  LET min == Case(in, MinSet(in))
      full == Case(in, FullSet(in))
      inverse == InverseIndices(in)
  IN  <<Valid(min), Valid([min EXCEPT !.knows_pubshares = FALSE])>>
      \o When(in.t >= 2, <<Valid(Case(in, Reverse(MinSet(in))))>>)
      \o When(HasAltSubset(in), <<Valid(Case(in, AltSet(in)))>>)
      \o <<Valid([full EXCEPT !.my_id = 1, !.secshare = 1, !.secnonce = 1]),
           Valid([full EXCEPT !.pubnonces = inverse, !.aggnonce = Agg(in, inverse)]),
           Valid([min EXCEPT !.msg = Msgs[2]]), Valid([min EXCEPT !.msg = Msgs[3]])>>

\* An id out of range, in front of t - 1 others or alone.  Its public share is that
\* of signer 0, so that the key would not match either, and alone it is not the
\* signer's: other checks would refuse the call too.
OutOfRangeId(in) ==
  LET me == IF in.t >= 2 THEN 1 ELSE 0
  IN  Refused([Case(in, MinSet(in)) EXCEPT !.my_id = me, !.secshare = me, !.secnonce = me,
                                           !.ids = <<in.n>> \o IdRange(1, in.t)], "id")

\* What sign and deterministic_sign refuse alike.
CommonErrorTests(in, aux_rand) ==
  LET signer(ids) == [Case(in, ids) EXCEPT !.aux_rand = aux_rand]
      min == signer(MinSet(in))
      min2 == signer(Min2Set(in))
      ids2 == Min2Set(in)
      excl0 == signer(Excl0Set(in))
      below == IdRange(0, in.t - 1)
  IN  When(in.t < in.n, <<Refused([min EXCEPT !.my_id = in.t], "own id")>>)
      \o <<Refused([min EXCEPT !.ids = <<0, 1, 1>>, !.pubshares = <<0, 1, 1>>],
                   "duplicate ids")>>
      \o When(HasExcl0Subset(in), <<Refused([excl0 EXCEPT !.my_id = 1], "own pubshare")>>)
      \o <<Refused([min2 EXCEPT !.pubshares = [ids2 EXCEPT ![2] = in.n]], "pubshare")>>
      \o When(in.t >= 2,
              <<Refused([min EXCEPT !.pubshares = SwapLastTwo(MinSet(in))], "key mismatch")>>)
      \o <<Refused([min EXCEPT !.ids = below, !.pubshares = below], "signer count"),
           Refused([min EXCEPT !.secshare = in.n], "secshare")>>

SignErrorTests(in) ==
  LET min == Case(in, MinSet(in))
      min2 == Case(in, Min2Set(in))
      infinity == [Min2Set(in) EXCEPT ![Len(Min2Set(in))] = in.n + 1]
      aggnonces == <<<<Order, G>>, <<G, Order>>, <<G, Order + 1>>>>
  IN  CommonErrorTests(in, None)
      \o <<Refused([min2 EXCEPT !.pubshares = infinity], "infinite threshold key"),
           OutOfRangeId(in)>>
      \o [k \in 1 .. 3 |-> Blamed([min EXCEPT !.aggnonce = aggnonces[k]], "aggnonce")]
      \o <<Refused([min EXCEPT !.secnonce = in.n], "first secnonce"),
           Refused([min EXCEPT !.secnonce = in.n + 1], "second secnonce")>>

\* Signer 0's partial signature, to be verified.
VerifyCase(in, ids) ==
  LET c == Case(in, ids) IN [c EXCEPT !.call = "verify", !.psigs = <<Psigs(in, c)[1]>>]

VerifyFailTests(in) ==
  LET good == VerifyCase(in, Min2Set(in))
  IN  <<Fails([good EXCEPT !.psigs = <<Neg(good.psigs[1])>>]),
        Fails([good EXCEPT !.signer_index = 2]), Fails([good EXCEPT !.psigs = <<Order>>])>>

VerifyErrorTests(in) ==
  LET good == VerifyCase(in, MinSet(in))
      off_curve == [MinSet(in) EXCEPT ![1] = in.n]
  IN  <<Blamed([good EXCEPT !.pubnonces = off_curve], "pubnonce"),
        Refused([good EXCEPT !.pubshares = off_curve], "pubshare")>>

SignVerifyTests(in) ==
  SignValidTests(in) \o SignErrorTests(in) \o VerifyFailTests(in) \o VerifyErrorTests(in)

-----------------------------------------------------------------------------
(* tweak.py and sig_agg.py.                                                *)

\* With the first tweaks of the pool, in these modes.
Tweaked(in, c, is_xonly) ==
  [c EXCEPT !.tweaks = SubSeq(in.tweaks, 1, Len(is_xonly)), !.is_xonly = is_xonly]

TweakTests(in) ==
  LET min == Case(in, MinSet(in))
      all == [Case(in, FullSet(in)) EXCEPT !.my_id = 1, !.secshare = 1, !.secnonce = 1]
      plain_then_xonly == <<FALSE, FALSE, TRUE, TRUE>>
      modes == <<<<>>, <<TRUE>>, <<FALSE>>, <<FALSE, TRUE>>, <<TRUE, FALSE, TRUE, FALSE>>,
                 plain_then_xonly>>
      plain == Tweaked(in, min, <<FALSE>>)
      refused == <<in.tweaks[5], in.tweaks[6], WrongLength>>
      error(k, check) == Refused([plain EXCEPT !.tweaks = <<refused[k]>>], check)
  IN  [k \in DOMAIN modes |-> Valid(Tweaked(in, min, modes[k]))]
      \o <<Valid(Tweaked(in, all, plain_then_xonly)),
           error(1, "tweak range"), error(2, "infinite tweaked key"),
           Refused([plain EXCEPT !.is_xonly = <<>>], "tweak modes"), error(3, "tweak length")>>

AggCase(in, c) == [c EXCEPT !.call = "agg", !.psigs = Psigs(in, c)]

SigAggTests(in) ==
  LET plain == Case(in, MinSet(in))
      min == AggCase(in, plain)
      tweaked == Tweaked(in, plain, <<TRUE, FALSE, FALSE>>)
  IN  <<Valid(min), Valid(AggCase(in, [plain EXCEPT !.knows_pubshares = FALSE]))>>
      \o When(in.t >= 2, <<Valid(AggCase(in, Case(in, Reverse(MinSet(in)))))>>)
      \o <<Valid(AggCase(in, tweaked))>>
      \o When(in.t < in.n, <<Valid(AggCase(in, Case(in, FullSet(in))))>>)
      \o <<Blamed([min EXCEPT !.psigs = Front(@) \o <<Order>>], "psig"),
           Refused([min EXCEPT !.psigs = Front(@)], "psig count")>>

-----------------------------------------------------------------------------
(* det_sign.py, where aggnonce holds aggothernonce.                         *)

\* The others draw their nonces from the same randomness, or from an empty string.
OtherNonces(in, c) ==
  LET others == SelectSeq(c.ids, LAMBDA id : id # c.my_id)
      nonce(id) == NonceGenInternal(NonceInputs(c.aux_rand, in.secshares[id], in.pubshares[id],
                                                ToXonly(in.thresh_pk), c.msg, None)).val
  IN  [k \in DOMAIN others |-> nonce(others[k]).pubnonce]

DeriveAggothernonce(in, c) ==
  IF OtherNonces(in, c) = <<>> THEN Omitted ELSE NonceAgg(OtherNonces(in, c)).val

\* RANDS: all zeros, not given, all ones.
Rands == <<0, None, 1>>

\* Derived for the case as it is, unless a bad literal was put in its place.
Det(in, e) ==
  LET derived(c) == [c EXCEPT !.call = "det", !.aggnonce = DeriveAggothernonce(in, c)]
  IN  [e EXCEPT !.case = derived(@)]

DetSigner(in, ids) == [Case(in, ids) EXCEPT !.aux_rand = Rands[1]]

DetValidTests(in) ==
  LET min == DetSigner(in, MinSet(in))
  IN  <<Valid(min), Valid([min EXCEPT !.knows_pubshares = FALSE])>>
      \o When(in.t >= 2, <<Valid(DetSigner(in, Reverse(MinSet(in))))>>)
      \o When(HasAltSubset(in), <<Valid(DetSigner(in, AltSet(in)))>>)
      \o <<Valid([min EXCEPT !.aux_rand = Rands[2]]), Valid([min EXCEPT !.aux_rand = Rands[3]]),
           Valid([DetSigner(in, FullSet(in)) EXCEPT !.my_id = 1, !.secshare = 1]),
           Valid([min EXCEPT !.msg = Msgs[2]]), Valid([min EXCEPT !.msg = Msgs[3]]),
           Valid(Tweaked(in, min, <<TRUE>>))>>

DetErrorTests(in) ==
  LET tweaked == Tweaked(in, DetSigner(in, MinSet(in)), <<TRUE>>)
  IN  CommonErrorTests(in, Rands[1])
      \o <<[OutOfRangeId(in) EXCEPT !.case.aux_rand = Rands[1]],
           Refused([tweaked EXCEPT !.tweaks = <<Order>>, !.is_xonly = <<FALSE>>], "tweak range")>>

\* Bad literals in the place of aggothernonce.
AggothernonceTests(in) ==
  LET min2 == Det(in, Valid(DetSigner(in, Min2Set(in)))).case
      literals == <<<<Order, G>>, <<0, G>>, <<G, Order>>, <<G, Order + 1>>>>
  IN  [k \in DOMAIN literals |-> Blamed([min2 EXCEPT !.aggnonce = literals[k]], "aggothernonce")]

DetTests(in) ==
  LET derived == DetValidTests(in) \o DetErrorTests(in)
  IN  [k \in DOMAIN derived |-> Det(in, derived[k])] \o AggothernonceTests(in)

-----------------------------------------------------------------------------
(* nonce.py.                                                               *)

\* A case of nonce_gen is what nonce_hash binds.
NonceGenTests(in) ==
  LET given(msg) == NonceInputs(CommonRand, in.secshares[0], in.pubshares[0],
                                ToXonly(in.thresh_pk), msg, 0)
      hashed == <<given(3), given(Msgs[2]), given(Msgs[3]),
                  NonceInputs(CommonRand, None, None, None, None, None), given(None)>>
  IN  [k \in DOMAIN hashed |-> Valid([call |-> "nonce_gen", hashed |-> hashed[k]])]

\* The literals stand for encodings of points, which are below the group's order.
ASSUME LiteralsAssumption == Order > 5

NonceAggTests ==
  LET two == <<<<2, 3>>, <<4, 5>>>>
      opposite == <<<<2, G>>, <<4, Neg(G)>>>>
      agg(pubnonces) == [call |-> "nonce_agg", nonces |-> pubnonces]
      error(pubnonces) == Blamed(agg(pubnonces), "pubnonce")
  IN  <<Valid(agg(two)), Valid(agg(opposite)),
        error(<<<<2, 3>>, <<Order, 5>>>>), error(<<<<4, Order>>, <<4, 5>>>>),
        error(<<<<4, Order + 1>>, <<4, 5>>>>)>>

-----------------------------------------------------------------------------
(* Running them.                                                           *)

Files == {"nonce", "sign_verify", "tweak", "det_sign", "sig_agg"}

TestsOf(f, in) ==
  CASE f = "nonce" -> NonceGenTests(in) \o NonceAggTests
    [] f = "sign_verify" -> SignVerifyTests(in)
    [] f = "tweak" -> TweakTests(in)
    [] f = "det_sign" -> DetTests(in)
    [] f = "sig_agg" -> SigAggTests(in)

\* What a case asks of deterministic_sign.
DetRequest(in, c) ==
  [secshare |-> in.secshares[c.secshare], my_id |-> c.my_id, aggothernonce |-> c.aggnonce,
   aux_rand |-> c.aux_rand, ctx |-> Session(in, c)]

HashesToIntegers(in, c) ==
  LET r == DetRequest(in, c)
      valid == ValidateSessionParams(r.ctx.n, r.ctx.t, r.ctx.ids, r.ctx.knows_pubshares,
                                     r.ctx.pubshares, r.ctx.thresh_pk)
      tweaked == ThreshPubkeyAndTweak(r.ctx.thresh_pk, r.ctx.tweaks, r.ctx.is_xonly)
  IN  (Succeeds(valid) /\ Succeeds(tweaked)) =>
        \A j \in {0, 1} : DetNonceHash(InputsUnder(r, tweaked.val), j) \in Int

\* The hash is an integer in every case that gets to it (signing.py:490-499).
ASSUME HashAssumption ==
  \A i \in DOMAIN Configs, f \in Files :
    LET tests == TestsOf(f, Inputs[i])
    IN  \A k \in DOMAIN tests :
          tests[k].case.call = "det" => HashesToIntegers(Inputs[i], tests[k].case)

\* The secret nonce that a case hands to sign, and the pool afterwards: sign
\* overwrites a copy.
\* Slip: it is handed the pool's own buffer.
PoolAfter_NoCopy(pool, i, left) == [pool EXCEPT ![i] = left]

PoolAfter(pool, i, left) == pool

\* The result of the call, and the pool that sign leaves.
AfterSign(pool, i, signed) ==
  [result |-> signed.result, pool |-> PoolAfter(pool, i, signed.secnonce)]

Run(in, pool, c) ==
  LET leaving(result) == [result |-> result, pool |-> pool]
  IN  CASE c.call = "sign" ->
             AfterSign(pool, c.secnonce,
               Sign(pool[c.secnonce], in.secshares[c.secshare], c.my_id, Session(in, c)))
        [] c.call = "verify" -> leaving(Verify(in, c, c.psigs[1], c.signer_index))
        [] c.call = "agg" -> leaving(PartialSigAgg(c.psigs, Session(in, c)))
        [] c.call = "det" -> leaving(DeterministicSign(DetRequest(in, c)))
        [] c.call = "nonce_gen" -> leaving(NonceGenInternal(c.hashed))
        [] c.call = "nonce_agg" -> leaving(NonceAgg(c.nonces))

\* The generator's assertions about the partial signatures that it makes of a
\* session with public shares.
PsigsVerify(in, e, result) ==
  e.case.knows_pubshares =>
    /\ e.case.call = "agg" =>
         LET psigs == Psigs(in, e.case)
         IN  \A k \in DOMAIN psigs : Verify(in, e.case, psigs[k], k) = Returns(TRUE)
    /\ e.case.call = "sign" /\ e.want = "answer" =>
         \A k \in DOMAIN e.case.ids :
           e.case.ids[k] = e.case.my_id => Verify(in, e.case, result.val, k) = Returns(TRUE)

\* What it expects of the call itself.
AsExpected(e, result) ==
  CASE e.want = "answer" -> Succeeds(result)
    [] e.want = "fail" -> result = Returns(FALSE)
    [] OTHER -> result.kind = e.want

\* The files of nonces use only the first configuration.
CasesInit ==
  /\ file \in Files
  /\ \E i \in IF file = "nonce" THEN {1} ELSE DOMAIN Configs : inputs = Inputs[i]
  /\ secnonces = inputs.secnonces
  /\ pending = TestsOf(file, inputs)
  /\ done = <<>>
  /\ raised = FALSE

\* A case that does not end as expected raises, and leaves the others unrun.
EndCase(e, ran, met) ==
  /\ pending' = IF met THEN Tail(pending) ELSE <<>>
  /\ raised' = ~ met
  /\ done' = Append(done, [case |-> e.case, fault |-> e.fault, result |-> ran.result])
  /\ secnonces' = ran.pool
  /\ UNCHANGED <<file, inputs>>

RunCase ==
  LET end(e, ran) ==
        EndCase(e, ran, /\ AsExpected(e, ran.result)
                        /\ "knows_pubshares" \in DOMAIN e.case => PsigsVerify(inputs, e, ran.result))
  IN  /\ pending # <<>>
      /\ end(Head(pending), Run(inputs, secnonces, Head(pending).case))

CasesNext == RunCase

CasesSpec == CasesInit /\ [][CasesNext]_casesVars

-----------------------------------------------------------------------------
(* Properties.                                                             *)

(* No case of any file ends otherwise than the generator asserts, in any    *)
(* configuration: no group is abandoned, and every case of it is written.   *)
EveryCaseBehaves == ~ raised

(* What a case raises is the error its comment speaks of, although other    *)
(* checks further on would refuse many of these calls as well: an id out of *)
(* range spoils the match with the threshold key, placeholders fill the     *)
(* case of too few signers (sign_verify.py:379-383 and 481-483).  The       *)
(* generator asserts the kind of error only and records the message that it *)
(* gets (common.py:35-52), and tests.py:69-73 holds implementations to that. *)
ErrorsNameTheirFault ==
  \A k \in DOMAIN done :
    LET error == done[k].result
    IN  /\ error.kind = "ValueError" => error.check = done[k].fault
        /\ error.kind = "InvalidContributionError" => error.contrib = done[k].fault

FaultyNonces(c) ==
  LET nonces == IF c.call = "nonce_agg" THEN c.nonces ELSE Taken(inputs.pubnonces, c.pubnonces)
  IN  {k \in DOMAIN nonces : \E j \in 1 .. 2 : ~ PointDecodes(nonces[k][j])}

(* signing.py:46-53 and vectors/test_vectors_summary.md:124-136: the error of *)
(* a case names the one position whose contribution is faulty, and nobody    *)
(* when it is the coordinator's aggregate that is.                           *)
BlameFallsOnFault ==
  \A k \in DOMAIN done :
    LET c == done[k].case
        error == done[k].result
    IN  error.kind = "InvalidContributionError" =>
          CASE error.contrib = "pubnonce" -> FaultyNonces(c) = {error.idx}
            [] error.contrib = "psig" ->
                 {j \in DOMAIN c.psigs : ~ ScalarInRange(c.psigs[j])} = {error.idx}
            [] OTHER -> error.idx = None /\ \E j \in 1 .. 2 : ~ PointDecodes(c.aggnonce[j])

\* What a case asks for, whatever the order of the signers and their public shares.
Question(c) ==
  [c EXCEPT !.ids = ToSet(@), !.pubshares = {}, !.pubnonces = ToSet(@), !.psigs = ToSet(@),
            !.knows_pubshares = TRUE]

(* sign_verify.py:236 and 247, vectors/test_vectors_summary.md:53-58: neither *)
(* the order of the signer list nor the absence of public shares changes     *)
(* what sign, partial_sig_agg and deterministic_sign return.                 *)
SameAnswers ==
  \A j, k \in DOMAIN done :
    LET a == done[j].case
        b == done[k].case
    IN  (/\ a.call \in {"sign", "agg", "det"} /\ b.call = a.call
         /\ Succeeds(done[j].result) /\ Succeeds(done[k].result)
         /\ Question(a) = Question(b)) => done[j].result = done[k].result

(* common.py:209-246: the crafted entries of the pools are well formed and   *)
(* yet do what only infinity does: the public shares interpolate to it, the  *)
(* first n - 1 nonces sum to it with theirs, and the tweak leads to it.      *)
FaultSlotsLeadToInfinity ==
  LET ids == Min2Set(inputs)
      shares == Taken(inputs.pubshares, [ids EXCEPT ![Len(ids)] = inputs.n + 1])
      tweak == inputs.tweaks[6]
  IN  /\ \A k \in DOMAIN shares : PointDecodes(shares[k])
      /\ DerivePubshareAt(ids, shares, -1) = Infinity
      /\ Agg(inputs, InverseIndices(inputs)) = <<Infinity, Infinity>>
      /\ ScalarInRange(tweak) /\ Add(inputs.thresh_pk, Mul(tweak, G)) = Infinity

=============================================================================
