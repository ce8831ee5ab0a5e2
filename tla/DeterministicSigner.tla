------------------------- MODULE DeterministicSigner -------------------------
(***************************************************************************)
(* The stateless signer of deterministic_sign: it keeps nothing between     *)
(* calls and derives its nonce from its inputs.  A coordinator, which may   *)
(* be faulty, calls it again and again with the same or other inputs.       *)
(***************************************************************************)
EXTENDS DetSigning

CONSTANTS
  Requests,            \* what deterministic_sign is called with, and what the other
                       \* signers of the list really contribute
  MaxCalls             \* bound: how often it is called

\* A request has the fields of a session context, with values of their types.
ContextFields == {"n", "t", "ids", "knows_pubshares", "pubshares", "thresh_pk",
                  "aggnonce", "tweaks", "is_xonly", "msg"}

ASSUME RequestsAssumption ==
  /\ MaxCalls \in Nat
  /\ \A r \in Requests :
       /\ DOMAIN r.ctx = ContextFields
       /\ r.ctx.n \in Int /\ r.ctx.t \in Int
       /\ r.ctx.ids \in Seq(Nat) /\ r.ctx.knows_pubshares \in BOOLEAN
       /\ r.ctx.tweaks \in Seq(Int) /\ r.ctx.is_xonly \in Seq(BOOLEAN)

\* The calls so far: what each was asked, and what it returned or raised.
VARIABLE calls

-----------------------------------------------------------------------------

Init == calls = <<>>

Call(r) ==
  /\ Len(calls) < MaxCalls
  /\ calls' = Append(calls, [request |-> r, result |-> DeterministicSign(r)])

Next == \E r \in Requests : Call(r)

Spec == Init /\ [][Next]_calls

-----------------------------------------------------------------------------
(* Properties.                                                             *)

Answered(a) == [request |-> a.request, pubnonce |-> a.result.val.pubnonce,
                psig |-> a.result.val.psig]
answers == {Answered(calls[k]) : k \in {j \in DOMAIN calls : Succeeds(calls[j].result)}}

InputsOf(r) ==
  InputsUnder(r, ThreshPubkeyAndTweak(r.ctx.thresh_pk, r.ctx.tweaks, r.ctx.is_xonly).val)

\* The values that the answer's partial signature was computed with.
ValuesOf(a) ==
  LET r == a.request
  IN  GetSessionValues([r.ctx EXCEPT
        !.aggnonce = AggnonceWith(a.pubnonce, r.aggothernonce).val]).val

(* README.md:684 and 729: two answers that hash the same inputs, and so use *)
(* the same nonce, also use the same nonce coefficient, challenge, final    *)
(* nonce and interpolating value, whatever else the coordinator varies.     *)
(* (The sign of the share is left out: for one x-only key, two lists of     *)
(* tweaks give it two signs only if they disclose the threshold secret.)    *)
NonceServesOneChallenge ==
  \A a1, a2 \in answers :
    InputsOf(a1.request) = InputsOf(a2.request) =>
      LET v1 == ValuesOf(a1)
          v2 == ValuesOf(a2)
      IN  /\ a1.pubnonce = a2.pubnonce
          /\ v1.b = v2.b /\ v1.R = v2.R /\ v1.e = v2.e
          /\ DeriveInterpolatingValue(a1.request.ctx.ids, a1.request.my_id)
               = DeriveInterpolatingValue(a2.request.ctx.ids, a2.request.my_id)

-----------------------------------------------------------------------------
(* The rest of the session: every other signer drew the nonce others[k] and *)
(* the coordinator aggregated what it received from them.                   *)

MyPosition(r) == CHOOSE k \in DOMAIN r.ctx.ids : r.ctx.ids[k] = r.my_id
OtherPubnonces(r) ==
  LET mine == MyPosition(r)
  IN  [k \in DOMAIN r.ctx.ids |->
         IF k = mine THEN <<Infinity, Infinity>>
         ELSE NonceGen(r.others[k][1], r.others[k][2]).pubnonce]

FromHonestCoordinator(r) ==
  /\ r.my_id \in ToSet(r.ctx.ids)
  /\ r.aggothernonce =
       IF Len(r.ctx.ids) = 1 THEN Omitted
       ELSE NonceAgg(RemoveAt(OtherPubnonces(r), MyPosition(r))).val

Pubnonces(a) == [OtherPubnonces(a.request) EXCEPT ![MyPosition(a.request)] = a.pubnonce]

\* What the other signers answer once the coordinator has aggregated all nonces.
SessionOf(a) == [a.request.ctx EXCEPT !.aggnonce = NonceAgg(Pubnonces(a)).val]
Psigs(a) ==
  LET r == a.request
  IN  [k \in DOMAIN r.ctx.ids |->
         IF k = MyPosition(r) THEN a.psig
         ELSE SignResult(r.others[k], r.shares[k], r.ctx.ids[k], SessionOf(a)).val]

HoldsItsShare(r) == r.secshare = r.shares[MyPosition(r)]

\* An honest coordinator asks for a signature that can be made: the key, the
\* list of signers and their shares belong together, the tweaks apply, and
\* nonce_gen gave each of the others two nonzero scalars.
ASSUME HonestyAssumption ==
  \A r \in Requests :
    (FromHonestCoordinator(r) /\ HoldsItsShare(r)) =>
      /\ ValidateSessionParams(r.ctx.n, r.ctx.t, r.ctx.ids, TRUE, r.ctx.pubshares,
                               r.ctx.thresh_pk) = Returns(TRUE)
      /\ r.shares = r.ctx.pubshares
      /\ \A k \in DOMAIN r.ctx.ids : r.others[k] \in NonZero \X NonZero
      /\ Succeeds(ThreshPubkeyAndTweak(r.ctx.thresh_pk, r.ctx.tweaks, r.ctx.is_xonly))

\* No hash is 0 modulo Order, as the code asserts of all of them.
ASSUME HashAssumption ==
  \A r \in Requests :
    (FromHonestCoordinator(r) /\ HoldsItsShare(r)) =>
      /\ \A i \in {0, 1} : ScalarOf(DetNonceHash(InputsOf(r), i)) \in NonZero
      /\ \A aggnonce \in Scalars \X Scalars, R, Q \in EvenPoints :
           /\ ScalarOf(NonceCoefHash(Len(r.ctx.ids), SerializeIds(r.ctx.ids), aggnonce, Q,
                                     r.ctx.msg)) \in NonZero
           /\ ScalarOf(ChallengeHash(R, Q, r.ctx.msg)) \in NonZero

(* The coordinator computes the aggregate of all public nonces only after   *)
(* the deterministic signer signed under its own; its answer passes         *)
(* partial_sig_verify all the same, and with the answers of the others the  *)
(* aggregate verifies, unless all nonces cancel.                            *)
AnswerCompletesSession ==
  \A a \in answers :
    LET r == a.request
        v == GetSessionValues(SessionOf(a)).val
        final == PartialSigAgg(Psigs(a), SessionOf(a))
    IN  (FromHonestCoordinator(r) /\ HoldsItsShare(r)) =>
          /\ PartialSigVerify(a.psig, Pubnonces(a), r.ctx, MyPosition(r)) = Returns(TRUE)
          /\ SessionNonce(SessionOf(a).aggnonce, v.b) # Infinity =>
               SchnorrVerify(r.ctx.msg, ToXonly(v.Q), final.val)

(* Only an aggregate of the other nonces that is infinite in a component    *)
(* keeps a signer with its own share from answering an honest coordinator.  *)
HonestCoordinatorIsServed ==
  \A k \in DOMAIN calls :
    LET r == calls[k].request
        answer == calls[k].result
    IN  (FromHonestCoordinator(r) /\ HoldsItsShare(r)) =>
          \/ Succeeds(answer)
          \/ /\ answer = InvalidContribution(None, "aggothernonce")
             /\ Infinity \in ToSet(r.aggothernonce)

=============================================================================
