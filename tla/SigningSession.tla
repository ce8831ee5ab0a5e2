--------------------------- MODULE SigningSession ----------------------------
(***************************************************************************)
(* One signing session of example.py: a coordinator and u participants,     *)
(* coroutines that exchange messages through FIFO queues, one queue from    *)
(* each participant to the coordinator and one to each participant.         *)
(*                                                                         *)
(* A step of a coroutine runs from one receive to the next.  A message is   *)
(* the sequence of encoded values that its bytes concatenate.  The faulty   *)
(* signers of a session contribute arbitrary values, or nothing.            *)
(***************************************************************************)
EXTENDS FrostSigning

CONSTANTS
  Sessions,          \* the sessions to run: the fields of a session context but
                     \* aggnonce; the secshares of the u signers; the positions
                     \* of the signers that are faulty
  NonceScalars,      \* bound: the secret nonces drawn by nonce_gen
  FaultyPubnonces,   \* bound: what a faulty signer sends in round one
  FaultyPsigs        \* bound: what a faulty signer sends in round two

\* A faulty signer sends something or nothing; <<>> is nothing.  The key, the
\* list of signers and their public shares belong together.
ASSUME SessionAssumption ==
  /\ NonceScalars \subseteq NonZero
  /\ <<>> \notin FaultyPubnonces
  /\ \A s \in Sessions :
       /\ s.n \in Int /\ s.t \in Int
       /\ s.ids \in Seq(Nat) /\ s.ids # <<>>
       /\ s.tweaks \in Seq(Int) /\ s.is_xonly \in Seq(BOOLEAN)
       /\ s.faulty \subseteq DOMAIN s.ids
       /\ ValidateSessionParams(s.n, s.t, s.ids, TRUE, s.pubshares, s.thresh_pk)
            = Returns(TRUE)

\* No hash is 0 modulo Order, as the code asserts of both.
ASSUME HashAssumption ==
  \A s \in Sessions, aggnonce \in Scalars \X Scalars, R, Q \in EvenPoints :
    /\ ScalarOf(NonceCoefHash(Len(s.ids), SerializeIds(s.ids), aggnonce, Q, s.msg)) \in NonZero
    /\ ScalarOf(ChallengeHash(R, Q, s.msg)) \in NonZero

VARIABLES
  session,       \* the session being run
  pc,            \* position -> where the participant's coroutine is
  secnonce,      \* position -> the participant's secret nonce
  pubnonce,      \* position -> its public nonce
  psig,          \* position -> the partial signature it sent
  returned,      \* position -> the final signature it returned
  to_coord,      \* position -> the coordinator's queue of that participant
  to_part,       \* position -> the participant's own queue
  coord          \* the coordinator's coroutine and its local variables

vars == <<session, pc, secnonce, pubnonce, psig, returned, to_coord, to_part, coord>>
participantVars == <<secnonce, pubnonce, psig, returned>>

Signers == DOMAIN session.ids
Faulty == session.faulty
Honest == Signers \ Faulty

\* The first participant is given no pubshares; everybody else has them.
ContextOf(aggnonce, knows_pubshares) ==
  [n |-> session.n, t |-> session.t, ids |-> session.ids,
   knows_pubshares |-> knows_pubshares, pubshares |-> session.pubshares,
   thresh_pk |-> session.thresh_pk, aggnonce |-> aggnonce,
   tweaks |-> session.tweaks, is_xonly |-> session.is_xonly, msg |-> session.msg]

Tweaked == ThreshPubkeyAndTweak(session.thresh_pk, session.tweaks, session.is_xonly)

NoValue == <<>>
NoError == [kind |-> "none"]
Running == {"start", "await_aggnonce", "await_final", "await_pubnonce", "await_psig"}

-----------------------------------------------------------------------------

Init ==
  /\ session \in Sessions
  /\ pc = [i \in Signers |-> "start"]
  /\ secnonce = [i \in Signers |-> ZeroedSecnonce]
  /\ pubnonce = [i \in Signers |-> NoValue]
  /\ psig = [i \in Signers |-> NoValue]
  /\ returned = [i \in Signers |-> NoValue]
  /\ to_coord = [i \in Signers |-> <<>>]
  /\ to_part = [i \in Signers |-> <<>>]
  /\ coord = [pc |-> "await_pubnonce", pubnonces |-> <<>>, aggnonce |-> NoValue,
              psigs |-> <<>>, final_sig |-> NoValue, raised |-> NoError]

-----------------------------------------------------------------------------
(* Channels.                                                               *)

SendToCoordinator(i, m) == to_coord' = [to_coord EXCEPT ![i] = Append(@, m)]

\* Slip: the broadcast is repeated.
SendAll_Twice(m) == to_part' = [i \in Signers |-> to_part[i] \o <<m, m>>]

SendAll(m) == to_part' = [i \in Signers |-> Append(to_part[i], m)]

\* Slip: the message is read but stays in the queue.
ReceiveFrom_Peek(i) == to_coord[i] # <<>> /\ UNCHANGED to_coord

ReceiveFrom(i) == to_coord[i] # <<>> /\ to_coord' = [to_coord EXCEPT ![i] = Tail(@)]

\* Slip: likewise.
Receive_Peek(i) == to_part[i] # <<>> /\ UNCHANGED to_part

Receive(i) == to_part[i] # <<>> /\ to_part' = [to_part EXCEPT ![i] = Tail(@)]

-----------------------------------------------------------------------------
(* Participants.                                                           *)

Goes(i, place) == pc' = [pc EXCEPT ![i] = place]

ParticipantStart(i, k_1, k_2) ==
  LET nonce == NonceGen(k_1, k_2)
  IN  /\ i \in Honest /\ pc[i] = "start"
      /\ IF Succeeds(Tweaked)
         THEN /\ secnonce' = [secnonce EXCEPT ![i] = nonce.secnonce]
              /\ pubnonce' = [pubnonce EXCEPT ![i] = nonce.pubnonce]
              /\ SendToCoordinator(i, nonce.pubnonce)
              /\ Goes(i, "await_aggnonce")
         ELSE Goes(i, "raised") /\ UNCHANGED <<secnonce, pubnonce, to_coord>>
      /\ UNCHANGED <<session, psig, returned, to_part, coord>>

\* Slip: the public share is derived from the secret share at hand.
SelfCheck_DerivedPubshare(i, s, ctx) ==
  PartialSigVerifyInternal(s, session.ids[i], pubnonce[i], Mul(session.secshares[i], G), ctx)
    = Returns(TRUE)

SelfCheck(i, s, ctx) ==
  PartialSigVerifyInternal(s, session.ids[i], pubnonce[i], session.pubshares[i], ctx)
    = Returns(TRUE)

\* What sign returned or raised leaves behind: the result is checked once more
\* against the participant's own public share before it is sent.
SendPsig(i, ctx, signed) ==
  /\ secnonce' = [secnonce EXCEPT ![i] = signed.secnonce]
  /\ IF Succeeds(signed.result) /\ SelfCheck(i, signed.result.val, ctx)
     THEN /\ psig' = [psig EXCEPT ![i] = <<signed.result.val>>]
          /\ SendToCoordinator(i, <<signed.result.val>>)
          /\ Goes(i, "await_final")
     ELSE Goes(i, "raised") /\ UNCHANGED <<psig, to_coord>>

\* Receives the aggregate nonce and signs.
ParticipantSign(i) ==
  LET ctx == ContextOf(Head(to_part[i]), i # 1)
  IN  /\ i \in Honest /\ pc[i] = "await_aggnonce"
      /\ Receive(i)
      /\ SendPsig(i, ctx, Sign(secnonce[i], session.secshares[i], session.ids[i], ctx))
      /\ UNCHANGED <<session, pubnonce, returned, coord>>

ParticipantFinish(i) ==
  /\ pc[i] = "await_final"
  /\ Receive(i)
  /\ returned' = [returned EXCEPT ![i] = Head(to_part[i])]
  /\ Goes(i, "returned")
  /\ UNCHANGED <<session, secnonce, pubnonce, psig, to_coord, coord>>

\* A misbehaving signer keeps the rounds apart but may send any bytes.
FaultyStart(i, w) ==
  /\ i \in Faulty /\ pc[i] = "start"
  /\ pubnonce' = [pubnonce EXCEPT ![i] = w]
  /\ SendToCoordinator(i, w)
  /\ Goes(i, "await_aggnonce")
  /\ UNCHANGED <<session, secnonce, psig, returned, to_part, coord>>

FaultySign(i, s) ==
  /\ i \in Faulty /\ pc[i] = "await_aggnonce"
  /\ Receive(i)
  /\ psig' = [psig EXCEPT ![i] = <<s>>]
  /\ SendToCoordinator(i, <<s>>)
  /\ Goes(i, "await_final")
  /\ UNCHANGED <<session, secnonce, pubnonce, returned, coord>>

-----------------------------------------------------------------------------
(* The coordinator.  It receives in the order of the signer list.          *)

CoordinatorReceivePubnonce ==
  LET i == Len(coord.pubnonces) + 1
      pubnonces == Append(coord.pubnonces, Head(to_coord[i]))
      agg == NonceAgg(pubnonces)
  IN  /\ coord.pc = "await_pubnonce"
      /\ ReceiveFrom(i)
      /\ IF i < Len(session.ids)
         THEN coord' = [coord EXCEPT !.pubnonces = pubnonces] /\ UNCHANGED to_part
         ELSE IF Succeeds(agg)
         THEN /\ coord' = [coord EXCEPT !.pubnonces = pubnonces, !.aggnonce = agg.val,
                                        !.pc = "await_psig"]
              /\ SendAll(agg.val)
         ELSE /\ coord' = [coord EXCEPT !.pubnonces = pubnonces, !.raised = agg,
                                        !.pc = "raised"]
              /\ UNCHANGED to_part
      /\ UNCHANGED <<session, pc, participantVars>>

\* The coordinator's own assertion, whose message names position i.
VerificationFailed(i) == [kind |-> "VerificationFailed", idx |-> i]

\* Goes on to the next signer, or raises.
JudgePsig(i, psigs, verified) ==
  IF verified = Returns(TRUE)
  THEN coord' = [coord EXCEPT !.psigs = psigs]
  ELSE coord' = [coord EXCEPT !.pc = "raised",
                              !.raised = IF Succeeds(verified) THEN VerificationFailed(i)
                                         ELSE verified]

\* After the last signer: returns and broadcasts the final signature, or raises.
Conclude(psigs, final) ==
  IF Succeeds(final)
  THEN /\ coord' = [coord EXCEPT !.psigs = psigs, !.final_sig = final.val, !.pc = "returned"]
       /\ SendAll(final.val)
  ELSE /\ coord' = [coord EXCEPT !.psigs = psigs, !.raised = final, !.pc = "raised"]
       /\ UNCHANGED to_part

CoordinatorReceivePsig ==
  LET i == Len(coord.psigs) + 1
      s == Head(to_coord[i])[1]
      psigs == Append(coord.psigs, s)
      ctx == ContextOf(coord.aggnonce, TRUE)
      verified == PartialSigVerify(s, coord.pubnonces, ctx, i)
  IN  /\ coord.pc = "await_psig"
      /\ ReceiveFrom(i)
      /\ IF i = Len(session.ids) /\ verified = Returns(TRUE)
         THEN Conclude(psigs, PartialSigAgg(psigs, ctx))
         ELSE JudgePsig(i, psigs, verified) /\ UNCHANGED to_part
      /\ UNCHANGED <<session, pc, participantVars>>

-----------------------------------------------------------------------------
(* An exception in any coroutine ends asyncio.gather, and asyncio.run then  *)
(* cancels the others; until it does they go on running.                    *)

SomeoneRaised == coord.pc = "raised" \/ \E i \in Signers : pc[i] = "raised"
SomeoneRuns == coord.pc \in Running \/ \E i \in Signers : pc[i] \in Running

\* Slip: the coordinator is left waiting.
CancelRemaining_ParticipantsOnly ==
  /\ SomeoneRaised /\ SomeoneRuns
  /\ pc' = [i \in Signers |-> IF pc[i] \in Running THEN "cancelled" ELSE pc[i]]
  /\ UNCHANGED <<session, participantVars, to_coord, to_part, coord>>

CancelRemaining ==
  /\ SomeoneRaised /\ SomeoneRuns
  /\ pc' = [i \in Signers |-> IF pc[i] \in Running THEN "cancelled" ELSE pc[i]]
  /\ coord' = [coord EXCEPT !.pc = IF @ \in Running THEN "cancelled" ELSE @]
  /\ UNCHANGED <<session, participantVars, to_coord, to_part>>

ParticipantStep(i) ==
  \/ \E k_1, k_2 \in NonceScalars : ParticipantStart(i, k_1, k_2)
  \/ ParticipantSign(i)
  \/ ParticipantFinish(i)

FaultyStep(i) ==
  \/ \E w \in FaultyPubnonces : FaultyStart(i, w)
  \/ \E s \in FaultyPsigs : FaultySign(i, s)

CoordinatorStep == CoordinatorReceivePubnonce \/ CoordinatorReceivePsig

Next ==
  \/ \E i \in Signers : ParticipantStep(i) \/ FaultyStep(i)
  \/ CoordinatorStep
  \/ CancelRemaining

\* The next message a coroutine waits for is there.
ParticipantReady(i) ==
  \/ i \in Honest /\ pc[i] = "start"
  \/ i \in Honest /\ pc[i] = "await_aggnonce" /\ to_part[i] # <<>>
  \/ pc[i] = "await_final" /\ to_part[i] # <<>>

Awaited == IF coord.pc = "await_pubnonce" THEN {Len(coord.pubnonces) + 1}
           ELSE IF coord.pc = "await_psig" THEN {Len(coord.psigs) + 1} ELSE {}
CoordinatorReady == \E i \in Awaited : to_coord[i] # <<>>

\* Only its own step takes a coroutine that is ready further than this.
ParticipantResumes(i) ==
  /\ ParticipantReady(i)
  /\ \E place \in {"await_aggnonce", "await_final", "returned", "raised"} :
       pc' = [pc EXCEPT ![i] = place]

CoordinatorResumes ==
  CoordinatorReady /\ \E i \in Awaited : to_coord' = [to_coord EXCEPT ![i] = Tail(@)]

\* The event loop resumes every coroutine that is ready, and cancels.  A faulty
\* signer need not send anything.
Fairness ==
  /\ WF_to_coord(CoordinatorResumes)
  /\ WF_vars(CancelRemaining)
  /\ \A i \in 1 .. MaxParticipants : WF_pc(i \in Signers /\ ParticipantResumes(i))

Spec == Init /\ [][Next]_vars /\ Fairness

-----------------------------------------------------------------------------
(* Properties.                                                             *)

PublishedKey == GetXonlyPk(Tweaked.val)
SessionValues == GetSessionValues(ContextOf(coord.aggnonce, TRUE)).val
FinalNonceIsFinite == SessionNonce(coord.aggnonce, SessionValues.b) # Infinity

(* README.md:222 and 856: once partial_sig_verify has accepted every        *)
(* partial signature, partial_sig_agg returns a signature that BIP340       *)
(* verification accepts under the published key.                            *)
SignatureAlwaysVerifies ==
  coord.pc = "returned" => SchnorrVerify(session.msg, PublishedKey, coord.final_sig)

(* The same, unless the aggregate nonce is infinity and was replaced by G:  *)
(* whatever the faulty signers contributed, the coordinator returns only a  *)
(* signature that verifies.                                                 *)
SignatureVerifies ==
  (coord.pc = "returned" /\ FinalNonceIsFinite) =>
    SchnorrVerify(session.msg, PublishedKey, coord.final_sig)

Misconfigured(i) == session.secshares[i] # session.pubshares[i]

(* Identifiable aborts: when the coordinator gives up it names a signer,    *)
(* and never one that followed the protocol, also when a faulty signer made *)
(* the aggregate nonce infinite or failed in the other round first.         *)
BlameIsDeserved ==
  coord.pc = "raised" =>
    /\ coord.raised.kind \in {"InvalidContributionError", "VerificationFailed"}
    /\ coord.raised.idx \in Faulty

(* signing.py:40: no signer can trigger an assertion of the coordinator.    *)
NoSignerTriggersAssertion == coord.raised # AssertionError

(* An honest signer with the right secret share gets through sign and both  *)
(* self-checks, whatever aggregate nonce the other contributions lead to.   *)
(* One whose secret share does not belong to its public share never lets a  *)
(* partial signature out, and has no secret nonce left to use again.        *)
OnlyRightSharesSign ==
  \A i \in Honest :
    /\ pc[i] = "raised" => Misconfigured(i) \/ ~ Succeeds(Tweaked)
    /\ Misconfigured(i) =>
         psig[i] = NoValue /\ (pc[i] = "raised" => secnonce[i] = ZeroedSecnonce)

(* Everyone who returns from the session returns the same signature.        *)
Agreement ==
  \A i \in Signers :
    pc[i] = "returned" => coord.pc = "returned" /\ returned[i] = coord.final_sig

Reordered(ctx, p) ==
  [ctx EXCEPT !.ids = [k \in DOMAIN ctx.ids |-> ctx.ids[p[k]]],
              !.pubshares = [k \in DOMAIN ctx.ids |-> ctx.pubshares[p[k]]]]

(* The signers form a set (README.md:514): had a participant listed the     *)
(* signers and their shares in another order, it would have sent the same   *)
(* partial signature, and the coordinator would have aggregated the same    *)
(* final signature from the reordered list.                                 *)
OrderOfSignersIsIrrelevant ==
  \A p \in Bijection(Signers, Signers) :
    LET ctx == Reordered(ContextOf(coord.aggnonce, TRUE), p)
    IN  /\ \A i \in Honest :
             psig[i] # NoValue =>
               Sign(pubnonce[i], session.secshares[i], session.ids[i], ctx).result
                 = Returns(psig[i][1])
        /\ coord.pc = "returned" =>
             PartialSigAgg([k \in Signers |-> coord.psigs[p[k]]], ctx)
               = Returns(coord.final_sig)

AllStopped == ~ SomeoneRuns
WaitsForFaulty ==
  \E i \in Faulty :
    /\ to_coord[i] = <<>>
    /\ \/ coord.pc = "await_pubnonce" /\ Len(coord.pubnonces) + 1 = i
       \/ coord.pc = "await_psig" /\ Len(coord.psigs) + 1 = i

(* The session ends for everybody, by returning or by being cancelled,      *)
(* unless the coordinator waits for ever for a faulty signer: example.py    *)
(* has no timeout.                                                          *)
EndsUnlessFaultyIsSilent == <>[](AllStopped \/ WaitsForFaulty)

Consented == {i \in Signers : psig[i] # NoValue}
Delivered == {i \in Signers : returned[i] # NoValue}
Outcome == IF coord.pc = "returned" THEN "signed"
           ELSE IF coord.pc \in {"raised", "cancelled"} THEN "aborted" ELSE "open"

(* Unanimity: a session signs only with the partial signature of every      *)
(* listed signer, gives up at most once, and hands out nothing else.        *)
Abstract == INSTANCE AbstractSession WITH
  signers <- Signers, consented <- Consented, outcome <- Outcome, delivered <- Delivered
ImplementsSession == Abstract!Spec

=============================================================================
