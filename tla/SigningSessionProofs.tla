------------------------- MODULE SigningSessionProofs -------------------------
(***************************************************************************)
(* A signing session, for any number of signers, any faulty signers, every   *)
(* prime Order and every parity of y.                                       *)
(*                                                                         *)
(* Everybody who returns returns the coordinator's signature, and there is   *)
(* none before every listed signer has sent a partial signature.  Neither is *)
(* inductive: IInv counts the messages in each queue to the coordinator      *)
(* against what the signer has sent and the coordinator has taken, and says  *)
(* of each queue to a participant what it holds at every place of the        *)
(* coroutine.                                                              *)
(*                                                                         *)
(* What the messages hold is a second invariant: Content says that the       *)
(* coordinator computed its aggregates from what the signers have sent, and  *)
(* verified the partial signatures it kept.  From it follow that the final   *)
(* signature verifies and that the order of the signers changes nothing.  A  *)
(* third, Honesty, says what the signers that follow the protocol hold and   *)
(* have checked; from it follow that only the right shares sign and that     *)
(* none of these signers is blamed.                                         *)
(***************************************************************************)
EXTENDS ExampleMain, FrostSigningLaws

\* Where the coroutine of a participant can be.
Places == {"start", "await_aggnonce", "await_final", "returned", "raised", "cancelled"}

\* What can be sent to the coordinator.
Contributions ==
  {NonceGen(k_1, k_2).pubnonce : k_1 \in NonceScalars, k_2 \in NonceScalars}
    \cup FaultyPubnonces \cup {<<s>> : s \in Scalars \cup FaultyPsigs}

\* Nothing is assumed of what the coordinator computes.
Shapes ==
  /\ session \in Sessions
  /\ pc \in [Signers -> Places]
  /\ pubnonce \in [Signers -> Contributions \cup {NoValue}]
  /\ psig \in [Signers -> Contributions \cup {NoValue}]
  /\ returned = [i \in Signers |-> returned[i]]
  /\ to_coord \in [Signers -> Seq(Contributions)]
  /\ to_part = [i \in Signers |-> to_part[i]]
  /\ coord = [pc |-> coord.pc, pubnonces |-> coord.pubnonces, aggnonce |-> coord.aggnonce,
              psigs |-> coord.psigs, final_sig |-> coord.final_sig, raised |-> coord.raised]
  /\ coord.pc \in {"await_pubnonce", "await_psig", "returned", "raised", "cancelled"}
  /\ coord.pubnonces \in Seq(Contributions)
  /\ coord.psigs \in Seq({m[1] : m \in Contributions})

\* One message or none.
One(condition) == IF condition THEN 1 ELSE 0

\* What participant i has sent, and what of it the coordinator has taken.
Sent(i) == One(pubnonce[i] # NoValue) + One(psig[i] # NoValue)
Taken(i) == One(i <= Len(coord.pubnonces)) + One(i <= Len(coord.psigs))

\* What the coordinator has sent to every participant.
Broadcast ==
  IF coord.aggnonce = NoValue THEN <<>>
  ELSE IF coord.final_sig = NoValue THEN <<coord.aggnonce>>
  ELSE <<coord.aggnonce, coord.final_sig>>

\* The second broadcast, or none.
LastBroadcast == IF coord.final_sig = NoValue THEN <<>> ELSE <<coord.final_sig>>

\* What the coordinator has collected at each place of its coroutine.
CoordInv ==
  /\ coord.pc = "await_pubnonce" =>
       /\ coord.aggnonce = NoValue
       /\ Len(coord.pubnonces) < Len(session.ids) /\ coord.psigs = <<>>
  /\ coord.pc = "await_psig" =>
       /\ coord.aggnonce # NoValue
       /\ Len(coord.pubnonces) = Len(session.ids) /\ Len(coord.psigs) < Len(session.ids)
  /\ coord.pc = "returned" <=> coord.final_sig # NoValue
  /\ coord.pc = "returned" => coord.aggnonce # NoValue /\ \A i \in Signers : psig[i] # NoValue

\* The two queues of participant i hold what was sent and not yet taken.
QueueInv(i) ==
  /\ coord.pc \in {"await_pubnonce", "await_psig"} => Sent(i) = Taken(i) + Len(to_coord[i])
  /\ pc[i] \in {"start", "await_aggnonce"} => psig[i] = NoValue /\ to_part[i] = Broadcast
  /\ pc[i] = "start" => pubnonce[i] = NoValue
  /\ pc[i] \in {"await_aggnonce", "await_final"} => pubnonce[i] # NoValue
  /\ pc[i] = "await_final" => coord.aggnonce # NoValue /\ to_part[i] = LastBroadcast
  /\ pc[i] = "returned" => coord.pc = "returned" /\ returned[i] = coord.final_sig
  /\ returned[i] # NoValue => pc[i] = "returned"

\* The inductive invariant of the messages.
IInv == Shapes /\ CoordInv /\ \A i \in Signers : QueueInv(i)

-----------------------------------------------------------------------------
(* What the handlers compute.                                              *)

\* One and two messages in a queue.
LEMMA Queues ==
  ASSUME NEW a, NEW b
  PROVE  /\ <<a>> # <<>> /\ Head(<<a>>) = a /\ Tail(<<a>>) = <<>>
         /\ <<a, b>> # <<>> /\ Head(<<a, b>>) = a /\ Tail(<<a, b>>) = <<b>>
         /\ Append(<<>>, a) = <<a>> /\ Append(<<a>>, b) = <<a, b>>
  <1> DEFINE S == {a, b}
  <1>1. <<a>> \in Seq(S) /\ <<b>> \in Seq(S) /\ <<a, b>> \in Seq(S) /\ <<>> \in Seq(S)
    OBVIOUS
  <1>2. /\ Len(<<>>) = 0 /\ Len(<<a>>) = 1 /\ Len(<<a, b>>) = 2
        /\ <<a>>[1] = a /\ <<a, b>>[1] = a /\ <<a, b>>[2] = b
    OBVIOUS
  <1>3. <<a>> # <<>> /\ <<a, b>> # <<>> BY <1>2
  <1>4. Head(<<a>>) = a /\ Head(<<a, b>>) = a BY <1>1, <1>2, <1>3
  <1>5. Tail(<<a>>) = <<>> OBVIOUS
  <1>6. Tail(<<a, b>>) = <<b>> OBVIOUS
  <1>7. Append(<<>>, a) = <<a>> BY <1>1, <1>2
  <1>8. Append(<<a>>, b) = <<a, b>>
    <2> DEFINE q == Append(<<a>>, b)
    <2>1. q \in Seq(S) /\ Len(q) = 2 /\ q[1] = a /\ q[2] = b BY <1>1, <1>2
    <2> HIDE DEF q
    <2>2. q = <<q[1], q[2]>> BY <2>1
    <2> QED BY <2>1, <2>2 DEF q
  <1> QED BY <1>3, <1>4, <1>5, <1>6, <1>7, <1>8

\* An aggregate nonce and a final signature are pairs.
LEMMA AggregatesArePairs ==
  /\ \A pubnonces : Succeeds(NonceAgg(pubnonces)) => NonceAgg(pubnonces).val # NoValue
  /\ \A psigs, ctx : Succeeds(PartialSigAgg(psigs, ctx)) => PartialSigAgg(psigs, ctx).val # NoValue
  <1>1. \A a, b : <<a, b>> # NoValue BY DEF NoValue
  <1>2. ASSUME NEW pubnonces, Succeeds(NonceAgg(pubnonces))
        PROVE  NonceAgg(pubnonces).val # NoValue
    BY <1>1, <1>2 DEF NonceAgg, Succeeds, Returns, AssertionError, InvalidContribution
  <1>3. ASSUME NEW psigs, NEW ctx, Succeeds(PartialSigAgg(psigs, ctx))
        PROVE  PartialSigAgg(psigs, ctx).val # NoValue
    <2> DEFINE values == GetSessionValues(ctx)
    <2>1. Succeeds(values) BY <1>3 DEF PartialSigAgg, Then
    <2> QED BY <1>1, <1>3, <2>1
            DEF PartialSigAgg, Then, Succeeds, Returns, ValueError, InvalidContribution
  <1> QED BY <1>2, <1>3

\* What passes the self-check is a scalar.
LEMMA CheckedIsScalar ==
  ASSUME NEW i, NEW s, NEW ctx, SelfCheck(i, s, ctx)
  PROVE  s \in Scalars
  <1> DEFINE values == GetSessionValues(ctx)
  <1>1. PartialSigVerifyInternal(s, session.ids[i], pubnonce[i], session.pubshares[i], ctx)
          = Returns(TRUE)
    BY DEF SelfCheck
  <1>2. Succeeds(values)
    BY <1>1 DEF PartialSigVerifyInternal, Then, Succeeds, Returns
  <1> QED BY <1>1, <1>2 DEF PartialSigVerifyInternal, Then, Returns, ScalarInRange

-----------------------------------------------------------------------------
(* Steps of a participant.                                                 *)

\* The state before round one.
LEMMA InitIInv == Init => IInv
  <1> SUFFICES ASSUME Init PROVE IInv OBVIOUS
  <1>1. /\ session.ids \in Seq(Nat) /\ session.ids # <<>>
        /\ Len(session.ids) \in Nat \ {0} /\ Signers = 1 .. Len(session.ids)
    <2>1. session \in Sessions BY DEF Init
    <2>2. session.ids \in Seq(Nat) /\ session.ids # <<>> BY <2>1, SessionAssumption
    <2> QED BY <2>2 DEF Signers
  <1>2. Shapes BY DEF Init, Shapes, Places
  <1>3. CoordInv BY <1>1 DEF Init, CoordInv, NoValue
  <1>4. ASSUME NEW i \in Signers PROVE QueueInv(i)
    <2>1. /\ pubnonce[i] = NoValue /\ psig[i] = NoValue /\ returned[i] = NoValue
          /\ to_coord[i] = <<>> /\ to_part[i] = <<>> /\ pc[i] = "start"
          /\ coord.pubnonces = <<>> /\ coord.psigs = <<>> /\ coord.aggnonce = NoValue
      BY DEF Init
    <2>2. i > 0 /\ i \in Nat BY <1>1
    <2> QED BY <2>1, <2>2 DEF QueueInv, Sent, Taken, One, Broadcast
  <1> QED BY <1>2, <1>3, <1>4 DEF IInv

\* Sending keeps a queue a queue.
LEMMA SendKeepsQueues ==
  ASSUME NEW i \in Signers, NEW w \in Contributions,
         to_coord \in [Signers -> Seq(Contributions)],
         to_coord' = [to_coord EXCEPT ![i] = Append(@, w)]
  PROVE  to_coord' \in [Signers -> Seq(Contributions)]
  <1> DEFINE q == Append(to_coord[i], w)
  <1>1. q \in Seq(Contributions) OBVIOUS
  <1>2. to_coord' = [to_coord EXCEPT ![i] = q] OBVIOUS
  <1> HIDE DEF q
  <1> QED BY <1>1, <1>2

\* A step of participant i leaves everything else alone: what is left to show
\* is what it does to its own queues.
LEMMA Frame ==
  ASSUME IInv, NEW i \in Signers, session' = session, coord' = coord, Shapes',
         psig[i] # NoValue => psig'[i] # NoValue,
         \A j \in Signers \ {i} :
           /\ pc'[j] = pc[j] /\ pubnonce'[j] = pubnonce[j] /\ psig'[j] = psig[j]
           /\ returned'[j] = returned[j]
           /\ to_coord'[j] = to_coord[j] /\ to_part'[j] = to_part[j],
         QueueInv(i)'
  PROVE  IInv'
  <1>1. Signers' = Signers BY DEF Signers
  <1>2. CoordInv' BY <1>1 DEF IInv, CoordInv
  <1>3. ASSUME NEW j \in Signers \ {i} PROVE QueueInv(j)'
    BY <1>3 DEF IInv, QueueInv, Sent, Taken, Broadcast, LastBroadcast
  <1> QED BY <1>1, <1>2, <1>3 DEF IInv

\* Round one: the first message, or an exception before it.
LEMMA StartStep ==
  ASSUME IInv, NEW i \in Signers, pc[i] = "start",
         session' = session, coord' = coord, psig' = psig, returned' = returned,
         to_part' = to_part,
         \/ /\ pc' = [pc EXCEPT ![i] = "raised"]
            /\ UNCHANGED <<pubnonce, to_coord>>
         \/ \E w \in Contributions \ {NoValue} :
              /\ pubnonce' = [pubnonce EXCEPT ![i] = w]
              /\ to_coord' = [to_coord EXCEPT ![i] = Append(@, w)]
              /\ pc' = [pc EXCEPT ![i] = "await_aggnonce"]
  PROVE  IInv'
  <1>1. Signers' = Signers BY DEF Signers
  <1>2. /\ pc \in [Signers -> Places]
        /\ pubnonce \in [Signers -> Contributions \cup {NoValue}]
        /\ to_coord \in [Signers -> Seq(Contributions)]
    BY DEF IInv, Shapes
  <1>3. Shapes'
    <2>1. "raised" \in Places /\ "await_aggnonce" \in Places BY DEF Places
    <2>2. pc' \in [Signers -> Places] BY <1>2, <2>1
    <2>3. pubnonce' \in [Signers -> Contributions \cup {NoValue}] BY <1>2
    <2>4. to_coord' \in [Signers -> Seq(Contributions)] BY <1>2, SendKeepsQueues
    <2> QED BY <1>1, <2>2, <2>3, <2>4 DEF IInv, Shapes
  <1>4. psig[i] = NoValue /\ to_part[i] = Broadcast /\ pubnonce[i] = NoValue
    BY DEF IInv, QueueInv
  <1>5. QueueInv(i)'
    <2>1. CASE pc' = [pc EXCEPT ![i] = "raised"] /\ UNCHANGED <<pubnonce, to_coord>>
      BY <1>2, <2>1 DEF IInv, QueueInv, Sent, Taken, Broadcast, LastBroadcast
    <2>2. ASSUME NEW w \in Contributions \ {NoValue},
                 pubnonce' = [pubnonce EXCEPT ![i] = w],
                 to_coord' = [to_coord EXCEPT ![i] = Append(@, w)],
                 pc' = [pc EXCEPT ![i] = "await_aggnonce"]
          PROVE  QueueInv(i)'
      <3>1. /\ pc'[i] = "await_aggnonce" /\ pubnonce'[i] # NoValue /\ psig'[i] = NoValue
            /\ Len(to_coord'[i]) = Len(to_coord[i]) + 1 /\ Len(to_coord[i]) \in Nat
        BY <1>2, <1>4, <2>2
      <3>2. Sent(i)' = 1 /\ Sent(i) = 0 /\ Taken(i)' = Taken(i)
        BY <1>4, <3>1 DEF Sent, Taken, One
      <3>3. Taken(i) \in Nat BY DEF Taken, One
      <3>4. coord.pc \in {"await_pubnonce", "await_psig"} => Sent(i) = Taken(i) + Len(to_coord[i])
        BY DEF IInv, QueueInv
      <3>5. coord'.pc \in {"await_pubnonce", "await_psig"}
              => Sent(i)' = Taken(i)' + Len(to_coord'[i])
        BY <3>1, <3>2, <3>3, <3>4
      <3>6. to_part'[i] = Broadcast' BY <1>4 DEF Broadcast
      <3>7. returned'[i] # NoValue => FALSE BY DEF IInv, QueueInv
      <3> QED BY <3>1, <3>5, <3>6, <3>7 DEF QueueInv
    <2> QED BY <2>1, <2>2
  <1>6. \A j \in Signers \ {i} :
           /\ pc'[j] = pc[j] /\ pubnonce'[j] = pubnonce[j] /\ psig'[j] = psig[j]
           /\ returned'[j] = returned[j]
           /\ to_coord'[j] = to_coord[j] /\ to_part'[j] = to_part[j]
    BY <1>2
  <1> QED BY <1>3, <1>5, <1>6, Frame

\* Round two: the aggregate nonce is taken, and the second message is sent or
\* an exception raised.
LEMMA SignStep ==
  ASSUME IInv, NEW i \in Signers, pc[i] = "await_aggnonce", Receive(i),
         session' = session, coord' = coord, pubnonce' = pubnonce, returned' = returned,
         \/ /\ pc' = [pc EXCEPT ![i] = "raised"]
            /\ UNCHANGED <<psig, to_coord>>
         \/ \E s \in Scalars \cup FaultyPsigs :
              /\ psig' = [psig EXCEPT ![i] = <<s>>]
              /\ to_coord' = [to_coord EXCEPT ![i] = Append(@, <<s>>)]
              /\ pc' = [pc EXCEPT ![i] = "await_final"]
  PROVE  IInv'
  <1>1. Signers' = Signers BY DEF Signers
  <1>2. /\ pc \in [Signers -> Places]
        /\ psig \in [Signers -> Contributions \cup {NoValue}]
        /\ to_coord \in [Signers -> Seq(Contributions)]
        /\ to_part = [j \in Signers |-> to_part[j]]
    BY DEF IInv, Shapes
  <1>3. \A s \in Scalars \cup FaultyPsigs : <<s>> \in Contributions BY DEF Contributions
  <1>4. to_part' = [to_part EXCEPT ![i] = Tail(@)] /\ to_part[i] # <<>> BY DEF Receive
  <1>5. Shapes'
    <2>1. "raised" \in Places /\ "await_final" \in Places BY DEF Places
    <2>2. pc' \in [Signers -> Places] BY <1>2, <2>1
    <2>3. psig' \in [Signers -> Contributions \cup {NoValue}] BY <1>2, <1>3
    <2>4. to_coord' \in [Signers -> Seq(Contributions)] BY <1>2, <1>3, SendKeepsQueues
    <2>5. to_part' = [j \in Signers |-> to_part'[j]] BY <1>2, <1>4
    <2> QED BY <1>1, <2>2, <2>3, <2>4, <2>5 DEF IInv, Shapes
  <1>6. /\ psig[i] = NoValue /\ to_part[i] = Broadcast /\ pubnonce[i] # NoValue
        /\ returned[i] = NoValue
    BY DEF IInv, QueueInv
  <1>7. coord.aggnonce # NoValue /\ to_part'[i] = LastBroadcast
    <2>1. to_part'[i] = Tail(Broadcast) /\ Broadcast # <<>> BY <1>2, <1>4, <1>6
    <2>2. coord.aggnonce # NoValue BY <2>1 DEF Broadcast
    <2>3. Tail(Broadcast) = LastBroadcast
      BY <2>2, Queues DEF Broadcast, LastBroadcast
    <2> QED BY <2>1, <2>2, <2>3
  <1>8. QueueInv(i)'
    <2>1. CASE pc' = [pc EXCEPT ![i] = "raised"] /\ UNCHANGED <<psig, to_coord>>
      BY <1>2, <1>6, <2>1 DEF IInv, QueueInv, Sent, Taken, Broadcast, LastBroadcast
    <2>2. ASSUME NEW s \in Scalars \cup FaultyPsigs,
                 psig' = [psig EXCEPT ![i] = <<s>>],
                 to_coord' = [to_coord EXCEPT ![i] = Append(@, <<s>>)],
                 pc' = [pc EXCEPT ![i] = "await_final"]
          PROVE  QueueInv(i)'
      <3>1. /\ pc'[i] = "await_final" /\ psig'[i] # NoValue
            /\ Len(to_coord'[i]) = Len(to_coord[i]) + 1 /\ Len(to_coord[i]) \in Nat
        BY <1>2, <1>3, <2>2, Queues DEF NoValue
      <3>2. Sent(i)' = 2 /\ Sent(i) = 1 /\ Taken(i)' = Taken(i)
        BY <1>6, <3>1 DEF Sent, Taken, One
      <3>3. Taken(i) \in Nat BY DEF Taken, One
      <3>4. coord.pc \in {"await_pubnonce", "await_psig"} => Sent(i) = Taken(i) + Len(to_coord[i])
        BY DEF IInv, QueueInv
      <3>5. coord'.pc \in {"await_pubnonce", "await_psig"}
              => Sent(i)' = Taken(i)' + Len(to_coord'[i])
        BY <3>1, <3>2, <3>3, <3>4
      <3>6. to_part'[i] = LastBroadcast' BY <1>7 DEF LastBroadcast
      <3> QED BY <1>6, <1>7, <3>1, <3>5, <3>6 DEF QueueInv
    <2> QED BY <2>1, <2>2
  <1>9. /\ psig[i] # NoValue => psig'[i] # NoValue
        /\ \A j \in Signers \ {i} :
             /\ pc'[j] = pc[j] /\ pubnonce'[j] = pubnonce[j] /\ psig'[j] = psig[j]
             /\ returned'[j] = returned[j]
             /\ to_coord'[j] = to_coord[j] /\ to_part'[j] = to_part[j]
    BY <1>2, <1>4, <1>6
  <1> QED BY <1>5, <1>8, <1>9, Frame

\* What waits for a participant that has signed is the final signature.
LEMMA FinishIInv ==
  ASSUME IInv, NEW i \in Signers, ParticipantFinish(i)
  PROVE  /\ IInv'
         /\ coord.pc = "returned" /\ returned[i] = NoValue
         /\ returned' = [returned EXCEPT ![i] = coord.final_sig]
         /\ coord.final_sig # NoValue
  <1>1. Signers' = Signers BY DEF Signers, ParticipantFinish
  <1>2. /\ pc \in [Signers -> Places]
        /\ returned = [j \in Signers |-> returned[j]]
        /\ to_part = [j \in Signers |-> to_part[j]]
    BY DEF IInv, Shapes
  <1>3. /\ pc[i] = "await_final" /\ pc' = [pc EXCEPT ![i] = "returned"]
        /\ to_part[i] # <<>> /\ to_part' = [to_part EXCEPT ![i] = Tail(@)]
        /\ returned' = [returned EXCEPT ![i] = Head(to_part[i])]
        /\ session' = session /\ coord' = coord
        /\ pubnonce' = pubnonce /\ psig' = psig /\ to_coord' = to_coord
    BY DEF ParticipantFinish, Receive, Goes
  <1>4. to_part[i] = LastBroadcast /\ returned[i] = NoValue BY <1>3 DEF IInv, QueueInv
  <1>5. coord.final_sig # NoValue /\ Head(to_part[i]) = coord.final_sig
    BY <1>3, <1>4, Queues DEF LastBroadcast
  <1>6. coord.pc = "returned" BY <1>5 DEF IInv, CoordInv
  <1>7. Shapes'
    <2>1. pc' \in [Signers -> Places] BY <1>2, <1>3 DEF Places
    <2>2. /\ returned' = [j \in Signers |-> returned'[j]]
          /\ to_part' = [j \in Signers |-> to_part'[j]]
      BY <1>2, <1>3
    <2> QED BY <1>1, <1>3, <2>1, <2>2 DEF IInv, Shapes
  <1>8. /\ pc'[i] = "returned" /\ returned'[i] = coord.final_sig BY <1>2, <1>3, <1>5
  <1>9. QueueInv(i)'
    BY <1>3, <1>6, <1>8 DEF IInv, QueueInv
  <1>10. \A j \in Signers \ {i} :
             /\ pc'[j] = pc[j] /\ returned'[j] = returned[j] /\ to_part'[j] = to_part[j]
    BY <1>2, <1>3
  <1>11. IInv' BY <1>3, <1>7, <1>9, <1>10, Frame
  <1> QED BY <1>3, <1>4, <1>5, <1>6, <1>11

-----------------------------------------------------------------------------
(* Steps of the coordinator.                                               *)

\* The coordinator takes one message of signer i.
LEMMA Taking ==
  ASSUME IInv, coord.pc \in {"await_pubnonce", "await_psig"}, NEW i \in Signers,
         ReceiveFrom(i), session' = session, pubnonce' = pubnonce, psig' = psig,
         \A j \in Signers : Taken(j)' = Taken(j) + One(j = i)
  PROVE  /\ to_coord' \in [Signers -> Seq(Contributions)]
         /\ \A j \in Signers : Sent(j)' = Taken(j)' + Len(to_coord'[j])
  <1> DEFINE q == Tail(to_coord[i])
  <1>1. to_coord \in [Signers -> Seq(Contributions)] BY DEF IInv, Shapes
  <1>2. to_coord[i] # <<>> /\ to_coord' = [to_coord EXCEPT ![i] = q] BY DEF ReceiveFrom
  <1>3. to_coord[i] \in Seq(Contributions) BY <1>1
  <1>4. q \in Seq(Contributions) /\ Len(to_coord[i]) = Len(q) + 1 BY <1>2, <1>3
  <1> HIDE DEF q
  <1>5. to_coord' \in [Signers -> Seq(Contributions)] BY <1>1, <1>2, <1>4
  <1>6. ASSUME NEW j \in Signers PROVE Sent(j)' = Taken(j)' + Len(to_coord'[j])
    <2>1. Sent(j)' = Sent(j) BY DEF Sent
    <2>2. Sent(j) = Taken(j) + Len(to_coord[j]) BY DEF IInv, QueueInv
    <2>3. Taken(j) \in Nat /\ Taken(j)' = Taken(j) + One(j = i) BY DEF Taken, One
    <2>4. Len(to_coord[j]) = Len(to_coord'[j]) + One(j = i) /\ Len(to_coord'[j]) \in Nat
      <3>1. CASE j = i BY <1>1, <1>2, <1>4, <3>1 DEF One
      <3>2. CASE j # i
        <4>1. to_coord'[j] = to_coord[j] /\ to_coord[j] \in Seq(Contributions)
          BY <1>1, <1>2, <3>2
        <4>2. Len(to_coord[j]) \in Nat BY <4>1
        <4> QED BY <3>2, <4>1, <4>2 DEF One
      <3> QED BY <3>1, <3>2
    <2>5. One(j = i) \in Nat BY DEF One
    <2> QED BY <2>1, <2>2, <2>3, <2>4, <2>5
  <1> QED BY <1>5, <1>6

\* Signers are the positions of the list.
LEMMA Positions ==
  ASSUME Shapes
  PROVE  Len(session.ids) \in Nat \ {0} /\ Signers = 1 .. Len(session.ids)
  <1>1. session.ids \in Seq(Nat) /\ session.ids # <<>> BY SessionAssumption DEF Shapes
  <1> QED BY <1>1 DEF Signers

\* A list of messages grows by one.
LEMMA Growing ==
  ASSUME NEW S, NEW q \in Seq(S), NEW m \in S
  PROVE  Append(q, m) \in Seq(S) /\ Len(Append(q, m)) = Len(q) + 1 /\ Len(q) \in Nat
  OBVIOUS

\* Round one: collects, and after the last one broadcasts or raises.
LEMMA ReceivePubnonceIInv ==
  ASSUME IInv, CoordinatorReceivePubnonce
  PROVE  /\ IInv' /\ psig' = psig /\ returned' = returned /\ session' = session
         /\ coord.pc = "await_pubnonce"
         /\ coord'.pc \in {"await_pubnonce", "await_psig", "raised"}
  <1> DEFINE i == Len(coord.pubnonces) + 1
             pubnonces == Append(coord.pubnonces, Head(to_coord[i]))
             agg == NonceAgg(pubnonces)
             u == Len(session.ids)
  <1>1. /\ coord.pc = "await_pubnonce" /\ ReceiveFrom(i)
        /\ session' = session /\ pc' = pc /\ secnonce' = secnonce
        /\ pubnonce' = pubnonce /\ psig' = psig /\ returned' = returned
    BY DEF CoordinatorReceivePubnonce, participantVars
  <1>2. \/ /\ i < u /\ coord' = [coord EXCEPT !.pubnonces = pubnonces] /\ to_part' = to_part
        \/ /\ ~ (i < u) /\ Succeeds(agg)
           /\ coord' = [coord EXCEPT !.pubnonces = pubnonces, !.aggnonce = agg.val,
                                     !.pc = "await_psig"]
           /\ to_part' = [j \in Signers |-> Append(to_part[j], agg.val)]
        \/ /\ coord' = [coord EXCEPT !.pubnonces = pubnonces, !.raised = agg, !.pc = "raised"]
           /\ to_part' = to_part
    BY DEF CoordinatorReceivePubnonce, SendAll
  <1>3. Succeeds(agg) => agg.val # NoValue BY AggregatesArePairs
  <1>4. Signers' = Signers /\ u \in Nat \ {0} /\ Signers = 1 .. u
    BY <1>1, Positions DEF Signers, IInv
  <1>5. /\ coord.pubnonces \in Seq(Contributions) /\ Len(coord.pubnonces) < u
        /\ coord.psigs = <<>> /\ coord.aggnonce = NoValue /\ coord.final_sig = NoValue
        /\ to_coord \in [Signers -> Seq(Contributions)]
    BY <1>1 DEF IInv, Shapes, CoordInv
  <1>6. i \in Signers /\ i \in Nat /\ Len(coord.pubnonces) = i - 1
    <2>1. Len(coord.pubnonces) \in Nat BY <1>5
    <2> QED BY <1>4, <1>5, <2>1
  <1>7. pubnonces \in Seq(Contributions) /\ Len(pubnonces) = i
    <2>1. to_coord[i] \in Seq(Contributions) /\ to_coord[i] # <<>>
      BY <1>1, <1>5, <1>6 DEF ReceiveFrom
    <2>2. Head(to_coord[i]) \in Contributions BY <2>1
    <2> QED BY <1>5, <2>2, Growing
  <1> HIDE DEF i, pubnonces, agg, u
  <1>8. coord = [pc |-> coord.pc, pubnonces |-> coord.pubnonces, aggnonce |-> coord.aggnonce,
                 psigs |-> coord.psigs, final_sig |-> coord.final_sig, raised |-> coord.raised]
    BY DEF IInv, Shapes
  <1>9. /\ coord'.pubnonces = pubnonces /\ coord'.psigs = coord.psigs
        /\ coord'.final_sig = coord.final_sig
        /\ coord' = [pc |-> coord'.pc, pubnonces |-> coord'.pubnonces,
                     aggnonce |-> coord'.aggnonce, psigs |-> coord'.psigs,
                     final_sig |-> coord'.final_sig, raised |-> coord'.raised]
        /\ \/ /\ i < u /\ coord'.pc = "await_pubnonce" /\ coord'.aggnonce = NoValue
              /\ to_part' = to_part
           \/ /\ ~ (i < u) /\ coord'.pc = "await_psig" /\ coord'.aggnonce = agg.val
              /\ agg.val # NoValue
              /\ to_part' = [j \in Signers |-> Append(to_part[j], agg.val)]
           \/ /\ coord'.pc = "raised" /\ coord'.aggnonce = NoValue
              /\ to_part' = to_part
    BY <1>1, <1>2, <1>3, <1>5, <1>8
  <1>10. \A j \in Signers : Taken(j)' = Taken(j) + One(j = i)
    <2>1. Len(coord.psigs) = 0 /\ Len(coord'.psigs) = 0 BY <1>5, <1>9
    <2>2. \A j \in Signers : j \in Nat /\ j > 0 BY <1>4
    <2> QED BY <1>6, <1>7, <1>9, <2>1, <2>2 DEF Taken, One
  <1>11. /\ to_coord' \in [Signers -> Seq(Contributions)]
         /\ \A j \in Signers : Sent(j)' = Taken(j)' + Len(to_coord'[j])
    BY <1>1, <1>6, <1>10, Taking
  <1>12. Shapes'
    <2>1. to_part' = [j \in Signers |-> to_part'[j]]
      <3>1. to_part = [j \in Signers |-> to_part[j]] BY DEF IInv, Shapes
      <3> QED BY <1>9, <3>1
    <2> QED BY <1>1, <1>4, <1>7, <1>9, <1>11, <2>1 DEF IInv, Shapes
  <1>13. CoordInv'
    BY <1>1, <1>4, <1>5, <1>6, <1>7, <1>9 DEF CoordInv, u
  <1>14. ASSUME NEW j \in Signers PROVE QueueInv(j)'
    <2>1. QueueInv(j) BY DEF IInv
    <2>2. pc[j] \notin {"await_final", "returned"} /\ returned[j] = NoValue
      BY <1>1, <1>5, <2>1 DEF QueueInv
    <2>3. pc[j] \in {"start", "await_aggnonce"} => to_part[j] = <<>>
      BY <1>5, <2>1 DEF QueueInv, Broadcast
    <2>4. pc[j] \in {"start", "await_aggnonce"} => to_part'[j] = Broadcast'
      <3>1. CASE to_part' = to_part /\ coord'.aggnonce = NoValue
        BY <2>3, <3>1 DEF Broadcast
      <3>2. CASE /\ coord'.aggnonce = agg.val /\ agg.val # NoValue
                 /\ to_part' = [k \in Signers |-> Append(to_part[k], agg.val)]
        <4>1. Broadcast' = <<agg.val>> BY <1>5, <1>9, <3>2 DEF Broadcast
        <4> QED BY <2>3, <3>2, <4>1, Queues
      <3> QED BY <1>9, <3>1, <3>2
    <2> QED BY <1>1, <1>11, <2>1, <2>2, <2>4 DEF QueueInv
  <1> QED BY <1>1, <1>4, <1>9, <1>12, <1>13, <1>14 DEF IInv

\* Round two: collects or raises; after the last one it broadcasts, and every
\* signer has sent its partial signature by then.
LEMMA ReceivePsigIInv ==
  ASSUME IInv, CoordinatorReceivePsig
  PROVE  /\ IInv' /\ psig' = psig /\ returned' = returned /\ session' = session
         /\ coord.pc = "await_psig"
         /\ coord'.pc \in {"await_psig", "raised", "returned"}
  <1> DEFINE i == Len(coord.psigs) + 1
             s == Head(to_coord[i])[1]
             psigs == Append(coord.psigs, s)
             ctx == ContextOf(coord.aggnonce, TRUE)
             verified == PartialSigVerify(s, coord.pubnonces, ctx, i)
             final == PartialSigAgg(psigs, ctx)
             u == Len(session.ids)
  <1>1. /\ coord.pc = "await_psig" /\ ReceiveFrom(i)
        /\ session' = session /\ pc' = pc
        /\ pubnonce' = pubnonce /\ psig' = psig /\ returned' = returned
    BY DEF CoordinatorReceivePsig, participantVars
  <1>2. \/ /\ i # u /\ coord' = [coord EXCEPT !.psigs = psigs] /\ to_part' = to_part
        \/ /\ i = u /\ Succeeds(final)
           /\ coord' = [coord EXCEPT !.psigs = psigs, !.final_sig = final.val,
                                     !.pc = "returned"]
           /\ to_part' = [j \in Signers |-> Append(to_part[j], final.val)]
        \/ /\ \/ coord' = [coord EXCEPT !.psigs = psigs, !.raised = final, !.pc = "raised"]
              \/ \E e : coord' = [coord EXCEPT !.pc = "raised", !.raised = e]
           /\ to_part' = to_part
    <2>1. CASE i = u /\ verified = Returns(TRUE)
      <3>1. Conclude(psigs, final) BY <2>1 DEF CoordinatorReceivePsig
      <3> HIDE DEF psigs, final
      <3> QED BY <2>1, <3>1 DEF Conclude, SendAll
    <2>2. CASE ~ (i = u /\ verified = Returns(TRUE))
      <3>1. JudgePsig(i, psigs, verified) /\ to_part' = to_part
        BY <2>2 DEF CoordinatorReceivePsig
      <3> HIDE DEF psigs, final, verified
      <3> QED BY <2>2, <3>1 DEF JudgePsig
    <2> QED BY <2>1, <2>2
  <1>3. Succeeds(final) => final.val # NoValue BY AggregatesArePairs
  <1>4. Signers' = Signers /\ u \in Nat \ {0} /\ Signers = 1 .. u
    BY <1>1, Positions DEF Signers, IInv
  <1>5. /\ coord.psigs \in Seq({m[1] : m \in Contributions}) /\ Len(coord.psigs) < u
        /\ Len(coord.pubnonces) = u /\ coord.pubnonces \in Seq(Contributions)
        /\ coord.aggnonce # NoValue /\ coord.final_sig = NoValue
        /\ to_coord \in [Signers -> Seq(Contributions)]
    BY <1>1 DEF IInv, Shapes, CoordInv
  <1>6. i \in Signers /\ i \in Nat /\ Len(coord.psigs) = i - 1
    <2>1. Len(coord.psigs) \in Nat BY <1>5
    <2> QED BY <1>4, <1>5, <2>1
  <1>7. psigs \in Seq({m[1] : m \in Contributions}) /\ Len(psigs) = i
    <2>1. to_coord[i] \in Seq(Contributions) /\ to_coord[i] # <<>>
      BY <1>1, <1>5, <1>6 DEF ReceiveFrom
    <2>2. Head(to_coord[i]) \in Contributions BY <2>1
    <2> QED BY <1>5, <2>2, Growing
  <1> HIDE DEF i, s, psigs, ctx, verified, final, u
  <1>8. coord = [pc |-> coord.pc, pubnonces |-> coord.pubnonces, aggnonce |-> coord.aggnonce,
                 psigs |-> coord.psigs, final_sig |-> coord.final_sig, raised |-> coord.raised]
    BY DEF IInv, Shapes
  <1>9. /\ coord'.pubnonces = coord.pubnonces /\ coord'.aggnonce = coord.aggnonce
        /\ coord' = [pc |-> coord'.pc, pubnonces |-> coord'.pubnonces,
                     aggnonce |-> coord'.aggnonce, psigs |-> coord'.psigs,
                     final_sig |-> coord'.final_sig, raised |-> coord'.raised]
        /\ \/ /\ i # u /\ coord'.pc = "await_psig" /\ coord'.final_sig = NoValue
              /\ coord'.psigs = psigs /\ to_part' = to_part
           \/ /\ i = u /\ coord'.pc = "returned" /\ coord'.final_sig = final.val
              /\ final.val # NoValue /\ coord'.psigs = psigs
              /\ to_part' = [j \in Signers |-> Append(to_part[j], final.val)]
           \/ /\ coord'.pc = "raised" /\ coord'.final_sig = NoValue
              /\ coord'.psigs \in {psigs, coord.psigs} /\ to_part' = to_part
    BY <1>1, <1>2, <1>3, <1>5, <1>8
  <1>10. coord'.psigs = psigs => \A j \in Signers : Taken(j)' = Taken(j) + One(j = i)
    <2>1. \A j \in Signers : j \in Nat /\ j <= Len(coord.pubnonces)
      BY <1>4, <1>5
    <2> QED BY <1>6, <1>7, <1>9, <2>1 DEF Taken, One
  <1>11. /\ to_coord' \in [Signers -> Seq(Contributions)]
         /\ coord'.psigs = psigs =>
              \A j \in Signers : Sent(j)' = Taken(j)' + Len(to_coord'[j])
    <2>1. to_coord' \in [Signers -> Seq(Contributions)]
      <3> DEFINE q == Tail(to_coord[i])
      <3>1. /\ to_coord[i] # <<>> /\ to_coord' = [to_coord EXCEPT ![i] = q]
            /\ to_coord[i] \in Seq(Contributions)
        BY <1>1, <1>5, <1>6 DEF ReceiveFrom
      <3>2. q \in Seq(Contributions) BY <3>1
      <3> HIDE DEF q
      <3> QED BY <1>5, <3>1, <3>2
    <2> QED BY <1>1, <1>6, <1>10, <2>1, Taking
  <1>12. Shapes'
    <2>1. to_part' = [j \in Signers |-> to_part'[j]]
      <3>1. to_part = [j \in Signers |-> to_part[j]] BY DEF IInv, Shapes
      <3> QED BY <1>9, <3>1
    <2>2. coord'.psigs \in Seq({m[1] : m \in Contributions}) BY <1>5, <1>7, <1>9
    <2>3. coord'.pc \in {"await_pubnonce", "await_psig", "returned", "raised", "cancelled"}
      BY <1>9
    <2> QED BY <1>1, <1>4, <1>5, <1>9, <1>11, <2>1, <2>2, <2>3 DEF IInv, Shapes
  <1>13. i = u => \A j \in Signers : psig[j] # NoValue
    <2> SUFFICES ASSUME i = u, NEW j \in Signers PROVE psig[j] # NoValue OBVIOUS
    <2>1. Sent(j) = Taken(j) + Len(to_coord[j]) BY <1>1 DEF IInv, QueueInv
    <2>2. j \in Nat /\ j <= u BY <1>4
    <2>3. Len(to_coord[j]) \in Nat /\ (j = i => Len(to_coord[j]) > 0)
      <3>1. to_coord[j] \in Seq(Contributions) BY <1>5
      <3>2. to_coord[i] # <<>> BY <1>1 DEF ReceiveFrom
      <3> QED BY <3>1, <3>2
    <2>4. Taken(j) = IF j = i THEN 1 ELSE 2
      <3>1. j <= Len(coord.pubnonces) BY <1>5, <2>2
      <3>2. j <= Len(coord.psigs) <=> j # i BY <1>4, <1>6, <2>2
      <3> QED BY <3>1, <3>2 DEF Taken, One
    <2>5. Sent(j) # 0 /\ Sent(j) # 1
      <3> DEFINE waiting == Len(to_coord[j])
      <3>1. waiting \in Nat /\ (j = i => waiting > 0) BY <2>3
      <3>2. Sent(j) = (IF j = i THEN 1 ELSE 2) + waiting BY <2>1, <2>4
      <3> HIDE DEF waiting
      <3> QED BY <3>1, <3>2
    <2>6. psig[j] = NoValue => Sent(j) \in {0, 1} BY DEF Sent, One
    <2> QED BY <2>5, <2>6
  <1>14. CoordInv'
    <2>1. coord'.pc = "await_psig" => Len(psigs) < u BY <1>4, <1>6, <1>7, <1>9
    <2>2. coord'.pc = "returned" => \A j \in Signers : psig[j] # NoValue BY <1>9, <1>13
    <2> QED BY <1>1, <1>4, <1>5, <1>9, <2>1, <2>2 DEF CoordInv, u
  <1>15. ASSUME NEW j \in Signers PROVE QueueInv(j)'
    <2>1. QueueInv(j) BY DEF IInv
    <2>2. pc[j] # "returned" /\ returned[j] = NoValue
      BY <1>1, <2>1 DEF QueueInv
    <2>3. /\ pc[j] \in {"start", "await_aggnonce"} => to_part[j] = <<coord.aggnonce>>
          /\ pc[j] = "await_final" => to_part[j] = <<>>
      BY <1>5, <2>1 DEF QueueInv, Broadcast, LastBroadcast
    <2>4. /\ pc[j] \in {"start", "await_aggnonce"} => to_part'[j] = Broadcast'
          /\ pc[j] = "await_final" => to_part'[j] = LastBroadcast'
      <3>1. CASE to_part' = to_part /\ coord'.final_sig = NoValue
        BY <1>5, <1>9, <2>3, <3>1 DEF Broadcast, LastBroadcast
      <3>2. CASE /\ coord'.final_sig = final.val /\ final.val # NoValue
                 /\ to_part' = [k \in Signers |-> Append(to_part[k], final.val)]
        <4>1. /\ Broadcast' = <<coord.aggnonce, final.val>>
              /\ LastBroadcast' = <<final.val>>
          BY <1>5, <1>9, <3>2 DEF Broadcast, LastBroadcast
        <4>2. /\ Append(<<coord.aggnonce>>, final.val) = <<coord.aggnonce, final.val>>
              /\ Append(<<>>, final.val) = <<final.val>>
          BY Queues
        <4>3. to_part'[j] = Append(to_part[j], final.val) BY <3>2
        <4> QED BY <2>3, <4>1, <4>2, <4>3
      <3> QED BY <1>9, <3>1, <3>2
    <2>5. coord'.pc \in {"await_pubnonce", "await_psig"} => Sent(j)' = Taken(j)' + Len(to_coord'[j])
      BY <1>9, <1>11
    <2> QED BY <1>1, <1>9, <1>5, <2>1, <2>2, <2>4, <2>5 DEF QueueInv
  <1> QED BY <1>1, <1>4, <1>9, <1>12, <1>14, <1>15 DEF IInv

\* The remaining coroutines are cancelled: their queues no longer matter.
LEMMA CancelIInv ==
  ASSUME IInv, CancelRemaining
  PROVE  /\ IInv' /\ psig' = psig /\ returned' = returned /\ session' = session
         /\ coord'.pc = IF coord.pc \in Running THEN "cancelled" ELSE coord.pc
  <1>1. /\ pc' = [i \in Signers |-> IF pc[i] \in Running THEN "cancelled" ELSE pc[i]]
        /\ coord' = [coord EXCEPT !.pc = IF @ \in Running THEN "cancelled" ELSE @]
        /\ session' = session /\ pubnonce' = pubnonce /\ psig' = psig
        /\ returned' = returned /\ to_coord' = to_coord /\ to_part' = to_part
    BY DEF CancelRemaining, participantVars
  <1>2. Signers' = Signers BY <1>1 DEF Signers
  <1> DEFINE place == IF coord.pc \in Running THEN "cancelled" ELSE coord.pc
  <1>3. /\ coord'.pc = place /\ coord'.pubnonces = coord.pubnonces
        /\ coord'.aggnonce = coord.aggnonce /\ coord'.psigs = coord.psigs
        /\ coord'.final_sig = coord.final_sig
        /\ coord' = [pc |-> coord'.pc, pubnonces |-> coord'.pubnonces,
                     aggnonce |-> coord'.aggnonce, psigs |-> coord'.psigs,
                     final_sig |-> coord'.final_sig, raised |-> coord'.raised]
    <2>1. coord = [pc |-> coord.pc, pubnonces |-> coord.pubnonces, aggnonce |-> coord.aggnonce,
                   psigs |-> coord.psigs, final_sig |-> coord.final_sig, raised |-> coord.raised]
      BY DEF IInv, Shapes
    <2>2. coord' = [coord EXCEPT !.pc = place] BY <1>1
    <2> HIDE DEF place
    <2> QED BY <2>1, <2>2
  <1>4. /\ coord'.pc \notin {"await_pubnonce", "await_psig"}
        /\ coord'.pc = "returned" <=> coord.pc = "returned"
    BY <1>3 DEF Running
  <1>5. \A i \in Signers :
          /\ pc'[i] \in {"returned", "raised", "cancelled"}
          /\ pc'[i] = "returned" <=> pc[i] = "returned"
    BY <1>1 DEF IInv, Shapes, Places, Running
  <1>6. Shapes'
    <2>1. pc' \in [Signers -> Places] BY <1>1 DEF IInv, Shapes, Places
    <2>2. coord'.pc \in {"await_pubnonce", "await_psig", "returned", "raised", "cancelled"}
      BY <1>3 DEF IInv, Shapes
    <2> QED BY <1>1, <1>2, <1>3, <2>1, <2>2 DEF IInv, Shapes
  <1>7. CoordInv' BY <1>1, <1>2, <1>3, <1>4 DEF IInv, CoordInv
  <1>8. ASSUME NEW i \in Signers PROVE QueueInv(i)'
    BY <1>1, <1>3, <1>4, <1>5 DEF IInv, QueueInv
  <1> QED BY <1>1, <1>2, <1>3, <1>6, <1>7, <1>8 DEF IInv

-----------------------------------------------------------------------------
(* Every step.                                                             *)

\* Round one of a participant that follows the protocol, or does not.
LEMMA StartIInv ==
  ASSUME IInv, NEW i \in Signers,
         \/ \E k_1, k_2 \in NonceScalars : ParticipantStart(i, k_1, k_2)
         \/ \E w \in FaultyPubnonces : FaultyStart(i, w)
  PROVE  IInv' /\ psig' = psig /\ returned' = returned /\ session' = session /\ coord' = coord
  <1>1. ASSUME NEW k_1 \in NonceScalars, NEW k_2 \in NonceScalars, ParticipantStart(i, k_1, k_2)
        PROVE  IInv' /\ UNCHANGED <<psig, returned, session, coord>>
    <2> DEFINE w == NonceGen(k_1, k_2).pubnonce
    <2>1. w \in Contributions BY DEF Contributions
    <2>2. w # NoValue
      <3>1. \A a, b : <<a, b>> # <<>> BY Queues
      <3> QED BY <3>1 DEF NonceGen, NoValue
    <2>3. /\ pc[i] = "start" /\ UNCHANGED <<session, psig, returned, to_part, coord>>
          /\ \/ pc' = [pc EXCEPT ![i] = "raised"] /\ UNCHANGED <<pubnonce, to_coord>>
             \/ /\ pubnonce' = [pubnonce EXCEPT ![i] = w]
                /\ to_coord' = [to_coord EXCEPT ![i] = Append(@, w)]
                /\ pc' = [pc EXCEPT ![i] = "await_aggnonce"]
      BY <1>1 DEF ParticipantStart, SendToCoordinator, Goes
    <2> HIDE DEF w
    <2> QED BY <2>1, <2>2, <2>3, StartStep
  <1>2. ASSUME NEW w \in FaultyPubnonces, FaultyStart(i, w)
        PROVE  IInv' /\ UNCHANGED <<psig, returned, session, coord>>
    <2>1. w \in Contributions /\ w # NoValue
      BY SessionAssumption DEF Contributions, NoValue
    <2>2. /\ pc[i] = "start" /\ UNCHANGED <<session, psig, returned, to_part, coord>>
          /\ pubnonce' = [pubnonce EXCEPT ![i] = w]
          /\ to_coord' = [to_coord EXCEPT ![i] = Append(@, w)]
          /\ pc' = [pc EXCEPT ![i] = "await_aggnonce"]
      BY <1>2 DEF FaultyStart, SendToCoordinator, Goes
    <2> QED BY <2>1, <2>2, StartStep
  <1> QED BY <1>1, <1>2

\* Round two, likewise.
LEMMA SignIInv ==
  ASSUME IInv, NEW i \in Signers,
         ParticipantSign(i) \/ \E s \in FaultyPsigs : FaultySign(i, s)
  PROVE  /\ IInv' /\ returned' = returned /\ session' = session /\ coord' = coord
         /\ pc[i] = "await_aggnonce"
         /\ psig' = psig \/ \E s : psig' = [psig EXCEPT ![i] = <<s>>]
  <1>1. /\ pc[i] = "await_aggnonce" /\ Receive(i)
        /\ UNCHANGED <<session, pubnonce, returned, coord>>
        /\ \/ pc' = [pc EXCEPT ![i] = "raised"] /\ UNCHANGED <<psig, to_coord>>
           \/ \E s \in Scalars \cup FaultyPsigs :
                /\ psig' = [psig EXCEPT ![i] = <<s>>]
                /\ to_coord' = [to_coord EXCEPT ![i] = Append(@, <<s>>)]
                /\ pc' = [pc EXCEPT ![i] = "await_final"]
    <2>1. CASE ParticipantSign(i)
      <3> DEFINE ctx == ContextOf(Head(to_part[i]), i # 1)
                 signed == Sign(secnonce[i], session.secshares[i], session.ids[i], ctx)
                 s == signed.result.val
      <3>1. /\ pc[i] = "await_aggnonce" /\ Receive(i) /\ SendPsig(i, ctx, signed)
            /\ UNCHANGED <<session, pubnonce, returned, coord>>
        BY <2>1 DEF ParticipantSign
      <3> HIDE DEF ctx, signed
      <3>2. SelfCheck(i, s, ctx) => s \in Scalars BY CheckedIsScalar
      <3>3. \/ pc' = [pc EXCEPT ![i] = "raised"] /\ UNCHANGED <<psig, to_coord>>
            \/ /\ s \in Scalars
               /\ psig' = [psig EXCEPT ![i] = <<s>>]
               /\ to_coord' = [to_coord EXCEPT ![i] = Append(@, <<s>>)]
               /\ pc' = [pc EXCEPT ![i] = "await_final"]
        BY <3>1, <3>2 DEF SendPsig, SendToCoordinator, Goes
      <3> QED BY <3>1, <3>3
    <2>2. CASE \E s \in FaultyPsigs : FaultySign(i, s)
      BY <2>2 DEF FaultySign, SendToCoordinator, Goes
    <2> QED BY <2>1, <2>2
  <1> QED BY <1>1, SignStep

\* The invariant is inductive.
LEMMA NextIInv == IInv /\ [Next]_vars => IInv'
  <1> SUFFICES ASSUME IInv, [Next]_vars PROVE IInv' OBVIOUS
  <1>1. CASE UNCHANGED vars
    <2>1. Signers' = Signers BY <1>1 DEF vars, Signers
    <2>2. /\ Shapes' /\ CoordInv'
      BY <1>1, <2>1 DEF vars, IInv, Shapes, CoordInv
    <2>3. \A i \in Signers : QueueInv(i)'
      BY <1>1 DEF vars, IInv, QueueInv, Sent, Taken, Broadcast, LastBroadcast
    <2> QED BY <2>1, <2>2, <2>3 DEF IInv
  <1>2. ASSUME NEW i \in Signers, ParticipantStep(i) \/ FaultyStep(i) PROVE IInv'
    BY <1>2, StartIInv, SignIInv, FinishIInv DEF ParticipantStep, FaultyStep
  <1>3. CASE CoordinatorStep
    BY <1>3, ReceivePubnonceIInv, ReceivePsigIInv DEF CoordinatorStep
  <1>4. CASE CancelRemaining BY <1>4, CancelIInv
  <1> QED BY <1>1, <1>2, <1>3, <1>4 DEF Next

\* Whoever returns from a session returns the coordinator's signature
\* (example.py:203-206 and 239-241: the broadcast and what it is received as).
THEOREM SessionAgreement == Spec => []Agreement
  <1>1. IInv => Agreement BY DEF IInv, QueueInv, Agreement
  <1> QED BY <1>1, InitIInv, NextIInv, PTL DEF Spec

-----------------------------------------------------------------------------
(* The session implements the abstract one.                                *)

\* A signer starts, signs or finishes: it consents at most once, and before
\* the signature is issued; or it is delivered the signature.
LEMMA SignerRefines ==
  ASSUME IInv, NEW i \in Signers, ParticipantStep(i) \/ FaultyStep(i)
  PROVE  [Abstract!Next]_(Abstract!vars)
  <1>1. ASSUME \/ \E k_1, k_2 \in NonceScalars : ParticipantStart(i, k_1, k_2)
               \/ \E w \in FaultyPubnonces : FaultyStart(i, w)
        PROVE  UNCHANGED Abstract!vars
    <2>1. UNCHANGED <<psig, returned, session, coord>> BY <1>1, StartIInv
    <2> QED BY <2>1 DEF Abstract!vars, Signers, Consented, Delivered, Outcome
  <1>2. ASSUME ParticipantSign(i) \/ \E s \in FaultyPsigs : FaultySign(i, s)
        PROVE  UNCHANGED Abstract!vars \/ Abstract!Consent(i)
    <2>1. /\ UNCHANGED <<returned, session, coord>> /\ pc[i] = "await_aggnonce"
          /\ psig' = psig \/ \E s : psig' = [psig EXCEPT ![i] = <<s>>]
      BY <1>2, SignIInv
    <2>2. Signers' = Signers /\ Delivered' = Delivered /\ Outcome' = Outcome
      BY <2>1 DEF Signers, Delivered, Outcome
    <2>3. CASE psig' = psig
      <3>1. Consented' = Consented BY <2>2, <2>3 DEF Consented
      <3> QED BY <2>2, <3>1 DEF Abstract!vars
    <2>4. ASSUME NEW s, psig' = [psig EXCEPT ![i] = <<s>>]
          PROVE  Abstract!Consent(i)
      <3>1. psig[i] = NoValue /\ coord.pc # "returned"
        BY <2>1 DEF IInv, QueueInv, CoordInv
      <3>2. i \notin Consented /\ Outcome # "signed" BY <3>1 DEF Consented, Outcome
      <3>3. psig \in [Signers -> Contributions \cup {NoValue}] BY DEF IInv, Shapes
      <3>4. psig'[i] # NoValue /\ \A j \in Signers \ {i} : psig'[j] = psig[j]
        BY <2>4, <3>3, Queues DEF NoValue
      <3>5. Consented' = Consented \cup {i} BY <2>2, <3>4 DEF Consented
      <3> QED BY <2>2, <3>2, <3>5 DEF Abstract!Consent
    <2> QED BY <2>1, <2>3, <2>4
  <1>3. ASSUME ParticipantFinish(i) PROVE Abstract!Deliver(i)
    <2>1. /\ coord.pc = "returned" /\ returned[i] = NoValue
          /\ returned' = [returned EXCEPT ![i] = coord.final_sig]
          /\ coord.final_sig # NoValue
      BY <1>3, FinishIInv
    <2>2. UNCHANGED <<session, psig, coord>> BY <1>3 DEF ParticipantFinish
    <2>3. Signers' = Signers /\ Consented' = Consented /\ Outcome' = Outcome
      BY <2>2 DEF Signers, Consented, Outcome
    <2>4. returned = [j \in Signers |-> returned[j]] BY DEF IInv, Shapes
    <2>5. Delivered' = Delivered \cup {i} BY <2>1, <2>3, <2>4 DEF Delivered
    <2> QED BY <2>1, <2>3, <2>5 DEF Abstract!Deliver, Delivered, Outcome
  <1> QED BY <1>1, <1>2, <1>3 DEF ParticipantStep, FaultyStep, Abstract!Next

\* The coordinator goes on, gives up, or issues the signature with everybody's
\* consent; a cancellation gives up.
LEMMA CoordinatorRefines ==
  ASSUME IInv, CoordinatorStep \/ CancelRemaining
  PROVE  [Abstract!Next]_(Abstract!vars)
  <1>1. /\ psig' = psig /\ returned' = returned /\ session' = session /\ IInv'
        /\ \/ coord.pc = "await_pubnonce" /\ coord'.pc \in {"await_pubnonce", "await_psig", "raised"}
           \/ coord.pc = "await_psig" /\ coord'.pc \in {"await_psig", "raised", "returned"}
           \/ coord'.pc = IF coord.pc \in Running THEN "cancelled" ELSE coord.pc
    BY ReceivePubnonceIInv, ReceivePsigIInv, CancelIInv DEF CoordinatorStep
  <1>2. Signers' = Signers BY <1>1 DEF Signers
  <1>3. Consented' = Consented /\ Delivered' = Delivered
    BY <1>1, <1>2 DEF Consented, Delivered
  <1>4. \/ Outcome' = Outcome
        \/ Outcome = "open" /\ Outcome' = "aborted"
        \/ Outcome = "open" /\ Outcome' = "signed" /\ coord'.pc = "returned"
    BY <1>1 DEF Outcome, Running
  <1>5. coord'.pc = "returned" => Consented = Signers
    BY <1>1, <1>2 DEF IInv, CoordInv, Consented
  <1> QED
    BY <1>2, <1>3, <1>4, <1>5 DEF Abstract!Next, Abstract!vars, Abstract!Issue, Abstract!GiveUp

\* Unanimity: a session signs only once every listed signer has sent a partial
\* signature, and hands out nothing but its signature (example.py:184-206: the
\* coordinator verifies every partial signature before it aggregates).
THEOREM SessionIsUnanimous == Spec => ImplementsSession
  <1>1. Init => Abstract!Init
    <2> SUFFICES ASSUME Init PROVE Abstract!Init OBVIOUS
    <2>1. /\ \A i \in Signers : psig[i] = NoValue /\ returned[i] = NoValue
          /\ coord.pc = "await_pubnonce"
      BY DEF Init
    <2> QED BY <2>1 DEF Abstract!Init, Consented, Delivered, Outcome
  <1>2. IInv /\ [Next]_vars => [Abstract!Next]_(Abstract!vars)
    <2> SUFFICES ASSUME IInv, [Next]_vars PROVE [Abstract!Next]_(Abstract!vars) OBVIOUS
    <2>1. CASE UNCHANGED vars
      BY <2>1 DEF vars, Abstract!vars, Signers, Consented, Delivered, Outcome
    <2> QED BY <2>1, SignerRefines, CoordinatorRefines DEF Next
  <1> QED BY <1>1, <1>2, InitIInv, NextIInv, PTL DEF Spec, ImplementsSession, Abstract!Spec

-----------------------------------------------------------------------------
(* What the messages hold.                                                 *)

\* The message that participant i sends as its k-th one.
Message(i, k) == IF k = 1 THEN pubnonce[i] ELSE psig[i]

\* What waits for the coordinator, while it still receives.
Holds(i) ==
  /\ psig[i] # NoValue => pubnonce[i] # NoValue
  /\ coord.pc \in {"await_pubnonce", "await_psig"} =>
       \A k \in DOMAIN to_coord[i] : to_coord[i][k] = Message(i, Taken(i) + k)

\* The coordinator verified what it collected from i under the context that it
\* aggregates with.
Verified(i) ==
  PartialSigVerify(coord.psigs[i], coord.pubnonces, ContextOf(coord.aggnonce, TRUE), i)
    = Returns(TRUE)

\* What the coordinator has collected is what the signers sent.
Collected ==
  /\ Len(coord.pubnonces) <= Len(session.ids) /\ Len(coord.psigs) <= Len(session.ids)
  /\ \A i \in DOMAIN coord.pubnonces : pubnonce[i] # NoValue /\ coord.pubnonces[i] = pubnonce[i]
  /\ \A i \in DOMAIN coord.psigs :
       psig[i] # NoValue /\ coord.psigs[i] = psig[i][1] /\ Verified(i)
  /\ coord.aggnonce # NoValue =>
       /\ Len(coord.pubnonces) = Len(session.ids)
       /\ NonceAgg(coord.pubnonces) = Returns(coord.aggnonce)
  /\ coord.pc = "returned" =>
       /\ Len(coord.psigs) = Len(session.ids)
       /\ PartialSigAgg(coord.psigs, ContextOf(coord.aggnonce, TRUE)) = Returns(coord.final_sig)

\* What every signer holds and sent, and what the coordinator made of it.
Content == (\A i \in Signers : Holds(i)) /\ Collected

\* The state before round one.
LEMMA InitContent == Init => Content
  <1> SUFFICES ASSUME Init PROVE Content OBVIOUS
  <1>1. IInv BY InitIInv
  <1>2. Len(session.ids) \in Nat /\ Signers = 1 .. Len(session.ids)
    BY <1>1, Positions DEF IInv
  <1>3. /\ coord.pubnonces = <<>> /\ coord.psigs = <<>> /\ coord.aggnonce = NoValue
        /\ coord.pc = "await_pubnonce"
        /\ \A i \in Signers : psig[i] = NoValue /\ to_coord[i] = <<>>
    BY DEF Init
  <1> QED BY <1>2, <1>3 DEF Content, Holds, Collected

\* A step of participant i sends its next message, or none.
Sends(i, m) ==
  /\ m # NoValue /\ psig[i] = NoValue /\ to_coord'[i] = Append(to_coord[i], m)
  /\ \/ pubnonce[i] = NoValue /\ pubnonce'[i] = m /\ psig'[i] = NoValue
     \/ pubnonce[i] # NoValue /\ pubnonce'[i] = pubnonce[i] /\ psig'[i] = m

\* Participant i sends nothing in this step.
SendsNothing(i) ==
  pubnonce'[i] = pubnonce[i] /\ psig'[i] = psig[i] /\ to_coord'[i] = to_coord[i]

\* A step of a participant keeps what is said of the messages.
LEMMA SendContent ==
  ASSUME IInv, Content, NEW i \in Signers, session' = session, coord' = coord,
         \A j \in Signers \ {i} : SendsNothing(j),
         SendsNothing(i) \/ \E m : Sends(i, m)
  PROVE  Content'
  <1>1. Signers' = Signers /\ Signers = 1 .. Len(session.ids) /\ Len(session.ids) \in Nat
    BY Positions DEF Signers, IInv
  <1>2. Collected'
    <2>1. DOMAIN coord.pubnonces \subseteq Signers /\ DOMAIN coord.psigs \subseteq Signers
      <3>1. /\ coord.pubnonces \in Seq(Contributions)
            /\ coord.psigs \in Seq({m[1] : m \in Contributions})
        BY DEF IInv, Shapes
      <3> QED BY <1>1, <3>1 DEF Content, Collected
    <2>2. \A j \in Signers : pubnonce[j] # NoValue => pubnonce'[j] = pubnonce[j]
      BY DEF Sends, SendsNothing
    <2>3. \A j \in Signers : psig[j] # NoValue => psig'[j] = psig[j]
      BY DEF Sends, SendsNothing
    <2>4. \A j : Verified(j)' <=> Verified(j)
      BY DEF Verified, ContextOf
    <2>5. PartialSigAgg(coord.psigs, ContextOf(coord.aggnonce, TRUE))'
            = PartialSigAgg(coord.psigs, ContextOf(coord.aggnonce, TRUE))
      BY DEF ContextOf
    <2> QED BY <2>1, <2>2, <2>3, <2>4, <2>5 DEF Content, Collected
  <1>3. ASSUME NEW j \in Signers PROVE Holds(j)'
    <2>1. Holds(j) /\ Taken(j)' = Taken(j) BY DEF Content, Taken
    <2>2. CASE SendsNothing(j) BY <2>1, <2>2 DEF SendsNothing, Holds, Message
    <2>3. ASSUME NEW m, Sends(j, m) PROVE Holds(j)'
      <3>1. psig'[j] # NoValue => pubnonce'[j] # NoValue BY <2>3 DEF Sends
      <3>2. SUFFICES ASSUME coord.pc \in {"await_pubnonce", "await_psig"},
                            NEW k \in DOMAIN to_coord'[j]
                     PROVE  to_coord'[j][k] = Message(j, Taken(j) + k)'
        BY <2>1, <3>1 DEF Holds
      <3>3. to_coord[j] \in Seq(Contributions) BY DEF IInv, Shapes
      <3>4. Sent(j) = Taken(j) + Len(to_coord[j]) BY <3>2 DEF IInv, QueueInv
      <3>5. Taken(j) \in Nat /\ Len(to_coord[j]) \in Nat BY <3>3 DEF Taken, One
      <3> DEFINE q == to_coord[j]
                 r == to_coord'[j]
      <3>6. r = Append(q, m) /\ q \in Seq(Contributions) BY <2>3, <3>3 DEF Sends
      <3> HIDE DEF q, r
      <3>7. /\ DOMAIN r = 1 .. Len(q) + 1 /\ r[Len(q) + 1] = m
            /\ \A l \in 1 .. Len(q) : r[l] = q[l]
        BY <3>6
      <3>8. CASE k = Len(q) + 1
        <4>1. r[k] = m /\ Taken(j) + k = Sent(j) + 1 BY <3>4, <3>5, <3>7, <3>8 DEF q
        <4>2. CASE pubnonce[j] = NoValue
          <5>1. Sent(j) = 0 /\ pubnonce'[j] = m BY <2>3, <4>2 DEF Sends, Sent, One
          <5> QED BY <2>1, <4>1, <5>1 DEF Message, r
        <4>3. CASE pubnonce[j] # NoValue
          <5>1. Sent(j) = 1 /\ psig'[j] = m BY <2>3, <4>3 DEF Sends, Sent, One
          <5> QED BY <2>1, <4>1, <5>1 DEF Message, r
        <4> QED BY <4>2, <4>3
      <3>9. CASE k # Len(q) + 1
        <4>1. k \in 1 .. Len(q) /\ Len(q) \in Nat BY <3>2, <3>5, <3>7, <3>9 DEF r, q
        <4>2. r[k] = Message(j, Taken(j) + k) BY <2>1, <3>2, <3>6, <3>7, <4>1 DEF Holds, q
        <4>3. Sent(j) \in {0, 1} /\ (pubnonce[j] = NoValue => Sent(j) = 0)
          BY <2>3 DEF Sends, Sent, One
        <4>4. Taken(j) + k = 1 /\ pubnonce[j] # NoValue
          BY <3>4, <3>5, <4>1, <4>3 DEF q
        <4>5. pubnonce'[j] = pubnonce[j] BY <2>3, <4>4 DEF Sends
        <4> QED BY <2>1, <4>2, <4>4, <4>5 DEF Message, r
      <3> QED BY <3>8, <3>9
    <2> QED BY <2>2, <2>3
  <1> QED BY <1>1, <1>2, <1>3 DEF Content

\* What the coordinator takes next from signer i, and what is left after it.
LEMMA TakeContent ==
  ASSUME IInv, Content, coord.pc \in {"await_pubnonce", "await_psig"}, NEW i \in Signers,
         ReceiveFrom(i)
  PROVE  /\ Taken(i) = 0 => pubnonce[i] # NoValue /\ Head(to_coord[i]) = pubnonce[i]
         /\ Taken(i) = 1 => psig[i] # NoValue /\ Head(to_coord[i]) = psig[i]
         /\ pubnonce' = pubnonce /\ psig' = psig /\ session' = session
            /\ (\A j \in Signers : Taken(j)' = Taken(j) + One(j = i))
            => \A j \in Signers : Holds(j)'
  <1>1. to_coord \in [Signers -> Seq(Contributions)] BY DEF IInv, Shapes
  <1>2. to_coord[i] # <<>> /\ to_coord[i] \in Seq(Contributions) BY <1>1 DEF ReceiveFrom
  <1>3. /\ Head(to_coord[i]) = to_coord[i][1] /\ 1 \in DOMAIN to_coord[i]
        /\ Len(to_coord[i]) \in Nat \ {0}
    BY <1>2
  <1>4. Holds(i) /\ Sent(i) = Taken(i) + Len(to_coord[i]) /\ Taken(i) \in Nat
    <2>1. Taken(i) \in Nat BY DEF Taken, One
    <2>2. QueueInv(i) /\ Holds(i) BY DEF Content, IInv
    <2> QED BY <2>1, <2>2 DEF QueueInv
  <1>5. Head(to_coord[i]) = Message(i, Taken(i) + 1) BY <1>3, <1>4 DEF Holds
  <1>6. ASSUME Taken(i) = 0
        PROVE  pubnonce[i] # NoValue /\ Head(to_coord[i]) = pubnonce[i]
    <2>1. Sent(i) # 0 BY <1>3, <1>4, <1>6
    <2>2. pubnonce[i] # NoValue BY <1>4, <2>1 DEF Sent, One, Holds
    <2> QED BY <1>5, <1>6, <2>2 DEF Message
  <1>7. ASSUME Taken(i) = 1
        PROVE  psig[i] # NoValue /\ Head(to_coord[i]) = psig[i]
    <2>1. Sent(i) # 0 /\ Sent(i) # 1 BY <1>3, <1>4, <1>7
    <2>2. psig[i] # NoValue BY <2>1 DEF Sent, One
    <2> QED BY <1>5, <1>7, <2>2 DEF Message
  <1>8. ASSUME pubnonce' = pubnonce, psig' = psig, session' = session,
               \A j \in Signers : Taken(j)' = Taken(j) + One(j = i), NEW j \in Signers
        PROVE  Holds(j)'
    <2>1. /\ Holds(j) /\ to_coord[j] \in Seq(Contributions) /\ Taken(j) \in Nat
          /\ Taken(j)' = Taken(j) + One(j = i)
      BY <1>1, <1>8 DEF Content, Taken, One
    <2> DEFINE q == to_coord[j]
               r == to_coord'[j]
    <2>2. CASE j = i
      <3>1. r = Tail(q) /\ q # <<>> BY <1>1, <2>2 DEF ReceiveFrom
      <3>2. q \in Seq(Contributions) BY <2>1
      <3>3. Taken(j)' = Taken(j) + 1 BY <2>1, <2>2 DEF One
      <3> HIDE DEF q, r
      <3>4. \A k \in DOMAIN r : k \in Nat /\ k + 1 \in DOMAIN q /\ r[k] = q[k + 1]
        BY <3>1, <3>2
      <3>5. \A k \in DOMAIN q : q[k] = Message(j, Taken(j) + k) BY <2>1 DEF Holds, q
      <3>6. \A k \in DOMAIN r : r[k] = Message(j, Taken(j)' + k)
        <4> TAKE k \in DOMAIN r
        <4>1. k \in Nat /\ r[k] = Message(j, Taken(j) + (k + 1)) BY <3>4, <3>5
        <4>2. Taken(j) + (k + 1) = Taken(j)' + k BY <2>1, <3>3, <4>1
        <4> QED BY <4>1, <4>2
      <3>7. \A k : Message(j, k)' = Message(j, k') BY <1>8 DEF Message
      <3> QED BY <1>8, <2>1, <3>6 DEF Holds, Message, r
    <2>3. CASE j # i
      <3>1. r = q BY <1>1, <2>3 DEF ReceiveFrom
      <3>2. Taken(j)' = Taken(j) BY <2>1, <2>3 DEF One
      <3> QED BY <1>8, <2>1, <3>1, <3>2 DEF Holds, Message
    <2> QED BY <2>2, <2>3
  <1> QED BY <1>6, <1>7, <1>8

\* Aggregating returns something or fails.
LEMMA AggregateResults ==
  /\ \A pubnonces : Succeeds(NonceAgg(pubnonces)) =>
       NonceAgg(pubnonces) = Returns(NonceAgg(pubnonces).val)
  /\ \A psigs, ctx : Succeeds(PartialSigAgg(psigs, ctx)) =>
       PartialSigAgg(psigs, ctx) = Returns(PartialSigAgg(psigs, ctx).val)
  <1>1. ASSUME NEW pubnonces, Succeeds(NonceAgg(pubnonces))
        PROVE  NonceAgg(pubnonces) = Returns(NonceAgg(pubnonces).val)
    BY <1>1 DEF NonceAgg, Succeeds, Returns, AssertionError, InvalidContribution
  <1>2. ASSUME NEW psigs, NEW ctx, Succeeds(PartialSigAgg(psigs, ctx))
        PROVE  PartialSigAgg(psigs, ctx) = Returns(PartialSigAgg(psigs, ctx).val)
    <2> DEFINE values == GetSessionValues(ctx)
    <2>1. Succeeds(values) BY <1>2 DEF PartialSigAgg, Then
    <2> QED BY <1>2, <2>1
            DEF PartialSigAgg, Then, Succeeds, Returns, ValueError, InvalidContribution
  <1> QED BY <1>1, <1>2

\* Round one of the coordinator.
LEMMA ReceivePubnonceContent ==
  ASSUME IInv, Content, CoordinatorReceivePubnonce
  PROVE  /\ Content'
         /\ coord'.aggnonce # NoValue => coord.aggnonce = NoValue
  <1> DEFINE i == Len(coord.pubnonces) + 1
             pubnonces == Append(coord.pubnonces, Head(to_coord[i]))
             agg == NonceAgg(pubnonces)
             u == Len(session.ids)
  <1>1. /\ coord.pc = "await_pubnonce" /\ ReceiveFrom(i)
        /\ session' = session /\ pubnonce' = pubnonce /\ psig' = psig
    BY DEF CoordinatorReceivePubnonce, participantVars
  <1>2. \/ i < u /\ coord' = [coord EXCEPT !.pubnonces = pubnonces]
        \/ /\ ~ (i < u) /\ Succeeds(agg)
           /\ coord' = [coord EXCEPT !.pubnonces = pubnonces, !.aggnonce = agg.val,
                                     !.pc = "await_psig"]
        \/ coord' = [coord EXCEPT !.pubnonces = pubnonces, !.raised = agg, !.pc = "raised"]
    BY DEF CoordinatorReceivePubnonce
  <1>3. Signers' = Signers /\ u \in Nat \ {0} /\ Signers = 1 .. u
    BY <1>1, Positions DEF Signers, IInv
  <1>4. /\ coord.pubnonces \in Seq(Contributions) /\ Len(coord.pubnonces) < u
        /\ coord.psigs = <<>> /\ coord.aggnonce = NoValue
        /\ to_coord \in [Signers -> Seq(Contributions)]
        /\ coord = [pc |-> coord.pc, pubnonces |-> coord.pubnonces, aggnonce |-> coord.aggnonce,
                    psigs |-> coord.psigs, final_sig |-> coord.final_sig, raised |-> coord.raised]
    BY <1>1 DEF IInv, Shapes, CoordInv
  <1>5. i \in Signers /\ i \in Nat /\ Len(coord.pubnonces) = i - 1
    <2>1. Len(coord.pubnonces) \in Nat BY <1>4
    <2> QED BY <1>3, <1>4, <2>1
  <1>6. Taken(i) = 0 BY <1>4, <1>5 DEF Taken, One
  <1>7. pubnonce[i] # NoValue /\ Head(to_coord[i]) = pubnonce[i]
    BY <1>1, <1>5, <1>6, TakeContent
  <1>8. /\ DOMAIN pubnonces = 1 .. i /\ Len(pubnonces) = i
        /\ \A j \in 1 .. i : pubnonce[j] # NoValue /\ pubnonces[j] = pubnonce[j]
    <2>1. Head(to_coord[i]) \in Contributions
      <3>1. to_coord[i] \in Seq(Contributions) /\ to_coord[i] # <<>>
        BY <1>1, <1>4, <1>5 DEF ReceiveFrom
      <3> QED BY <3>1
    <2> DEFINE m == Head(to_coord[i])
               p == coord.pubnonces
    <2>2. m \in Contributions /\ p \in Seq(Contributions) /\ Len(p) = i - 1 BY <1>4, <1>5, <2>1
    <2>3. \A j \in DOMAIN p : pubnonce[j] # NoValue /\ p[j] = pubnonce[j]
      BY DEF Content, Collected
    <2>4. m = pubnonce[i] /\ pubnonces = Append(p, m) BY <1>7
    <2> HIDE DEF m, p, pubnonces
    <2>5. DOMAIN pubnonces = 1 .. Len(p) + 1 /\ Len(pubnonces) = Len(p) + 1 BY <2>2, <2>4
    <2>6. \A j \in 1 .. Len(p) + 1 : pubnonces[j] = IF j = Len(p) + 1 THEN m ELSE p[j]
      BY <2>2, <2>4
    <2>7. Len(p) + 1 = i /\ DOMAIN p = 1 .. i - 1 BY <1>5, <2>2
    <2> QED BY <1>5, <1>7, <2>3, <2>4, <2>5, <2>6, <2>7
  <1> HIDE DEF i, pubnonces, agg, u
  <1>9. /\ coord'.pubnonces = pubnonces /\ coord'.psigs = <<>>
        /\ \/ coord'.pc = "await_pubnonce" /\ coord'.aggnonce = NoValue
           \/ /\ ~ (i < u) /\ Succeeds(agg) /\ coord'.pc = "await_psig"
              /\ coord'.aggnonce = agg.val
           \/ coord'.pc = "raised" /\ coord'.aggnonce = NoValue
    BY <1>1, <1>2, <1>4
  <1>10. Collected'
    <2>1. coord'.aggnonce # NoValue => i = u /\ agg = Returns(coord'.aggnonce)
      <3>1. Succeeds(agg) => agg = Returns(agg.val) BY AggregateResults DEF agg
      <3> QED BY <1>3, <1>5, <1>9, <3>1
    <2>2. Len(coord'.psigs) = 0 /\ DOMAIN coord'.psigs = {} BY <1>9
    <2>3. i <= u BY <1>3, <1>5
    <2>4. session'.ids = session.ids /\ coord'.pc # "returned" BY <1>1, <1>9
    <2>5. Len(coord'.pubnonces) <= u /\ Len(coord'.psigs) <= u
      BY <1>3, <1>8, <1>9, <2>2, <2>3
    <2>6. \A j \in DOMAIN coord'.pubnonces :
            pubnonce'[j] # NoValue /\ coord'.pubnonces[j] = pubnonce'[j]
      BY <1>1, <1>8, <1>9
    <2>7. coord'.aggnonce # NoValue =>
            Len(coord'.pubnonces) = u /\ NonceAgg(coord'.pubnonces) = Returns(coord'.aggnonce)
      BY <1>8, <1>9, <2>1 DEF agg
    <2> QED BY <2>2, <2>4, <2>5, <2>6, <2>7 DEF Collected, u
  <1>11. \A j \in Signers : Taken(j)' = Taken(j) + One(j = i)
    <2>1. Len(coord.psigs) = 0 /\ Len(coord'.psigs) = 0 BY <1>4, <1>9
    <2>2. \A j \in Signers : j \in Nat /\ j > 0 BY <1>3
    <2> QED BY <1>5, <1>8, <1>9, <2>1, <2>2 DEF Taken, One
  <1>12. \A j \in Signers : Holds(j)' BY <1>1, <1>5, <1>11, TakeContent
  <1> QED BY <1>3, <1>4, <1>10, <1>12 DEF Content

\* Round two of the coordinator.
LEMMA ReceivePsigContent ==
  ASSUME IInv, Content, CoordinatorReceivePsig
  PROVE  /\ Content' /\ coord'.aggnonce = coord.aggnonce
  <1> DEFINE i == Len(coord.psigs) + 1
             s == Head(to_coord[i])[1]
             psigs == Append(coord.psigs, s)
             ctx == ContextOf(coord.aggnonce, TRUE)
             verified == PartialSigVerify(s, coord.pubnonces, ctx, i)
             final == PartialSigAgg(psigs, ctx)
             u == Len(session.ids)
             yes == Returns(TRUE)
  <1>1. /\ coord.pc = "await_psig" /\ ReceiveFrom(i)
        /\ session' = session /\ pubnonce' = pubnonce /\ psig' = psig
    BY DEF CoordinatorReceivePsig, participantVars
  <1>2. \/ i = u /\ verified = yes /\ Conclude(psigs, final)
        \/ JudgePsig(i, psigs, verified)
    BY DEF CoordinatorReceivePsig
  <1>3. Signers' = Signers /\ u \in Nat \ {0} /\ Signers = 1 .. u
    BY <1>1, Positions DEF Signers, IInv
  <1>4. /\ coord.psigs \in Seq({m[1] : m \in Contributions}) /\ Len(coord.psigs) < u
        /\ Len(coord.pubnonces) = u /\ coord.pubnonces \in Seq(Contributions)
        /\ coord.aggnonce # NoValue
        /\ to_coord \in [Signers -> Seq(Contributions)]
        /\ coord = [pc |-> coord.pc, pubnonces |-> coord.pubnonces, aggnonce |-> coord.aggnonce,
                    psigs |-> coord.psigs, final_sig |-> coord.final_sig, raised |-> coord.raised]
    BY <1>1 DEF IInv, Shapes, CoordInv
  <1>5. i \in Signers /\ i \in Nat /\ Len(coord.psigs) = i - 1
    <2>1. Len(coord.psigs) \in Nat BY <1>4
    <2> QED BY <1>3, <1>4, <2>1
  <1>6. Taken(i) = 1 BY <1>3, <1>4, <1>5 DEF Taken, One
  <1>7. psig[i] # NoValue /\ Head(to_coord[i]) = psig[i]
    BY <1>1, <1>5, <1>6, TakeContent
  <1>8. /\ DOMAIN psigs = 1 .. i /\ Len(psigs) = i /\ psigs[i] = s
        /\ DOMAIN coord.psigs = 1 .. i - 1
        /\ \A j \in 1 .. i - 1 : psigs[j] = coord.psigs[j]
    <2> DEFINE p == coord.psigs
    <2>1. s \in {m[1] : m \in Contributions}
      <3>1. to_coord[i] \in Seq(Contributions) /\ to_coord[i] # <<>>
        BY <1>1, <1>4, <1>5 DEF ReceiveFrom
      <3>2. Head(to_coord[i]) \in Contributions BY <3>1
      <3> QED BY <3>2
    <2>2. p \in Seq({m[1] : m \in Contributions}) /\ Len(p) = i - 1 BY <1>4, <1>5
    <2>3. psigs = Append(p, s) OBVIOUS
    <2> HIDE DEF p, s, psigs
    <2>4. DOMAIN psigs = 1 .. Len(p) + 1 /\ Len(psigs) = Len(p) + 1 BY <2>1, <2>2, <2>3
    <2>5. \A j \in 1 .. Len(p) + 1 : psigs[j] = IF j = Len(p) + 1 THEN s ELSE p[j]
      BY <2>1, <2>2, <2>3
    <2>6. Len(p) + 1 = i /\ DOMAIN p = 1 .. i - 1 BY <1>5, <2>2
    <2> QED BY <1>5, <2>4, <2>5, <2>6 DEF p
  <1>9. s = psig[i][1] BY <1>7
  <1> HIDE DEF i, s, psigs, ctx, verified, final, u, yes
  <1>10. /\ coord'.pubnonces = coord.pubnonces /\ coord'.aggnonce = coord.aggnonce
         /\ \/ coord'.psigs = psigs /\ verified = yes
            \/ coord'.psigs = coord.psigs /\ coord'.pc = "raised"
         /\ coord'.pc \in {"await_psig", "returned", "raised"}
         /\ coord'.pc = "returned" =>
              /\ i = u /\ Succeeds(final) /\ coord'.final_sig = final.val
              /\ coord'.psigs = psigs
    <2>1. CASE i = u /\ verified = yes /\ Conclude(psigs, final)
      <3>1. CASE Succeeds(final) BY <1>1, <1>4, <2>1, <3>1 DEF Conclude
      <3>2. CASE ~ Succeeds(final) BY <1>1, <1>4, <2>1, <3>2 DEF Conclude
      <3> QED BY <3>1, <3>2
    <2>2. CASE JudgePsig(i, psigs, verified)
      <3>1. CASE verified = yes
        <4>1. coord' = [coord EXCEPT !.psigs = psigs] BY <2>2, <3>1 DEF JudgePsig, yes
        <4> QED BY <1>1, <1>4, <3>1, <4>1
      <3>2. CASE verified # yes
        <4> DEFINE e == IF Succeeds(verified) THEN VerificationFailed(i) ELSE verified
        <4>1. coord' = [coord EXCEPT !.pc = "raised", !.raised = e]
          BY <2>2, <3>2, Zenon DEF JudgePsig, yes
        <4> HIDE DEF e
        <4> QED BY <1>1, <1>4, <4>1
      <3> QED BY <3>1, <3>2
    <2> QED BY <1>2, <2>1, <2>2
  <1>11. ContextOf(coord.aggnonce, TRUE)' = ctx BY <1>1, <1>10 DEF ContextOf, ctx
  <1>12. ASSUME NEW j \in DOMAIN coord'.psigs
         PROVE  psig'[j] # NoValue /\ coord'.psigs[j] = psig'[j][1] /\ Verified(j)'
    <2>1. \A k \in 1 .. i - 1 : psig[k] # NoValue /\ coord.psigs[k] = psig[k][1] /\ Verified(k)
      BY <1>8 DEF Content, Collected
    <2>2. Verified(j)' <=> PartialSigVerify(coord'.psigs[j], coord.pubnonces, ctx, j) = yes
      BY <1>10, <1>11 DEF Verified, yes
    <2>3. CASE j \in 1 .. i - 1
      <3>1. coord'.psigs[j] = coord.psigs[j] BY <1>8, <1>10, <2>3
      <3> QED BY <1>1, <2>1, <2>2, <2>3, <3>1 DEF Verified, ctx, yes
    <2>4. CASE j \notin 1 .. i - 1
      <3>1. coord'.psigs = psigs /\ verified = yes /\ j = i
        BY <1>5, <1>8, <1>10, <2>4
      <3> QED BY <1>1, <1>7, <1>8, <1>9, <2>2, <3>1 DEF verified
    <2> QED BY <2>3, <2>4
  <1>13. Collected'
    <2>1. Len(coord'.pubnonces) <= u /\ Len(coord'.psigs) <= u
      BY <1>3, <1>4, <1>5, <1>8, <1>10
    <2>2. \A j \in DOMAIN coord'.pubnonces :
            pubnonce'[j] # NoValue /\ coord'.pubnonces[j] = pubnonce'[j]
      BY <1>1, <1>10 DEF Content, Collected
    <2>3. Len(coord'.pubnonces) = u /\ NonceAgg(coord'.pubnonces) = Returns(coord'.aggnonce)
      BY <1>4, <1>10 DEF Content, Collected, u
    <2>4. coord'.pc = "returned" =>
            /\ Len(coord'.psigs) = u
            /\ PartialSigAgg(coord'.psigs, ctx) = Returns(coord'.final_sig)
      <3>1. Succeeds(final) => final = Returns(final.val) BY AggregateResults DEF final
      <3> QED BY <1>8, <1>10, <3>1 DEF final
    <2>5. session'.ids = session.ids BY <1>1
    <2> QED BY <1>11, <1>12, <2>1, <2>2, <2>3, <2>4, <2>5 DEF Collected, u
  <1>14. \A j \in Signers : Holds(j)'
    <2>1. CASE coord'.psigs = psigs
      <3>1. \A j \in Signers : j \in Nat /\ j <= Len(coord.pubnonces) BY <1>3, <1>4 DEF u
      <3>2. \A j \in Signers : Taken(j)' = Taken(j) + One(j = i)
        BY <1>5, <1>8, <1>10, <2>1, <3>1 DEF Taken, One
      <3> QED BY <1>1, <1>5, <3>2, TakeContent
    <2>2. CASE coord'.pc = "raised"
      BY <1>1, <2>2 DEF Holds, Content
    <2> QED BY <1>10, <2>1, <2>2
  <1> QED BY <1>3, <1>10, <1>13, <1>14 DEF Content

\* The remaining steps send nothing to the coordinator.
LEMMA CancelContent ==
  ASSUME IInv, Content, CancelRemaining
  PROVE  Content'
  <1>1. /\ session' = session /\ pubnonce' = pubnonce /\ psig' = psig
        /\ coord' = [coord EXCEPT !.pc = IF @ \in Running THEN "cancelled" ELSE @]
    BY DEF CancelRemaining, participantVars
  <1> DEFINE place == IF coord.pc \in Running THEN "cancelled" ELSE coord.pc
  <1>2. /\ coord'.pc = place /\ coord'.pubnonces = coord.pubnonces
        /\ coord'.aggnonce = coord.aggnonce /\ coord'.psigs = coord.psigs
        /\ coord'.final_sig = coord.final_sig
    <2>1. coord = [pc |-> coord.pc, pubnonces |-> coord.pubnonces, aggnonce |-> coord.aggnonce,
                   psigs |-> coord.psigs, final_sig |-> coord.final_sig, raised |-> coord.raised]
      BY DEF IInv, Shapes
    <2>2. coord' = [coord EXCEPT !.pc = place] BY <1>1
    <2> HIDE DEF place
    <2> QED BY <2>1, <2>2
  <1>3. coord'.pc \notin {"await_pubnonce", "await_psig"} /\ (coord'.pc = "returned" => coord.pc = "returned")
    BY <1>2 DEF Running
  <1>4. Signers' = Signers BY <1>1 DEF Signers
  <1>5. \A j : Verified(j)' <=> Verified(j) BY <1>1, <1>2 DEF Verified, ContextOf
  <1>6. ContextOf(coord.aggnonce, TRUE)' = ContextOf(coord.aggnonce, TRUE)
    BY <1>1, <1>2 DEF ContextOf
  <1>7. Collected' BY <1>1, <1>2, <1>3, <1>5, <1>6 DEF Content, Collected
  <1>8. \A j \in Signers : Holds(j)' BY <1>1, <1>3 DEF Content, Holds
  <1> QED BY <1>4, <1>7, <1>8 DEF Content

\* A step of participant i sends at most its next message.
LEMMA ParticipantSends ==
  ASSUME IInv, NEW i \in Signers, ParticipantStep(i) \/ FaultyStep(i)
  PROVE  /\ session' = session /\ coord' = coord
         /\ \A j \in Signers \ {i} : SendsNothing(j)
         /\ SendsNothing(i) \/ \E m : Sends(i, m)
  <1>1. /\ pc \in [Signers -> Places]
        /\ pubnonce \in [Signers -> Contributions \cup {NoValue}]
        /\ psig \in [Signers -> Contributions \cup {NoValue}]
        /\ to_coord \in [Signers -> Seq(Contributions)]
    BY DEF IInv, Shapes
  <1>2. /\ pc[i] \in {"start", "await_aggnonce"} => psig[i] = NoValue
        /\ pc[i] = "start" => pubnonce[i] = NoValue
        /\ pc[i] = "await_aggnonce" => pubnonce[i] # NoValue
    BY DEF IInv, QueueInv
  <1>3. \A a, b : <<a>> # NoValue /\ <<a, b>> # NoValue BY Queues DEF NoValue
  \* The next two describe a first and a second message.
  <1>4. ASSUME NEW w, w # NoValue, pc[i] = "start",
               pubnonce' = [pubnonce EXCEPT ![i] = w], psig' = psig, SendToCoordinator(i, w)
        PROVE  (\A j \in Signers \ {i} : SendsNothing(j)) /\ Sends(i, w)
    BY <1>1, <1>2, <1>4 DEF SendsNothing, Sends, SendToCoordinator
  <1>5. ASSUME NEW s, pc[i] = "await_aggnonce",
               psig' = [psig EXCEPT ![i] = <<s>>], pubnonce' = pubnonce,
               SendToCoordinator(i, <<s>>)
        PROVE  (\A j \in Signers \ {i} : SendsNothing(j)) /\ Sends(i, <<s>>)
    BY <1>1, <1>2, <1>3, <1>5 DEF SendsNothing, Sends, SendToCoordinator
  <1>6. ASSUME pubnonce' = pubnonce, psig' = psig, to_coord' = to_coord
        PROVE  \A j \in Signers : SendsNothing(j)
    BY <1>6 DEF SendsNothing
  <1>7. ASSUME NEW k_1, NEW k_2, ParticipantStart(i, k_1, k_2)
        PROVE  /\ session' = session /\ coord' = coord
               /\ \A j \in Signers \ {i} : SendsNothing(j)
               /\ SendsNothing(i) \/ \E m : Sends(i, m)
    <2> DEFINE w == NonceGen(k_1, k_2).pubnonce
    <2>1. w # NoValue BY <1>3 DEF NonceGen
    <2>2. CASE Succeeds(Tweaked)
      <3>1. /\ pc[i] = "start" /\ pubnonce' = [pubnonce EXCEPT ![i] = w]
            /\ SendToCoordinator(i, w) /\ psig' = psig
        BY <1>7, <2>2 DEF ParticipantStart
      <3> HIDE DEF w
      <3> QED BY <1>4, <1>7, <2>1, <3>1 DEF ParticipantStart
    <2>3. CASE ~ Succeeds(Tweaked)
      BY <1>6, <1>7, <2>3 DEF ParticipantStart
    <2> QED BY <2>2, <2>3
  <1>8. ASSUME ParticipantSign(i)
        PROVE  /\ session' = session /\ coord' = coord
               /\ \A j \in Signers \ {i} : SendsNothing(j)
               /\ SendsNothing(i) \/ \E m : Sends(i, m)
    <2> DEFINE ctx == ContextOf(Head(to_part[i]), i # 1)
               signed == Sign(secnonce[i], session.secshares[i], session.ids[i], ctx)
               s == signed.result.val
    <2>1. /\ pc[i] = "await_aggnonce" /\ SendPsig(i, ctx, signed)
          /\ session' = session /\ coord' = coord /\ pubnonce' = pubnonce
      BY <1>8 DEF ParticipantSign
    <2> HIDE DEF ctx, signed, s
    <2>2. \/ psig' = [psig EXCEPT ![i] = <<s>>] /\ SendToCoordinator(i, <<s>>)
          \/ psig' = psig /\ to_coord' = to_coord
      BY <2>1 DEF SendPsig, s
    <2> QED BY <1>5, <1>6, <2>1, <2>2
  <1>9. CASE ParticipantFinish(i) BY <1>6, <1>9 DEF ParticipantFinish
  <1>10. ASSUME NEW w \in FaultyPubnonces, FaultyStart(i, w)
         PROVE  /\ session' = session /\ coord' = coord
                /\ \A j \in Signers \ {i} : SendsNothing(j)
                /\ SendsNothing(i) \/ \E m : Sends(i, m)
    <2>1. w # NoValue BY SessionAssumption DEF NoValue
    <2> QED BY <1>4, <1>10, <2>1 DEF FaultyStart
  <1>11. ASSUME NEW s \in FaultyPsigs, FaultySign(i, s)
         PROVE  /\ session' = session /\ coord' = coord
                /\ \A j \in Signers \ {i} : SendsNothing(j)
                /\ SendsNothing(i) \/ \E m : Sends(i, m)
    BY <1>5, <1>11 DEF FaultySign
  <1> QED BY <1>7, <1>8, <1>9, <1>10, <1>11 DEF ParticipantStep, FaultyStep

\* The contents of the messages are invariant.
LEMMA NextContent == IInv /\ Content /\ [Next]_vars => Content'
  <1> SUFFICES ASSUME IInv, Content, [Next]_vars PROVE Content' OBVIOUS
  <1>1. CASE UNCHANGED vars
    <2>1. Signers' = Signers BY <1>1 DEF vars, Signers
    <2>2. \A j : Verified(j)' <=> Verified(j) BY <1>1 DEF vars, Verified, ContextOf
    <2>3. ContextOf(coord.aggnonce, TRUE)' = ContextOf(coord.aggnonce, TRUE)
      BY <1>1 DEF vars, ContextOf
    <2>4. Collected' BY <1>1, <2>2, <2>3 DEF vars, Content, Collected
    <2>5. \A j \in Signers : Holds(j)'
      BY <1>1 DEF vars, Content, Holds, Message, Taken
    <2> QED BY <2>1, <2>4, <2>5 DEF Content
  <1>2. ASSUME NEW i \in Signers, ParticipantStep(i) \/ FaultyStep(i) PROVE Content'
    BY <1>2, ParticipantSends, SendContent
  <1>3. CASE CoordinatorStep
    BY <1>3, ReceivePubnonceContent, ReceivePsigContent DEF CoordinatorStep
  <1>4. CASE CancelRemaining BY <1>4, CancelContent
  <1> QED BY <1>1, <1>2, <1>3, <1>4 DEF Next

-----------------------------------------------------------------------------
(* The final signature.                                                    *)

\* What the set-up of a session provides.
LEMMA SetUp ==
  ASSUME Shapes
  PROVE  /\ SignerIds(session.ids) /\ session.ids \in Seq(Nat)
         /\ session.thresh_pk \in NonZero
         /\ session.thresh_pk = SumOfShares(session.ids, session.pubshares)
         /\ Len(session.pubshares) = Len(session.ids)
         /\ \A k \in Signers : session.pubshares[k] \in NonZero
         /\ \A agg, knows : SessionShape(ContextOf(agg, knows))
         /\ ValidParams(session.n, session.t, session.ids, session.pubshares, session.thresh_pk)
  <1>1. /\ session.n \in Int /\ session.t \in Int /\ session.ids \in Seq(Nat)
        /\ session.tweaks \in Seq(Int) /\ session.is_xonly \in Seq(BOOLEAN)
        /\ ValidParams(session.n, session.t, session.ids, session.pubshares, session.thresh_pk)
    BY SessionAssumption DEF Shapes, ValidParams
  <1>2. /\ SignerIds(session.ids) /\ session.thresh_pk \in NonZero
        /\ Pubshares(session.ids, session.pubshares)
        /\ session.thresh_pk = SumOfShares(session.ids, session.pubshares)
    BY <1>1, Validated
  <1>3. \A agg, knows : SessionShape(ContextOf(agg, knows)) BY <1>1 DEF SessionShape, ContextOf
  <1> QED BY <1>1, <1>2, <1>3 DEF Signers, Pubshares

\* The session values under the aggregate nonce, if there are any.
LEMMA ValuesOfSession ==
  ASSUME Shapes, NEW agg, Succeeds(GetSessionValues(ContextOf(agg, TRUE)))
  PROVE  \E v : /\ GetSessionValues(ContextOf(agg, TRUE)) = Returns(v)
                /\ ValuesOk(ContextOf(agg, TRUE), v) /\ Coefficients(v)
                /\ Tweaked = Returns([Q |-> v.Q, gacc |-> v.gacc, tacc |-> v.tacc])
                /\ Len(session.tweaks) = Len(session.is_xonly)
  <1> DEFINE ctx == ContextOf(agg, TRUE)
             v == GetSessionValues(ctx).val
  <1>1. SessionShape(ctx) /\ session.thresh_pk \in NonZero BY SetUp
  <1>2. /\ ctx.thresh_pk = session.thresh_pk /\ ctx.tweaks = session.tweaks
        /\ ctx.is_xonly = session.is_xonly
    BY DEF ContextOf
  <1> HIDE DEF ctx
  <1>3. GetSessionValues(ctx) = Returns(v) /\ ValuesOk(ctx, v)
    BY <1>1, <1>2, SessionValuesReturned DEF ctx
  <1> HIDE DEF v
  <1>4. Coefficients(v) BY <1>3 DEF ValuesOk, Coefficients
  <1>5. Tweaked = Returns([Q |-> v.Q, gacc |-> v.gacc, tacc |-> v.tacc])
    BY <1>2, <1>3 DEF ValuesOk, Tweaked
  <1>6. Len(session.tweaks) = Len(session.is_xonly)
    <2>1. Len(session.tweaks) # Len(session.is_xonly) =>
            Tweaked = ValueError("tweak modes")
      BY DEF Tweaked, ThreshPubkeyAndTweak
    <2> QED BY <1>5, <2>1, ValueErrorsAre
  <1> QED BY <1>3, <1>4, <1>5, <1>6 DEF ctx

\* What a context holds already is overwritten without effect.
LEMMA ContextStays ==
  ASSUME NEW agg, NEW knows
  PROVE  [ContextOf(agg, knows) EXCEPT !.knows_pubshares = knows, !.aggnonce = agg]
           = ContextOf(agg, knows)
  <1> DEFINE ctx == ContextOf(agg, knows)
             same == [ctx EXCEPT !.knows_pubshares = knows]
  <1>1. ctx.knows_pubshares = knows /\ ctx.aggnonce = agg /\ ctx = [f \in DOMAIN ctx |-> ctx[f]]
    BY DEF ContextOf
  <1> HIDE DEF ctx
  <1>2. same = ctx BY <1>1
  <1> HIDE DEF same
  <1>3. [same EXCEPT !.aggnonce = agg] = ctx BY <1>1, <1>2
  <1> QED BY <1>3 DEF same, ctx

\* A partial signature that the coordinator has accepted satisfies its equation.
LEMMA VerifiedEquation ==
  ASSUME Shapes, Collected, coord.aggnonce # NoValue,
         NEW v, GetSessionValues(ContextOf(coord.aggnonce, TRUE)) = Returns(v),
         Len(session.tweaks) = Len(session.is_xonly), NEW i \in Signers, NEW psig_i
  PROVE  PartialSigVerify(psig_i, coord.pubnonces, ContextOf(coord.aggnonce, TRUE), i)
           = PartialSigVerifyInternal(psig_i, session.ids[i], coord.pubnonces[i],
                                      session.pubshares[i], ContextOf(coord.aggnonce, TRUE))
  <1> DEFINE ctx == ContextOf(coord.aggnonce, TRUE)
  <1>1. /\ ctx.ids = session.ids /\ ctx.pubshares = session.pubshares
        /\ ctx.tweaks = session.tweaks /\ ctx.is_xonly = session.is_xonly
        /\ ctx.aggnonce = coord.aggnonce
        /\ ctx.n = session.n /\ ctx.t = session.t /\ ctx.thresh_pk = session.thresh_pk
    BY DEF ContextOf
  <1>2. [ctx EXCEPT !.knows_pubshares = TRUE, !.aggnonce = coord.aggnonce] = ctx
    BY ContextStays, Zenon
  <1>3. /\ Len(coord.pubnonces) = Len(session.ids)
        /\ NonceAgg(coord.pubnonces) = Returns(coord.aggnonce)
    BY DEF Collected
  <1>4. /\ Len(session.pubshares) = Len(session.ids)
        /\ ValidateSessionParams(session.n, session.t, session.ids, TRUE, session.pubshares,
                                 session.thresh_pk) = Returns(TRUE)
    BY SetUp DEF ValidParams
  <1>5. i \in DOMAIN ctx.ids BY <1>1 DEF Signers
  <1> HIDE DEF ctx
  <1>6. OwnContext(ctx, coord.pubnonces) BY <1>1, <1>2, <1>3, <1>4 DEF OwnContext
  <1>7. PartialSigVerify(psig_i, coord.pubnonces, ctx, i)
          = PartialSigVerifyInternal(psig_i, ctx.ids[i], coord.pubnonces[i], ctx.pubshares[i], ctx)
    BY <1>5, <1>6, VerifyUnderOwnContext
  <1> QED BY <1>1, <1>7 DEF ctx

\* What the coordinator returns verifies.
LEMMA ReturnedVerifies ==
  ASSUME IInv, Content, coord.pc = "returned", FinalNonceIsFinite
  PROVE  SchnorrVerify(session.msg, PublishedKey, coord.final_sig)
  <1> DEFINE ctx == ContextOf(coord.aggnonce, TRUE)
             ids == session.ids
             psigs == coord.psigs
             pubnonces == coord.pubnonces
  <1>1. /\ Shapes /\ Collected /\ coord.aggnonce # NoValue
        /\ Len(psigs) = Len(ids) /\ Len(pubnonces) = Len(ids)
        /\ NonceAgg(pubnonces) = Returns(coord.aggnonce)
        /\ PartialSigAgg(psigs, ctx) = Returns(coord.final_sig)
    BY DEF IInv, CoordInv, Content, Collected
  <1>2. Succeeds(GetSessionValues(ctx))
    <2> HIDE DEF ctx, psigs
    <2>1. ~ Succeeds(GetSessionValues(ctx)) =>
            PartialSigAgg(psigs, ctx) = GetSessionValues(ctx)
      BY DEF PartialSigAgg, Then
    <2>2. Succeeds(Returns(coord.final_sig)) BY DEF Succeeds, Returns
    <2> QED BY <1>1, <2>1, <2>2
  <1>3. PICK v : /\ GetSessionValues(ctx) = Returns(v) /\ ValuesOk(ctx, v) /\ Coefficients(v)
                 /\ Tweaked = Returns([Q |-> v.Q, gacc |-> v.gacc, tacc |-> v.tacc])
                 /\ Len(session.tweaks) = Len(session.is_xonly)
    BY <1>1, <1>2, ValuesOfSession
  <1>4. /\ SignerIds(ids) /\ ids \in Seq(Nat) /\ session.thresh_pk \in NonZero
        /\ session.thresh_pk = SumOfShares(ids, session.pubshares)
        /\ \A k \in Signers : session.pubshares[k] \in NonZero
    BY <1>1, SetUp
  <1>5. /\ ctx.ids = ids /\ ctx.pubshares = session.pubshares /\ ctx.msg = session.msg
        /\ ctx.thresh_pk = session.thresh_pk /\ ctx.aggnonce = coord.aggnonce
    BY DEF ContextOf
  <1>6. /\ DOMAIN psigs = DOMAIN ids /\ DOMAIN pubnonces = DOMAIN ids
    <2>1. /\ psigs \in Seq({m[1] : m \in Contributions}) /\ pubnonces \in Seq(Contributions)
      BY <1>1 DEF Shapes
    <2> HIDE DEF psigs, pubnonces, ids
    <2> QED BY <1>1, <1>4, <2>1
  <1>7. ASSUME NEW i \in DOMAIN ids
        PROVE  /\ psigs[i] \in Scalars /\ session.pubshares[i] \in Scalars
               /\ pubnonces[i][1] \in Scalars /\ pubnonces[i][2] \in Scalars
               /\ PartialSigEquation(psigs[i], ids[i], pubnonces[i], session.pubshares[i], ids, v)
    <2>1. Verified(i) BY <1>1, <1>6, <1>7 DEF Collected
    <2>2. PartialSigVerifyInternal(psigs[i], ids[i], pubnonces[i], session.pubshares[i], ctx)
            = Returns(TRUE)
      BY <1>1, <1>3, <1>7, <2>1, VerifiedEquation DEF Verified, Signers
    <2> HIDE DEF ctx, ids, psigs, pubnonces
    <2>3. /\ psigs[i] \in Scalars /\ pubnonces[i][1] \in NonZero /\ pubnonces[i][2] \in NonZero
          /\ session.pubshares[i] \in NonZero
          /\ PartialSigEquation(psigs[i], ids[i], pubnonces[i], session.pubshares[i], ctx.ids, v)
      BY <1>3, <2>2, Acceptance
    <2> QED BY <1>5, <2>3 DEF NonZero
  <1>8. AllVerified(psigs, pubnonces, ids, session.pubshares, v) BY <1>7 DEF AllVerified
  <1>9. coord.aggnonce = <<SumOfNonces(pubnonces, ids, 1), SumOfNonces(pubnonces, ids, 2)>>
    BY <1>1, <1>4, <1>6, NonceAggReturned
  <1>10. SessionNonce(coord.aggnonce, v.b) # Infinity
    <2>1. SessionValues = Returns(v).val BY <1>3 DEF SessionValues
    <2>2. Returns(v).val = v BY DEF Returns
    <2> HIDE DEF ctx
    <2> QED BY <2>1, <2>2 DEF FinalNonceIsFinite
  <1>11. PublishedKey = ToXonly(v.Q) BY <1>3 DEF PublishedKey, GetXonlyPk, Returns
  <1>12. coord.final_sig = <<ToXonly(v.R), Add(SumOver(DOMAIN ids, psigs), TweakSummand(v))>>
    <2>1. \A i \in DOMAIN psigs : psigs[i] \in Scalars BY <1>6, <1>7
    <2> HIDE DEF ctx, psigs, ids
    <2>2. Len(psigs) = Len(ctx.ids) BY <1>1, <1>5
    <2>3. PartialSigAgg(psigs, ctx)
            = Returns(<<ToXonly(v.R), Add(SumOver(DOMAIN psigs, psigs), TweakSummand(v))>>)
      BY <1>3, <2>1, <2>2, AggregateReturned
    <2> QED BY <1>1, <1>6, <2>3 DEF Returns
  <1> HIDE DEF ctx, ids, psigs, pubnonces
  <1>13. SchnorrVerify(ctx.msg, ToXonly(v.Q),
           <<ToXonly(v.R), Add(SumOver(DOMAIN ctx.ids, psigs), TweakSummand(v))>>)
    BY <1>3, <1>4, <1>5, <1>8, <1>9, <1>10, AggregateVerifies
  <1> QED BY <1>5, <1>11, <1>12, <1>13

\* Whatever the faulty signers contributed, the coordinator returns only a
\* signature that BIP340 verification accepts under the published key, unless
\* the aggregate nonce was infinite (example.py:184-206 with partial_sig_verify
\* and partial_sig_agg of signing.py).
THEOREM FinalSignatureVerifies == Spec => []SignatureVerifies
  <1>1. IInv /\ Content => SignatureVerifies BY ReturnedVerifies DEF SignatureVerifies
  <1> QED BY <1>1, InitIInv, NextIInv, InitContent, NextContent, PTL DEF Spec


-----------------------------------------------------------------------------
(* Signers that follow the protocol.                                       *)

\* What such a signer has to show for its steps.
Faithful(i) ==
  /\ pubnonce[i] # NoValue => Succeeds(Tweaked) /\ pubnonce[i] \in NonZero \X NonZero
  /\ pc[i] = "start" => secnonce[i] = ZeroedSecnonce
  /\ pc[i] = "raised" =>
       /\ secnonce[i] = ZeroedSecnonce
       /\ Misconfigured(i) \/ ~ Succeeds(Tweaked)
  /\ pc[i] = "await_aggnonce" =>
       \E k_1, k_2 \in NonZero :
         secnonce[i] = <<k_1, k_2>> /\ pubnonce[i] = <<Mul(k_1, G), Mul(k_2, G)>>
  /\ psig[i] # NoValue =>
       /\ pubnonce[i] # NoValue /\ coord.aggnonce # NoValue /\ ~ Misconfigured(i)
       /\ SelfCheck(i, psig[i][1], ContextOf(coord.aggnonce, TRUE))

\* Honest signers follow the protocol; faulty ones send what a faulty one may.
Honesty ==
  /\ secnonce = [i \in Signers |-> secnonce[i]]
  /\ \A i \in Honest : Faithful(i)
  /\ \A i \in Faulty : pubnonce[i] \in FaultyPubnonces \cup {NoValue}

\* No honest signer has done anything at the start.
LEMMA InitHonesty == Init => Honesty
  <1> SUFFICES ASSUME Init PROVE Honesty OBVIOUS
  <1>1. secnonce = [i \in Signers |-> secnonce[i]] BY DEF Init
  <1>2. ASSUME NEW i \in Honest PROVE Faithful(i)
    <2>1. i \in Signers BY DEF Honest
    <2>2. /\ pubnonce[i] = NoValue /\ psig[i] = NoValue /\ secnonce[i] = ZeroedSecnonce
          /\ pc[i] = "start"
      BY <2>1 DEF Init
    <2> QED BY <2>2 DEF Faithful
  <1>3. ASSUME NEW i \in Faulty PROVE pubnonce[i] = NoValue
    BY SessionAssumption DEF Init, Faulty, Signers
  <1> QED BY <1>1, <1>2, <1>3 DEF Honesty

\* A signer stays so as long as it takes no step and the aggregate nonce is
\* final.
LEMMA FaithfulFrame ==
  ASSUME NEW i, Faithful(i), session' = session, secnonce'[i] = secnonce[i],
         pubnonce'[i] = pubnonce[i], psig'[i] = psig[i], pc'[i] \in {pc[i], "returned", "cancelled"},
         coord.aggnonce # NoValue => coord'.aggnonce = coord.aggnonce
  PROVE  Faithful(i)'
  <1>1. (Succeeds(Tweaked)' <=> Succeeds(Tweaked)) /\ (Misconfigured(i)' <=> Misconfigured(i))
    BY DEF Tweaked, Misconfigured
  <1>2. pubnonce'[i] # NoValue => Succeeds(Tweaked)' /\ pubnonce'[i] \in NonZero \X NonZero
    BY <1>1 DEF Faithful
  <1>3. /\ pc'[i] = "start" => secnonce'[i] = ZeroedSecnonce
        /\ pc'[i] = "raised" =>
             secnonce'[i] = ZeroedSecnonce /\ (Misconfigured(i)' \/ ~ Succeeds(Tweaked)')
        /\ pc'[i] = "await_aggnonce" =>
             \E k_1, k_2 \in NonZero :
               secnonce'[i] = <<k_1, k_2>> /\ pubnonce'[i] = <<Mul(k_1, G), Mul(k_2, G)>>
    BY <1>1 DEF Faithful
  <1>4. ASSUME psig'[i] # NoValue
        PROVE  /\ pubnonce'[i] # NoValue /\ coord'.aggnonce # NoValue /\ ~ Misconfigured(i)'
               /\ SelfCheck(i, psig[i][1], ContextOf(coord.aggnonce, TRUE))'
    <2>1. /\ pubnonce[i] # NoValue /\ coord.aggnonce # NoValue /\ ~ Misconfigured(i)
          /\ SelfCheck(i, psig[i][1], ContextOf(coord.aggnonce, TRUE))
      BY <1>4 DEF Faithful
    <2>2. coord'.aggnonce = coord.aggnonce BY <2>1
    <2>3. ContextOf(coord.aggnonce, TRUE)' = ContextOf(coord.aggnonce, TRUE)
      BY <2>2 DEF ContextOf
    <2> DEFINE ctx == ContextOf(coord.aggnonce, TRUE)
    <2>4. SelfCheck(i, psig[i][1], ctx)' <=> SelfCheck(i, psig[i][1], ctx)
      <3>1. ctx' = ctx BY <2>3
      <3> HIDE DEF ctx
      <3> QED BY <3>1 DEF SelfCheck
    <2> QED BY <1>1, <2>1, <2>2, <2>4
  <1> QED BY <1>2, <1>3, <1>4 DEF Faithful

\* The aggregate nonce of the coordinator sums points, so that the session
\* values exist as soon as the tweaks apply.
LEMMA ValuesExist ==
  ASSUME Shapes, Collected, coord.aggnonce # NoValue, Succeeds(Tweaked)
  PROVE  Succeeds(GetSessionValues(ContextOf(coord.aggnonce, TRUE)))
  <1> DEFINE ctx == ContextOf(coord.aggnonce, TRUE)
             agg == coord.aggnonce
  <1>1. /\ coord.pubnonces \in Seq(Contributions) /\ session.ids \in Seq(Nat)
        /\ Len(coord.pubnonces) = Len(session.ids) /\ NonceAgg(coord.pubnonces) = Returns(agg)
    BY SetUp DEF Shapes, Collected
  <1>2. DOMAIN coord.pubnonces = DOMAIN session.ids BY <1>1
  <1>3. /\ agg = <<SumOfNonces(coord.pubnonces, session.ids, 1),
                   SumOfNonces(coord.pubnonces, session.ids, 2)>>
        /\ agg[1] \in Scalars /\ agg[2] \in Scalars
    BY <1>1, <1>2, NonceAggReturned
  <1>4. agg \in Scalars \X Scalars BY <1>3
  <1>5. /\ ctx.ids = session.ids /\ ctx.msg = session.msg /\ ctx.aggnonce = agg
        /\ ctx.n = session.n /\ ctx.t = session.t /\ ctx.pubshares = session.pubshares
        /\ ctx.thresh_pk = session.thresh_pk /\ ctx.tweaks = session.tweaks
        /\ ctx.is_xonly = session.is_xonly /\ ctx.knows_pubshares
    BY DEF ContextOf
  <1>6. SessionShape(ctx) /\ session.thresh_pk \in NonZero /\ session \in Sessions
    BY SetUp DEF Shapes
  <1>7. ValidateSessionParams(session.n, session.t, session.ids, TRUE, session.pubshares,
                              session.thresh_pk) = Returns(TRUE)
    BY SetUp DEF ValidParams
  <1>8. ctx.knows_pubshares = TRUE BY DEF ContextOf
  <1> HIDE DEF ctx, agg
  <1>9. HashesAreNonZero(ctx) BY <1>4, <1>5, <1>6, HashAssumption DEF HashesAreNonZero
  <1>10. Succeeds(ThreshPubkeyAndTweak(ctx.thresh_pk, ctx.tweaks, ctx.is_xonly))
    BY <1>5 DEF Tweaked
  <1>11. ValidateSessionParams(ctx.n, ctx.t, ctx.ids, ctx.knows_pubshares, ctx.pubshares,
                               ctx.thresh_pk) = Returns(TRUE)
    BY <1>5, <1>7, <1>8
  <1>12. Succeeds(GetSessionValues(ctx))
    BY <1>3, <1>5, <1>6, <1>9, <1>10, <1>11, SessionValuesExist
  <1> QED BY <1>12 DEF ctx, agg

\* The first participant, which is given no public shares, computes the same
\* values, and its self-check has the same outcome.
LEMMA SameForEverybody ==
  ASSUME Shapes, NEW agg, NEW knows \in BOOLEAN
  PROVE  /\ GetSessionValues(ContextOf(agg, knows)) = GetSessionValues(ContextOf(agg, TRUE))
         /\ \A i, s : SelfCheck(i, s, ContextOf(agg, knows)) <=> SelfCheck(i, s, ContextOf(agg, TRUE))
  <1> DEFINE ctx == ContextOf(agg, TRUE)
             other == ContextOf(agg, knows)
  <1>1. /\ other.n = ctx.n /\ other.t = ctx.t /\ other.ids = ctx.ids
        /\ other.knows_pubshares = knows /\ ctx.knows_pubshares = TRUE
        /\ other.pubshares = ctx.pubshares /\ other.thresh_pk = ctx.thresh_pk
        /\ other.aggnonce = ctx.aggnonce /\ other.tweaks = ctx.tweaks
        /\ other.is_xonly = ctx.is_xonly /\ other.msg = ctx.msg
    BY DEF ContextOf
  <1>2. ValidateSessionParams(session.n, session.t, session.ids, TRUE, session.pubshares,
                              session.thresh_pk) = Returns(TRUE)
    BY SetUp DEF ValidParams
  <1>3. ValidateSessionParams(ctx.n, ctx.t, ctx.ids, TRUE, ctx.pubshares, ctx.thresh_pk)
          = Returns(TRUE)
    BY <1>2 DEF ContextOf
  <1> HIDE DEF ctx, other
  <1>4. GetSessionValues(other) = GetSessionValues(ctx) BY <1>1, <1>3, SameSessionValues
  <1>5. ASSUME NEW i, NEW s PROVE SelfCheck(i, s, other) <=> SelfCheck(i, s, ctx)
    BY <1>1, <1>4 DEF SelfCheck, PartialSigVerifyInternal
  <1> QED BY <1>4, <1>5 DEF ctx, other

\* With the right secret share, sign returns a partial signature that passes the
\* self-check; with another one it returns none that does.
LEMMA SignOutcome ==
  ASSUME Shapes, NEW i \in Signers, NEW v, NEW ctx,
         GetSessionValues(ctx) = Returns(v), Coefficients(v),
         ctx.ids = session.ids, ctx.pubshares = session.pubshares,
         NEW k_1 \in NonZero, NEW k_2 \in NonZero,
         secnonce[i] = <<k_1, k_2>>, pubnonce[i] = <<Mul(k_1, G), Mul(k_2, G)>>
  PROVE  LET signed == Sign(secnonce[i], session.secshares[i], session.ids[i], ctx)
         IN  /\ signed.secnonce = ZeroedSecnonce
             /\ (/\ Succeeds(signed.result)
                 /\ SelfCheck(i, signed.result.val, ctx)) <=> ~ Misconfigured(i)
  <1> DEFINE my_id == session.ids[i]
             secshare == session.secshares[i]
             share == session.pubshares[i]
             signed == Sign(<<k_1, k_2>>, secshare, my_id, ctx)
             s == PartialSig(k_1, k_2, secshare, my_id, ctx.ids, v)
             nonce == <<Mul(k_1, G), Mul(k_2, G)>>
  <1>1. /\ SignerIds(ctx.ids) /\ my_id \in ToSet(ctx.ids) /\ ctx.ids \in Seq(Nat)
        /\ share \in NonZero
    BY SetUp DEF Signers, ToSet
  <1>2. nonce[1] \in NonZero /\ nonce[2] \in NonZero
    BY UnitsAndNegation DEF G, NonZero
  <1>3. \A k \in DOMAIN ctx.ids : ctx.ids[k] = my_id => ctx.pubshares[k] = share
    <2>1. IsInjective(session.ids) BY <1>1 DEF SignerIds
    <2> QED BY <2>1 DEF IsInjective, Signers
  <1>4. signed.secnonce = ZeroedSecnonce
    <2> HIDE DEF my_id, secshare
    <2> QED BY <1>1, SignReturns
  <1>5. Succeeds(signed.result) => secshare \in NonZero /\ signed.result = Returns(s)
    <2> HIDE DEF my_id, secshare
    <2> QED BY <1>1, SignReturns
  <1>6. secshare = share => signed.result = Returns(s)
    <2>1. \A k \in DOMAIN ctx.ids : secshare = share /\ ctx.ids[k] = my_id => ctx.pubshares[k] = secshare
      BY <1>3
    <2>2. secshare = share => secshare \in NonZero BY <1>1
    <2> HIDE DEF my_id, secshare, share
    <2> QED BY <1>1, <2>1, <2>2, SignReturns
  <1>7. /\ Misconfigured(i) <=> secshare # share
        /\ \A x : SelfCheck(i, x, ctx) <=>
                  PartialSigVerifyInternal(x, my_id, nonce, share, ctx) = Returns(TRUE)
    BY DEF Misconfigured, SelfCheck
  <1>8. ASSUME secshare \in NonZero
        PROVE  /\ s \in Scalars /\ PartialSigEquation(s, my_id, nonce, secshare, ctx.ids, v)
    <2> HIDE DEF my_id
    <2>1. k_1 \in Scalars /\ k_2 \in Scalars /\ secshare \in Scalars BY <1>8 DEF NonZero
    <2>2. Mul(secshare, G) = secshare BY <2>1, UnitsAndNegation DEF G
    <2> QED BY <1>1, <2>1, <2>2, SigningEquation
  <1> HIDE DEF my_id, secshare, share, signed, s, nonce
  <1>9. ASSUME secshare = share
        PROVE  Succeeds(signed.result) /\ SelfCheck(i, signed.result.val, ctx)
    <2>1. PartialSigVerifyInternal(s, my_id, nonce, share, ctx) = Returns(TRUE)
      BY <1>1, <1>2, <1>8, <1>9, Acceptance
    <2> QED BY <1>6, <1>7, <1>9, <2>1 DEF Succeeds, Returns
  <1>10. ASSUME Succeeds(signed.result), SelfCheck(i, signed.result.val, ctx)
         PROVE  secshare = share
    <2>1. secshare \in NonZero /\ signed.result.val = s BY <1>5, <1>10 DEF Returns
    <2>2. PartialSigVerifyInternal(s, my_id, nonce, share, ctx) = Returns(TRUE)
      BY <1>7, <1>10, <2>1
    <2>3. PartialSigEquation(s, my_id, nonce, share, ctx.ids, v)
      BY <2>2, Acceptance
    <2>4. PartialSigEquation(s, my_id, nonce, secshare, ctx.ids, v) BY <1>8, <2>1
    <2>5. /\ share \in Scalars /\ secshare \in Scalars
          /\ nonce[1] \in Scalars /\ nonce[2] \in Scalars
      BY <1>1, <1>2, <2>1 DEF NonZero
    <2> QED BY <1>1, <2>3, <2>4, <2>5, EquationBindsShare
  <1> QED BY <1>4, <1>7, <1>9, <1>10 DEF signed, my_id, secshare

\* What an honest participant signs under: the nonce that the coordinator has
\* broadcast.
LEMMA SignsUnder ==
  ASSUME IInv, Content, NEW i \in Signers, pc[i] = "await_aggnonce", Receive(i)
  PROVE  /\ coord.aggnonce # NoValue /\ Head(to_part[i]) = coord.aggnonce
         /\ psig[i] = NoValue /\ pubnonce[i] # NoValue
  <1>1. /\ psig[i] = NoValue /\ to_part[i] = Broadcast /\ pubnonce[i] # NoValue
    BY DEF IInv, QueueInv
  <1>2. Broadcast # <<>> BY <1>1 DEF Receive
  <1>3. coord.aggnonce # NoValue BY <1>2 DEF Broadcast
  <1>4. Head(Broadcast) = coord.aggnonce BY <1>3, Queues DEF Broadcast
  <1> QED BY <1>1, <1>3, <1>4

\* Round one of a participant that follows the protocol.
LEMMA StartHonesty ==
  ASSUME IInv, Honesty, NEW i \in Signers, NEW k_1 \in NonceScalars, NEW k_2 \in NonceScalars,
         ParticipantStart(i, k_1, k_2)
  PROVE  Faithful(i)'
  <1> DEFINE nonce == NonceGen(k_1, k_2)
  <1>1. /\ i \in Honest /\ pc[i] = "start" /\ session' = session /\ psig' = psig
        /\ coord' = coord
    BY DEF ParticipantStart
  <1>2. psig[i] = NoValue /\ pubnonce[i] = NoValue BY <1>1 DEF IInv, QueueInv
  <1>3. secnonce[i] = ZeroedSecnonce BY <1>1 DEF Honesty, Faithful
  <1>4. pc \in [Signers -> Places] /\ pubnonce \in [Signers -> Contributions \cup {NoValue}]
    BY DEF IInv, Shapes
  <1>5. (Succeeds(Tweaked)' <=> Succeeds(Tweaked)) BY <1>1 DEF Tweaked
  <1>6. CASE Succeeds(Tweaked)
    <2>1. /\ secnonce' = [secnonce EXCEPT ![i] = nonce.secnonce]
          /\ pubnonce' = [pubnonce EXCEPT ![i] = nonce.pubnonce]
          /\ pc' = [pc EXCEPT ![i] = "await_aggnonce"]
      BY <1>6 DEF ParticipantStart, Goes
    <2>2. /\ nonce.secnonce = <<k_1, k_2>>
          /\ nonce.pubnonce = <<Mul(k_1, G), Mul(k_2, G)>>
      BY DEF NonceGen
    <2>3. secnonce'[i] = <<k_1, k_2>>
      <3>1. i \in DOMAIN secnonce BY DEF Honesty
      <3> HIDE DEF nonce
      <3> QED BY <2>1, <2>2, <3>1
    <2>4. pubnonce'[i] = <<Mul(k_1, G), Mul(k_2, G)>> /\ pc'[i] = "await_aggnonce"
      <3> HIDE DEF nonce
      <3> QED BY <1>4, <2>1, <2>2
    <2>5. k_1 \in NonZero /\ k_2 \in NonZero BY SessionAssumption
    <2>6. Mul(k_1, G) \in NonZero /\ Mul(k_2, G) \in NonZero
      BY <2>5, UnitsAndNegation DEF G, NonZero
    <2> QED BY <1>1, <1>2, <1>5, <1>6, <2>3, <2>4, <2>5, <2>6 DEF Faithful
  <1>7. CASE ~ Succeeds(Tweaked)
    <2>1. pc' = [pc EXCEPT ![i] = "raised"] /\ secnonce' = secnonce /\ pubnonce' = pubnonce
      BY <1>7 DEF ParticipantStart, Goes
    <2>2. pc'[i] = "raised" BY <1>4, <2>1
    <2> QED BY <1>1, <1>2, <1>3, <1>5, <1>7, <2>1, <2>2 DEF Faithful
  <1> QED BY <1>6, <1>7

\* Round two: it signs unless its secret share is not the one of its public share.
LEMMA SignHonesty ==
  ASSUME IInv, Content, Honesty, NEW i \in Signers, ParticipantSign(i)
  PROVE  Faithful(i)'
  <1> DEFINE agg == coord.aggnonce
             ctx == ContextOf(Head(to_part[i]), i # 1)
             signed == Sign(secnonce[i], session.secshares[i], session.ids[i], ctx)
             s == signed.result.val
             ok == Succeeds(signed.result) /\ SelfCheck(i, s, ctx)
  <1>1. /\ i \in Honest /\ pc[i] = "await_aggnonce" /\ Receive(i) /\ SendPsig(i, ctx, signed)
        /\ session' = session /\ coord' = coord /\ pubnonce' = pubnonce
    BY DEF ParticipantSign
  <1>2. /\ agg # NoValue /\ Head(to_part[i]) = agg /\ psig[i] = NoValue /\ pubnonce[i] # NoValue
    BY <1>1, SignsUnder
  <1>3. ctx = ContextOf(agg, i # 1) BY <1>2
  <1>4. Faithful(i) BY <1>1 DEF Honesty
  <1>5. Succeeds(Tweaked) /\ pubnonce[i] \in NonZero \X NonZero BY <1>2, <1>4 DEF Faithful
  <1>6. PICK k_1, k_2 \in NonZero :
          secnonce[i] = <<k_1, k_2>> /\ pubnonce[i] = <<Mul(k_1, G), Mul(k_2, G)>>
    BY <1>1, <1>4 DEF Faithful
  <1>7. Shapes /\ Collected BY DEF IInv, Content
  <1>8. PICK v : GetSessionValues(ContextOf(agg, TRUE)) = Returns(v) /\ Coefficients(v)
    <2>1. Succeeds(GetSessionValues(ContextOf(agg, TRUE))) BY <1>2, <1>5, <1>7, ValuesExist
    <2> QED BY <1>7, <2>1, ValuesOfSession
  <1>9. /\ GetSessionValues(ctx) = Returns(v)
        /\ \A x : SelfCheck(i, x, ctx) <=> SelfCheck(i, x, ContextOf(agg, TRUE))
    <2>1. (i # 1) \in BOOLEAN OBVIOUS
    <2> QED BY <1>3, <1>7, <1>8, <2>1, SameForEverybody
  <1>10. ctx.ids = session.ids /\ ctx.pubshares = session.pubshares BY DEF ContextOf
  <1>11. signed.secnonce = ZeroedSecnonce /\ (ok <=> ~ Misconfigured(i))
    <2> HIDE DEF ctx
    <2> QED BY <1>6, <1>7, <1>8, <1>9, <1>10, SignOutcome
  <1>12. ContextOf(agg, TRUE)' = ContextOf(agg, TRUE) /\ agg' = agg BY <1>1 DEF ContextOf
  <1>13. /\ Succeeds(Tweaked)' /\ (Misconfigured(i)' <=> Misconfigured(i))
    BY <1>1, <1>5 DEF Tweaked, Misconfigured
  <1>14. \A x : SelfCheck(i, x, ContextOf(agg, TRUE))' <=> SelfCheck(i, x, ContextOf(agg, TRUE))
    <2> DEFINE own == ContextOf(agg, TRUE)
    <2>1. own' = own BY <1>12
    <2> HIDE DEF own
    <2>2. \A x : SelfCheck(i, x, own)' <=> SelfCheck(i, x, own) BY <1>1, <2>1 DEF SelfCheck
    <2> QED BY <2>2 DEF own
  <1>15. /\ pc \in [Signers -> Places] /\ psig \in [Signers -> Contributions \cup {NoValue}]
         /\ i \in DOMAIN secnonce
    BY DEF Honesty, IInv, Shapes
  <1> HIDE DEF ctx
  <1>16. secnonce' = [secnonce EXCEPT ![i] = signed.secnonce] BY <1>1 DEF SendPsig
  <1>17. \/ ok /\ psig' = [psig EXCEPT ![i] = <<s>>] /\ pc' = [pc EXCEPT ![i] = "await_final"]
         \/ ~ ok /\ psig' = psig /\ pc' = [pc EXCEPT ![i] = "raised"]
    BY <1>1 DEF SendPsig, Goes
  <1> HIDE DEF signed, s, ok
  <1>18. secnonce'[i] = ZeroedSecnonce BY <1>11, <1>15, <1>16
  <1>19. CASE ok
    <2> PICK x : x = s OBVIOUS
    <2>1. psig'[i] = <<x>> /\ pc'[i] = "await_final" BY <1>15, <1>17, <1>19
    <2>2. SelfCheck(i, x, ContextOf(agg, TRUE)) BY <1>9, <1>19 DEF ok
    <2>3. psig'[i][1] = x BY <2>1
    <2>4. coord'.aggnonce # NoValue /\ ~ Misconfigured(i)' BY <1>1, <1>2, <1>11, <1>13, <1>19
    <2>5. SelfCheck(i, x, ContextOf(agg, TRUE))' BY <1>14, <2>2
    <2> QED BY <1>1, <1>2, <1>5, <1>13, <2>1, <2>3, <2>4, <2>5 DEF Faithful
  <1>20. CASE ~ ok
    <2>1. psig'[i] = NoValue /\ pc'[i] = "raised" BY <1>2, <1>15, <1>17, <1>20
    <2>2. Misconfigured(i)' BY <1>11, <1>13, <1>20
    <2> QED BY <1>1, <1>5, <1>13, <1>18, <2>1, <2>2 DEF Faithful
  <1> QED BY <1>19, <1>20

\* A step of one signer leaves what the others have.
LEMMA OthersUntouched ==
  ASSUME IInv, Honesty, NEW i \in Signers, ParticipantStep(i) \/ FaultyStep(i)
  PROVE  /\ secnonce' = [j \in Signers |-> secnonce'[j]]
         /\ \A j \in Signers \ {i} :
              /\ secnonce'[j] = secnonce[j] /\ pubnonce'[j] = pubnonce[j]
              /\ psig'[j] = psig[j] /\ pc'[j] = pc[j]
  <1>1. /\ pc \in [Signers -> Places]
        /\ pubnonce \in [Signers -> Contributions \cup {NoValue}]
        /\ psig \in [Signers -> Contributions \cup {NoValue}]
        /\ secnonce = [j \in Signers |-> secnonce[j]]
    BY DEF IInv, Shapes, Honesty
  \* Every step writes at most its own place of each.
  <1>2. ASSUME \/ secnonce' = secnonce
               \/ \E x : secnonce' = [secnonce EXCEPT ![i] = x],
               \/ pubnonce' = pubnonce
               \/ \E x : pubnonce' = [pubnonce EXCEPT ![i] = x],
               psig' = psig \/ \E x : psig' = [psig EXCEPT ![i] = x],
               \E x : pc' = [pc EXCEPT ![i] = x]
        PROVE  /\ secnonce' = [j \in Signers |-> secnonce'[j]]
               /\ \A j \in Signers \ {i} :
                    /\ secnonce'[j] = secnonce[j] /\ pubnonce'[j] = pubnonce[j]
                    /\ psig'[j] = psig[j] /\ pc'[j] = pc[j]
    <2>1. secnonce' = [j \in Signers |-> secnonce'[j]]
          /\ \A j \in Signers \ {i} : secnonce'[j] = secnonce[j]
      BY <1>1, <1>2
    <2>2. \A j \in Signers \ {i} : pubnonce'[j] = pubnonce[j] BY <1>1, <1>2
    <2>3. \A j \in Signers \ {i} : psig'[j] = psig[j] BY <1>1, <1>2
    <2>4. \A j \in Signers \ {i} : pc'[j] = pc[j] BY <1>1, <1>2
    <2> QED BY <2>1, <2>2, <2>3, <2>4
  <1>3. ASSUME NEW k_1, NEW k_2, ParticipantStart(i, k_1, k_2)
        PROVE  /\ \/ secnonce' = secnonce
                  \/ \E x : secnonce' = [secnonce EXCEPT ![i] = x]
               /\ \/ pubnonce' = pubnonce
                  \/ \E x : pubnonce' = [pubnonce EXCEPT ![i] = x]
               /\ psig' = psig /\ \E x : pc' = [pc EXCEPT ![i] = x]
    <2>1. CASE Succeeds(Tweaked) BY <1>3, <2>1, Zenon DEF ParticipantStart, Goes
    <2>2. CASE ~ Succeeds(Tweaked) BY <1>3, <2>2, Zenon DEF ParticipantStart, Goes
    <2> QED BY <2>1, <2>2
  <1>4. ASSUME ParticipantSign(i)
        PROVE  /\ \E x : secnonce' = [secnonce EXCEPT ![i] = x]
               /\ pubnonce' = pubnonce /\ (psig' = psig \/ \E x : psig' = [psig EXCEPT ![i] = x])
               /\ \E x : pc' = [pc EXCEPT ![i] = x]
    <2> DEFINE ctx == ContextOf(Head(to_part[i]), i # 1)
               signed == Sign(secnonce[i], session.secshares[i], session.ids[i], ctx)
    <2>1. SendPsig(i, ctx, signed) /\ pubnonce' = pubnonce BY <1>4 DEF ParticipantSign
    <2> HIDE DEF ctx, signed
    <2> QED BY <2>1, Zenon DEF SendPsig, Goes
  <1>5. CASE ParticipantFinish(i) BY <1>2, <1>5, Zenon DEF ParticipantFinish, Goes
  <1>6. ASSUME NEW w, FaultyStart(i, w)
        PROVE  /\ secnonce' = secnonce /\ psig' = psig
               /\ \E x : pubnonce' = [pubnonce EXCEPT ![i] = x]
               /\ \E x : pc' = [pc EXCEPT ![i] = x]
    BY <1>6, Zenon DEF FaultyStart, Goes
  <1>7. ASSUME NEW s, FaultySign(i, s)
        PROVE  /\ secnonce' = secnonce /\ pubnonce' = pubnonce
               /\ \E x : psig' = [psig EXCEPT ![i] = x]
               /\ \E x : pc' = [pc EXCEPT ![i] = x]
    BY <1>7, Zenon DEF FaultySign, Goes
  <1>8. CASE ParticipantSign(i) BY <1>2, <1>4, <1>8
  <1>9. CASE \E k_1, k_2 \in NonceScalars : ParticipantStart(i, k_1, k_2) BY <1>2, <1>3, <1>9
  <1>10. CASE FaultyStep(i) BY <1>2, <1>6, <1>7, <1>10 DEF FaultyStep
  <1> QED BY <1>5, <1>8, <1>9, <1>10 DEF ParticipantStep

\* The coordinator and a cancellation do not touch what a signer has.
LEMMA NextHonesty == IInv /\ Content /\ Honesty /\ [Next]_vars => Honesty'
  <1> SUFFICES ASSUME IInv, Content, Honesty, [Next]_vars PROVE Honesty' OBVIOUS
  <1>1. ASSUME session' = session, secnonce' = secnonce, pubnonce' = pubnonce, psig' = psig,
               \A i \in Signers : pc'[i] \in {pc[i], "returned", "cancelled"},
               coord.aggnonce # NoValue => coord'.aggnonce = coord.aggnonce
        PROVE  Honesty'
    <2>1. Signers' = Signers /\ Honest' = Honest /\ Faulty' = Faulty
      BY <1>1 DEF Signers, Honest, Faulty
    <2>2. ASSUME NEW i \in Honest PROVE Faithful(i)'
      <3>1. i \in Signers /\ Faithful(i) BY DEF Honest, Honesty
      <3> QED BY <1>1, <3>1, FaithfulFrame
    <2> QED BY <1>1, <2>1, <2>2 DEF Honesty
  <1>2. CASE UNCHANGED vars BY <1>1, <1>2 DEF vars
  <1>3. ASSUME NEW i \in Signers, ParticipantStep(i) \/ FaultyStep(i) PROVE Honesty'
    <2>1. /\ session' = session /\ coord' = coord BY <1>3, ParticipantSends
    <2>2. /\ secnonce' = [j \in Signers |-> secnonce'[j]]
          /\ \A j \in Signers \ {i} :
               /\ secnonce'[j] = secnonce[j] /\ pubnonce'[j] = pubnonce[j]
               /\ psig'[j] = psig[j] /\ pc'[j] = pc[j]
      BY <1>3, OthersUntouched
    <2>3. Signers' = Signers /\ Honest' = Honest /\ Faulty' = Faulty /\ Faulty \subseteq Signers
      BY <2>1, SessionAssumption DEF Signers, Honest, Faulty, IInv, Shapes
    <2>4. ASSUME NEW j \in Honest, j # i PROVE Faithful(j)'
      <3>1. j \in Signers \ {i} /\ Faithful(j) BY <2>4 DEF Honest, Honesty
      <3> QED BY <2>1, <2>2, <3>1, FaithfulFrame
    <2>5. ASSUME i \in Honest PROVE Faithful(i)'
      <3>1. ~ FaultyStep(i) BY <2>5 DEF FaultyStep, FaultyStart, FaultySign, Honest
      <3>2. CASE \E k_1, k_2 \in NonceScalars : ParticipantStart(i, k_1, k_2)
        BY <3>2, StartHonesty
      <3>3. CASE ParticipantSign(i) BY <3>3, SignHonesty
      <3>4. CASE ParticipantFinish(i)
        <4>1. /\ secnonce' = secnonce /\ pubnonce' = pubnonce /\ psig' = psig
              /\ pc' = [pc EXCEPT ![i] = "returned"] /\ pc \in [Signers -> Places]
          BY <3>4 DEF ParticipantFinish, Goes, IInv, Shapes
        <4>2. pc'[i] = "returned" BY <4>1
        <4>3. Faithful(i) BY <2>5 DEF Honesty
        <4> QED BY <2>1, <4>1, <4>2, <4>3, FaithfulFrame
      <3> QED BY <1>3, <3>1, <3>2, <3>3, <3>4 DEF ParticipantStep
    <2>6. ASSUME i \in Faulty PROVE pubnonce'[i] \in FaultyPubnonces \cup {NoValue}
      <3>1. pubnonce[i] \in FaultyPubnonces \cup {NoValue} BY <2>6 DEF Honesty
      <3>2. ASSUME NEW w \in FaultyPubnonces, FaultyStart(i, w)
            PROVE  pubnonce'[i] \in FaultyPubnonces
        BY <3>2 DEF FaultyStart, IInv, Shapes
      <3>3. i \notin Honest BY <2>6 DEF Honest
      <3>4. ParticipantFinish(i) \/ (\E s : FaultySign(i, s)) => pubnonce' = pubnonce
        BY DEF ParticipantFinish, FaultySign
      <3> QED BY <1>3, <3>1, <3>2, <3>3, <3>4
              DEF ParticipantStep, FaultyStep, ParticipantStart, ParticipantSign
    <2>7. \A j \in Faulty' : pubnonce'[j] \in FaultyPubnonces \cup {NoValue}
      BY <2>2, <2>3, <2>6 DEF Honesty
    <2> QED BY <2>2, <2>3, <2>4, <2>5, <2>7 DEF Honesty
  <1>4. CASE CoordinatorReceivePubnonce
    <2>1. coord.aggnonce # NoValue => coord'.aggnonce = coord.aggnonce
      BY <1>4 DEF CoordinatorReceivePubnonce, IInv, CoordInv
    <2> QED BY <1>1, <1>4, <2>1 DEF CoordinatorReceivePubnonce, participantVars
  <1>5. CASE CoordinatorReceivePsig
    <2>1. coord'.aggnonce = coord.aggnonce BY <1>5, ReceivePsigContent
    <2> QED BY <1>1, <1>5, <2>1 DEF CoordinatorReceivePsig, participantVars
  <1>6. CASE CancelRemaining
    <2> DEFINE place == IF coord.pc \in Running THEN "cancelled" ELSE coord.pc
    <2>1. /\ coord' = [coord EXCEPT !.pc = place]
          /\ pc' = [i \in Signers |-> IF pc[i] \in Running THEN "cancelled" ELSE pc[i]]
          /\ session' = session /\ secnonce' = secnonce /\ pubnonce' = pubnonce /\ psig' = psig
      BY <1>6 DEF CancelRemaining, participantVars
    <2> HIDE DEF place
    <2>2. coord'.aggnonce = coord.aggnonce BY <2>1 DEF IInv, Shapes
    <2>3. \A i \in Signers : pc'[i] \in {pc[i], "returned", "cancelled"} BY <2>1
    <2> QED BY <1>1, <2>1, <2>2, <2>3
  <1> QED BY <1>2, <1>3, <1>4, <1>5, <1>6 DEF Next, CoordinatorStep

\* An honest signer with the right secret share gets through both self-checks,
\* whatever the other signers contribute; one with another secret share never
\* sends a partial signature, and its nonce is gone when it raises
\* (example.py:129-160 with sign and partial_sig_verify_internal of signing.py).
THEOREM HonestSigners == Spec => []OnlyRightSharesSign
  <1>1. Honesty => OnlyRightSharesSign BY DEF Honesty, Faithful, OnlyRightSharesSign
  <1> QED BY <1>1, InitIInv, NextIInv, InitContent, NextContent, InitHonesty, NextHonesty,
             PTL DEF Spec

-----------------------------------------------------------------------------
(* Identifiable aborts.                                                    *)

\* No faulty signer sends a public nonce of the wrong length.
NoShortPubnonce ==
  Faulty # {} => \A w \in FaultyPubnonces : w[1] # WrongLength /\ w[2] # WrongLength

\* Round one: who is blamed has sent what does not decode.
LEMMA BlameForPubnonce ==
  ASSUME NoShortPubnonce, IInv, Content, Content', Honesty, BlameIsDeserved,
         CoordinatorReceivePubnonce
  PROVE  BlameIsDeserved'
  <1> DEFINE i == Len(coord.pubnonces) + 1
             pubnonces == Append(coord.pubnonces, Head(to_coord[i]))
             agg == NonceAgg(pubnonces)
             u == Len(session.ids)
  <1>1. /\ coord.pc = "await_pubnonce" /\ session' = session /\ pubnonce' = pubnonce
        /\ ReceiveFrom(i)
    BY DEF CoordinatorReceivePubnonce, participantVars
  <1>2. \/ i < u /\ coord' = [coord EXCEPT !.pubnonces = pubnonces]
        \/ coord' = [coord EXCEPT !.pubnonces = pubnonces, !.aggnonce = agg.val,
                                  !.pc = "await_psig"]
        \/ /\ ~ (i < u) /\ ~ Succeeds(agg)
           /\ coord' = [coord EXCEPT !.pubnonces = pubnonces, !.raised = agg, !.pc = "raised"]
    BY DEF CoordinatorReceivePubnonce
  <1>3. /\ coord.pubnonces \in Seq(Contributions) /\ Len(coord.pubnonces) < u
        /\ to_coord \in [Signers -> Seq(Contributions)]
        /\ coord = [pc |-> coord.pc, pubnonces |-> coord.pubnonces, aggnonce |-> coord.aggnonce,
                    psigs |-> coord.psigs, final_sig |-> coord.final_sig, raised |-> coord.raised]
    BY <1>1 DEF IInv, Shapes, CoordInv
  <1>4. u \in Nat \ {0} /\ Signers = 1 .. u /\ session.ids \in Seq(Nat)
    BY Positions, SetUp DEF IInv
  <1>5. DOMAIN pubnonces = 1 .. i /\ i \in Signers
    <2> DEFINE p == coord.pubnonces
               m == Head(to_coord[i])
    <2>1. p \in Seq(Contributions) /\ Len(p) \in Nat /\ Len(p) < u BY <1>3
    <2>2. i \in Signers BY <1>4, <2>1
    <2>3. to_coord[i] \in Seq(Contributions) /\ to_coord[i] # <<>>
      BY <1>1, <1>3, <2>2 DEF ReceiveFrom
    <2>4. m \in Contributions BY <2>3
    <2>5. pubnonces = Append(p, m) /\ i = Len(p) + 1 OBVIOUS
    <2> HIDE DEF p, m, pubnonces, i
    <2> QED BY <2>1, <2>2, <2>4, <2>5
  <1> HIDE DEF pubnonces, agg
  <1>6. /\ coord'.pubnonces = pubnonces
        /\ coord'.pc = "raised" => ~ (i < u) /\ ~ Succeeds(agg) /\ coord'.raised = agg
    <2> HIDE DEF i, u
    <2> QED BY <1>1, <1>2, <1>3
  <1>7. SUFFICES ASSUME coord'.pc = "raised"
                 PROVE  /\ coord'.raised.kind \in {"InvalidContributionError", "VerificationFailed"}
                        /\ coord'.raised.idx \in Faulty
    BY <1>1 DEF BlameIsDeserved, Faulty
  <1>8. DOMAIN pubnonces = Signers /\ DOMAIN session.ids = Signers
    BY <1>4, <1>5, <1>6, <1>7 DEF Signers
  <1>9. \A j \in Signers : pubnonces[j] = pubnonce[j] /\ pubnonce[j] # NoValue
    BY <1>1, <1>6, <1>8 DEF Content, Collected
  <1>10. ASSUME NEW j \in Honest
         PROVE  pubnonces[j][1] \in NonZero /\ pubnonces[j][2] \in NonZero
    <2>1. pubnonces[j] \in NonZero \X NonZero BY <1>9 DEF Honest, Honesty, Faithful
    <2> QED BY <2>1
  <1>11. ASSUME NEW j \in Signers
         PROVE  pubnonces[j][1] # WrongLength /\ pubnonces[j][2] # WrongLength
    <2>1. CASE j \in Honest
      <3>1. WrongLength \notin NonZero BY OrderAssumption DEF WrongLength, NonZero, Scalars
      <3> QED BY <1>10, <2>1, <3>1
    <2>2. CASE j \in Faulty
      <3>1. pubnonces[j] \in FaultyPubnonces BY <1>9, <2>2 DEF Honesty
      <3> QED BY <2>2, <3>1 DEF NoShortPubnonce
    <2> QED BY <2>1, <2>2 DEF Honest
  <1>12. ~ Succeeds(NonceAgg(pubnonces)) BY <1>6, <1>7 DEF agg
  <1>13. PICK j \in DOMAIN session.ids :
           /\ pubnonces[j][1] \notin NonZero \/ pubnonces[j][2] \notin NonZero
           /\ NonceAgg(pubnonces) = InvalidContribution(j, "pubnonce")
    BY <1>4, <1>8, <1>11, <1>12, NonceAggBlames
  <1>14. j \in Faulty BY <1>8, <1>10, <1>13 DEF Honest
  <1> QED BY <1>6, <1>7, <1>13, <1>14 DEF agg, InvalidContribution

\* Round two: who is blamed has sent what its own self-check would refuse, and
\* aggregating what was accepted does not fail.
LEMMA BlameForPsig ==
  ASSUME IInv, Content, Content', Honesty, Honest # {}, BlameIsDeserved, CoordinatorReceivePsig
  PROVE  BlameIsDeserved'
  <1> DEFINE i == Len(coord.psigs) + 1
             s == Head(to_coord[i])[1]
             psigs == Append(coord.psigs, s)
             ctx == ContextOf(coord.aggnonce, TRUE)
             verified == PartialSigVerify(s, coord.pubnonces, ctx, i)
             final == PartialSigAgg(psigs, ctx)
             u == Len(session.ids)
             yes == Returns(TRUE)
             no == Returns(FALSE)
  <1>1. /\ coord.pc = "await_psig" /\ ReceiveFrom(i) /\ session' = session
    BY DEF CoordinatorReceivePsig
  <1>2. \/ i = u /\ verified = yes /\ Conclude(psigs, final)
        \/ JudgePsig(i, psigs, verified)
    BY DEF CoordinatorReceivePsig
  <1>3. /\ coord.psigs \in Seq({m[1] : m \in Contributions}) /\ Len(coord.psigs) < u
        /\ Len(coord.pubnonces) = u /\ coord.pubnonces \in Seq(Contributions)
        /\ coord.aggnonce # NoValue /\ Shapes /\ Collected
        /\ to_coord \in [Signers -> Seq(Contributions)]
        /\ coord = [pc |-> coord.pc, pubnonces |-> coord.pubnonces, aggnonce |-> coord.aggnonce,
                    psigs |-> coord.psigs, final_sig |-> coord.final_sig, raised |-> coord.raised]
    BY <1>1 DEF IInv, Shapes, CoordInv, Content
  <1>4. u \in Nat \ {0} /\ Signers = 1 .. u BY Positions DEF IInv
  <1>5. i \in Signers /\ i \in Nat /\ Len(coord.psigs) = i - 1
    <2>1. Len(coord.psigs) \in Nat BY <1>3
    <2> QED BY <1>3, <1>4, <2>1
  <1>6. Taken(i) = 1 BY <1>3, <1>4, <1>5 DEF Taken, One
  <1>7. psig[i] # NoValue /\ s = psig[i][1]
    BY <1>1, <1>5, <1>6, TakeContent
  <1>8. \A j \in Signers : coord.pubnonces[j] = pubnonce[j] /\ pubnonce[j] # NoValue
    BY <1>3, <1>4 DEF Collected
  <1>9. Succeeds(Tweaked) BY <1>8 DEF Honest, Honesty, Faithful
  <1>10. Succeeds(GetSessionValues(ctx)) BY <1>3, <1>9, ValuesExist
  <1>11. PICK v : /\ GetSessionValues(ctx) = Returns(v)
                  /\ Len(session.tweaks) = Len(session.is_xonly)
    BY <1>3, <1>10, ValuesOfSession
  <1>12. ASSUME NEW x, NEW j \in Signers
         PROVE  /\ PartialSigVerify(x, coord.pubnonces, ctx, j) = yes <=> SelfCheck(j, x, ctx)
                /\ PartialSigVerify(x, coord.pubnonces, ctx, j) \in {yes, no}
                /\ SelfCheck(j, x, ctx) => x \in Scalars
    <2> DEFINE accepted == PartialSigVerifyInternal(x, session.ids[j], coord.pubnonces[j],
                                                    session.pubshares[j], ctx)
    <2>1. PartialSigVerify(x, coord.pubnonces, ctx, j) = accepted
      BY <1>3, <1>11, VerifiedEquation
    <2>2. SelfCheck(j, x, ctx) <=> accepted = yes BY <1>8 DEF SelfCheck
    <2>3. accepted \in {yes, no}
      <3> HIDE DEF ctx
      <3> QED BY <1>11, Acceptance
    <2>4. SelfCheck(j, x, ctx) => x \in Scalars BY CheckedIsScalar
    <2> HIDE DEF accepted, yes, no
    <2> QED BY <2>1, <2>2, <2>3, <2>4
  <1>13. i \in Honest => verified = yes
    <2>1. i \in Honest => SelfCheck(i, s, ctx) BY <1>7 DEF Honesty, Faithful
    <2> QED BY <1>5, <1>12, <2>1
  <1>14. ctx.ids = session.ids BY DEF ContextOf
  <1>15. i = u /\ verified = yes => Succeeds(final)
    <2> SUFFICES ASSUME i = u, verified = yes PROVE Succeeds(final) OBVIOUS
    <2>1. s \in Scalars BY <1>5, <1>12
    <2>2. \A j \in DOMAIN coord.psigs : coord.psigs[j] \in Scalars
      <3>1. DOMAIN coord.psigs \subseteq Signers BY <1>3, <1>4, <1>5
      <3>2. ASSUME NEW j \in DOMAIN coord.psigs PROVE coord.psigs[j] \in Scalars
        <4>1. PartialSigVerify(coord.psigs[j], coord.pubnonces, ctx, j) = yes
          BY <1>3 DEF Collected, Verified
        <4> QED BY <1>12, <3>1, <4>1
      <3> QED BY <3>2
    <2> DEFINE p == coord.psigs
    <2>3. s \in {m[1] : m \in Contributions}
      <3>1. to_coord[i] \in Seq(Contributions) /\ to_coord[i] # <<>>
        BY <1>1, <1>3, <1>5 DEF ReceiveFrom
      <3>2. Head(to_coord[i]) \in Contributions BY <3>1
      <3> QED BY <3>2
    <2>4. p \in Seq({m[1] : m \in Contributions}) /\ psigs = Append(p, s) /\ Len(p) + 1 = u
      BY <1>3
    <2> HIDE DEF p, s, psigs, ctx, i
    <2>5. Len(psigs) = u /\ \A j \in DOMAIN psigs : psigs[j] \in Scalars
      BY <2>1, <2>2, <2>3, <2>4 DEF p
    <2>6. Len(psigs) = Len(ctx.ids) BY <1>14, <2>5
    <2> HIDE DEF u
    <2>7. PartialSigAgg(psigs, ctx)
            = Returns(<<ToXonly(v.R), Add(SumOver(DOMAIN psigs, psigs), TweakSummand(v))>>)
      BY <1>11, <2>5, <2>6, AggregateReturned
    <2> QED BY <2>7 DEF Succeeds, Returns
  <1>16. verified \in {yes, no} BY <1>5, <1>12
  <1>17. Succeeds(verified)
    <2> HIDE DEF verified
    <2> QED BY <1>16 DEF Succeeds, Returns
  <1> HIDE DEF i, s, psigs, ctx, verified, final, u, yes, no
  <1>18. coord'.pc = "raised" => coord'.raised = VerificationFailed(i) /\ verified # yes
    <2>1. CASE i = u /\ verified = yes /\ Conclude(psigs, final)
      <3>1. Succeeds(final) BY <1>15, <2>1
      <3>2. coord' = [coord EXCEPT !.psigs = psigs, !.final_sig = final.val, !.pc = "returned"]
        BY <2>1, <3>1 DEF Conclude
      <3>3. coord'.pc = "returned" BY <1>3, <3>2
      <3> QED BY <3>3
    <2>2. CASE JudgePsig(i, psigs, verified)
      <3>1. CASE verified = yes
        <4>1. coord' = [coord EXCEPT !.psigs = psigs] BY <2>2, <3>1 DEF JudgePsig, yes
        <4>2. coord'.pc = "await_psig" BY <1>1, <1>3, <4>1
        <4> QED BY <4>2
      <3>2. CASE verified # yes
        <4> DEFINE e == IF Succeeds(verified) THEN VerificationFailed(i) ELSE verified
        <4>1. coord' = [coord EXCEPT !.pc = "raised", !.raised = e]
          BY <2>2, <3>2, Zenon DEF JudgePsig, yes
        <4>2. e = VerificationFailed(i) BY <1>17
        <4> HIDE DEF e
        <4> QED BY <1>3, <3>2, <4>1, <4>2
      <3> QED BY <3>1, <3>2
    <2> QED BY <1>2, <2>1, <2>2
  <1>19. verified # yes => i \in Faulty BY <1>5, <1>13 DEF Honest
  <1> QED BY <1>1, <1>18, <1>19 DEF BlameIsDeserved, VerificationFailed, Faulty

\* Nobody is blamed who followed the protocol, if a blame is at all explained.
BlameInv == NoShortPubnonce /\ Honest # {} => BlameIsDeserved

\* No step changes who is faulty.
LEMMA SessionStays ==
  ASSUME IInv, [Next]_vars
  PROVE  /\ session' = session /\ Signers' = Signers /\ Honest' = Honest /\ Faulty' = Faulty
         /\ Tweaked' = Tweaked /\ (NoShortPubnonce' <=> NoShortPubnonce)
  <1>1. \A i \in Signers : ParticipantStep(i) \/ FaultyStep(i) => session' = session
    BY ParticipantSends
  <1>2. session' = session
    BY <1>1 DEF Next, vars, CoordinatorStep, CoordinatorReceivePubnonce,
                CoordinatorReceivePsig, CancelRemaining
  <1> QED BY <1>2 DEF Signers, Honest, Faulty, Tweaked, NoShortPubnonce

\* At the start nobody is blamed.
LEMMA InitBlame == Init => BlameInv
  BY DEF Init, BlameInv, BlameIsDeserved

\* Only the coordinator's own steps blame anybody.
LEMMA NextBlame == IInv /\ Content /\ Content' /\ Honesty /\ BlameInv /\ [Next]_vars => BlameInv'
  <1> SUFFICES ASSUME IInv, Content, Content', Honesty, BlameInv, [Next]_vars,
                      NoShortPubnonce', Honest' # {}
               PROVE  BlameIsDeserved'
    BY DEF BlameInv
  <1>1. /\ session' = session /\ Honest' = Honest /\ Faulty' = Faulty /\ NoShortPubnonce
    BY SessionStays
  <1>2. BlameIsDeserved BY <1>1 DEF BlameInv
  <1>3. CASE coord' = coord BY <1>1, <1>2, <1>3 DEF BlameIsDeserved
  <1>4. CASE CoordinatorStep
    BY <1>1, <1>2, <1>4, BlameForPubnonce, BlameForPsig DEF CoordinatorStep
  <1>5. CASE CancelRemaining
    <2> DEFINE place == IF coord.pc \in Running THEN "cancelled" ELSE coord.pc
    <2>1. coord' = [coord EXCEPT !.pc = place] BY <1>5 DEF CancelRemaining
    <2>2. place = "raised" => coord.pc = "raised" OBVIOUS
    <2> HIDE DEF place
    <2>3. coord'.pc = place /\ coord'.raised = coord.raised BY <2>1 DEF IInv, Shapes
    <2> QED BY <1>1, <1>2, <2>2, <2>3 DEF BlameIsDeserved
  <1>6. \A i \in Signers : ParticipantStep(i) \/ FaultyStep(i) => coord' = coord
    BY ParticipantSends
  <1> QED BY <1>3, <1>4, <1>5, <1>6 DEF Next, vars

\* When the coordinator gives up, it names a faulty signer: if no faulty signer
\* sends a public nonce of the wrong length, which fails an assertion of the
\* coordinator instead (SessionShortNonce), and somebody follows the protocol,
\* so that the tweaks are known to apply (example.py:184-206).
THEOREM AbortsNameTheFaulty ==
  NoShortPubnonce /\ Honest # {} /\ Spec => []BlameIsDeserved
  <1> DEFINE Setting == NoShortPubnonce /\ Honest # {}
  <1>1. IInv /\ Setting /\ [Next]_vars => Setting' BY SessionStays
  <1>2. Setting /\ BlameInv => BlameIsDeserved BY DEF BlameInv
  <1> HIDE DEF Setting
  <1>3. Setting /\ Spec => []BlameIsDeserved
    BY <1>1, <1>2, InitIInv, NextIInv, InitContent, NextContent, InitHonesty,
       NextHonesty, InitBlame, NextBlame, PTL DEF Spec
  <1> QED BY <1>3 DEF Setting

-----------------------------------------------------------------------------
(* The order of the signers.                                               *)

\* What the coordinator has accepted is what the self-check of the signer would
\* accept.
LEMMA AcceptedIsChecked ==
  ASSUME Shapes, Collected, coord.aggnonce # NoValue,
         NEW v, GetSessionValues(ContextOf(coord.aggnonce, TRUE)) = Returns(v),
         Len(session.tweaks) = Len(session.is_xonly), NEW i, i \in DOMAIN coord.psigs,
         Len(coord.psigs) = Len(session.ids)
  PROVE  coord.psigs[i] \in Scalars
  <1> DEFINE ctx == ContextOf(coord.aggnonce, TRUE)
             s == coord.psigs[i]
  <1>1. i \in Signers
    <2>1. coord.psigs \in Seq({m[1] : m \in Contributions}) /\ session.ids \in Seq(Nat)
      BY SetUp DEF Shapes
    <2> QED BY <2>1 DEF Signers
  <1>2. Verified(i) BY DEF Collected
  <1>3. PartialSigVerifyInternal(s, session.ids[i], coord.pubnonces[i], session.pubshares[i], ctx)
          = Returns(TRUE)
    BY <1>1, <1>2, VerifiedEquation DEF Verified
  <1> HIDE DEF ctx, s
  <1>4. s \in Scalars BY <1>3, Acceptance DEF ctx
  <1> QED BY <1>4 DEF s

\* A reordered context has the same session values.
LEMMA SameValuesReordered ==
  ASSUME Shapes, NEW agg, NEW p, p \in Bijection(Signers, Signers)
  PROVE  LET ctx == Reordered(ContextOf(agg, TRUE), p)
         IN  /\ GetSessionValues(ctx) = GetSessionValues(ContextOf(agg, TRUE))
             /\ Rearranged(Signers, session.ids, p, ctx.ids)
             /\ Rearranged(Signers, session.pubshares, p, ctx.pubshares)
  <1> DEFINE own == ContextOf(agg, TRUE)
             ctx == Reordered(own, p)
  <1>1. /\ Rearranged(Signers, session.ids, p, ctx.ids)
        /\ Rearranged(Signers, session.pubshares, p, ctx.pubshares)
        /\ ctx.n = session.n /\ ctx.t = session.t /\ ctx.thresh_pk = session.thresh_pk
        /\ ctx.aggnonce = agg /\ ctx.tweaks = session.tweaks
        /\ ctx.is_xonly = session.is_xonly /\ ctx.msg = session.msg
        /\ ctx.knows_pubshares = own.knows_pubshares
    BY DEF Reordered, ContextOf, Signers, Rearranged
  <1>2. /\ own.ids = session.ids /\ own.pubshares = session.pubshares
        /\ own.n = session.n /\ own.t = session.t /\ own.thresh_pk = session.thresh_pk
        /\ own.aggnonce = agg /\ own.tweaks = session.tweaks
        /\ own.is_xonly = session.is_xonly /\ own.msg = session.msg
    BY DEF ContextOf
  <1>3. own.knows_pubshares = TRUE BY DEF ContextOf
  <1> HIDE DEF ctx, own
  <1>4. /\ SignerIds(session.ids) /\ Signers = DOMAIN session.ids
        /\ ValidParams(session.n, session.t, session.ids, session.pubshares, session.thresh_pk)
    BY SetUp DEF Signers
  <1>5. /\ Len(ctx.ids) = Len(session.ids) /\ SerializeIds(ctx.ids) = SerializeIds(session.ids)
    BY <1>1, <1>4, SameSigners
  <1>6. ValidParams(session.n, session.t, ctx.ids, ctx.pubshares, session.thresh_pk)
    BY <1>1, <1>4, SameParams
  <1>7. ValidContext(ctx) BY <1>1, <1>3, <1>6 DEF ValidContext, ValidParams
  <1>8. ValidContext(own) BY <1>2, <1>3, <1>4 DEF ValidContext, ValidParams
  <1>9. \A tweak_ctx : ValuesOfKey(ctx, tweak_ctx) = ValuesOfKey(own, tweak_ctx)
    BY <1>1, <1>2, <1>5 DEF ValuesOfKey
  <1>10. GetSessionValues(ctx) = GetSessionValues(own)
    BY <1>1, <1>2, <1>7, <1>8, <1>9, SameValuesOfKey
  <1> QED BY <1>1, <1>10 DEF ctx, own

\* An honest signer would have signed the same.
LEMMA SameSignature ==
  ASSUME Shapes, Collected, NEW i \in Signers, Faithful(i), psig[i] # NoValue,
         pubnonce[i] # NoValue, NEW p, p \in Bijection(Signers, Signers)
  PROVE  Sign(pubnonce[i], session.secshares[i], session.ids[i],
              Reordered(ContextOf(coord.aggnonce, TRUE), p)).result
           = Returns(psig[i][1])
  <1> DEFINE own == ContextOf(coord.aggnonce, TRUE)
             ctx == Reordered(own, p)
             my_id == session.ids[i]
             secshare == session.secshares[i]
             s == psig[i][1]
  <1>1. /\ coord.aggnonce # NoValue /\ secshare = session.pubshares[i] /\ SelfCheck(i, s, own)
        /\ Succeeds(Tweaked) /\ pubnonce[i] \in NonZero \X NonZero
    BY DEF Faithful, Misconfigured
  <1>2. PICK k_1 \in NonZero, k_2 \in NonZero : pubnonce[i] = <<k_1, k_2>> BY <1>1
  <1>3. PICK v : GetSessionValues(own) = Returns(v) /\ Coefficients(v)
    <2>1. Succeeds(GetSessionValues(own)) BY <1>1, ValuesExist
    <2> QED BY <2>1, ValuesOfSession
  <1>4. /\ GetSessionValues(ctx) = Returns(v) /\ Rearranged(Signers, session.ids, p, ctx.ids)
        /\ Rearranged(Signers, session.pubshares, p, ctx.pubshares)
    BY <1>3, SameValuesReordered
  <1>5. /\ SignerIds(session.ids) /\ Signers = DOMAIN session.ids /\ my_id \in ToSet(session.ids)
        /\ secshare \in NonZero /\ IsInjective(session.ids)
    BY <1>1, SetUp DEF Signers, ToSet, SignerIds
  <1> HIDE DEF ctx
  <1>6. /\ SignerIds(ctx.ids) /\ DOMAIN ctx.ids = Signers /\ ToSet(ctx.ids) = ToSet(session.ids)
        /\ \A x : DeriveInterpolatingValue(ctx.ids, x) = DeriveInterpolatingValue(session.ids, x)
    BY <1>4, <1>5, SameSigners
  <1>7. p \in [Signers -> Signers] BY DEF Bijection, Injection
  <1>8. \A k \in DOMAIN ctx.ids : ctx.ids[k] = my_id => ctx.pubshares[k] = secshare
    <2> SUFFICES ASSUME NEW k \in Signers, ctx.ids[k] = my_id PROVE ctx.pubshares[k] = secshare
      BY <1>6
    <2>1. p[k] \in Signers /\ session.ids[p[k]] = session.ids[i]
      BY <1>4, <1>5, <1>7 DEF Rearranged
    <2>2. p[k] = i BY <1>5, <2>1 DEF IsInjective
    <2> QED BY <1>1, <1>4, <2>2 DEF Rearranged
  <1> DEFINE ours == PartialSig(k_1, k_2, secshare, my_id, session.ids, v)
             theirs == PartialSig(k_1, k_2, secshare, my_id, ctx.ids, v)
  <1>9. theirs = ours BY <1>6 DEF PartialSig
  <1>10. Sign(<<k_1, k_2>>, secshare, my_id, ctx).result = Returns(theirs)
    <2>1. my_id \in ToSet(ctx.ids) BY <1>5, <1>6
    <2> HIDE DEF my_id, secshare
    <2> QED BY <1>3, <1>4, <1>5, <1>6, <1>8, <2>1, SignReturns
  <1>11. own.ids = session.ids BY DEF ContextOf
  <1>12. /\ s \in Scalars /\ PartialSigEquation(s, my_id, <<k_1, k_2>>, secshare, session.ids, v)
    <2>1. PartialSigVerifyInternal(s, my_id, <<k_1, k_2>>, secshare, own) = Returns(TRUE)
      BY <1>1, <1>2 DEF SelfCheck
    <2> HIDE DEF own, s, my_id, secshare
    <2> QED BY <1>3, <1>11, <2>1, Acceptance
  <1>13. /\ ours \in Scalars
         /\ PartialSigEquation(ours, my_id, <<k_1, k_2>>, secshare, session.ids, v)
    <2>1. k_1 \in Scalars /\ k_2 \in Scalars /\ secshare \in Scalars BY <1>5 DEF NonZero
    <2>2. Mul(k_1, G) = k_1 /\ Mul(k_2, G) = k_2 /\ Mul(secshare, G) = secshare
      BY <2>1, UnitsAndNegation DEF G
    <2> HIDE DEF my_id, secshare
    <2> QED BY <1>3, <1>5, <2>1, <2>2, SigningEquation
  <1> HIDE DEF ours, s, my_id, secshare
  <1>14. s = ours BY <1>12, <1>13, EquationBindsPsig
  <1> QED BY <1>2, <1>9, <1>10, <1>14 DEF ctx, s, my_id, secshare

\* The coordinator would have aggregated the same.
LEMMA SameAggregate ==
  ASSUME IInv, Content, coord.pc = "returned", NEW p, p \in Bijection(Signers, Signers)
  PROVE  PartialSigAgg([k \in Signers |-> coord.psigs[p[k]]],
                       Reordered(ContextOf(coord.aggnonce, TRUE), p))
           = Returns(coord.final_sig)
  <1> DEFINE own == ContextOf(coord.aggnonce, TRUE)
             ctx == Reordered(own, p)
             psigs == coord.psigs
             others == [k \in Signers |-> psigs[p[k]]]
  <1>1. /\ Shapes /\ Collected /\ coord.aggnonce # NoValue
        /\ Len(psigs) = Len(session.ids) /\ PartialSigAgg(psigs, own) = Returns(coord.final_sig)
    BY DEF IInv, CoordInv, Content, Collected
  <1>2. Succeeds(GetSessionValues(own))
    <2> HIDE DEF own, psigs
    <2>1. ~ Succeeds(GetSessionValues(own)) =>
            PartialSigAgg(psigs, own) = GetSessionValues(own)
      BY DEF PartialSigAgg, Then
    <2>2. Succeeds(Returns(coord.final_sig)) BY DEF Succeeds, Returns
    <2> QED BY <1>1, <2>1, <2>2
  <1>3. PICK v : /\ GetSessionValues(own) = Returns(v)
                 /\ Len(session.tweaks) = Len(session.is_xonly)
    BY <1>1, <1>2, ValuesOfSession
  <1>4. GetSessionValues(ctx) = Returns(v) /\ Rearranged(Signers, session.ids, p, ctx.ids)
    BY <1>1, <1>3, SameValuesReordered
  <1>5. \A k \in DOMAIN psigs : psigs[k] \in Scalars BY <1>1, <1>3, AcceptedIsChecked
  <1>6. /\ SignerIds(session.ids) /\ session.ids \in Seq(Nat) /\ Signers = DOMAIN session.ids
        /\ psigs \in Seq({m[1] : m \in Contributions})
    BY <1>1, SetUp DEF Signers, Shapes
  <1>7. own.ids = session.ids BY DEF ContextOf
  <1> HIDE DEF ctx, own, psigs
  <1>8. DOMAIN psigs = Signers /\ Signers = 1 .. Len(session.ids) /\ Len(session.ids) \in Nat
    BY <1>1, <1>6
  <1>9. p \in [Signers -> Signers] BY DEF Bijection, Injection
  <1>10. others \in [1 .. Len(session.ids) -> Scalars] BY <1>5, <1>8, <1>9
  <1>11. Len(others) = Len(session.ids) /\ DOMAIN others = Signers BY <1>8, <1>10
  <1>12. Len(ctx.ids) = Len(session.ids) BY <1>4, <1>6, SameSigners
  <1>13. (\A k \in DOMAIN others : others[k] \in Scalars) /\ \A k \in Signers : others[k] = psigs[p[k]]
    BY <1>10, <1>11, <1>8
  <1>14. IsFiniteSet(Signers) BY <1>8, FS_Interval
  <1> HIDE DEF others
  <1>15. SumOver(Signers, others) = SumOver(Signers, psigs)
    <2>1. ScalarsOn(Signers, psigs) BY <1>5, <1>8 DEF ScalarsOn
    <2> QED BY <1>13, <1>14, <2>1, SumReindexed
  <1> DEFINE sig(sum) == Returns(<<ToXonly(v.R), Add(sum, TweakSummand(v))>>)
  <1>16. PartialSigAgg(psigs, own) = sig(SumOver(DOMAIN psigs, psigs))
    BY <1>1, <1>3, <1>5, <1>7, AggregateReturned
  <1>17. PartialSigAgg(others, ctx) = sig(SumOver(DOMAIN others, others))
    BY <1>4, <1>11, <1>12, <1>13, AggregateReturned
  <1> HIDE DEF sig
  <1>18. PartialSigAgg(others, ctx) = Returns(coord.final_sig)
    BY <1>1, <1>8, <1>11, <1>15, <1>16, <1>17
  <1> QED BY <1>18 DEF others, ctx, own, psigs

\* The signers are a set: in whatever order a participant lists them and their
\* public shares, it sends the same partial signature, and the coordinator
\* returns the same signature (signing.py serializes the sorted ids, and every
\* other use of the list is a sum, a product or a search).
THEOREM SignersFormASet == Spec => []OrderOfSignersIsIrrelevant
  <1>1. ASSUME IInv, Content, Honesty PROVE OrderOfSignersIsIrrelevant
    <2> SUFFICES ASSUME NEW p \in Bijection(Signers, Signers)
                 PROVE  LET ctx == Reordered(ContextOf(coord.aggnonce, TRUE), p)
                        IN  /\ \A i \in Honest :
                                 psig[i] # NoValue =>
                                   Sign(pubnonce[i], session.secshares[i], session.ids[i],
                                        ctx).result
                                     = Returns(psig[i][1])
                            /\ coord.pc = "returned" =>
                                 PartialSigAgg([k \in Signers |-> coord.psigs[p[k]]], ctx)
                                   = Returns(coord.final_sig)
      BY DEF OrderOfSignersIsIrrelevant
    <2>1. ASSUME NEW i \in Honest, psig[i] # NoValue
          PROVE  Sign(pubnonce[i], session.secshares[i], session.ids[i],
                      Reordered(ContextOf(coord.aggnonce, TRUE), p)).result
                   = Returns(psig[i][1])
      <3>1. i \in Signers /\ Faithful(i) BY <1>1 DEF Honest, Honesty
      <3>2. pubnonce[i] # NoValue BY <2>1, <3>1 DEF Faithful
      <3>3. Shapes /\ Collected BY <1>1 DEF IInv, Content
      <3> QED BY <2>1, <3>1, <3>2, <3>3, SameSignature
    <2>2. coord.pc = "returned" =>
            PartialSigAgg([k \in Signers |-> coord.psigs[p[k]]],
                          Reordered(ContextOf(coord.aggnonce, TRUE), p))
              = Returns(coord.final_sig)
      BY <1>1, SameAggregate
    <2> QED BY <2>1, <2>2
  <1>2. IInv /\ Content /\ Honesty => OrderOfSignersIsIrrelevant BY <1>1
  <1> QED BY <1>2, InitIInv, NextIInv, InitContent, NextContent, InitHonesty, NextHonesty,
             PTL DEF Spec

-----------------------------------------------------------------------------
(* The sessions that main starts come to rest only when all have returned.  *)

\* What participant i is left with in the second half of the session.
Drained(i) ==
  /\ psig[i] # NoValue => psig[i] = <<psig[i][1]>>
  /\ pc[i] \in {"await_final", "returned"} => psig[i] # NoValue
  /\ pc[i] = "returned" => to_part[i] = <<>>
  /\ coord.pc = "returned" => to_coord[i] = <<>>

\* The invariant of the queues at the end.
Draining == \A i \in Signers : Drained(i)

\* A step of participant i takes its own coroutine to the next place.
Moves(i) ==
  \/ /\ pc[i] = "start" /\ pc'[i] \in {"await_aggnonce", "raised"}
     /\ psig'[i] = psig[i]
  \/ /\ pc[i] = "await_aggnonce" /\ pc'[i] = "raised" /\ psig'[i] = psig[i]
  \/ /\ pc[i] = "await_aggnonce" /\ pc'[i] = "await_final" /\ \E s : psig'[i] = <<s>>
  \/ /\ pc[i] = "await_final" /\ pc'[i] = "returned" /\ psig'[i] = psig[i]
     /\ to_coord'[i] = to_coord[i]
     /\ to_part[i] # <<>> /\ to_part'[i] = Tail(to_part[i])

\* And leaves the others alone.
LEMMA ParticipantMoves ==
  ASSUME IInv, NEW i \in Signers, ParticipantStep(i) \/ FaultyStep(i)
  PROVE  /\ session' = session /\ coord' = coord /\ Moves(i)
         /\ \A j \in Signers \ {i} : /\ pc'[j] = pc[j] /\ psig'[j] = psig[j]
                                     /\ to_coord'[j] = to_coord[j] /\ to_part'[j] = to_part[j]
  <1>1. /\ pc \in [Signers -> Places]
        /\ psig \in [Signers -> Contributions \cup {NoValue}]
        /\ to_coord \in [Signers -> Seq(Contributions)]
        /\ to_part = [j \in Signers |-> to_part[j]]
    BY DEF IInv, Shapes
  <1>2. ASSUME session' = session, coord' = coord, psig' = psig, to_part' = to_part,
               pc[i] = "start",
               \E x \in {"await_aggnonce", "raised"} : pc' = [pc EXCEPT ![i] = x],
               to_coord' = to_coord \/ \E m : to_coord' = [to_coord EXCEPT ![i] = m]
        PROVE  /\ session' = session /\ coord' = coord /\ Moves(i)
               /\ \A j \in Signers \ {i} :
                    /\ pc'[j] = pc[j] /\ psig'[j] = psig[j]
                    /\ to_coord'[j] = to_coord[j] /\ to_part'[j] = to_part[j]
    BY <1>1, <1>2 DEF Moves
  <1>3. ASSUME session' = session, coord' = coord, Receive(i), pc[i] = "await_aggnonce",
               \/ pc' = [pc EXCEPT ![i] = "raised"] /\ psig' = psig /\ to_coord' = to_coord
               \/ \E s : /\ pc' = [pc EXCEPT ![i] = "await_final"]
                         /\ psig' = [psig EXCEPT ![i] = <<s>>]
                         /\ to_coord' = [to_coord EXCEPT ![i] = Append(@, <<s>>)]
        PROVE  /\ session' = session /\ coord' = coord /\ Moves(i)
               /\ \A j \in Signers \ {i} :
                    /\ pc'[j] = pc[j] /\ psig'[j] = psig[j]
                    /\ to_coord'[j] = to_coord[j] /\ to_part'[j] = to_part[j]
    <2>1. \A j \in Signers \ {i} : to_part'[j] = to_part[j] BY <1>1, <1>3 DEF Receive
    <2> QED BY <1>1, <1>3, <2>1 DEF Moves
  <1>4. CASE \E k_1, k_2 \in NonceScalars : ParticipantStart(i, k_1, k_2)
    BY <1>2, <1>4 DEF ParticipantStart, SendToCoordinator, Goes
  <1>5. CASE \E w \in FaultyPubnonces : FaultyStart(i, w)
    BY <1>2, <1>5 DEF FaultyStart, SendToCoordinator, Goes
  <1>6. CASE ParticipantSign(i)
    <2> DEFINE ctx == ContextOf(Head(to_part[i]), i # 1)
               signed == Sign(secnonce[i], session.secshares[i], session.ids[i], ctx)
    <2>1. /\ pc[i] = "await_aggnonce" /\ Receive(i) /\ SendPsig(i, ctx, signed)
          /\ UNCHANGED <<session, pubnonce, returned, coord>>
      BY <1>6 DEF ParticipantSign
    <2> HIDE DEF ctx, signed
    <2> QED BY <1>3, <2>1 DEF SendPsig, SendToCoordinator, Goes
  <1>7. CASE \E s \in FaultyPsigs : FaultySign(i, s)
    BY <1>3, <1>7 DEF FaultySign, SendToCoordinator, Goes
  <1>8. CASE ParticipantFinish(i)
    <2>1. /\ session' = session /\ coord' = coord /\ pc[i] = "await_final"
          /\ pc' = [pc EXCEPT ![i] = "returned"] /\ psig' = psig /\ to_coord' = to_coord
          /\ to_part[i] # <<>> /\ to_part' = [to_part EXCEPT ![i] = Tail(to_part[i])]
      BY <1>8 DEF ParticipantFinish, Receive, Goes
    <2> QED BY <1>1, <2>1 DEF Moves
  <1> QED BY <1>4, <1>5, <1>6, <1>7, <1>8 DEF ParticipantStep, FaultyStep

\* Nothing is left of the first message in the queue of a signer that the
\* coordinator has heard twice.
LEMMA LastReceived ==
  ASSUME IInv, Content, CoordinatorReceivePsig, coord'.pc = "returned"
  PROVE  \A j \in Signers : to_coord'[j] = <<>>
  <1> DEFINE i == Len(coord.psigs) + 1
             u == Len(session.ids)
             verified == PartialSigVerify(Head(to_coord[i])[1], coord.pubnonces,
                                          ContextOf(coord.aggnonce, TRUE), i)
             psigs == Append(coord.psigs, Head(to_coord[i])[1])
  <1>1. /\ coord.pc = "await_psig" /\ ReceiveFrom(i)
        /\ \/ i = u
           \/ JudgePsig(i, psigs, verified)
    BY DEF CoordinatorReceivePsig
  <1>2. /\ coord.psigs \in Seq({m[1] : m \in Contributions}) /\ Len(coord.psigs) < u
        /\ Len(coord.pubnonces) = u /\ to_coord \in [Signers -> Seq(Contributions)]
        /\ coord = [pc |-> coord.pc, pubnonces |-> coord.pubnonces, aggnonce |-> coord.aggnonce,
                    psigs |-> coord.psigs, final_sig |-> coord.final_sig, raised |-> coord.raised]
    BY <1>1 DEF IInv, Shapes, CoordInv
  <1>3. u \in Nat \ {0} /\ Signers = 1 .. u BY Positions DEF IInv
  <1>4. Len(coord.psigs) \in Nat /\ i = Len(coord.psigs) + 1 BY <1>2
  <1> HIDE DEF psigs, verified
  <1>5. i = u
    <2>1. ~ JudgePsig(i, psigs, verified)
      <3>1. ASSUME coord' = [coord EXCEPT !.psigs = psigs] PROVE FALSE
        <4>1. coord'.pc = "await_psig" BY <1>1, <1>2, <3>1
        <4> QED BY <4>1
      <3>2. ASSUME NEW e, coord' = [coord EXCEPT !.pc = "raised", !.raised = e] PROVE FALSE
        <4>1. coord'.pc = "raised" BY <1>2, <3>2
        <4> QED BY <4>1
      <3> QED BY <3>1, <3>2, Zenon DEF JudgePsig
    <2> QED BY <1>1, <2>1
  <1> HIDE DEF i
  <1>6. ASSUME NEW j \in Signers PROVE to_coord'[j] = <<>>
    <2>1. Sent(j) = Taken(j) + Len(to_coord[j]) /\ Len(to_coord[j]) \in Nat
      BY <1>1, <1>2 DEF IInv, QueueInv
    <2>2. Sent(j) \in Nat /\ Sent(j) <= 2 BY DEF Sent, One
    <2>3. to_coord[i] # <<>> /\ to_coord' = [to_coord EXCEPT ![i] = Tail(to_coord[i])]
      BY <1>1 DEF ReceiveFrom
    <2>4. to_coord[j] \in Seq(Contributions) BY <1>2
    <2>5. CASE j = i
      <3>1. Taken(j) = 1 BY <1>2, <1>3, <1>4, <1>5, <2>5 DEF Taken, One
      <3>2. Len(to_coord[j]) <= 1 BY <2>1, <2>2, <3>1
      <3>3. Tail(to_coord[j]) = <<>> BY <2>3, <2>4, <2>5, <3>2
      <3> QED BY <1>2, <2>3, <2>5, <3>3
    <2>6. CASE j # i
      <3>1. Taken(j) = 2 BY <1>2, <1>3, <1>4, <1>5, <2>6 DEF Taken, One
      <3>2. Len(to_coord[j]) = 0 BY <2>1, <2>2, <3>1
      <3>3. to_coord[j] = <<>> BY <2>4, <3>2
      <3> QED BY <1>2, <2>3, <2>6, <3>3
    <2> QED BY <2>5, <2>6
  <1> QED BY <1>6

\* Every step preserves it.
LEMMA NextDraining == IInv /\ Content /\ Draining /\ [Next]_vars => Draining'
  <1> SUFFICES ASSUME IInv, Content, Draining, [Next]_vars PROVE Draining' OBVIOUS
  <1>1. Signers' = Signers BY SessionStays
  <1>2. CASE UNCHANGED vars BY <1>1, <1>2 DEF vars, Draining, Drained
  <1>3. ASSUME NEW i \in Signers, ParticipantStep(i) \/ FaultyStep(i) PROVE Draining'
    <2>1. /\ coord' = coord /\ Moves(i)
          /\ \A j \in Signers \ {i} : /\ pc'[j] = pc[j] /\ psig'[j] = psig[j]
                                      /\ to_coord'[j] = to_coord[j] /\ to_part'[j] = to_part[j]
      BY <1>3, ParticipantMoves
    <2>2. \A j \in Signers \ {i} : Drained(j)' BY <2>1 DEF Draining, Drained
    <2>3. Drained(i) BY DEF Draining
    <2>4. /\ pc[i] \in {"start", "await_aggnonce"} => psig[i] = NoValue
          /\ pc[i] = "await_final" => to_part[i] = LastBroadcast
          /\ coord.pc = "returned" => psig[i] # NoValue
      BY DEF IInv, QueueInv, CoordInv
    <2>5. CASE pc[i] = "start" \/ (pc[i] = "await_aggnonce" /\ pc'[i] = "raised")
      <3>1. psig'[i] = NoValue /\ coord.pc # "returned" BY <2>1, <2>4, <2>5 DEF Moves
      <3>2. pc'[i] \in {"await_aggnonce", "raised"} BY <2>1, <2>5 DEF Moves
      <3> QED BY <1>1, <2>1, <2>2, <3>1, <3>2 DEF Draining, Drained
    <2>6. CASE pc[i] = "await_aggnonce" /\ pc'[i] = "await_final"
      <3>1. PICK s : psig'[i] = <<s>> BY <2>1, <2>6 DEF Moves
      <3>2. psig'[i] # NoValue /\ psig'[i] = <<psig'[i][1]>>
        BY <3>1, Queues DEF NoValue
      <3>3. coord.pc # "returned" BY <2>4, <2>6
      <3> QED BY <1>1, <2>1, <2>2, <2>6, <3>2, <3>3 DEF Draining, Drained
    <2>7. CASE pc[i] = "await_final"
      <3>1. /\ pc'[i] = "returned" /\ psig'[i] = psig[i] /\ to_coord'[i] = to_coord[i]
            /\ to_part[i] # <<>> /\ to_part'[i] = Tail(to_part[i])
        BY <2>1, <2>7 DEF Moves
      <3>2. Tail(to_part[i]) = <<>>
        <4>1. to_part[i] = <<coord.final_sig>> BY <2>4, <2>7, <3>1 DEF LastBroadcast
        <4>2. \A x : Tail(<<x>>) = <<>> OBVIOUS
        <4> QED BY <4>1, <4>2
      <3> QED BY <1>1, <2>1, <2>2, <2>3, <2>7, <3>1, <3>2 DEF Draining, Drained
    <2> QED BY <2>1, <2>5, <2>6, <2>7 DEF Moves
  <1>4. CASE CoordinatorReceivePubnonce
    <2>1. /\ coord.pc = "await_pubnonce" /\ psig' = psig /\ pc' = pc
          /\ coord'.pc \in {"await_pubnonce", "await_psig", "raised"}
      BY <1>4, ReceivePubnonceIInv DEF CoordinatorReceivePubnonce
    <2>2. \A i \in Signers : pc[i] # "returned" BY <2>1 DEF IInv, QueueInv
    <2> QED BY <1>1, <2>1, <2>2 DEF Draining, Drained
  <1>5. CASE CoordinatorReceivePsig
    <2>1. /\ coord.pc = "await_psig" /\ psig' = psig /\ pc' = pc
      BY <1>5, ReceivePsigIInv DEF CoordinatorReceivePsig
    <2>2. \A i \in Signers : pc[i] # "returned" BY <2>1 DEF IInv, QueueInv
    <2>3. coord'.pc = "returned" => \A i \in Signers : to_coord'[i] = <<>>
      BY <1>5, LastReceived
    <2> QED BY <1>1, <2>1, <2>2, <2>3 DEF Draining, Drained
  <1>6. CASE CancelRemaining
    <2> DEFINE place == IF coord.pc \in Running THEN "cancelled" ELSE coord.pc
    <2>1. /\ coord' = [coord EXCEPT !.pc = place]
          /\ pc' = [i \in Signers |-> IF pc[i] \in Running THEN "cancelled" ELSE pc[i]]
          /\ psig' = psig /\ to_coord' = to_coord /\ to_part' = to_part
      BY <1>6 DEF CancelRemaining, participantVars
    <2>2. place = "returned" => coord.pc = "returned" OBVIOUS
    <2> HIDE DEF place
    <2>3. coord'.pc = place BY <2>1 DEF IInv, Shapes
    <2>4. \A i \in Signers : pc'[i] \in {pc[i], "cancelled"} BY <2>1
    <2> QED BY <1>1, <2>1, <2>2, <2>3, <2>4 DEF Draining, Drained
  <1> QED BY <1>2, <1>3, <1>4, <1>5, <1>6 DEF Next, CoordinatorStep

\* Nobody is faulty, everybody has the right secret share, and the tweaks apply.
Undisturbed ==
  Faulty = {} /\ Succeeds(Tweaked) /\ \A i \in Signers : ~ Misconfigured(i)

\* In such a session no coroutine raises, and none is cancelled.
Alive ==
  Undisturbed => /\ coord.pc \notin {"raised", "cancelled"}
                 /\ \A i \in Signers : pc[i] \notin {"raised", "cancelled"}

\* Nothing has ended when a session starts.
LEMMA InitAlive == Init => Draining /\ Alive
  BY DEF Init, Draining, Drained, Alive, NoValue

\* An exception would be deserved, and nothing else cancels.
LEMMA NextAlive ==
  IInv /\ Content /\ Honesty' /\ BlameInv' /\ Alive /\ [Next]_vars => Alive'
  <1> SUFFICES ASSUME IInv, Content, Honesty', BlameInv', Alive, [Next]_vars, Undisturbed'
               PROVE  /\ coord'.pc \notin {"raised", "cancelled"}
                      /\ \A i \in Signers' : pc'[i] \notin {"raised", "cancelled"}
    BY DEF Alive
  <1>1. /\ session' = session /\ Signers' = Signers /\ Honest' = Honest /\ Faulty' = Faulty
        /\ Tweaked' = Tweaked /\ (NoShortPubnonce' <=> NoShortPubnonce)
    BY SessionStays
  <1>2. Undisturbed BY <1>1 DEF Undisturbed, Misconfigured
  <1>3. /\ coord.pc \notin {"raised", "cancelled"}
        /\ \A i \in Signers : pc[i] \notin {"raised", "cancelled"}
    BY <1>2 DEF Alive
  <1>4. Honest = Signers /\ Signers # {}
    <2>1. Signers # {} BY Positions DEF IInv
    <2> QED BY <1>2, <2>1 DEF Undisturbed, Honest
  <1>5. coord'.pc # "raised"
    <2>1. NoShortPubnonce' /\ Honest' # {} BY <1>1, <1>2, <1>4 DEF Undisturbed, NoShortPubnonce
    <2>2. BlameIsDeserved' BY <2>1 DEF BlameInv
    <2>3. Faulty' = {} BY <1>1, <1>2 DEF Undisturbed
    <2> QED BY <2>2, <2>3 DEF BlameIsDeserved
  <1>6. ASSUME NEW i \in Signers PROVE pc'[i] # "raised"
    <2>1. Faithful(i)' BY <1>1, <1>4 DEF Honesty
    <2>2. Succeeds(Tweaked)' /\ ~ Misconfigured(i)' BY <1>1 DEF Undisturbed
    <2> QED BY <2>1, <2>2 DEF Faithful
  <1>7. coord'.pc # "cancelled" /\ \A i \in Signers : pc'[i] # "cancelled"
    <2>1. CASE UNCHANGED vars BY <1>3, <2>1 DEF vars
    <2>2. ASSUME NEW i \in Signers, ParticipantStep(i) \/ FaultyStep(i)
          PROVE  coord'.pc # "cancelled" /\ \A j \in Signers : pc'[j] # "cancelled"
      <3>1. /\ coord' = coord /\ Moves(i) /\ \A j \in Signers \ {i} : pc'[j] = pc[j]
        BY <2>2, ParticipantMoves
      <3>2. pc'[i] # "cancelled" BY <3>1 DEF Moves
      <3> QED BY <1>3, <3>1, <3>2
    <2>3. CASE CoordinatorReceivePubnonce
      <3>1. /\ pc' = pc /\ coord'.pc \in {"await_pubnonce", "await_psig", "raised"}
        BY <2>3, ReceivePubnonceIInv DEF CoordinatorReceivePubnonce
      <3> QED BY <1>3, <3>1
    <2>4. CASE CoordinatorReceivePsig
      <3>1. /\ pc' = pc /\ coord'.pc \in {"await_psig", "raised", "returned"}
        BY <2>4, ReceivePsigIInv DEF CoordinatorReceivePsig
      <3> QED BY <1>3, <3>1
    <2>5. ~ CancelRemaining BY <1>3 DEF CancelRemaining, SomeoneRaised
    <2> QED BY <2>1, <2>2, <2>3, <2>4, <2>5 DEF Next, CoordinatorStep
  <1> QED BY <1>1, <1>5, <1>6, <1>7

\* Where nobody can go on, everybody is done.
LEMMA RestIsTheEnd ==
  ASSUME IInv, Content, Draining, Alive, Undisturbed, Quiet
  PROVE  coord.pc = "returned" /\ \A i \in Signers : pc[i] = "returned"
  <1> DEFINE u == Len(session.ids)
  <1>1. /\ pc \in [Signers -> Places]
        /\ coord.pc \in {"await_pubnonce", "await_psig", "returned"}
        /\ coord.pubnonces \in Seq(Contributions)
        /\ coord.psigs \in Seq({m[1] : m \in Contributions})
    BY DEF IInv, Shapes, Alive
  <1>2. u \in Nat \ {0} /\ Signers = 1 .. u BY Positions DEF IInv
  <1> HIDE DEF u
  <1>3. ASSUME NEW i \in Signers
        PROVE  /\ pc[i] \in {"await_aggnonce", "await_final", "returned"}
               /\ pc[i] # "returned" => to_part[i] = <<>>
               /\ pubnonce[i] # NoValue
    <2>1. pc[i] \in {"await_aggnonce", "await_final", "returned"}
      BY <1>1 DEF Places, Alive, Quiet
    <2>2. pc[i] # "returned" => to_part[i] = <<>> BY <2>1 DEF Quiet, Running
    <2>3. pubnonce[i] # NoValue
      BY <2>1 DEF IInv, QueueInv, Draining, Drained, Content, Holds
    <2> QED BY <2>1, <2>2, <2>3
  <1>4. ASSUME NEW i \in Signers, coord.aggnonce # NoValue PROVE pc[i] # "await_aggnonce"
    <2>1. Broadcast # <<>> BY <1>4, Queues DEF Broadcast
    <2> QED BY <1>3, <2>1 DEF IInv, QueueInv
  <1>5. coord.pc # "await_pubnonce"
    <2> SUFFICES ASSUME coord.pc = "await_pubnonce" PROVE FALSE OBVIOUS
    <2> DEFINE i == Len(coord.pubnonces) + 1
    <2>1. Len(coord.pubnonces) \in Nat /\ Len(coord.pubnonces) < u /\ Len(coord.psigs) = 0
      BY <1>1 DEF IInv, CoordInv, u
    <2>2. i \in Signers /\ ~ (i <= Len(coord.pubnonces)) /\ ~ (i <= Len(coord.psigs))
      BY <1>2, <2>1
    <2>3. to_coord[i] = <<>> BY DEF Quiet
    <2> HIDE DEF i
    <2>4. Sent(i) = Taken(i) + Len(to_coord[i]) BY <2>2 DEF IInv, QueueInv
    <2>5. Taken(i) = 0 /\ Len(to_coord[i]) = 0 BY <2>2, <2>3 DEF Taken, One
    <2>6. Sent(i) >= 1 BY <1>3, <2>2 DEF Sent, One
    <2> QED BY <2>4, <2>5, <2>6
  <1>6. coord.pc # "await_psig"
    <2> SUFFICES ASSUME coord.pc = "await_psig" PROVE FALSE OBVIOUS
    <2> DEFINE i == Len(coord.psigs) + 1
    <2>1. /\ Len(coord.psigs) \in Nat /\ Len(coord.psigs) < u /\ Len(coord.pubnonces) = u
          /\ coord.aggnonce # NoValue
      BY <1>1 DEF IInv, CoordInv, u
    <2>2. i \in Signers /\ i <= Len(coord.pubnonces) /\ ~ (i <= Len(coord.psigs))
      BY <1>2, <2>1
    <2>3. to_coord[i] = <<>> BY DEF Quiet
    <2> HIDE DEF i
    <2>4. Sent(i) = Taken(i) + Len(to_coord[i]) BY <2>2 DEF IInv, QueueInv
    <2>5. Taken(i) = 1 /\ Len(to_coord[i]) = 0 BY <2>2, <2>3 DEF Taken, One
    <2>6. psig[i] # NoValue
      BY <1>3, <1>4, <2>1, <2>2 DEF Draining, Drained
    <2>7. Sent(i) = 2 BY <1>3, <2>2, <2>6 DEF Sent, One
    <2> QED BY <2>4, <2>5, <2>7
  <1>7. coord.pc = "returned" BY <1>1, <1>5, <1>6
  <1>8. ASSUME NEW i \in Signers PROVE pc[i] = "returned"
    <2>1. coord.aggnonce # NoValue /\ coord.final_sig # NoValue BY <1>7 DEF IInv, CoordInv
    <2>2. LastBroadcast # <<>> BY <2>1, Queues DEF LastBroadcast
    <2>3. pc[i] # "await_final" BY <1>3, <2>2 DEF IInv, QueueInv
    <2> QED BY <1>3, <1>4, <2>1, <2>3
  <1> QED BY <1>7, <1>8

\* What main gives to the session it starts.
LEMMA MainSetting ==
  ASSUME session \in MainSessions
  PROVE  Undisturbed /\ session.is_xonly = MainModes
  <1>1. PICK d \in MainDraws : session \in SessionOfMain(d) BY DEF MainSessions
  <1> DEFINE keys == GenerateFrostKeys(d.thresh_sk, d.coeffs, d.n)
             s == SignerSet(keys.val, d.t)
  <1>2. /\ session = MainSession(keys.val, d.t, d.tweaks, d.msg)
        /\ Succeeds(keys)
        /\ Succeeds(ThreshPubkeyAndTweak(keys.val.thresh_pk, d.tweaks, MainModes))
    BY <1>1, Zenon DEF SessionOfMain
  <1>3. s.thresh_pk = keys.val.thresh_pk /\ s.secshares = SubSeq(keys.val.secshares, 1, d.t)
        /\ s.pubshares = SubSeq(keys.val.pubshares, 1, d.t)
    BY DEF SignerSet
  <1>4. keys.val.secshares = keys.val.pubshares
    <2> DEFINE shares == SecretShareShard(d.thresh_sk, d.coeffs, d.n)
               p == [k \in 1 .. d.n |-> shares[k - 1]]
               v == [thresh_pk |-> d.thresh_sk, ids |-> [k \in 1 .. d.n |-> k - 1],
                     secshares |-> p, pubshares |-> p]
    <2>1. keys \in {Returns(v), AssertionError}
      <3> HIDE DEF shares
      <3> QED BY DEF GenerateFrostKeys, shares
    <2> HIDE DEF p
    <2>2. ~ Succeeds(AssertionError) BY DEF Succeeds, AssertionError
    <2>3. keys = Returns(v)
      <3> HIDE DEF keys, v
      <3> QED BY <1>2, <2>1, <2>2
    <2>4. keys.val = v
      <3> HIDE DEF keys, v
      <3> QED BY <2>3 DEF Returns
    <2>5. v.secshares = v.pubshares OBVIOUS
    <2> QED BY <2>4, <2>5
  <1> HIDE DEF keys
  <1>5. /\ session.faulty = {} /\ session.tweaks = d.tweaks /\ session.is_xonly = MainModes
        /\ session.thresh_pk = s.thresh_pk
        /\ session.secshares = s.secshares /\ session.pubshares = s.pubshares
    BY <1>2 DEF MainSession
  <1> HIDE DEF s
  <1>6. Succeeds(Tweaked) BY <1>2, <1>3, <1>5 DEF Tweaked
  <1> QED BY <1>3, <1>4, <1>5, <1>6 DEF Undisturbed, Faulty, Misconfigured

\* A session that main starts comes to rest only when every coroutine has
\* returned the one final signature, main prints what the signers sent, and the
\* signature verifies under the key that main tweaked (example.py:283-320).
THEOREM MainIsServed == Spec => []MainSucceeds
  <1>1. ASSUME IInv, Content, Draining, Alive, SignatureVerifies PROVE MainSucceeds
    <2> SUFFICES ASSUME session \in MainSessions, Quiet
                 PROVE  LET main_ctx == ThreshPubkeyAndTweak(session.thresh_pk, session.tweaks,
                                                             MainModes)
                        IN  /\ coord.pc = "returned"
                            /\ \A i \in Signers : /\ returned[i] = coord.final_sig
                                                  /\ psig[i] = <<coord.psigs[i]>>
                                                  /\ to_coord[i] = <<>> /\ to_part[i] = <<>>
                            /\ FinalNonceIsFinite =>
                                 SchnorrVerify(session.msg, GetXonlyPk(main_ctx.val),
                                               coord.final_sig)
      BY DEF MainSucceeds
    <2>1. Undisturbed /\ session.is_xonly = MainModes BY MainSetting
    <2>2. coord.pc = "returned" /\ \A i \in Signers : pc[i] = "returned"
      BY <1>1, <2>1, RestIsTheEnd
    <2>3. Len(session.ids) \in Nat /\ Signers = 1 .. Len(session.ids)
      BY <1>1, Positions DEF IInv
    <2>4. ASSUME NEW i \in Signers
          PROVE  /\ returned[i] = coord.final_sig /\ psig[i] = <<coord.psigs[i]>>
                 /\ to_coord[i] = <<>> /\ to_part[i] = <<>>
      <3>1. returned[i] = coord.final_sig BY <1>1, <2>2 DEF IInv, QueueInv
      <3>2. coord.psigs \in Seq({m[1] : m \in Contributions})
            /\ Len(coord.psigs) = Len(session.ids)
        BY <1>1, <2>2 DEF IInv, Shapes, Content, Collected
      <3>3. i \in DOMAIN coord.psigs BY <2>3, <3>2
      <3>4. psig[i] # NoValue /\ coord.psigs[i] = psig[i][1]
        BY <1>1, <3>3 DEF Content, Collected
      <3> QED BY <1>1, <2>2, <3>1, <3>4 DEF Draining, Drained
    <2>5. FinalNonceIsFinite =>
            SchnorrVerify(session.msg, GetXonlyPk(Tweaked.val), coord.final_sig)
      BY <1>1, <2>2 DEF SignatureVerifies, PublishedKey
    <2> QED BY <2>1, <2>2, <2>4, <2>5 DEF Tweaked
  <1> QED BY <1>1, FinalSignatureVerifies, InitIInv, NextIInv, InitContent, NextContent,
             InitHonesty, NextHonesty, InitBlame, NextBlame, NextDraining, InitAlive, NextAlive,
             PTL DEF Spec

=============================================================================
