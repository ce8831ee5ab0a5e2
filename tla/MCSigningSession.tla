-------------------------- MODULE MCSigningSession ---------------------------
(***************************************************************************)
(* Small sessions: of a 2-of-3 key with honest, misconfigured and faulty    *)
(* signers, and those that main starts.  The hashes are arithmetic mixtures *)
(* that depend on every argument and are never 0 modulo Order.              *)
(***************************************************************************)
EXTENDS ExampleMain

MCNonceCoefHash(u, ser_ids, aggnonce, xonly_pk, msg) ==
  1 + ((u + 2 * ser_ids[1] + 3 * ser_ids[Len(ser_ids)] + aggnonce[1]
          + 2 * aggnonce[2] + xonly_pk + msg) % (Order - 1))

MCChallengeHash(xonly_R, xonly_pk, msg) ==
  1 + ((2 * xonly_R + xonly_pk + 3 * msg) % (Order - 1))

\* A dealt 2-of-3 key: secret sk, slope c.
Share(sk, c, id) == PolynomialEvaluate(<<c, sk>>, ScalarOf(id + 1))
SessionFor(sk, c, ids, tweaks, is_xonly, msg) ==
  LET shares == [k \in DOMAIN ids |-> Share(sk, c, ids[k])]
  IN  [n |-> 3, t |-> 2, ids |-> ids, pubshares |-> shares, thresh_pk |-> sk,
       tweaks |-> tweaks, is_xonly |-> is_xonly, msg |-> msg, secshares |-> shares,
       faulty |-> {}]

\* Participant k holds a secret share that is not its own.
WithWrongShare(s, k) == [s EXCEPT !.secshares[k] = 1 + (@ % (Order - 1))]
WithFaulty(s, F) == [s EXCEPT !.faulty = F]

-----------------------------------------------------------------------------

\* Two honest signers of three, plain and x-only tweaks (one list fails), and
\* sessions in which one signer has a wrong secret share.
TweakLists == {<<<<>>, <<>>>>, <<<<2>>, <<TRUE>>>>, <<<<1, 3>>, <<FALSE, TRUE>>>>,
               <<<<1, Order>>, <<FALSE, TRUE>>>>}
HonestSessions ==
  LET good == {SessionFor(sk, 1, ids, tw[1], tw[2], msg) :
                 sk \in {2, 3}, ids \in {<<0, 1>>, <<2, 0>>}, tw \in TweakLists,
                 msg \in {0, 1}}
      usable == {s \in good : \A k \in DOMAIN s.ids : s.secshares[k] # 0}
  IN  usable \cup {WithWrongShare(s, k) : s \in {r \in usable : r.msg = 0}, k \in {1, 2}}

\* A pair with one faulty signer, in either position, and all three
\* participants with two faulty ones.
FaultySessions ==
  LET pair == SessionFor(3, 1, <<2, 0>>, <<1, 3>>, <<FALSE, TRUE>>, 1)
      triple == SessionFor(1, 1, <<2, 0, 1>>, <<2>>, <<TRUE>>, 1)
  IN  {WithFaulty(pair, {1}), WithFaulty(pair, {2}), WithFaulty(triple, {1, 3})}

\* What can end a session early: a tweak that fails, a wrong secret share, a
\* faulty signer.
EventfulSessions ==
  LET good == SessionFor(3, 1, <<2, 0>>, <<>>, <<>>, 1)
  IN  {good, SessionFor(3, 1, <<0, 1>>, <<Order>>, <<TRUE>>, 1),
       WithWrongShare(good, 1), WithWrongShare(good, 2),
       WithFaulty(good, {1}), WithFaulty(good, {2})}

\* Both signers of a pair choose their nonces together.
CollusionSessions == {WithFaulty(SessionFor(3, 1, <<2, 0>>, <<>>, <<>>, 1), {1, 2})}

\* main with 2-of-2, 2-of-3, 3-of-3 and 2-of-4.
MCMainDraws ==
  {[t |-> tn[1], n |-> tn[2], thresh_sk |-> sk, coeffs |-> [i \in 1 .. tn[1] - 1 |-> c],
    tweaks |-> tw, msg |-> 1] :
     tn \in {<<2, 2>>, <<2, 3>>, <<3, 3>>, <<2, 4>>}, sk \in {1, 3}, c \in {1, 2},
     tw \in {<<1, 3>>, <<2, 4>>}}

AllSessions == HonestSessions \cup FaultySessions \cup EventfulSessions \cup MainSessions

\* Pairs of points, some undecodable in one component.
SomePubnonces == {<<1, 2>>, <<2, 3>>, <<4, 3>>, <<3, Order>>, <<Order, 1>>}
\* A nonce and its negation.
OppositePubnonces == {<<1, 2>>, <<4, 3>>}
\* The second component is cut short.
ShortPubnonces == {<<1, 2>>, <<1, WrongLength>>}
AnyPsig == 0 .. Order

=============================================================================
