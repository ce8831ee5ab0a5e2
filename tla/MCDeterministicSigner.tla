------------------------ MODULE MCDeterministicSigner ------------------------
(***************************************************************************)
(* A small instance of DeterministicSigner: the holder of share 0 or 2 of a *)
(* dealt 2-of-3 key, in signer lists of two and three, and a sole signer of *)
(* a 1-of-3 key.  The hashes depend on everything they bind.                *)
(***************************************************************************)
EXTENDS DeterministicSigner

MCNonceCoefHash(u, ser_ids, aggnonce, xonly_pk, msg) ==
  1 + ((u + 2 * ser_ids[1] + 3 * ser_ids[Len(ser_ids)] + aggnonce[1]
          + 2 * aggnonce[2] + xonly_pk + msg) % (Order - 1))
MCChallengeHash(xonly_R, xonly_pk, msg) ==
  1 + ((2 * xonly_R + xonly_pk + 3 * msg) % (Order - 1))

\* Two unrelated mixtures for the two nonces.
MCDetNonceHash(x, i) ==
  LET other == IF x[5] = Omitted THEN 1 ELSE x[5][1] + 2 * x[5][2]
  IN  1 + (((i + 2) * x[1] + x[2] + x[3] + x[4][Len(x[4])] + other
              + (2 * i + 1) * x[6] + x[7]) % (Order - 1))
MCAuxHash(aux_rand) == 3 * aux_rand

SecretKey == 3
Share(t, id) == PolynomialEvaluate(IF t = 1 THEN <<SecretKey>> ELSE <<1, SecretKey>>,
                                   ScalarOf(id + 1))

Request(t, ids, my_id, others, aggothernonce, tweaks, is_xonly, msg, knows, aux_rand) ==
  LET shares == [k \in DOMAIN ids |-> Share(t, ids[k])]
  IN  [secshare |-> Share(t, my_id), my_id |-> my_id, aggothernonce |-> aggothernonce,
       aux_rand |-> aux_rand, others |-> others, shares |-> shares,
       ctx |-> [n |-> 3, t |-> t, ids |-> ids, knows_pubshares |-> knows,
                pubshares |-> shares, thresh_pk |-> SecretKey, aggnonce |-> Omitted,
                tweaks |-> tweaks, is_xonly |-> is_xonly, msg |-> msg]]

\* With the aggregate that an honest coordinator would pass.
Honestly(r) ==
  [r EXCEPT !.aggothernonce = IF Len(r.ctx.ids) = 1 THEN Omitted
                              ELSE NonceAgg(RemoveAt(OtherPubnonces(r), MyPosition(r))).val]

SomeNonces == {<<1, 2>>, <<6, 5>>, <<3, 3>>}
TweakLists == {<<<<>>, <<>>>>, <<<<2>>, <<TRUE>>>>, <<<<1, 3>>, <<FALSE, TRUE>>>>}

HonestRequests ==
  {Honestly(Request(2, ids, 0, [k \in DOMAIN ids |-> IF k = 1 THEN nonce ELSE <<6, 2>>],
                    Omitted, tw[1], tw[2], 1, knows, None)) :
     ids \in {<<0, 2>>, <<2, 0>>, <<2, 0, 1>>}, nonce \in SomeNonces, tw \in TweakLists,
     knows \in BOOLEAN}
    \cup {Request(1, <<0>>, 0, <<<<1, 1>>>>, Omitted, <<2>>, <<TRUE>>, msg, TRUE, aux) :
            msg \in {0, 1}, aux \in {None, 4}}

\* The same aggothernonce replayed with other signers, messages and tweaks (the
\* two tweaks here cancel); an infinite or undecodable one; one that is missing; a signer not in the list.
ReplayedRequests ==
  {Request(2, ids, 0, [k \in DOMAIN ids |-> <<1, 2>>], aggothernonce, tw[1], tw[2], msg, TRUE, None) :
     tw \in {<<<<>>, <<>>>>, <<<<2, 5>>, <<FALSE, FALSE>>>>},
     ids \in {<<0, 1>>, <<0, 2>>, <<2, 0>>},
     aggothernonce \in {<<1, 2>>, <<2, 4>>, <<0, 2>>, <<2, Order>>, Omitted}, msg \in {0, 1}}
    \cup {Request(2, <<1, 2>>, 0, <<<<1, 2>>, <<1, 2>>>>, <<1, 2>>, tweaks, <<TRUE>>, 1, FALSE, None) :
            tweaks \in {<<2>>, <<Order>>}}

MCRequests == HonestRequests \cup ReplayedRequests

=============================================================================
