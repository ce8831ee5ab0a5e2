-------------------------- MODULE MCNonceLifecycle ---------------------------
(* A small instance of NonceLifecycle: signer 0 of a dealt 2-of-3 key with  *)
(* secret 3 and slope 1, whose share is 4; the co-signer's share is 1.      *)
EXTENDS NonceLifecycle

MCNonceCoefHash(u, ser_ids, aggnonce, xonly_pk, msg) ==
  1 + ((u + ser_ids[Len(ser_ids)] + aggnonce[1] + 2 * aggnonce[2] + xonly_pk + msg)
         % (Order - 1))
MCChallengeHash(xonly_R, xonly_pk, msg) ==
  1 + ((2 * xonly_R + xonly_pk + 3 * msg) % (Order - 1))

Context(aggnonce, msg) ==
  [n |-> 3, t |-> 2, ids |-> <<0, 2>>, knows_pubshares |-> TRUE, pubshares |-> <<4, 1>>,
   thresh_pk |-> 3, aggnonce |-> aggnonce, tweaks |-> <<1>>, is_xonly |-> <<TRUE>>,
   msg |-> msg]
NoShares(ctx) == [ctx EXCEPT !.knows_pubshares = FALSE]

Call(ctx, secshare, my_id) == [ctx |-> ctx, secshare |-> secshare, my_id |-> my_id]

MCSigningRequests ==
  {Call(Context(<<w, 2>>, msg), 4, 0) : w \in {0, 3}, msg \in {0, 1}}
    \cup {Call(Context(<<1, Order>>, 0), 4, 0),                     \* undecodable aggnonce
          Call([Context(<<1, 2>>, 0) EXCEPT !.tweaks = <<Order>>], 4, 0),
          Call(NoShares([Context(<<1, 2>>, 0) EXCEPT !.ids = <<1, 2>>]), 4, 0),
          Call(Context(<<1, 2>>, 0), 2, 0),                         \* not the share of 0
          Call(NoShares(Context(<<1, 2>>, 0)), 2, 0),               \* the same, unnoticed
          Call(Context(<<1, 2>>, 0), Order, 0)}                     \* secshare out of range

=============================================================================
