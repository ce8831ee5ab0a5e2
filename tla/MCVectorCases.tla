----------------------------- MODULE MCVectorCases -----------------------------
(***************************************************************************)
(* The four configurations of the generators, each with a key of either      *)
(* parity, over a group large enough that nothing cancels by chance.         *)
(***************************************************************************)
EXTENDS VectorCases

MCEvenPoints == {P \in 1 .. Order - 1 : P % 2 = 1}

Mix(s) == FoldLeft(LAMBDA h, x : (h * 31 + x + 7) % 8191, 1, s)
NonZeroOf(h) == 1 + (h % (Order - 1))

MCNonceCoefHash(u, ser_ids, aggnonce, xonly_pk, msg) ==
  NonZeroOf(Mix(<<u>> \o ser_ids \o aggnonce \o <<xonly_pk, msg>>))
MCChallengeHash(xonly_R, xonly_pk, msg) == NonZeroOf(Mix(<<xonly_R, xonly_pk, msg>>))
MCAuxHash(rand) == Mix(<<rand>>)
MCNonceGenHash(x, i) == NonZeroOf(Mix(<<x[1], x[2], x[3]>> \o x[4] \o <<x[5], i>>))
MCDetNonceHash(x, i) ==
  NonZeroOf(Mix(<<x[1], x[2], x[3]>> \o x[4] \o x[5] \o <<x[6], x[7], i>>))
MCCoeffHash(seckey, i) == NonZeroOf(Mix(<<seckey, i>>))

MCCommonTweaks == <<11, 23, 42, 70>>
Config(t, n, seckey) == [t |-> t, n |-> n, seckey |-> seckey]
MCConfigs ==
  <<Config(2, 3, 19), Config(1, 3, 84), Config(3, 3, 35), Config(3, 5, 58),
    Config(2, 3, 66), Config(1, 3, 27), Config(3, 3, 92), Config(3, 5, 41)>>

=============================================================================
