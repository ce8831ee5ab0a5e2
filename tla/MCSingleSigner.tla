---------------------------- MODULE MCSingleSigner ----------------------------
(***************************************************************************)
(* Two parties of SingleSigner over a group of 7 elements, with every secret *)
(* in range and the first two out of range.                                 *)
(***************************************************************************)
EXTENDS SingleSigner

MCSecretKeys == 0 .. Order + 1
MCAuxRands == {1, 2, WrongLength}

MCChallengeHash(xonly_R, xonly_P, msg) == 2 * xonly_R + 3 * xonly_P + 5 * msg
MCAuxHash(aux_rand) == 4 * aux_rand
MCNonceHash(t, xonly_P, msg) == t + 2 * xonly_P + 3 * msg

=============================================================================
