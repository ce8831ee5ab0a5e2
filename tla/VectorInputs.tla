----------------------------- MODULE VectorInputs -----------------------------
(***************************************************************************)
(* generators/common.py: what the generators of test vectors share.  A test  *)
(* group has key and nonce material of a fixed configuration and, behind it  *)
(* in the same pools, faulty material for the error cases.                   *)
(*                                                                         *)
(* Pools are functions from the indices of the code, which count from 0 and *)
(* put the faults at n and n + 1; the pool of tweaks is a sequence.          *)
(***************************************************************************)
EXTENDS DetSigning

CONSTANTS
  NonceGenHash(_, _),   \* nonce_hash of what it binds and 0 or 1, before reduction
  CoeffHash(_, _),      \* the dealer's coefficient i for a secret
  CommonRand,           \* COMMON_RAND
  CommonTweaks,         \* COMMON_TWEAKS, in range
  Configs               \* CONFIGS, a sequence of records with fields t, n, seckey

ASSUME ConfigsAssumption ==
  /\ 1 \in DOMAIN Configs
  /\ \A i \in DOMAIN Configs : /\ Configs[i].t \in 1 .. Configs[i].n
                               /\ Configs[i].n \in 3 .. MaxParticipants
                               /\ Configs[i].seckey \in NonZero
  /\ CommonTweaks \in Seq(Scalars) /\ Len(CommonTweaks) = 4

\* COMMON_MSGS: 32 bytes, no bytes, 38 bytes.
Msgs == <<0, 1, 2>>

-----------------------------------------------------------------------------
(* nonce_gen_internal, whose randomness the generators fix.  None is an      *)
(* argument that is not given, which is hashed as an empty string.           *)

MsgPrefixed(msg) == IF msg = None THEN <<0>> ELSE <<1, msg>>

\* What nonce_hash binds; + stands for xor.
NonceInputs(rand, secshare, pubshare, xonly_pk, msg, extra_in) ==
  <<IF secshare = None THEN rand ELSE secshare + AuxHash(rand),
    pubshare, xonly_pk, MsgPrefixed(msg), extra_in>>

NonceGenInternal(x) ==
  LET k(i) == ScalarOf(NonceGenHash(x, i))
  IN  IF 0 \in {k(0), k(1)} THEN AssertionError ELSE Returns(NonceGen(k(0), k(1)))

-----------------------------------------------------------------------------
(* Signer sets: lists of ids of a configuration with fields n and t.         *)

IdRange(first, end) == [k \in 1 .. end - first |-> first + k - 1]

MinSet(cfg) == IdRange(0, cfg.t)
FullSet(cfg) == IdRange(0, cfg.n)
\* Id 0 and the last t - 1 ids.
AltSet(cfg) == <<0>> \o IdRange(cfg.n - cfg.t + 1, cfg.n)
\* At least two signers.
Min2Set(cfg) == IdRange(0, IF cfg.t < 2 THEN 2 ELSE cfg.t)
Excl0Set(cfg) == IdRange(1, cfg.t + 1)

\* Whether t signers other than 0 exist and have shares of their own.
HasExcl0Subset(cfg) == cfg.t >= 2 /\ cfg.t < cfg.n

SwapLastTwo(s) ==
  LET last == Len(s) IN [s EXCEPT ![last] = s[last - 1], ![last - 1] = s[last]]

-----------------------------------------------------------------------------
(* The material of a test group.                                           *)

FrostKeygen(cfg) ==
  LET coeffs == [i \in 1 .. cfg.t - 1 |-> CoeffHash(cfg.seckey, i)]
      secshares == SecretShareShard(cfg.seckey, coeffs, cfg.n)
  IN  [thresh_pk |-> Mul(cfg.seckey, G), secshares |-> secshares,
       pubshares |-> [i \in DOMAIN secshares |-> Mul(secshares[i], G)]]

GeneratedNonce(keys, i) ==
  NonceGenInternal(NonceInputs(CommonRand, keys.secshares[i], keys.pubshares[i],
                               ToXonly(keys.thresh_pk), None, None))
GenerateAllNonces(keys) == [i \in DOMAIN keys.secshares |-> GeneratedNonce(keys, i).val]

Taken(pool, indices) == [k \in DOMAIN indices |-> pool[indices[k]]]

ReconstructThreshSk(ids, secshares) == SecretShareCombine(Taken(secshares, ids), ids)

\* The share of the last signer with which the shares of ids would sum to zero.
\* Slip: the subtraction is the wrong way round.
CancelShare_Opposite(ids, secshares) ==
  Sub(Div(ReconstructThreshSk(ids, secshares), DeriveInterpolatingValue(ids, Last(ids))),
      secshares[Last(ids)])

CancelShare(ids, secshares) ==
  Sub(secshares[Last(ids)],
      Div(ReconstructThreshSk(ids, secshares), DeriveInterpolatingValue(ids, Last(ids))))

\* The nonce that cancels the first n - 1 of pubnonces.
InversePubnonce(n, pubnonces) ==
  LET tmp == NonceAgg(Taken(pubnonces, IdRange(0, n - 1))).val
  IN  <<Neg(tmp[1]), Neg(tmp[2])>>

\* A pool with faults behind the n real entries.
WithFaults(n, pool, faults) ==
  [i \in 0 .. n + Len(faults) - 1 |-> IF i < n THEN pool[i] ELSE faults[i - n + 1]]

SharedGroupInputs(cfg, keys, nonces) ==
  LET n == cfg.n
      secnonces == [i \in 0 .. n - 1 |-> nonces[i].secnonce]
      pubnonces == [i \in 0 .. n - 1 |-> nonces[i].pubnonce]
      infinity_tweak == Neg(ReconstructThreshSk(MinSet(cfg), keys.secshares))
  IN  [n |-> n, t |-> cfg.t, thresh_pk |-> keys.thresh_pk,
       pubshares |-> WithFaults(n, keys.pubshares,
                       <<Order, Mul(CancelShare(Min2Set(cfg), keys.secshares), G)>>),
       secshares |-> WithFaults(n, keys.secshares, <<0>>),
       pubnonces |-> WithFaults(n, pubnonces, <<<<Order, G>>, InversePubnonce(n, pubnonces)>>),
       secnonces |-> WithFaults(n, secnonces, <<ZeroedSecnonce, <<secnonces[0][1], 0>>>>),
       tweaks    |-> CommonTweaks \o <<Order, infinity_tweak>>]

\* For every configuration, what is built once for its test group.
Keys == [i \in DOMAIN Configs |-> FrostKeygen(Configs[i])]
Nonces == [i \in DOMAIN Configs |-> GenerateAllNonces(Keys[i])]
Inputs == [i \in DOMAIN Configs |-> SharedGroupInputs(Configs[i], Keys[i], Nonces[i])]

\* The material is fixed, and such that nothing is zero by chance: the code asserts
\* it of coefficients, shares, nonces and the cancelling share when it builds a
\* group, and parses the inverse nonce as a finite one later on.
ASSUME MaterialAssumption ==
  \A i \in DOMAIN Configs :
    LET n == Configs[i].n
    IN  /\ \A k \in 1 .. Configs[i].t - 1 : CoeffHash(Configs[i].seckey, k) \in NonZero
        /\ \A k \in 0 .. n - 1 : /\ Keys[i].pubshares[k] # Infinity
                                 /\ Succeeds(GeneratedNonce(Keys[i], k))
                                 /\ Nonces[i][k].secnonce \in NonZero \X NonZero
        /\ Inputs[i].pubshares[n + 1] # Infinity
        /\ \A j \in 1 .. 2 : Inputs[i].pubnonces[n + 1][j] # Infinity

=============================================================================
