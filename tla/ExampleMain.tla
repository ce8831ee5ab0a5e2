---------------------------- MODULE ExampleMain ------------------------------
(***************************************************************************)
(* The program example.py from end to end: main deals a t-of-n key, tweaks  *)
(* it, has the first t participants run a session and verifies the          *)
(* signature that the session returns.                                      *)
(***************************************************************************)
EXTENDS SigningSession

CONSTANTS MainDraws   \* what main draws: a set of [t, n, thresh_sk, coeffs, tweaks, msg]

(***************************************************************************)
(* The keys, unless the dealer's assertion on the secret shares fails.      *)
(***************************************************************************)
GenerateFrostKeys(thresh_sk, coeffs, n) ==
  LET shares == SecretShareShard(thresh_sk, coeffs, n)
  IN  IF \A i \in 0 .. n - 1 : shares[i] # 0
      THEN Returns([thresh_pk |-> thresh_sk, ids |-> [k \in 1 .. n |-> k - 1],
                    secshares |-> [k \in 1 .. n |-> shares[k - 1]],
                    pubshares |-> [k \in 1 .. n |-> shares[k - 1]]])
      ELSE AssertionError

\* The first tweak is plain, the second x-only.
MainModes == <<FALSE, TRUE>>

\* Slip: the last t participants' secret shares, under the first t ids.
SignerSet_SecsharesFromEnd(keys, t) ==
  LET n == Len(keys.ids)
  IN  [n |-> n, t |-> t, ids |-> SubSeq(keys.ids, 1, t),
       pubshares |-> SubSeq(keys.pubshares, 1, t), thresh_pk |-> keys.thresh_pk,
       secshares |-> SubSeq(keys.secshares, n - t + 1, n)]

SignerSet(keys, t) ==
  [n |-> Len(keys.ids), t |-> t, ids |-> SubSeq(keys.ids, 1, t),
   pubshares |-> SubSeq(keys.pubshares, 1, t), thresh_pk |-> keys.thresh_pk,
   secshares |-> SubSeq(keys.secshares, 1, t)]

MainSession(keys, t, tweaks, msg) ==
  LET s == SignerSet(keys, t)
  IN  [n |-> s.n, t |-> s.t, ids |-> s.ids, pubshares |-> s.pubshares,
       thresh_pk |-> s.thresh_pk, secshares |-> s.secshares, tweaks |-> tweaks,
       is_xonly |-> MainModes, msg |-> msg, faulty |-> {}]

\* main starts no session when the dealer or a tweak fails.
SessionOfMain(d) ==
  LET keys == GenerateFrostKeys(d.thresh_sk, d.coeffs, d.n)
  IN  IF /\ 2 <= d.t /\ d.t <= d.n
         /\ Succeeds(keys)
         /\ Succeeds(ThreshPubkeyAndTweak(keys.val.thresh_pk, d.tweaks, MainModes))
      THEN {MainSession(keys.val, d.t, d.tweaks, d.msg)}
      ELSE {}

MainSessions == UNION {SessionOfMain(d) : d \in MainDraws}

-----------------------------------------------------------------------------

\* No coroutine can go on: those that still run wait at an empty queue.
Quiet ==
  /\ \A i \in Signers : pc[i] # "start" /\ (pc[i] \in Running => to_part[i] = <<>>)
  /\ coord.pc = "await_pubnonce" => to_coord[Len(coord.pubnonces) + 1] = <<>>
  /\ coord.pc = "await_psig" => to_coord[Len(coord.psigs) + 1] = <<>>

(* example.py:283-320: a session that main starts with the first t of n     *)
(* participants comes to rest only when every coroutine has returned the    *)
(* final signature and left its queue empty.  main prints the partial       *)
(* signatures in the order of the signers' ids, and the signature verifies  *)
(* under the tweaked key that main computed by itself, whatever t, n, keys, *)
(* tweaks and message are, unless an aggregate nonce was infinite by chance. *)
MainSucceeds ==
  (session \in MainSessions /\ Quiet) =>
    LET main_ctx == ThreshPubkeyAndTweak(session.thresh_pk, session.tweaks, MainModes)
    IN  /\ coord.pc = "returned"
        /\ \A i \in Signers : /\ returned[i] = coord.final_sig
                              /\ psig[i] = <<coord.psigs[i]>>
                              /\ to_coord[i] = <<>> /\ to_part[i] = <<>>
        /\ FinalNonceIsFinite =>
             SchnorrVerify(session.msg, GetXonlyPk(main_ctx.val), coord.final_sig)

=============================================================================
