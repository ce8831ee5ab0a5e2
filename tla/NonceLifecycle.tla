--------------------------- MODULE NonceLifecycle ----------------------------
(***************************************************************************)
(* The life of a signer's secnonce buffer.  The signer draws nonces and is  *)
(* asked to sign again and again, in sessions that may be unusable: with an *)
(* invalid aggregate nonce, without the signer's id, with a public share    *)
(* that is not the signer's.  Some of these failures come before sign       *)
(* zeroes the buffer and some after, and a request may be retried.          *)
(***************************************************************************)
EXTENDS FrostSigning

CONSTANTS
  SigningRequests,      \* what sign is called with: a context, a secshare and an id
  NonceScalars,  \* bound: the secret nonces that are drawn
  MaxDraws       \* bound: how many nonces are drawn

ASSUME LifecycleAssumption == NonceScalars \subseteq NonZero /\ MaxDraws \in Nat

VARIABLES
  secnonce,   \* the buffer
  drawn,      \* the nonces drawn so far
  released,   \* for each partial signature released so far, the number of the
              \* draw whose nonce it used
  result      \* what the last call of sign since then returned or raised

lifecycleVars == <<secnonce, drawn, released, result>>

NothingYet == [kind |-> "none"]

-----------------------------------------------------------------------------

LifecycleInit ==
  /\ secnonce = ZeroedSecnonce
  /\ drawn = <<>>
  /\ released = <<>>
  /\ result = NothingYet

\* A new nonce replaces what the buffer held, spent or not.
Draw(k_1, k_2) ==
  /\ Len(drawn) < MaxDraws
  /\ secnonce' = NonceGen(k_1, k_2).secnonce
  /\ drawn' = Append(drawn, secnonce')
  /\ result' = NothingYet
  /\ UNCHANGED released

CallSign(r) ==
  LET signed == Sign(secnonce, r.secshare, r.my_id, r.ctx)
  IN  /\ secnonce' = signed.secnonce
      /\ result' = signed.result
      /\ released' = IF Succeeds(signed.result)
                     THEN Append(released, Len(drawn))
                     ELSE released
      /\ UNCHANGED drawn

LifecycleNext ==
  \/ \E k_1, k_2 \in NonceScalars : Draw(k_1, k_2)
  \/ \E r \in SigningRequests : CallSign(r)

LifecycleSpec == LifecycleInit /\ [][LifecycleNext]_lifecycleVars

-----------------------------------------------------------------------------

(* The buffer holds the last nonce drawn, whole, or zeros.                  *)
TypeOK ==
  /\ drawn \in Seq(NonZero \X NonZero)
  /\ secnonce = ZeroedSecnonce \/ (drawn # <<>> /\ secnonce = drawn[Len(drawn)])
  /\ released \in Seq(1 .. Len(drawn))

(* Sign must never run twice with one secnonce: whatever calls fail, before *)
(* or after the buffer is zeroed, and whatever is retried, no two partial   *)
(* signatures are released under the same draw.                             *)
OneSignaturePerDraw ==
  \A j, k \in DOMAIN released : released[j] = released[k] => j = k

(* signing.py:406: once a signature was released, the buffer holds zeros    *)
(* until the next draw, so that a repeated call raises ValueError.          *)
ReleasedNonceIsZeroed ==
  \A k \in DOMAIN released :
    released[k] = Len(drawn) => secnonce = ZeroedSecnonce

(* A call that fails over what the coordinator sent costs the signer        *)
(* nothing: the draw can still be used in the next call.                    *)
CoordinatorCannotBurnNonce ==
  [][result'.kind = "InvalidContributionError" => secnonce' = secnonce]_lifecycleVars

=============================================================================
