----------------------------- MODULE SingleSigner -----------------------------
(***************************************************************************)
(* The functions of secp256k1lab for one key: key generation, BIP340         *)
(* signing and ECDH.  Parties with some 32-byte secret publish their keys,   *)
(* sign messages and agree on shared secrets, in any order.                  *)
(*                                                                         *)
(* Byte strings of 32 bytes are numbers, so that bytes_from_int and          *)
(* int_from_bytes are the identity.  A message stands for the tag prefix and *)
(* the message, which reach the hashes together.                            *)
(***************************************************************************)
EXTENDS Bip340, CallResults, FiniteSets

CONSTANTS
  Parties, Messages,
  SecretKeys,          \* 32-byte numbers, in range or not
  AuxRands,            \* randomness, and WrongLength for what is not 32 bytes
  AuxHash(_),          \* of aux_rand
  NonceHash(_, _, _),  \* of the masked key, xonly P, msg, before reduction
  MaxSignatures        \* bound: how many signatures are made

ASSUME SignerAssumption == SecretKeys \subseteq Nat /\ MaxSignatures \in Nat

\* A hash of what is hashed here is an integer of 32 bytes.
ASSUME HashAssumption ==
  \A msg \in Messages, P \in NonZero :
    /\ \A R \in NonZero : ChallengeHash(R, P, msg) \in Nat
    /\ \A d \in NonZero, aux_rand \in AuxRands \ {WrongLength} :
         NonceHash(d + AuxHash(aux_rand), P, msg) \in Nat

VARIABLES
  seckey,      \* the secret of each party
  published,   \* what pubkey_gen and pubkey_gen_plain returned to it
  attempts,    \* the calls of schnorr_sign so far
  shared       \* shared[p][q]: what p computed with the key of q

vars == <<seckey, published, attempts, shared>>

NothingYet == [kind |-> "none"]

-----------------------------------------------------------------------------
(* Keys.                                                                   *)

PubkeyGen(d0) ==
  IF NonZeroScalarInRange(d0) THEN Returns(ToXonly(Mul(d0, G))) ELSE ValueError("secret key")

PubkeyGenPlain(d0) ==
  IF NonZeroScalarInRange(d0) THEN Returns(Mul(d0, G)) ELSE ValueError("secret key")

\* Slip: the peer's key is read as an x-only key.
EcdhCompressedInRawOut_Xonly(d, pubkey) ==
  IF ~ ScalarInRange(d) THEN ValueError("secret key")
  ELSE IF ~ PointDecodes(pubkey) THEN ValueError("public key")
  ELSE IF Mul(d, ToXonly(pubkey)) = Infinity THEN AssertionError
  ELSE Returns(Mul(d, ToXonly(pubkey)))

\* The secret is only checked not to overflow.
EcdhCompressedInRawOut(d, pubkey) ==
  IF ~ ScalarInRange(d) THEN ValueError("secret key")
  ELSE IF ~ PointDecodes(pubkey) THEN ValueError("public key")
  ELSE IF Mul(d, pubkey) = Infinity THEN AssertionError
  ELSE Returns(Mul(d, pubkey))

-----------------------------------------------------------------------------
(* schnorr_sign.                                                           *)

\* The secret of the even point among P and -P.
EvenSecret(d0) == IF HasEvenY(Mul(d0, G)) THEN d0 ELSE Order - d0

\* What the nonce hash binds; + stands for xor.
\* Slip: the message is left out.
NonceInputs_NoMessage(d, aux_rand, xonly_pk, msg) == <<d + AuxHash(aux_rand), xonly_pk, 0>>

NonceInputs(d, aux_rand, xonly_pk, msg) == <<d + AuxHash(aux_rand), xonly_pk, msg>>

NonceOf(x) == ScalarOf(NonceHash(x[1], x[2], x[3]))

\* Slip: the secret as it was given is masked.
InputsOf_SecretAsGiven(d0, aux_rand, msg) ==
  NonceInputs(d0, aux_rand, ToXonly(Mul(d0, G)), msg)

InputsOf(d0, aux_rand, msg) ==
  NonceInputs(EvenSecret(d0), aux_rand, ToXonly(Mul(d0, G)), msg)

SigOf(d, k0, R, P, msg) ==
  <<R, Add(EvenSecret(k0), Mul(ChallengeOf(R, P, msg), d))>>

Checked(sig, P, msg) ==
  IF SchnorrVerify(msg, P, sig) THEN Returns(sig) ELSE AssertionError

SignUnder(d0, k0, msg) ==
  LET P == ToXonly(Mul(d0, G))
  IN  Checked(SigOf(EvenSecret(d0), k0, ToXonly(Mul(k0, G)), P, msg), P, msg)

SchnorrSign(msg, d0, aux_rand) ==
  IF ~ NonZeroScalarInRange(d0) THEN ValueError("secret key")
  ELSE IF aux_rand = WrongLength THEN ValueError("aux_rand")
  ELSE IF NonceOf(InputsOf(d0, aux_rand, msg)) = 0 THEN RuntimeError
  ELSE SignUnder(d0, NonceOf(InputsOf(d0, aux_rand, msg)), msg)

-----------------------------------------------------------------------------
(* The parties.                                                            *)

Init == /\ seckey \in [Parties -> SecretKeys]
        /\ published = [p \in Parties |-> [xonly |-> NothingYet, plain |-> NothingYet]]
        /\ attempts = {}
        /\ shared = [p \in Parties |-> [q \in Parties |-> NothingYet]]

Publish(p) ==
  /\ published' = [published EXCEPT ![p] = [xonly |-> PubkeyGen(seckey[p]),
                                            plain |-> PubkeyGenPlain(seckey[p])]]
  /\ UNCHANGED <<seckey, attempts, shared>>

CallSchnorrSign(p, msg, aux_rand) ==
  /\ Cardinality(attempts) < MaxSignatures
  /\ attempts' = attempts \cup
       {[party |-> p, msg |-> msg, aux_rand |-> aux_rand,
         result |-> SchnorrSign(msg, seckey[p], aux_rand)]}
  /\ UNCHANGED <<seckey, published, shared>>

Agree(p, q) ==
  /\ published[q].plain.kind = "returns"
  /\ shared' = [shared EXCEPT
       ![p][q] = EcdhCompressedInRawOut(seckey[p], published[q].plain.val)]
  /\ UNCHANGED <<seckey, published, attempts>>

Next == \E p \in Parties :
          \/ Publish(p)
          \/ \E msg \in Messages, aux_rand \in AuxRands : CallSchnorrSign(p, msg, aux_rand)
          \/ \E q \in Parties \ {p} : Agree(p, q)

Spec == Init /\ [][Next]_vars

-----------------------------------------------------------------------------
(* Properties.                                                             *)

signatures == {a \in attempts : Succeeds(a.result)}
Key(p) == published[p].xonly.val

\* The final check in schnorr_sign never fails, whichever parities the key and the
\* nonce have: the signature of a party verifies under the key it published, and no
\* other number in the place of s does, not even the same one modulo Order.
OnlyItsSignatureVerifies ==
  /\ \A a \in attempts : a.result # AssertionError
  /\ \A a \in signatures :
       published[a.party].xonly # NothingYet =>
         {s \in 0 .. 2 * Order : SchnorrVerify(a.msg, Key(a.party), <<a.result.val[1], s>>)}
           = {a.result.val[2]}

\* The secrets d and Order - d have one x-only key; as signers they cannot be
\* told apart either, for the key is made even before the nonce is derived.
SameKeySignsAlike ==
  \A a, b \in signatures :
    /\ a.msg = b.msg /\ a.aux_rand = b.aux_rand
    /\ \A c \in {a, b} : published[c.party].xonly # NothingYet
    /\ Key(a.party) = Key(b.party)
    => a.result = b.result

\* Signatures whose nonces hash the same inputs answer the same challenge,
\* whatever message and randomness the caller varies.
NonceServesOneChallenge ==
  \A a, b \in signatures :
    InputsOf(seckey[a.party], a.aux_rand, a.msg) = InputsOf(seckey[b.party], b.aux_rand, b.msg)
      => /\ a.result.val[1] = b.result.val[1]
         /\ ChallengeOf(a.result.val[1], ToXonly(seckey[a.party]), a.msg)
              = ChallengeOf(b.result.val[1], ToXonly(seckey[b.party]), b.msg)

\* test_ecdh.py: two parties with valid keys compute the same secret.
SharedSecretsAgree ==
  \A p, q \in Parties :
    Succeeds(shared[p][q]) /\ Succeeds(shared[q][p]) => shared[p][q] = shared[q][p]

=============================================================================
