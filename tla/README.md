# FROST signing over secp256k1: a verification project

TLA+ models of the signing protocol in `src/python`: the reference implementation of FROST
signing for BIP340 signatures (`frost_ref/signing.py`), its trusted dealer
(`trusted_dealer.py`), the example session with a coordinator and participants (`example.py`),
the field, group and BIP340 code underneath (`secp256k1lab`), and the generators that write the
test vectors (`generators`, `gen_vectors.py`). TLC checks the models on small groups;
TLAPS proves the results that do not depend on the size of anything.

## Inventory of the system

| Part | State it keeps | Operations | What makes it correct |
| --- | --- | --- | --- |
| Field elements (`secp256k1.py`) | numerator and denominator, rewritten in place by `__int__` | arithmetic, comparison, conversion | no sequence of them can be told from arithmetic on values |
| Points (`secp256k1.py`) | coordinates or infinity; the table for G | addition, multiplication, `lift_x`, encodings | the cyclic group; every parser accepts exactly what is written |
| Key material (`signing.py`) | a party's `ThresholdInfo` | interpolation, two validators | a copy is accepted iff every signer list drawn from it can sign |
| Trusted dealer (`trusted_dealer.py`) | none | keygen, shard, combine | any t shares combine to the secret |
| Tweak context (`signing.py`) | `Q`, `gacc`, `tacc` | `apply_tweak`, replay of a list | accumulators stay in step with the key |
| Secret nonce (`signing.py`) | the `secnonce` bytearray, overwritten in place | `nonce_gen`, `sign` | one signature per draw; a bad aggregate nonce costs nothing |
| Signing and aggregation (`signing.py`) | none | `nonce_agg`, `get_session_values`, `sign`, `partial_sig_verify`, `partial_sig_agg` | honest signers pass, aggregates verify, blame is deserved |
| Deterministic signing (`signing.py`) | none (stateless) | `deterministic_sign` | a nonce is reused only for the same equation; answers fit a session of ordinary signers |
| Session (`example.py`) | locals of u + 1 coroutines, 2u queues | two rounds over queues, `gather`, cancellation | agreement, blame, termination |
| Example program (`example.py`) | locals of `main` | dealer, tweaks, session, verification | a verifying signature for everybody, or an exception before the session |
| Single signer (`bip340.py`, `keys.py`, `ecdh.py`) | none | key generation, `schnorr_sign`, `schnorr_verify`, ECDH | signatures verify, uniquely; no nonce for two challenges; secrets agree |
| Test cases (`generators/`) | one group under construction, its pools | the `add_*_tests` of five files | each case ends as asserted and for the reason given |
| Vector files (`gen_vectors.py`, `tests.sh`) | the directory `vectors` | empty it, six generators, report | tests read whole files of the present code |

How they interact. The dealer's shares become the `secshares` and `pubshares` of a session. A
session context (the signer list, the key, the tweaks, the message and the aggregate nonce) is
rebuilt by every party for itself; `get_session_values` derives everything from it. In
`example.py` each participant sends its public nonce through its own queue, the coordinator
receives them in the order of the signer list, broadcasts the aggregate, receives and verifies
the partial signatures in the same order and broadcasts the result. There is no shared memory
between parties and no timeout. `main` composes the dealer, the tweak context and the session and
verifies the result with `schnorr_verify`. All of it computes on `Scalar` and `GE`, whose
coordinates are shared, lazily reduced `FE` objects. The generators call the signing functions on
pools of real and crafted material and assert how each call ends; `tests.sh` runs them and then
the tests on what they wrote.

What is hard to test here: the interleaving of the coroutines and the effect of one of them
raising; contributions of misbehaving signers in either round, in combination; failures of
`sign` before and after the nonce is overwritten, followed by retries; a stateless signer that is asked again with
some of its inputs replayed; signs that accumulate over several tweaks; an aggregate nonce that cancels to infinity, which random tests never
meet; the equality of two different ways of accepting key material; fractions that are normalised
in place behind a second reference; doublings and inverses in the middle of a multiplication;
error cases that fail for another reason than the one they are named for; a generator that fails
or is interrupted while it writes. `PROJECT.json` lists these
hazards at the line where each one bites, with the properties that cover it.

## Abstraction of the data

The system is modelled in three layers, each of which justifies what the next takes for granted.

* `PrimeFieldElements` has the objects of `APrimeFE` as they are: numerator, denominator, and names
  that share an object. It implements `AbstractField`, names with values modulo a prime.
* `Curve` therefore computes coordinates modulo `FieldSize`, on the curve y^2 = x^3 + 7 over a
  small field, chosen like secp256k1: the number of points is a prime `Order` and `FieldSize` is
  3 modulo 4. An encoding is a tuple of a tag and the numbers behind it, since only they decide
  what a parser does. `CurvePrograms` implements `AbstractGroup`, addition of logarithms, and
  has the parity that `ScalarGroup` assumes.
* All protocol modules use `ScalarGroup`: the group is `Z/Order` for an arbitrary prime `Order`. A point is its discrete logarithm to
  the base G, so infinity is 0, G is 1, addition is addition modulo `Order`. Which points have an
  even y is the parameter `EvenPoints`: exactly one of P and -P, and G. An x-only key is the even
  one of the two points. This keeps every equation of the code and every case distinction
  (infinity, parity); hardness of discrete logarithms is not a notion of the model, and nothing
  claims unforgeability.
* Encodings are integers: a value out of range or bytes that decode to no point are numbers from
  `Order` upwards, the 33 zero bytes are 0, a nonce component of the wrong length is
  `WrongLength`, an absent public share is `None`.
* The tagged hashes of the nonce coefficient and the challenge are constant operators. The MC
  modules give them arithmetic mixtures that depend on every argument and never reduce to 0 (the
  code asserts that and argues it happens with negligible probability). The hashes that derive nonces and dealer
  coefficients are any nonzero scalars, except the deterministic nonce hash, which is a function of
  the tuple of what `det_nonce_hash` concatenates: the model takes the concatenation to be
  injective. The hashes of `nonce_gen_internal` (in `VectorInputs`) and of `schnorr_sign` are
  functions of their inputs in the same way. The xor with the hash of `aux_rand` is an addition.
* Of an exception its kind is kept, of an `InvalidContributionError` whom and what it blames, and of
  a `ValueError` of `signing.py` and of `secp256k1lab`'s signing, keys and ECDH which check raised it,
  by a name that stands for the message. The checks come in the order of the code. The wording, and the
  list index in a message, are left out.

## Modules

| Module | Models | Notes |
| --- | --- | --- |
| `PrimeField` | values of `APrimeFE`, `Scalar` | operators modulo a prime `Order` |
| `AbstractField` | | names with values, computed, compared and converted |
| `PrimeFieldLaws` | | lemmas on `PrimeField`: residues, folds over finite sets, powers |
| `PrimeFieldElements` | `APrimeFE` | names, objects, num and den; implements `AbstractField`; its `ElementsSpec` and the names below it are prefixed because `Secp256k1labProofs` extends two machines |
| `Curve` | `FE.sqrt`, `GE`, `FastGEMul` | operators on coordinates |
| `AbstractGroup` | | two registers of logarithms |
| `CurvePrograms` | additions, negations, multiplications in any order; every parser on every string | implements `AbstractGroup` |
| `CurveProofs` | | theorems about `CurvePrograms` |
| `ScalarGroup` | `Scalar`, `GE` as the protocol uses them | operators over `Order`, `EvenPoints` and their assumptions |
| `CallResults` | return values and exceptions | |
| `FrostKeys` | interpolation, dealer, `validate_threshold_info`, `validate_session_params` | pure operators |
| `ThresholdKeys` | a party's copy of dealt key material | actions: keygen, loss and alteration of entries, validation; its `KeysSpec` and the names below it are prefixed because `KeyMaterialProofs` extends two machines |
| `KeyMaterialProofs` | | theorems about `ThresholdKeys` and `TweakedKey`, polynomials and interpolation |
| `FrostTweaks` | `TweakContext`, `apply_tweak`, `thresh_pubkey_and_tweak` | pure operators |
| `TweakedKey` | successive calls of `apply_tweak` | implements `AbstractTweaks` |
| `AbstractTweaks` | | one key, two tweak operations, no accumulators |
| `Bip340` | `schnorr_verify` | pure operators |
| `SingleSigner`, `MCSingleSigner` | `pubkey_gen`, `schnorr_sign`, `pubkey_gen_plain`, ECDH | actions of each party: publish, sign, agree |
| `Secp256k1labProofs` | | theorems about `PrimeFieldElements` and `SingleSigner` |
| `FrostSigning` | both rounds, aggregation | pure operators; `Sign` yields the result and the buffer it leaves |
| `FrostSigningLaws` | | lemmas on the operators of all the modules up to `FrostSigning`, and on interpolation, cited by every proof about the protocol |
| `NonceLifecycle`, `MCNonceLifecycle` | a signer's `secnonce` buffer over many calls | actions: draw, call `sign`; names from `LifecycleSpec` down prefixed for `SignerProofs` |
| `DetSigning` | `det_nonce_hash`, `deterministic_sign` | pure operators |
| `DeterministicSigner`, `MCDeterministicSigner` | the calls of a stateless signer | one action, the call; `calls` is the history of requests and results, since the signer itself keeps nothing |
| `SignerProofs` | | theorems about `NonceLifecycle` and `DeterministicSigner` |
| `SigningSession`, `MCSigningSession` | `coordinator`, `participant`, the channels, `gather` | implements `AbstractSession` |
| `AbstractSession` | | consent of every signer, one outcome, delivery only of an issued signature |
| `SigningSessionProofs` | | theorems about `SigningSession` and `ExampleMain` |
| `ExampleMain` | `main` of `example.py` | the sessions it starts, from the dealer on, and its final assertion |
| `VectorInputs` | `generators/common.py`, `nonce_gen_internal` | test groups, pools with crafted entries, signer sets |
| `VectorCases`, `MCVectorCases` | the five generators | one action, the next case: call, assertion, result; names from `CasesSpec` down prefixed for `VectorProofs` |
| `VectorFiles`, `MCVectorFiles` | `gen_vectors.py`, `tests.sh` | actions: edit, start, remove, generate, finish, interrupt |
| `VectorProofs` | | theorems about `VectorFiles` and `VectorCases` |

A step of a coroutine in `SigningSession` runs from one `receive` to the next, as it does in
asyncio. `pc`, `secnonce`, `pubnonce`, `psig` and `returned` are the locals of the participants,
`coord` those of the coordinator, `to_coord` and `to_part` the queues. The first participant has
no public shares, as in `simulate_frost_signing`. An exception in one coroutine lets
`asyncio.run` cancel the others (`CancelRemaining`), which may take further steps before that
happens. Faulty signers are an addition to `example.py`, which is honest throughout: they may
send any public nonce and any partial signature from a bounded set, or nothing, and stand for
the misbehaviour that `nonce_agg` and `partial_sig_verify` are written to meet.

In `VectorCases` a case is a record of the arguments of one call, with indices into the pools where
the generators have them; `want` is the outcome that the generator asserts and `fault` what the
comment of an error case says it shows: the check that refuses it, or the contribution that is
blamed. The generator does not compare `fault` with the error that it records. A case that does not end as asserted raises, as in the code, and
leaves the rest of the group unrun. The error cases that `sign_verify.py` and `det_sign.py` share
come first; the order of cases within a file, which nothing depends on, is not the code's.
`ExampleMain` adds no steps of its own: what `main` does before `simulate_frost_signing` determines
the sessions, and what it does afterwards is stated of the states in which the session is at rest.

Definitions marked "Slip" are plausible mistakes in the definition that follows them. Nothing
uses them. With the slip put in place of that definition, the property paired with it in
`PROJECT.json` is violated, so each property is known to notice something.

## What the runs check

| Run | Question and properties | Instance |
| --- | --- | --- |
| `ThresholdKeys` | `AcceptsIffEverySignerListWorks`, `SharesCombine` | order 5, n = 4, every t, secret and polynomial with nonzero coefficients, every subset of lost shares, up to 2 altered entries |
| `TweakedKey` | `AccumulatorsExplainKey`, `SignersKeyIsPublishedKey`, `ReplayReachesContext`, `ImplementsTweaks` | order 7, every key, every sequence of up to 3 tweaks |
| `Session` | `OnlyRightSharesSign`, `OrderOfSignersIsIrrelevant`, `SignatureVerifies`, `BlameIsDeserved`, `Agreement`, `MainSucceeds`, `ImplementsSession`, `EndsUnlessFaultyIsSilent` | order 7, all interleavings of 82 sessions: 2-of-3 keys with four tweak lists (one fails) and a wrong share in either position; one faulty signer of two in either position, two of three, with contributions valid, undecodable and out of range, or none; and what `main` starts with 2-of-2, 2-of-3, 3-of-3 and 2-of-4 keys |
| `NonceLifecycle` | `OneSignaturePerDraw`, `ReleasedNonceIsZeroed`, `CoordinatorCannotBurnNonce` | up to 3 draws, any sequence of ten kinds of request |
| `DeterministicSigner` | `NonceServesOneChallenge`, `AnswerCompletesSession`, `HonestCoordinatorIsServed` | order 7, every pair of calls from lists of two or three signers and a sole signer; the same `aggothernonce` replayed with other signers, messages and tweaks; infinite, undecodable and missing ones |
| `PrimeFieldElements` | `EqualsIffSameInt`, `ImplementsField` | field of 5, two names on one or two objects, integers 5 and 7 as operands, every sequence of operations |
| `CurvePrograms` | `PointsAsAssumed`, `ImplementsGroup`, `ParsesExactlyEncodings` | 31 points over the field of 43, every pair of points, multipliers 0, 1, 2, 21, 30 and 34; every tag and every number up to three above the field size, for five parsers |
| `SingleSigner` | `OnlyItsSignatureVerifies`, `SameKeySignsAlike`, `NonceServesOneChallenge`, `SharedSecretsAgree` | two parties, every pair of secrets from 0 to the order and one above, two signatures, two messages, two random strings and one of the wrong length |
| `VectorCases` | `EveryCaseBehaves`, `ErrorsNameTheirFault`, `BlameFallsOnFault`, `SameAnswers`, `FaultSlotsLeadToInfinity` | all five files in the four groups of the code: 2-of-3, 1-of-3, 3-of-3, 3-of-5 |
| `VectorFiles` | `TestsReadFreshFiles`, `OneVersionOnDisk`, `ResultsMatchFiles` | six generators, three versions of the code, any failures and interrupts |
| `SessionCollusion` | `SignatureAlwaysVerifies`, violated | two faulty signers with opposite nonces |
| `SessionShortNonce` | `NoSignerTriggersAssertion`, violated | a faulty signer with a short nonce |

`TweakedKey`, `NonceLifecycle` and `PrimeFieldElements` have a `TypeOK` that says more than ranges (a
finite key, a buffer that holds one draw whole or zeros, a denominator that is not zero); the
other machines need none, since what their values may be follows from the other properties.

Why the bounds are enough. Orders 5 and 7 already have two points of either parity, a key and its
negation, and sums that cancel; because they are so small, the coincidences that secp256k1 never
shows (an infinite aggregate nonce, a tweak that cancels the key, a polynomial through an
altered share) occur in a large share of the states. n = 4 gives base sets with shares behind
them and altered entries on both sides. Three tweaks give an odd intermediate key between two
tweaks of either mode. Two signers already interleave in every order of sends and receives; the
session of three, with faulty ones around an honest one, covers blame by position. Three draws
let two calls fail between successes. The deterministic signer is stateless, so pairs of calls
show everything that a longer history could. Two field elements are all an operation has; with
two names on two objects every pattern of sharing of its operands and result occurs. On the curve
every pair of points is reached, so every case of the addition is; the multipliers have their
lowest and highest bits set and clear, and one exceeds the order. The test groups are those of the
code; order 101 is large enough that no hash makes a case cancel that is not crafted to, as on
secp256k1, and the crafted ones still cancel exactly. Three versions of the generators show an
interrupted run followed by edits and two more runs.

Fairness. The asyncio event loop runs every coroutine that is ready, so the honest
participants, the coordinator and the cancellation are weakly fair. For a coroutine this is said of
what only its own step does while it is ready (`ParticipantResumes`, `CoordinatorResumes`): it
leaves its `pc` for another place, or takes the message it waits for. Faulty signers have no fairness:
they may stay silent for ever, and since `example.py` has no timeout the coordinator may then
wait for ever, which `EndsUnlessFaultyIsSilent` states as the only exception.

The other models state safety only: they are calls that a caller may or may not make, and
`VectorFiles` is started and interrupted by a person.

Deadlock checking is off where the model stops by itself (a session that ended, validated key
material, the last tweak, call or test case, bytes that are parsed). `NonceLifecycle`,
`SingleSigner`, the field elements and `VectorFiles` check it: there a next call is always possible.

## Disagreements between text and code

* `SessionCollusion`. README.md:222 (and 856) promises that once `PartialSigVerify` accepts all partial signatures,
  `PartialSigAgg` returns a valid signature. When R1 + b*R2 is infinity, `signing.py:379`
  replaces R by G; if the signers chose their nonces to cancel, all partial signatures verify and
  their sum does not. All of the nonces have to cancel, so this takes every signer of the list,
  or the last one answering a sum it knows the discrete logarithm of. With an infinite nonce
  excluded, the promise holds (`SignatureVerifies`).
* `SessionShortNonce`. `signing.py:40` says that no signer can trigger an assertion. A public
  nonce shorter than 66 bytes reaches the length assertion in `GE.from_bytes_compressed` (secp256k1.py:382)
  through `nonce_agg`, which catches only `ValueError`.

Noticed while modelling, and not the subject of a run:

* `ecdh.py:9` asserts that the shared point is finite because the order of the group is prime;
  `ecdh.py:8` accepts the secret key 0, for which it is infinite.
* `generators/common.py:226-228` says that the crafted inverse nonce only cancels the first n - 1
  nonces. In the 1-of-3 group the shares are equal and the nonces are derived from equal
  inputs, so all nonces are equal and it cancels any n - 1 of them.
* `generators/det_sign.py:84-87` explains why an empty signer list gets no aggregate:
  `deterministic_sign` would blame the coordinator, masking the error in the number of signers.
  `signing.py:473` validates the session first, so it would not.
* `vectors/test_vectors_summary.md:38-40` says that the indices of valid cases just track their
  ids. The case with the infinite aggregate nonce uses an appended entry. (Line 51 there, that
  `aggothernonce` is null when the session has a single signer, is likewise not so for the error
  case whose only listed id is out of range, in the 1-of-3 group.)

## What is proved

TLAPS checks the following for every prime `Order`, every `EvenPoints` that satisfies
`ParityAssumption`, and every value of the other constants. Of the properties that the passing
runs check, all are proved but two of the test cases and one of liveness (see the end of this
section).

**Residues (`PrimeFieldLaws`).** The residues modulo a prime form a field; the lemmas on `%`
rest on the solver's linear arithmetic through quotient and remainder. Sums and products over the
signers (`SumOver`, `ProductOver`) are folds that choose their elements in an arbitrary order. The
library's induction theorems cannot be instantiated here, but induction over the subsets of a finite
set can be proved for a set of subsets, instead of a predicate of them (`SubsetInduction`). From it:
a fold of commuting steps depends on the set alone, sums are linear and can be renumbered, products
of nonzero factors are nonzero, and multiplying all of them by one factor gives Fermat's little
theorem (`FermatsLittleTheorem`). `CurveProofs` instantiates the same laws for the coordinates.

**The operators (`FrostSigningLaws`).** `EvenSign` is the sign that turns a point into its even
representative. On that and the residues rest the lemmas on the code's own helpers:

* the interpolating value of a valid list exists, is nonzero, and `derive_interpolating_value`
  does not raise (`InterpolatingValue`); distinct ids stay distinct modulo the order only because
  `MaxParticipants < Order`;
* `validate_session_params` returns if and only if all that it checks holds, and raises a `ValueError`
  otherwise, whichever check is the first to fail (`ParamsPass`, `ParamsChecked`);
* the loop of `thresh_pubkey_and_tweak` yields a context that explains its key, or `ValueError`
  (`TweakLoop`, `TweaksExplain`);
* what `get_session_values` returns when it does (`SessionValuesReturned`), and when it does
  (`SessionValuesExist`);
* `sign` satisfies the equation that `partial_sig_verify_internal` checks (`SigningEquation`), for
  one secret share only (`EquationBindsShare`) and one partial signature only
  (`EquationBindsPsig`);
* partial signatures that verify add up to a signature that `schnorr_verify` accepts
  (`AggregateVerifies`);
* `nonce_agg` adds up (`NonceAggSums`) or blames the first undecodable contribution
  (`NonceAggBlames`);
* the session values do not depend on the order of the signers, with their public shares and
  nonces moved along (`SameSigners`, `SameSessionValues`); `SerializeIds` sorts.

**Key material (`KeyMaterialProofs`).** For `TweakedKey`, `TypeOK` and `AccumulatorsExplainKey`
together are inductive. The second alone is not: the algebra needs the accumulators to be scalars,
and finiteness of the key is what `apply_tweak`'s check establishes. `SignersKeyIsPublishedKey`
follows by distributing the sign of the final key over the equation. `TweakedKeyImplements` maps
each step to the plain or x-only operation of `AbstractTweaks` on the key rebuilt from the
accumulators. `TweakedKeyReplays` adds to the invariant that the context is what the loop of
`thresh_pubkey_and_tweak` makes of the history, which `OneTweakMore` extends by one tweak.

For `ThresholdKeys` the two theorems need Lagrange interpolation itself, whose lemmas are in
`FrostSigningLaws` too. The proof goes through
divided differences over a set of nodes (the ids, and -1 for the key, which lies at x = 0). They
satisfy the usual recurrence (`DividedRecurrence`). A function on the nodes is taken to be a polynomial of
at most m coefficients when its divided differences over more than m nodes vanish (`Below`). Constants are
such, and x times a polynomial plus a constant has one coefficient more (`ConstantBelow`,
`BelowRaised`), which is how Horner's rule in `polynomial_evaluate` builds its result
(`EvaluatedBelow`); so is the interpolation polynomial (`InterpolatedBelow`). Its error at a further
node is the divided difference with that node (`InterpolationError`). Hence the dealer's shares combine
to the secret (`DealtSharesCombine`); and shares that one base set of t explains are
explained by every list of t or more (`BaseDetermines`), while a list that works fixes each further
share (`NodeDetermined`). This gives both directions of `CopiesAreAcceptedIffUsable`:
`validate_threshold_info` looks at one base set and promises something about all lists. The
invariant `KeysInv` says which shapes a copy can have, that an unaltered one holds what was dealt,
and that `verdict` belongs to `info`.

**Nonces (`SignerProofs`).** `OneSignaturePerDraw` is not inductive; it needs
`ReleasedNonceIsZeroed` (the buffer of a draw that signed holds zeros) and `TypeOK` (no signature is
attributed to a draw that was not made). `SignTouchesSecnonce` reduces `Sign` to what the
argument needs: it leaves the buffer alone or overwrites it, and succeeds only from two nonzero
scalars. The action property `CoordinatorCannotBurnNonce` follows from the order of the steps of
`Sign`: only `get_session_values` blames the coordinator (`OnlyValuesBlame`), and it runs before
the buffer is overwritten.

**The session (`SigningSessionProofs`).** For any number of signers, any faulty signers and any hashes
that are nonzero where the code asserts it. The invariant is built in layers.

* `IInv` counts, for each signer, the messages it has sent against those the coordinator has
  taken and those still queued, and says what the queue to a participant holds at each place of
  its coroutine. Counting gives that the coordinator can only sign when every listed signer has
  sent a partial signature; hence `Agreement` and the refinement of `AbstractSession`, whatever
  the arithmetic comes to.
* `Content` says what the messages are: the queue to the coordinator holds the signer's own
  nonce and partial signature in that order, what the coordinator collected is what was sent,
  the aggregate nonce is theirs, and every collected partial signature passed verification. With
  `AggregateVerifies` it gives `SignatureVerifies` (unless the nonces cancel, the exception that the
  run `SessionCollusion` is about); with `SameSigners`,
  `OrderOfSignersIsIrrelevant`.
* `Honesty` follows each honest signer through its coroutine: its buffer holds the nonce that
  it announced for as long as it waits for the aggregate, and zeros once it has raised; it raises only
  with a wrong share or a tweak that fails, and what it sends passes its self-check. This is `OnlyRightSharesSign`.
* `BlameInv` derives from the three that an abort of the coordinator names a faulty signer. It
  has two hypotheses. `NoShortPubnonce`: a nonce of the wrong length ends in an assertion, which
  blames nobody, as the run `SessionShortNonce` shows. `Honest # {}`: an
  honest signer shows that the tweaks apply before it announces a nonce; without one, the coordinator
  may be the first to meet a tweak that fails, and that exception blames nobody. The run `Session`
  satisfies both.
* `Draining` and `Alive` say that those who have returned leave nothing in their queues, and
  that in a session without faulty signers and with right shares nobody has raised.
  A state at rest is then the end of the session (`RestIsTheEnd`), from which `MainIsServed` concludes
  that `main` in `example.py` gets a verifying signature for everybody. Termination itself is
  liveness and stays with TLC.

**The deterministic signer (`SignerProofs`).** The invariant is small (`Stateless`: every
recorded result is the function of its request), and the three theorems are about one
call or two. `OneNonceOneChallenge`: equal nonces come from equal inputs, since `det_nonce_hash` is
given the tweaked key, the ids, the message and `aggothernonce`, and these fix everything that
enters the challenge. `AnswersComplete`: the aggregate that the signer computes without its own nonce in
hand is the one that all nonces of the session give, so its partial signature verifies in a
session with ordinary signers and the aggregate verifies. `HonestCoordinatorsAreServed`: no
check of the call rejects the request of an honest coordinator.

**The single signer (`Secp256k1labProofs`).** `IInv` records that every published key and every
signature is the function of its secret; the four properties are then algebra: the equation of
`schnorr_verify` has one solution in s (`OneNumberVerifies`), the secret and its negation become
the same even secret (`EvenSecrets`), and both orders of an ECDH product agree.

**Field elements (`Secp256k1labProofs`).** An object represents the value num/den. Each operation
on representations is shown to represent the operation on values; `ElementsTypeOK` is inductive,
because denominators are products of nonzero numbers modulo a prime. Under the map from names to
values, `Convert` changes no value of any name, including those that share the object: that is
the heart of `ElementsImplementField`.

**The curve (`CurveProofs`).** For every prime `FieldSize` that is 3 modulo 4, in three
steps that assume ever more.

* `ParsingTheorem` (`ParsesExactlyEncodings`): each of the five parsers accepts exactly what
  some point is written as, and returns that point. What it needs of the field is that `sqrt` finds a root of whatever has
  one: `(FieldSize + 1) \div 4` is the exponent of a root of a square by Fermat's little theorem
  (`SqrtFindsRoots`). With `NoPointOfOrderTwo` the two roots have different parities, so a tag
  or an x coordinate and "even" name one point (`OppositeRoots`, `LiftXFinds`).
* `PointsTheorem` (`PointsAsAssumed`): what `ScalarGroup` takes for granted of points holds of the
  coordinates. Its invariant is that P and Q stay on the curve. That the third point of a chord or
  a tangent lies on the curve is an identity of polynomials over the integers
  (`ChordIdentity`, `TangentIdentity`), read modulo `FieldSize` once the quotient lam is
  taken apart (`Quotients`, `ChordCloses`, `TangentCloses`). The loops of `batch_mul` and
  `FastGEMul` only add, so they stay on the curve for every bit width.
* `GroupTheorem` (`ImplementsGroup`): the machine implements `AbstractGroup`, addition of
  logarithms. Here, and only here, `Associativity` and `GroupOrder` are used. The multiples
  of G add up and repeat after `Order` (`TimesAdds`, `TimesReduce`); since `Order` is prime and G
  is finite, no two smaller ones agree (`TimesInjective`), so logarithms are well defined
  (`LogOfTimes`). The invariant of the shared double-and-add is that r is the multiple for
  the bits read so far (`BatchMulOne`, `BatchMulTwo`), that of `FastGEMul` that the table holds
  the doublings and r the multiple for the low bits (`FastMulTimes`); `WidthAssumption` says that no bit is left out.

**Vector files (`VectorProofs`).** For any list of generators and any number of versions. The
invariant relates the directory to the step: while files are removed all remaining ones have one
version, and while they are generated every whole file is of the present version and reported
as a success.

**Test cases (`VectorProofs`).** For every list of configurations (thresholds, sizes, secret keys,
up to the number of participants that the code allows) and every hash, under `MaterialAssumption`
below.

* `CasesInvariant` is what the other theorems need of the cases that are written: the group's
  material is one that was built, what is pending or done is a case of its file, no case changes the pool of secret nonces, and
  the recorded result is that of the call on the pool as it was generated. That a case is as
  `Listed` says is proved for each of the five lists of cases: it has the fields of its call,
  lists of ids, tweaks and modes, and at most one contribution that is spoilt.
* `FaultSlotsTheorem` (`FaultSlotsLeadToInfinity`): the crafted entries do what they are named
  for in a group of any size. The crafted public share, in the place of the last
  signer's, cancels the weighted sum of the others (`CraftedSharesCancel`, by the interpolation lemmas),
  the inverse nonce is the negated sum of the others (`CraftedNonceCancels`), and the tweak is
  the negated secret key (`CraftedTweakCancels`).
* `BlameTheorem` (`BlameFallsOnFault`): an `InvalidContributionError` of any case names the one
  position that is spoilt, or the coordinator when the aggregate is. It follows the code's order of
  checks: what `get_session_values` raises blames the coordinator, `nonce_agg` the first nonce
  that does not decode, of which there is at most one, `partial_sig_agg` the first number out of
  range. In a deterministic case the signer's own nonce always decodes, so a failing sum is the
  fault of `aggothernonce`.
* `SameAnswersTheorem` (`SameAnswers`): cases that ask one question, with the signers in another order or without
  public shares, get one answer from `sign`, `partial_sig_agg` and `deterministic_sign`. The
  session values are the same (`ValuesAlike`, since the ids are sorted before they are hashed
  and an interpolating value depends on the set of ids), the partial signatures are permuted,
  and their sum is renumbered.

Assumptions. All are named `ASSUME`s that TLC evaluates for the instances above: `Order` is prime, stated
as the existence of inverses (`OrderAssumption`); exactly one of two opposite points is even, and G
is (`ParityAssumption`); there are fewer participants than the order (`ParticipantsAssumption`); drawn
nonces are nonzero, and the sessions and requests have the shape that the callers give
them (`SessionAssumption`, `RequestsAssumption`, `KeysAssumption`; each session runs with the key
material of a dealer, up to the wrong shares it is given); the nonce coefficient and the challenge
are nonzero (`HashAssumption` of three modules; the code asserts it). `HonestyAssumption` says what "an honest
coordinator" hands to a deterministic signer: key material that `validate_session_params` accepts
and nonces that other signers generated.

Those of the curve are facts about secp256k1, which TLC evaluates for the small one:
`FieldAssumption` (a prime that is 3 modulo 4), `NoPointOfOrderTwo` (-7 is not a cube, as
it cannot be where the number of points is odd), `BaseAssumption`, `GroupOrder` (the multiple `Order` of G is infinite) and
`WidthAssumption`. `Associativity` is the classical theorem on elliptic curves; it is one of algebra and not of this
code, and its polynomial identities are far beyond the solver. TLC evaluates it for all triples
of points. The test cases have `ConfigsAssumption` (at least three participants, as the crafted
lists of signers need), `LiteralsAssumption` (the literals of `nonce_agg`'s cases are encodings of
points), `MaterialAssumption` (nothing that the generators build is zero by chance: the code asserts
it of the coefficients, shares and nonces it makes, and parses the crafted nonce as a finite one) and `HashAssumption`
(the nonce of every deterministic case that gets to it is hashed to an integer).

Model-checked only:

* `EveryCaseBehaves` and `ErrorsNameTheirFault`: that a valid case ends well, and an error case in the
  error it is meant to show, is so for the concrete keys, tweaks and hashes of the generators and
  not for all; another tweak can make a key infinite, and be refused for that. TLC runs every case
  there is;
* `EndsUnlessFaultyIsSilent`, which is liveness under fairness;
* the two runs that expect a violation, which are counterexamples.

## Not modelled

* The hash functions, `xor_bytes` and the conversions of `util.py`, beyond the distinctions above.
* `__pow__` of field elements for exponents other than those that the code uses, and their text
  forms.
* The JSON text, comments, `tc_id`s and order of the test cases; the properties of `VectorFiles`
  treat a file as whole, partial or absent.
* `tests.py` and the unit tests of `secp256k1lab`, which call the functions modelled here on fixed
  inputs; linters; argument parsing and printing; the package's re-exports.

## Plan

Done, in this order: key material, tweaks, signing operators, session, nonce buffer,
deterministic signer; theorems on tweaks and nonces; field elements, curve and encodings, BIP340
and ECDH, the example program, the generators and their files; theorems on field elements, vector
files, agreement and the refinement of `AbstractSession`; then the algebra of sums over signers,
and with it the theorems on signatures, blame and the order of the signers, on the deterministic and the
single signer, on `main`, and on interpolation; last the parsers, the points and the group of
the curve, and the test cases: their crafted entries, their blame and their answers.

What is open: a proof of associativity, which would leave only facts about the constants of
secp256k1 as assumptions of `GroupTheorem`; and a statement of what makes a case valid that does not name the
generators' own numbers, so that `EveryCaseBehaves` could be proved for every group.
