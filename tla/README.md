# FaFROST: TLA+ models and proofs

This directory specifies the FaFROST crate (`src/`), a two-round threshold
Schnorr signature scheme with identifiable aborts, checks the specifications
with TLC on small instances, and proves theorems about them with TLAPS for every
value of the parameters: that complete sessions sign, that `decide` names a faulty
signer and no honest one, what the proofs of well-formedness prove, that the dealer's
loops deal what they should, that the demo spends, and what a key file is worth.

## 1. The system

### 1.1 Components

| Component | Source | State it keeps | Operations |
|---|---|---|---|
| Dealer | `src/src/keygen.rs:73-172` | none; returns key packages and public keys | `generate_with_dealer`, `generate_with_dealer_from_secret` |
| Key file | `src/src/keygen.rs:174-288` | a YAML file that several programs share | write, read, validate, deal from the file |
| Signing | `src/src/sign.rs` | a signer's nonces, held by the caller | `commit`, `sign`, `aggregate` |
| Verification | `src/src/verify.rs` | none | `verify` |
| Identifiable abort | `src/src/ia.rs` | the maps of messages, held by the caller | `ia1`, `ia2`, `decide` |
| Well-formedness proof | `src/src/ia.rs:302-632` | the prover's randomness within one call | `prove_wellformed`, `verify_wellformed_proof` |
| Helpers | `src/src/utils.rs` | none | Lagrange, signs, binding factor, blinding, commitments |
| Ciphersuites | `src/src/ciphersuite/` | none | hooks of the suites, hashes, serialisers |
| Wire encodings | `src/src/wire.rs` | none | `to_bytes`, `from_bytes` of the messages |
| Errors | `src/src/error.rs` | none | the error values |
| `keygen`, `generateaddress` | `src/src/bin/` | none beside the key file | write a fresh key and deal it; read the key, deal it, print its address |
| `spenddemo` | `src/src/bin/spenddemo.rs` | none beside the key file | tweak the dealt key and its shares, sign with signers 1 and 2, spend |
| Benchmarks, vectors | `src/benches/`, `src/tests/vectors.rs` | none | timings, pinned bytes |
| Driver | `src/tests/` | the session | the only callers that run whole sessions |

The library is made of functions without state of their own. What makes a
system of them is the caller: it deals the keys, has each signer commit, puts a
`SigningPackage` together, collects the shares, aggregates and verifies them,
and, when that fails, runs the two rounds of the identifiable abort and
`decide`. It passes `BTreeMap`s between these calls. The crate has no
coordinator; the tests are the only ones, so the models take the driver from
them: every signer receives the same maps, and a round starts when the one
before has ended.

### 1.2 What is hard here, and what makes each part correct

The interesting behaviour is not concurrency inside the code but what several
parties do to one another through the maps.

* **Dealer.** The threshold is the number of coefficients; the key is negated
  under BIP-340. Correct when exactly `min_signers` shares determine the key.
* **Signing.** Blinding values derived from pairwise keys cancel only if both
  ends use the same key, the same package and opposite signs; nonces are negated
  with the aggregate nonce; commitments may be stale; `aggregate` compares only
  the number of shares. Correct when a complete session verifies, and what
  verifies is one session's.
* **Identifiable abort.** Signers lie: about their shares, keys, commitments,
  views and openings, or stay silent, or replay what others have sent. Correct
  when `decide` names no honest signer (accuracy), names some faulty one
  (completeness), comes to a decision (liveness), and has not made honest signers
  reveal the keys they share.
* **Well-formedness proof.** Correct when every honest share has one, and no
  prover has one for a share that is not well formed.
* **Key file.** Writing is not atomic and nothing locks the file; what
  `write_key_yaml` accepts `read_key_yaml` may reject; the key is normalised when it
  is written, validated and dealt; every deal from the file draws other shares.
  Correct when a key that was written reads back as the key that was dealt, and when
  whoever deals from the file gets a whole, valid key that is in it.
* **Dealer's loops.** They run over `u16`, in which `i + 1` overflows for the last
  identifier. Correct when they end with what the scheme says, for all sizes.
* **Taproot demo.** The internal key, the tweaked key and the nonce are each negated
  for half of the values. Correct when the signature always verifies under the output
  key, which is computed elsewhere from the x coordinate alone.
* **Bytes.** Decoding must be total and invert encoding; two verifiers of Ed25519, one
  of bytes and one of what they are decoded as, must agree; what is hashed is
  concatenated without lengths, and must still tell purposes and arguments apart.

`PROJECT.json` lists the hazards at their lines, with the properties that cover
each one, or the reason why none does yet.

## 2. The plan

| Stage | Module | Content | State |
|---|---|---|---|
| 1 | `ScalarField`, `Ciphersuite`, `FaFrost`, `IaRounds` | the pure functions | done |
| 1 | `IdentifiableAbort` | a session with faulty signers | done |
| 1 | `AccountableSigning` | what such a session promises | done |
| 1 | `Signing` | overlapping sessions | done |
| 1 | `WellformedProof` | the sigma protocol behind `IaRounds` | done |
| 1 | `ScalarField_proofs`, `FaFrost_proofs`, `IdentifiableAbort_proofs` | accuracy of `decide` and what it rests on | done |
| 2 | `KeyFile`, `KeyStore`, `Keygen_proofs` | programs that share a key file, what they may rely on, and that they may | done |
| 2 | `DealerLoops` | the dealer's loops over u16 identifiers | done |
| 2 | `TaprootSpend` | the tweak of keys and shares of the demo | done |
| 2 | `Redeal` | a session during which the key is dealt again | done |
| 2 | `Encoding`, `Wire`, `HashInputs` | bytes of messages, bytes that are hashed | done |
| 3 | `ScalarField_proofs`, `FaFrost_proofs` | the algebra: blinding values cancel, shares interpolate to the key, a session's aggregate verifies | done |
| 3 | `IdentifiableAbort_proofs` | an abort names a faulty signer; who can be named at all; the safety part of the refinement | done |
| 3 | `Signing_proofs` | complete sessions sign, and one signer less than the threshold does not | done |
| 3 | `WellformedProof_proofs` | completeness and special soundness of the proof | done |
| 3 | `KeyUses_proofs` | what the demo prints is spendable, whichever points have an odd y | done |
| 3 | `Keygen_proofs` | the loops compute `GenerateWithDealer` | done |
| 4 | `Signing_proofs` | shares of two sessions make no signature of either | done |
| 4 | `KeyUses_proofs` | a session during which the key is dealt again: which shares sign, who is named | done |
| 4 | `Encoding_proofs` | decoding inverts encoding and refuses all else; the two verifiers of Ed25519; what is hashed tells its purpose and arguments | done |

Modules extend one another in this order:

    ScalarField <- Ciphersuite <- FaFrost <- IaRounds <- IdentifiableAbort
    Ciphersuite <- KeyFile
    FaFrost     <- Signing, DealerLoops, Encoding
    IaRounds    <- WellformedProof, TaprootSpend, Redeal
    Encoding    <- Wire, HashInputs

    KeyFile, DealerLoops                                    <- MCKeygen
    TaprootSpend, Redeal                                    <- MCKeyUses
    IdentifiableAbort, Signing, WellformedProof, Wire, HashInputs
                                                            <- one MC module each

`IdentifiableAbort` instantiates `AccountableSigning`, and `KeyFile` instantiates
`KeyStore`, under a refinement mapping. Lemmas and proofs are in modules of their
own:

    ScalarField_proofs <- FaFrost_proofs (the lemmas about FaFrost and IaRounds)
    ScalarField_proofs <- Encoding_proofs (Encoding, Wire and HashInputs)
    FaFrost_proofs     <- IdentifiableAbort_proofs, Signing_proofs, WellformedProof_proofs,
                          Keygen_proofs (KeyFile and DealerLoops),
                          KeyUses_proofs (TaprootSpend and Redeal)

Nothing uses a RECURSIVE operator: sums and products are recursive functions.

## 3. The models and the code

### 3.1 How the data is represented

* A scalar is a number of `0..Q-1`, `Q` prime. A point `G*x` is its discrete
  logarithm `x`, so that the group operations are those of the field. No property
  depends on discrete logarithms being hard to find, except in commitments:
* A Pedersen commitment is the record of what it commits to
  (`PedersenCommit`). Nobody knows the discrete logarithm of `H`, so two openings
  of one commitment would be a break of the group.
* Hash functions to scalars are CONSTANTS (`Hsig`, `Hnon`, `Hs`), of which the
  proofs assume no more than their type. Hashes that only ever feed an equality
  (`HashPairwiseKeyCommitment`, `BlindingRandomizer`) are injective records.
* The parity of the y coordinate (`HasOddY`) is the parity of the number: it has
  the one property the code relies on, that of `P` and `-P` exactly one is odd,
  for `P` other than the identity.
* A `BTreeMap` is a function on a set of identifiers; `BTreeMap::insert` is
  `Insert`. A lookup that the code guards with `ok_or` or `let Some(..) else` is a
  test of the domain.
* `SigningPackage.partial_verification_keys` is left out: no function reads it.

### 3.2 Modules

**`ScalarField`** has the arithmetic of `ff` and `group`, and the maps.
`InverseAssumption` says that `Q` is prime.

**`Ciphersuite`** has the hooks of `src/src/ciphersuite/`: `Suite = "plain"` stands
for the suites that keep the default hooks (`Secp256k1Plain`, `Ed25519`),
`"bip340"` for `Secp256k1Bip340`.

**`FaFrost`** has one operator per function of `keygen.rs`, `utils.rs`, `sign.rs`
and `verify.rs`. A function that returns a `Result` is a pair of operators:
`SignResult` says which early return is taken, in the order of the code, and
`Sign` what is returned at the end; `AggregateResult` and `Aggregate` likewise.
Randomness is an argument (`Randomness`).

**`IaRounds`** does the same for `ia.rs`. `Decide` is the union of its three
loops; each adds to a set and `continue`s, so that the order does not matter. The
proof is idealised: it carries its transcript and its witness and is accepted when
the transcript is the verifier's and the witness satisfies the equations.
`WellformedProof` says why that is right.

**`IdentifiableAbort`** is a session. Its variables are the maps the driver keeps
(`signature_shares`, `ia1_messages`, `ia2_decisions`), the signers whose `ia2`
returned an error, and what the driver has computed (`outcome`, `malicious`).

| Action | Code |
|---|---|
| `PublishShare(i)` | `sign` |
| `AggregateShares` | `aggregate` and `verify` |
| `IA1(i)` | `ia1` |
| `CloseIA1` | the driver moves on |
| `IA2(i)` | `ia2`, or its error |
| `Adjudicate` | `decide` |
| `PublishFaultyShare(i)`, `FaultyIA1(i)`, `FaultyIA2(i)` | a faulty signer's answer |

A faulty signer may hold a wrong pairwise key (as in
`ia_identifies_pairwise_key_mismatch`), add something to its z or R
(`ia_identifies_tampered_share`, `aggregate_inconsistent_nonce`), copy the share or
the message of another signer, run `ia1` with the dealt or the wrong key and under
its own view of the shares, leave commitments out, open any set of its keys, wrong
ones too, and, with `MayOmit`, not answer at all. A round ends when all signers
have answered, or, with `MayOmit`, at any moment after the honest ones have. An
honest `ia2` that returns an error is not called again: its arguments would be the
same.

**`AccountableSigning`** is what the driver may rely on. Its safety part: a session
without faulty signers gives a valid signature, and who is accused is faulty, a signer
of the session, and accused once. Its liveness: a session comes to a result, and one
that failed has somebody accused.

**`Signing`** has several packages, parties that commit again and drop their old
nonces, a coordinator that uses any commitments published so far, and an
aggregation of shares from several sessions. All parties run the code. Its Init
fixes the nonces in advance (`Draws`); which ones are drawn next is not the
question there.

**`WellformedProof`** is the sigma protocol with the challenge chosen instead of
hashed. `InitRunsCode`/`Answer` are `prove_wellformed`; `InitOther`/`AnswerOther`
are any prover that finds an answer which `verify_wellformed_proof` accepts.

**`KeyFile`** has any number of runs of `keygen`, `generateaddress` and `spenddemo`
on one file. A step is what a program does between two calls of the operating
system, because another program may come in between, or the program be interrupted:

| Action | Code |
|---|---|
| `StartKeygen(p)` | the secret is drawn, the assertion on the thresholds, the text |
| `OpenFile(p)`, `WriteText(p)` | `fs::write`: open and truncate, then write |
| `DealWritten(p)` | `generate_with_dealer_and_write_key_yaml` deals from memory |
| `Kill(p)` | the program is interrupted before or after the write |
| `Tear(p)` | it is interrupted in the write, or the write fails, with any part of the text written |
| `ReadKey(p)` | the first reading of `generateaddress` |
| `DealFromFile(p, from)` | `generate_with_dealer_from_key_yaml` |

A text is the `StoredKey` it stands for, or does not parse (`Garbled`). Its length is
kept apart, and how many of its last characters are newlines: of two programs that write
at a time the one with the longer text leaves its end behind the other's, and the key is
read only if that end is nothing but newlines. One newline ends every whole text; the
digit before it is left over if the difference is greater, or if the longer text was torn.
A text that is torn is read if it lacks the final newline only. If it was written over
a longer one, the beginning of one text and the end of another may even make up a key
that neither program has written, with the digits of the thresholds mixed (`Hybrids`: "2"
over "100" is 200). The dealer comes to no end with 65535 signers (`DealerPanics`,
shown in `DealerLoops`): the program is then "panicked", with the file written or read,
but nothing dealt. The file found at first may be one that was edited by hand.

**`KeyStore`** is what the programs may rely on: a register of one key, which may
lose its key at any moment, but from which no program ever deals anything that is
not the key in it.

**`DealerLoops`** is `generate_with_dealer_from_secret` loop by loop, `pow`, `y` and
the two maps included, over identifiers up to `IdMax`. `GenerateWithDealer` of
`FaFrost`, from which all other modules deal, is what it computes. Its specification is
`DealSpec`, so that `MCKeygen` can extend it beside `KeyFile`.

**`TaprootSpend`** follows `main` of `spenddemo.rs` with the byte functions of
`bip340.rs`: key, tweak, negation of the shares, both rounds of signers 1 and 2, the
coordinator's `c * tweak_eff`, the assertion, the transaction. An `assert` or an
`expect` that fails leads to the phase "panicked", an early return to "failed".

**`Redeal`** is an honest session of which any signer is started anew, with the
packages of a later deal of the same secret, between any two of its calls, and in
which `decide` gets the public keys of any deal. The names that `TaprootSpend` has, too,
are preceded by `Session` (`SessionSpec`), so that `MCKeyUses` can extend both.

**`Encoding`** has the layout of `wire.rs` and the encodings of `utils.rs`, over bytes
of `Base` values. How the curve library encodes a point or a scalar is a constant
(`PointRepr`, `ScalarRepr`), of which `CanonicalReprs` asks for one length and for
different bytes of different values; the tags, the two bytes of an identifier, and the
order and the concatenation of all of them are those of the code.

**`Wire`** sends a message, damages it or not, and decodes it, and has the byte
interface of `ed25519.rs`. A curve library may decode more bytes than it makes:
curve25519-dalek accepts a y that is not reduced, and the sign of an x that is zero.
`OtherReprs` are these strings with the points they are decoded as, and
`OtherReprsCondition` says that none of them is an encoding the library makes.
`Ed25519VerifyBytes` hashes the bytes it was given, as `ed25519.rs:137` does, whatever they
are decoded as; `Rfc8032` is that hash, and `ChallengeCondition` says that
`C::challenge`, which hashes what `compress` makes, is the same hash of those bytes.

**`HashInputs`** has signers that feed their hash functions, and a dealer or `decide`
that commits to pairwise keys (`/Hvk`); each digest is kept with its arguments and its
bytes. `HashableInputs` says that the packages, views, messages and keys are what their
Rust types allow.

`MCKeygen` and `MCKeyUses` each check two of these modules. Their
variable `part` says which one moves in a behaviour; the other stays in an initial
state. The two share no state, so that nothing is lost, and each property is the one
the module states.

Operators whose comment starts with "Wrong:" (for example `DeltaSwapped`) are
plausible mistakes in the code; none is used by a specification. Put in the place
of the operator next to which they stand, each makes a property fail, which shows
that the property depends on that line of the code (`mutants` in `PROJECT.json`).

## 4. What is checked

| Run | Instance | Properties | Shows |
|---|---|---|---|
| `OneFault.cfg` | plain, Q = 5, sessions of 2 or 3 of 3, threshold 2, signer 2 faulty and perhaps silent | `TypeOK`, `IInv`, `HonestNotNamed`, `LoneFaultNamesNoHonestSigner`, `AbortNamesFaulty`, `HonestPairsAgree`, `OpensOnlyTowardsFaulty`, `FaithfulSharesSign`, `AbortIsDecided`, `ImplementsAccountableSigning`, `FailuresAreAttributed` | one faulty signer is named, alone, always |
| `TwoFaults.cfg` | bip340, Q = 5, 3 of 3, signers 2 and 3 faulty, key and nonce negated | `HonestNotNamed`, `AbortNamesFaulty` | colluding signers neither frame the honest one nor go unnamed |
| `EverySecret.cfg` | bip340, Q = 5, threshold 3 of 3, every secret and polynomial | `TypeOK`, `CompleteSessionVerifies`, `ThresholdNeeded` | the threshold is `min_signers`, not one less |
| `MixedSessions.cfg` | plain, Q = 7, two packages, two messages, signer 1 commits twice | `CompleteSessionVerifies`, `ValidSignsOneSession` | stale commitments and mixed shares make no signature |
| `SigmaProof.cfg` | bip340, Q = 3, two signers of which the first proves (delta = -1), negated nonce; every secret and randomness of the code's prover; every commitment and answer of another prover, for the statements in which the key is committed to with a value of 1 and the blinding value with a randomness of 1 | `HonestProofsAccepted`, `TwoAnswersGiveWitness` | the code's prover is accepted by the code's verifier; two accepted answers give a witness |
| `Keygen.cfg` | bip340, Q = 5; two keygens, one generateaddress, one spenddemo, eight files found, 2, 10, 100 or 65535 signers, thresholds of 0, 2 and 10, one too large; loops for three signers, threshold 3, every secret and polynomial, identifiers up to 3 or 7, both builds | `TypeOK`, `WrittenKeyIsReadable`, `LostOnlyInWrite`, `ImplementsKeyStore`; `LoopsDeal`, `EveryDealEnds` | a written key reads back, is lost only in a write, and the file is a register of valid keys; the loops end and compute `GenerateWithDealer` |
| `KeyUses.cfg` | bip340, Q = 7; every secret and tweak, polynomials of degree one and two; a session of three with two deals | `TypeOK`, `SessionTypeOK`, `PrintedSpendsAddress`, `TwoSignersSpend`, `NegationNamesSigners`, `VerifiersAgree`; `OnlyOneDealSigns`, `NamesOtherDeals` | the demo spends exactly with keys of a threshold of two; shares of two deals do not sign, and the signers of the other deal are named |
| `HashedBytes.cfg` | bytes of 256 values, lengths of Ed25519; sessions of up to three signers with identifiers that look like parts of tags; commitments to their keys | `HashInputsSeparate` | hash inputs do not run into one another |
| `Encodings.cfg` | bytes of three values, points and scalars of two bytes, a second encoding of the identity; every string up to one byte too long | `DecodeInvertsEncode`, `Ed25519VerifiersAgree` | decoding is total and reads only encodings; the two verifiers differ on second encodings of R at most |
| `TamperedNonce.cfg` | plain, two signers, signer 2 changes R | `EveryAbortNamesFaulty` is **violated** | finding 1 |
| `SilentPeers.cfg` | plain, three signers, 2 and 3 faulty, may be silent | `NoHonestSignerNamed` is **violated** | finding 2 |
| `Bystander.cfg` | plain, two signers, signer 2 opens any key | `OnlySignersNamed` is **violated** | finding 3 |

### 4.1 Findings

1. **An abort nobody is named for.** A share with another `R` stops `aggregate`
   with `InconsistentAggregateNonce`; `verify_wellformed_proof` (`ia.rs:420`)
   hashes that `R` but compares it with nothing, and `decide` returns the empty
   set. `AbortNamesFaulty` is therefore stated for the other ways to fail, and
   `OneFault` has no such share (`ROffsets = {0}`). It also asks for one honest signer:
   signers that are all faulty can agree on shares of any `R`, and on proofs that fit.
2. **An honest signer named.** `ia2` gives up at the first missing message or
   commitment (`ia.rs:143-153`), and with it the openings about the other peers;
   `decide` takes that for a refusal to open (`ia.rs:277-290`). It takes two faulty
   signers, one silent and one with a wrong key, and the honest one is named with
   them. `HonestNotNamed` is therefore stated for signers whose `ia2` returned a
   decision, and `LoneFaultNamesNoHonestSigner` says that one faulty signer is not
   enough.
3. **A bystander named.** `decide` follows the openings to peers that are not in
   the package (`ia.rs:235`): a dealt key opened towards such a party names it.
   `OneFault` keeps openings within the session (`OutsideOpenings = FALSE`). Theorem
   `SignersNamed` shows that this is the only way to name a bystander; it and the
   refinement of `AccountableSigning` are the only theorems that need the restriction.

Three things that are as the code has them, and no findings:

* `write_key_yaml` accepts a threshold of zero, which `read_key_yaml` refuses, so that
  `keygen` may report success with a file nobody can deal from. `WrittenKeyIsReadable`
  says that, but for two keygens that write at a time, this is the only way.
* After a tweak that negates the shares the commitments to them no longer fit, so that
  `decide`, which the demo never calls, would name every signer
  (`NegationNamesSigners`).
* `wire.rs:3-5` and `wire.rs:53-54` say that encodings that are not canonical are
  rejected. For points that is left to the curve library, and that of Ed25519 decodes a
  few more. `DecodeInvertsEncode` makes room for them; `ed25519_verify_bytes` and
  `from_bytes` with `verify` may differ on them, as the assumption `VerifiersDiffer` of
  `MCWire` shows, and `Ed25519VerifiersAgree` says that they differ on nothing else.
  Which points have such encodings is a fact about the library, so no run claims that the
  repository's code is at odds with its comment.

### 4.2 Bounds, and why they are enough

* **Q.** A wrong value goes unnoticed by chance with a probability of about 1/Q, so
  a small field makes false positives, not false negatives: a property that says
  "this does not verify" may fail for a reason the program does not have. The hash
  functions of the MC modules are chosen so that the inputs that occur are kept
  apart, and `ThresholdNeeded` looks at every polynomial of full degree. Equalities
  that must hold, such as the cancelling of the blinding values, hold in every
  field.
* **Three parties.** Two honest signers and a faulty one, and one honest signer
  between two faulty ones, are the smallest cases of the pairwise checks, which
  never look at more than two signers at a time. Three parties have all positions
  a faulty signer can have relative to a peer (smaller, larger).
* **Wrong keys and offsets.** Any wrong key and any non-zero offset do the same:
  they break an equality. One of each is enough; zero is among the offsets, so
  that several deviations occur alone and together.
* **Two packages** (`MaxPackages`), as mixing shares needs two, and **two answers**
  (`MaxAnswers`), as extracting a witness does.
* **Texts.** What matters of two texts is which is longer, and by how much: by the
  final newline or more. Numbers of signers of 2, 10, 100 and 65535 have one, two,
  three and five digits, so that texts differ by one character, by two, and by more.
  `FixedLength`, the number of characters that are not digits, is 3 instead of over two
  hundred, which leaves few places to be torn at; they are told apart only by what they
  leave of the longer text. `MixedNumbers` has the numbers of signers and 200,
  a mixture of two of them. The two secrets are one that BIP-340 negates and one that
  it does not. Two writers are the fewest that overlap; the newlines of three texts
  left behind one another are seen by the theorems only, which hold for any number.
* **Identifiers.** `IdMaxs` has the number of signers, for which `i + 1` is past the
  last identifier, and one for which it is not; 65535 is only a larger number of the
  same kind.
* **Deals.** Two deals have every mixture. Their polynomials, keys and blinding
  values are chosen so that no mixture verifies by chance in a field of seven
  elements. The demo's polynomials have the last coefficient 0 or 4: two signers
  determine the key for the first, and for the second they do not.
* **Bytes.** `Base`, `PLen` and `SLen` of `Wire` are small so that all strings up to
  `MaxLen` are tried, for each kind of message; a point and a scalar leave some codes
  unused, as the real ones do. One string, `OtherRepr`, is a second encoding, of the
  identity, as with its sign bit set. `HashInputs` has the real lengths, of the suite in
  which points and scalars are equally long, so that the most fields may be taken for
  one another; its identifiers are chosen to look like parts of tags. Collisions
  are pairs, so two digests are looked at together (`MaxDigests`).
* `OddInstance` and `NonceIsNegated` are assumptions of the MC modules which TLC
  evaluates: the BIP-340 runs do negate the key and the nonce, and no signer's own
  nonce is zero, for which a missing negation would make no difference. So are
  `ChanceConditions` of `MCSigning`, `ChanceCondition` of `MCKeyUses`, and the
  assumptions of `MCWire` and `MCHashInputs`: what the theorems of section 5 have as
  hypotheses holds of the instances.

### 4.3 Fairness and deadlock

`IdentifiableAbort` assumes `WF_vars(Next)`: while there is a call to be made, the
driver makes one, as the loops of the tests do. No fairness is assumed of any
single faulty signer: with `MayOmit` the driver may move on without it, and the
number of steps of a session is bounded, so that the weak assumption is enough.
Deadlock is checked there: a session ends in `Terminated`. `Signing` and
`WellformedProof` are safety specifications of a library that does nothing until it
is called; they assume no fairness, and may stop (`CHECK_DEADLOCK FALSE`), and so
may `Wire`, after a message, and `HashInputs`, after `MaxDigests` digests.

`DealerLoops` is one function of a program that runs: weak fairness of its step
(`WF_allvars(LoopStep)` in `MCKeygen`) says no more than that. `KeyFile` assumes no
fairness, as a program may be interrupted for good anywhere. `KeyFile`,
`DealerLoops`, `TaprootSpend` and `Redeal` are checked for deadlock: their programs
stop only where `Terminated` says that all have ended.

## 5. What is proved

All theorems hold for all values of the constants, from the assumptions named in the
modules: `Q` is an odd prime (`QAssumption`, `InverseAssumption`, `OddOrder`) and
larger than the number of signers (`MaxSignersAssumption`), the hash functions return
scalars (`HsigAssumption`, `HashAssumption`), and the choices of dealer, signers and
faults are of the right types (`DealingsAssumption`, `SessionAssumption`,
`FaultAssumption`, `SigningAssumption`, `WellformedProofAssumption`,
`TaprootAssumption`, `LoopsAssumption`). TLC evaluates each of them on the instances.
Some theorems have a hypothesis beside these, stated with them and met by the
instances:

* about chance, as no hash function or dealer can promise it in a finite field:
  `OneShort` and `TwoSignersSuffice` need challenges that are not zero
  (`NoZeroChallenge`), `OneShort` also polynomials of full degree (`FullDegree`),
  `SessionsDoNotMix` different challenges of different messages (`MessagesKeptApart`),
  `OnlyOneDeal`, `OneOtherDealSpoils` and `NamedAreOtherDeals` different deals
  (`MixturesDiffer`, `DealsDiffer`);
* about the curve library and the types of what is hashed: the theorems of 5.9
  (`CanonicalReprs`, `OtherReprsCondition`, `ChallengeCondition`, `HashableInputs`);
* about the case: the refinement of `AccountableSigning` is about `LoneFaultSessions`,
  `SignersNamed` about openings towards signers, and `VerifiersOfBytesAgree` about the
  suites with the default hooks, of which Ed25519 is one.

### 5.1 The algebra

`ScalarField_proofs` and `FaFrost_proofs` have no specification of their own. They
hold the lemmas about the functions, which the other proofs cite:

* Sums and products are recursive functions over 1 to `MaxSigners`. They are shown to
  be well defined, and then additive, homogeneous, and independent of how a set is split
  (`SumPlus`, `SumTimes`, `SumSplit`, `ProductSplit`), by `InductionOnIdentifiers`.
* *Blinding values cancel.* `BlindingIsSumOfDeltas`: the blinding scalar, which `sign`
  adds up with `+=` and `-=`, is the sum of the values times `delta`.
  `AntisymmetricSum`: a sum over all pairs of what changes its sign when the pair is
  turned is zero. Together, `BlindingsCancel`.
* *Shares interpolate.* `LagrangeSplit` relates the coefficients of a set of signers to
  those of the set without one of them, so that values multiplied by the identifiers
  interpolate like those of one signer less (`LagrangeSumStep`); `MomentsStep` combines
  the sets without one signer and without another to raise the power by one.
  `MomentsOfSigners`: the coefficients sum to one, and interpolate each power from the first up
  to one below the number of signers to zero, but not the next. `Interpolation`:
  a polynomial of no more coefficients than signers gives its constant term; with one
  coefficient more the last one shows. `KeySumInterpolates` is that for the shares of a
  deal.
* *A session verifies.* `NoncesSumUp`: nonces and binding factors, each share's nonce
  negated or kept, add up to the normalised `R`. `SessionVerifies`: shares made of key
  terms that add up to the key, blinding values that add up to zero, and these nonces
  aggregate to a signature that `verify` accepts. It is stated for any blinding values
  that cancel, because the faulty signers of 5.3 choose theirs.
* *What `decide` makes of a signer that ran the code.* `SharePartOfSign`: the probe of
  one through `normalize_share_r` removes from `z` exactly the nonce that `sign` has
  added. `HonestProofAccepted`: hence the proof of an honest share is accepted.
  `NotNamedByAccuser`, `NotNamedByOwnOpening`: a key that hashes to the dealer's
  commitment is the dealt key, whose commitment the honest signer has sent; its own
  openings are valid. `NotNamedByPair`: a signer whose `ia2` returned a decision has
  sent its commitments and opened its key wherever they differ. And conversely
  `AcceptedShare`: a share whose proof is accepted is the key term of its signer plus
  the values committed to plus the nonce.

### 5.2 Signing

| Theorem | States |
|---|---|
| `Invariance` | `Spec => []IInv` |
| `TypeCorrect` | `Spec => []TypeOK` |
| `CompleteSessions` | `Spec => []CompleteSessionVerifies` |
| `OneShort` | `NoZeroChallenge` and `FullDegree` give `Spec => []ThresholdNeeded` |
| `SessionsDoNotMix` | `MessagesKeptApart` gives `Spec => []ValidSignsOneSession` |

The invariant has to survive that nonces are dropped: what made a share may be gone
when it is aggregated. `SharesSigned` says that *some* nonces behind the commitments
in its package made it, which is inductive because `sign` refuses a package that has
other commitments than the signer's own (the check of `sign.rs` against stale
commitments). `SignaturesCollected` says which shares a signature was made of; when
they are all of one package, `OneSession` makes them one session, to which
`SessionVerifies` applies. For `OneShort`, with one signer too few, the interpolation
misses the key by the last coefficient times a factor that is not zero.

`SessionsDoNotMix` is about a signature that is valid, whatever shares it was made of.
Each of them has the normalised nonce of its own package for `R` (`SharesNonces`), and
`aggregate` insists on one `R`; if packages have different nonces, the shares are
therefore of one package. When they are all the shares of enough signers, the signature
is `SessionVerifies`' own: it verifies for the message of the package, and, the
challenges being different and the key not zero, for no other (`OneMessage`).

### 5.3 The identifiable abort

| Theorem | States |
|---|---|
| `Invariance` | `Spec => []IInv` |
| `TypeCorrect` | `Spec => []TypeOK` |
| `Accuracy` | `Spec => []HonestNotNamed` |
| `LoneFaultAccuracy` | `Spec => []LoneFaultNamesNoHonestSigner` |
| `PairsAgree` | `Spec => []HonestPairsAgree` |
| `KeysStaySecret` | `Spec => []OpensOnlyTowardsFaulty` |
| `FaithfulShares` | `Spec => []FaithfulSharesSign` |
| `AbortAttributed` | `Spec => []AbortNamesFaulty` |
| `SignersNamed` | `~ OutsideOpenings` gives `Spec => []OnlySignersNamed` |
| `SessionImplementsAccountableSigning` | `LoneFaultSessions` gives `Spec => ImplementsAccountableSigning` |

Nothing is assumed about the number of faulty signers or about which keys they open,
but where the table says so.

*Accuracy.* `HonestNotNamed` is a property of the last step, whose proof needs to
know what an honest signer has put into the maps and, more than that, that it still
fits the maps `decide` is given: the view hashed in `ia1` must still be the map of
the shares, and the messages compared in `ia2` must still be the messages. That is
`IInv`: the parts `HonestShares`, `HonestMessages` and `HonestDecisions` say that
what an honest signer has sent is what the code computes from the maps as they are
now, and that it is there once the round has been closed. It is inductive because a
round is closed before the next is opened, so that the maps read in a round no
longer grow in it. With it, the lemmas of 5.1 on `decide` apply. For
`LoneFaultAccuracy`, `AgreesUnderLoneFault` shows that when the `ia2` of an honest
signer fails, the lone faulty signer is the one whose message or commitment is
missing, and the commitments of all others agree.

*Completeness.* `AbortAttributed` is proved backwards. Suppose `decide` has named no
faulty signer. Then every signer has published a share and a message with an accepted
proof, under its own name (`AllAnswered`, `OwnIdentifiers`), and has committed to a value
for every other, so that no honest `ia2` has failed (`AllCommitted`). Where the two
commitments of a pair differed, the pair would have been opened, and each of the two
commitments would be the one that the key of the other gives; but they hold the same
dealt key (`OpenedCommitment`, `CommitmentsAgree`). So the values committed to cancel
(`CommittedValuesCancel`), and by `AcceptedShare` every share is what `SessionVerifies`
asks for, whatever its signer has added and taken away elsewhere, but for `R`. An
honest signer has the right `R`; if another's differs, `aggregate` says so (finding 1),
and if none does the signature verifies.

*Refinement.* `SessionInv` adds that the signers are one of the driver's sets and, without
outside openings, that decisions open keys of signers only. `AggregateShares` maps
to `Conclude`: without faulty signers all shares are faithful, and `FaithfulShares`
gives "valid". `Adjudicate` maps to `Accuse`, or to no step when nobody is named. All
other steps change nothing there (`AccountableStep`). The liveness of
`AccountableSigning` is left to TLC (`FailuresAreAttributed`).

### 5.4 The well-formedness proof

| Theorem | States |
|---|---|
| `ProofInvariance` (lemma) | `Spec => []ProofInv` |
| `Completeness` | `Spec => []HonestProofsAccepted` |
| `SpecialSoundness` | `Spec => []TwoAnswersGiveWitness` |

`ProofInv` says what a prover that runs the code has at hand, and that all answers were
accepted. `CombineLinear`: what the verifier recomputes is linear in the response.
So for the code's prover the challenge cancels (`ResponseCancels`), and two responses to
one commitment differ by the witness times the difference of the challenges, which is
not zero and has an inverse (`Extraction`, `ExtractedWitness`). The witness extracted
is what `IaRounds` asks of a proof it accepts (`AcceptedInIaRounds`), which is why that
idealisation is right.

### 5.5 The Taproot demo

| Theorem | States |
|---|---|
| `Invariance` | `Spec => []SpendInv` |
| `TypeCorrect` | `Spec => []TypeOK` |
| `PrintsSpendable` | `Spec => []PrintedSpendsAddress` |
| `TwoSignersSuffice` | `NoZeroChallenge` gives `Spec => []TwoSignersSpend` |
| `BytesVerifyAsSignatures` | `Spec => []VerifiersAgree` |
| `NegationNames` | `Spec => []NegationNamesSigners` |

`SpendInv` has one part per stage of `main` (`Preparing`, `Committing`, `Signing`,
`Concluding`), each of which says what the variables hold there as a function of the
deal, the tweak and the nonces. `AssertionHolds` is the heart: with `s` = 1 or -1 for the
parity of the tweaked key, the negated shares interpolate to `s` times the dealt key
(`TweakedSum`), the coordinator adds the challenge times `s` times the tweak, and the sum
is the key of even y that the address stands for (`TweakedKey`); if the shares do not
interpolate to the key, the sum misses it. To apply 5.1, which is about dealt keys, to
shares that were negated and whose commitments no longer fit, the proof recommits
them: `Recommitted` are keys that some dealer returns (`RecommittedDealt`), with the same
group key, on which `sign` does the same (`SignOfKey`).

`NegationNames` uses the same keys the other way round: to the signers on
`Recommitted` the lemmas of 5.1 on `decide` apply, so that the pairs and the openings
name nobody, and the proofs, which are checked against the commitments as dealt, name
those whose share the negation has changed.

### 5.6 A session while the key is dealt again

| Theorem | States |
|---|---|
| `SessionInvariance` | `SessionSpec => []SessionInv` |
| `SessionTypeCorrect` | `SessionSpec => []SessionTypeOK` |
| `OneDealSigns` | shares of one deal sign, whichever it is |
| `OnlyOneDeal` | `MixturesDiffer` gives `SessionSpec => []OnlyOneDealSigns` |
| `OneOtherDealSpoils` | `DealsDiffer` gives: if all signers but one have used one deal, a valid signature is made by all with that deal |
| `StayersNotNamed` | a signer that has stayed with the deal of whoever decides is not named |
| `NamedAreOtherDeals` | `DealsDiffer` gives `SessionSpec => []NamesOtherDeals` |

`SessionInv` says of every map what the code computes from the packages of the deals the
signers had when they were called: `SharesInv`, `MessagesInv` and `DecisionsInv` for the
three rounds, `OutcomeInv` and `DecidedInv` for what was computed from them. What the
deal of a signer is by now does not matter, which is why the variables `signed`, `proved`
and `opened` are needed.

`OneDealSigns` and `StayersNotNamed` hold without exception: every deal is of the same
secret, so that 5.1 applies to each, and a stayer's messages fit the public keys that
`decide` has. The converses need that deals differ where it shows. `DealsDiffer` asks
it of single signers only, that no signer has the same share or the same commitments in
two deals, and is enough for `decide`, which looks at one signer or one pair at a time.
For the signature it is enough while one signer is different (`OneOtherDeal`): the sums
then differ in one term. Several different signers could make up for one another, and
`MixturesDiffer` says that they do not.

### 5.7 The dealer's loops

| Theorem | States |
|---|---|
| `Invariance` | `DealSpec => []LoopsInv` |
| `DealsAsSpecified` | `DealSpec => []LoopsDeal` |
| `PanicsAtLimit` | a deal panics only with as many signers as identifiers, and then returns nothing |

`MakingShares`: the shares before `i` are made, `y` is the sum of the terms before `n`,
`pow` the power reached. `MakingKeys`: a signer has keys for the peers it has met
(`Met`) in the rows before `i` and in row `i` before column `j`; a row that has ended
has met the same peers as the next row before it begins (`Rows`). When `i + 1` has
wrapped to zero, no further key is made, because there is no signer zero.

### 5.8 The key file

For any number of runs of each program, all keys, thresholds, lengths of text and files
found at the start, from `RunsAssumption` (no two runs are the same),
`ArgumentsAssumption` (thresholds are `u16`, secret keys are scalars), `FilesAssumption` (the file
found is no file or a text that parses; the values that stand for no file and for a
text that does not parse are no keys) and `OddOrder`.

| Theorem | States |
|---|---|
| `KeyFileInvariance` | `Spec => []KeyFileInv` |
| `KeyFileTypeCorrect` | `Spec => []TypeOK` |
| `KeyLostOnlyInWrite` | `Spec => []LostOnlyInWrite` |
| `WrittenKeyReadable` | `Spec => []WrittenKeyIsReadable` |
| `KeyFileImplementsKeyStore` | `Spec => ImplementsKeyStore` |

`WrittenKeyIsReadable` speaks of a `keygen` that has ended. To get there,
`KeyFileInv` says what every run has at each point. `KeysInHand`: what a run of
`keygen` holds in memory, from its first step on, is what `StoredKey` makes of some
key. `FileIsLast`: once the last writer has written, the file is what it holds, or more
than newlines of a longer text is left (`OverwritesLonger`). `LengthFits` is what makes
that inductive: the file is no longer than the text of some run that has come to write,
whole or torn, and `newlines` tells how far from its end something else begins. So if
what is left is more than newlines, some other run has the longer text, and the
exception can be said of the runs and not of the past. A file torn over another's text
may read as a mixture, which nobody has in hand; it is a key of the right type
(`TornFilesType`), and the torn run has not ended well, so that no claim of what it
has written is made. `NotDealtYet` makes the mapping to the register work: a program
deals once.

The rest is the normalisation: `NormalizeTwice` shows that a key that was normalised
is left alone when it is normalised again, which holds because the order of the group
is odd; hence `StoredKeyType` and `ReadableDeals`, that the key dealt from a text is
the key in the text. For the refinement, `StoreChanges` shows that any step which deals nothing
from the file is a change of the register or none, whatever `keygen` does in it, and
`StoreDeals` that `DealFromFile` deals what is in the register.

### 5.9 Bytes

| Theorem | States |
|---|---|
| `FromBytesInvertsToBytes` | `CanonicalReprs` and `OtherReprsCondition` give `Spec => []DecodeInvertsEncode` |
| `VerifiersOfBytesAgree` | these, `ChallengeCondition` and the default hooks give `Spec => []Ed25519VerifiersAgree` |
| `HashedBytesTellApart` | `CanonicalReprs` and `HashableInputs` give `HashSpec => []HashInputsSeparate` |

They hold for all lengths of points and scalars and all numbers of values of a byte, the
real ones included, for strings of all lengths, and for all sets of second encodings of
points, the empty one and that of Ed25519 included.

*Decoding.* What is received is a string of bytes, whatever has happened to it
(`WireInv`). A message has two or three fields of fixed lengths, so its bytes are cut in
exactly one way (`CutInThree` and what it is made of), each slice has at most one value
(`DecodeField`: `CanonicalReprs` and `OtherReprsCondition` for points and scalars,
uniqueness of digits for identifiers, `DigitsUnique`), and the slice is an encoding of what was
read. `EncodingsOfFields` puts the fields together: the bytes are one of the
`Encodings` of a message exactly if each slice is one of those of its field
(`SourcesAreReadings`, `FieldsDecoded`). Only a string of the right length comes to the
slices, so that none reaches past the end.

*Two verifiers.* `BytesVerified`: bytes of which R is not a second encoding are what
`signature_to_bytes` makes of the signature they are decoded as (`ReadBack`), so
that both verifiers hash the same. `SignatureBytes`: what `signature_to_bytes` makes has no
second encoding in it, so that this holds of any signature that was read, however it
was encoded.

*Hashing.* `HashInv`: during a call the common part of the blinding values is
`BlindingBase` of the package, however often it was used, and every digest is of one of
five forms. `FlattenSeq` is unfolded to the function it is defined by, which shows by
induction on the number of blocks that blocks of one length are determined by what they
make up (`BlocksDetermined`); identifiers in order are determined by their set
(`InOrderEnumerates`, `SameIdentifiers`). Hence `CommitmentsDetermined` and
`SharesDetermined`, for as many signers. How many there are is not in the bytes, but
their total length tells it, as every signer makes a string longer by the same
(`SameSigners`, `SameMultiple`); with that, all fields have known lengths and the string
can be cut (`FiveDetermined`, `FourDetermined`, `SplitThree`). The purposes are told by
the third byte of the tag, and `/Hs` and `/Hsig` by the length, as a blinding value
hashes at least one signer's commitments (`KindsApart`). For randomizers of
different sets of signers the argument does not go through, since commitments and shares
are of unknown number each: that is the exception `OtherSigners`.

## 6. What is only model-checked

* `AbortIsDecided`, `FailuresAreAttributed` and `EveryDealEnds`: liveness under
  fairness is out of reach of the prover. `PanicsAtLimit` is the safety half of the
  last.
* `HashInv` and the other inductive invariants but `IInv` of `IdentifiableAbort` are not
  invariants of a run; they are proved, and the properties they were made for are
  checked as well as proved.

Every invariant that a run checks is stated by a theorem, and so is every action
property and the safety part of both refinements. What is left to chance is in the
hypotheses named at the beginning of section 5: with a challenge of zero, for example,
which a hash function returns with negligible probability, any share would do. The runs
check the properties on instances on which the hypotheses hold.

What was not provable as a recursive operator or as an induction over strings is
written so that it is: sums, products and `Start` of `Wire` are recursive functions, and
`FlattenSeq` is reduced to the recursive function in its definition
(`FlattenedExists`, `FlattenSeqIs`).

## 7. What is not modelled

* The hash functions themselves, and the decoding of points in `k256` and
  `curve25519-dalek`: which points have a second encoding is a parameter of `Wire`
  (`OtherReprs`). Verifying keys with one, which `ed25519_verify_bytes` would hash as
  they are. Points of edwards25519 outside the subgroup of prime order, where the
  equation of `verify` has other solutions: the models represent points by logarithms.
* The search for the Pedersen generators (`ed25519.rs`, `secp256k1.rs`): a fixed
  computation whose result has no known logarithm.
* Parsing of arguments, the building of the transaction and its sighash, printing, the
  wording of errors, zeroizing, timing, benchmarks and vectors. The demo needs
  signers 1 and 2: for a key of one signer `sign` returns `MissingPairwiseKey`, which
  `TaprootAssumption` leaves out.
* A faulty signer that commits to a blinding value for itself: the messages of the
  model have commitments about other signers of the session only.
* Views that differ in their set of signers: `ia_view_bytes` does not say where the
  commitments end and the shares begin. `HashInputsSeparate` makes an exception of
  them (`OtherSigners`); a signer hashes one package with one map in a session.
* Anything that writes the key file but `keygen`, and a file system that loses what
  was written. The YAML of the key file is modelled by where texts of different lengths
  overlap: the newlines inside a text lie further back from its end than two texts differ
  in length, so that a text written over another never ends at one of them. What is
  left out is a hexadecimal that reads as a number, which YAML has to quote.
* A nonce sum or a secret key of zero: `x_only_bytes` panics for the identity under
  BIP-340 (`SignResult` returns "Panic", and no share is made). `TaprootSpend` has
  these panics, and `TwoSignersSpend` says that there are no others; `Init` of
  `IdentifiableAbort` leaves them out.
* A driver that hands different maps to different signers, or calls `decide` before
  the honest signers have answered: the code requires broadcast, and the tests give
  every signer the same maps.
* Faulty signers that break the group or the hash functions, or find a proof
  without a witness: what `TwoAnswersGiveWitness` shows is that they could answer
  one challenge at most.
