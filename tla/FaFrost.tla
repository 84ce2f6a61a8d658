------------------------------- MODULE FaFrost -------------------------------
(***************************************************************************)
(* The functions of the signing stack: the dealer (src/src/keygen.rs), the *)
(* helpers (utils.rs), the two signing rounds and the aggregation          *)
(* (sign.rs), the verification (verify.rs).  Each is a pure function of    *)
(* its arguments; the dealer's and the signers' random choices are         *)
(* arguments here.  The modules that EXTEND this one call them.            *)
(***************************************************************************)
EXTENDS Ciphersuite, FiniteSets

CONSTANT MinSigners    \* min_signers, the threshold

\* assert!(min_signers <= max_signers)
ASSUME MinSignersAssumption == MinSigners \in 0..MaxSigners

-----------------------------------------------------------------------------
(* Types.                                                                  *)

SigningCommitments == [D : Scalar, E : Scalar]

SigningPackages ==
    [message : Messages,
     signing_commitments :
         UNION {[S -> SigningCommitments] : S \in SUBSET Identifier}]

SignatureShares == [identifier : Identifier, R : Scalar, z : Scalar]

\* The sets of two signers, one pairwise key each.
Pairs == {{i, j} : i, j \in Identifier} \ {{i} : i \in Identifier}

\* Wrong: one random coefficient too few.
NumCoeffsOneShort == IF MinSigners <= 1 THEN 1 ELSE MinSigners - 1

\* `coeffs` is the secret key, then one random scalar `for _ in 1..min_signers`.
NumCoeffs == IF MinSigners = 0 THEN 1 ELSE MinSigners

\* What the dealer draws.
Randomness ==
    [coeffs : [2..NumCoeffs -> Scalar],
     omega  : [Identifier -> Scalar],
     k      : [Pairs -> PairwiseKeys]]

ASSUME HashAssumption ==
    \A p \in SigningPackages :
        /\ \A vk \in Scalar : Hnon(vk, p) \in Scalar
        /\ \A k \in PairwiseKeys : Hs(k, p) \in Scalar

-----------------------------------------------------------------------------
(* keygen.rs                                                               *)

\* The Shamir polynomial at x, the constant term first.
Evaluate(coeffs, x) ==
    Sum([n \in DOMAIN coeffs |-> Mul(coeffs[n], Power(x, n - 1))])

\* k_ij, the same key for i and for j.
PairKey(random, i, j) == random.k[{i, j}]

KeyPackage(id, y, random) ==
    [identifier             |-> id,
     signing_share          |-> y,
     signing_share_blinding |-> random.omega[id],
     pairwise_keys          |-> [j \in Identifier \ {id} |-> PairKey(random, id, j)]]

PartialVerificationKey(id, y, random) ==
    [signing_share_commitment |-> PedersenCommit(y, random.omega[id]),
     pairwise_key_commitments |->
         [j \in Identifier \ {id} |-> HashPairwiseKeyCommitment(PairKey(random, id, j))]]

GenerateWithDealer(secret_key, random) ==
    LET key    == NormalizeKeygen(secret_key, secret_key)
        coeffs == [n \in 1..NumCoeffs |->
                      IF n = 1 THEN key.sk ELSE random.coeffs[n]]
    IN  [shares  |-> [id \in Identifier |->
                         KeyPackage(id, Evaluate(coeffs, id), random)],
         pubkeys |-> [verifying_key |-> key.vk,
                      partial_verification_keys |->
                          [id \in Identifier |->
                              PartialVerificationKey(id, Evaluate(coeffs, id), random)]]]

-----------------------------------------------------------------------------
(* utils.rs, and what sign and the identifiable abort both derive.         *)

Ids(package) == DOMAIN package.signing_commitments

\* Wrong: the differences are taken the other way round.
LagrangeSwapped(i, S) ==
    LET num == Product([j \in S \ {i} |-> j])
        den == Product([j \in S \ {i} |-> Sub(i, j)])
    IN  Mul(num, Inv(den))

Lagrange(i, S) ==
    LET num == Product([j \in S \ {i} |-> j])
        den == Product([j \in S \ {i} |-> Sub(j, i)])
    IN  Mul(num, Inv(den))

\* Wrong: the sign is not the one `sign` uses.
DeltaSwapped(i, j) == IF i < j THEN 1 ELSE Neg(1)

Delta(i, j) == IF i > j THEN 1 ELSE Neg(1)

NonceChallenge(package, pubkeys) == Hnon(pubkeys.verifying_key, package)

\* The aggregate nonce before normalisation, D + b*E.
AggregateNonce(package, pubkeys) ==
    LET comm == package.signing_commitments
        D    == Sum([j \in Ids(package) |-> comm[j].D])
        E    == Sum([j \in Ids(package) |-> comm[j].E])
    IN  Add(D, Mul(E, NonceChallenge(package, pubkeys)))

SigChallenge(package, pubkeys) ==
    Challenge(pubkeys.verifying_key, AggregateNonce(package, pubkeys), package.message)

-----------------------------------------------------------------------------
(* sign.rs                                                                 *)

\* The published commitments are the nonces times G.
Commitment(nonces) == [D |-> nonces.d, E |-> nonces.e]

\* A signer adds the values it shares with smaller identifiers and subtracts
\* those it shares with larger ones.
BlindingScalar(package, key_package) ==
    LET i == key_package.identifier
    IN  Sum([j \in Ids(package) \ {i} |->
                IF i > j THEN Hs(key_package.pairwise_keys[j], package)
                         ELSE Neg(Hs(key_package.pairwise_keys[j], package))])

\* Wrong: the nonces are not compared with the commitments in the package.
SignResultUnchecked(package, nonces, key_package, pubkeys) ==
    LET i == key_package.identifier
    IN  IF i \notin Ids(package) THEN "UnknownSigner"
        ELSE IF Ids(package) \ {i} \subseteq DOMAIN key_package.pairwise_keys
            THEN "Ok" ELSE "MissingPairwiseKey"

\* How `sign` ends: its early returns in their order, or "Ok".
SignResult(package, nonces, key_package, pubkeys) ==
    LET i == key_package.identifier
    IN  IF i \notin Ids(package) THEN "UnknownSigner"
        ELSE IF package.signing_commitments[i] # Commitment(nonces)
            THEN "NonceCommitmentMismatch"
        ELSE IF ChallengePanics(pubkeys.verifying_key, AggregateNonce(package, pubkeys))
            THEN "Panic"
        ELSE IF Ids(package) \ {i} \subseteq DOMAIN key_package.pairwise_keys
            THEN "Ok" ELSE "MissingPairwiseKey"

\* Wrong: the share carries the position of the signer in the list of the
\* signers instead of its identifier.
SignByPosition(package, nonces, key_package, pubkeys) ==
    LET i     == key_package.identifier
        norm  == NormalizeShareR(AggregateNonce(package, pubkeys),
                     Add(nonces.d, Mul(NonceChallenge(package, pubkeys), nonces.e)))
        share == Mul(Mul(SigChallenge(package, pubkeys), Lagrange(i, Ids(package))),
                     key_package.signing_share)
    IN  [identifier |-> Cardinality({j \in Ids(package) : j < i}), R |-> norm.R,
         z |-> Add(Add(share, BlindingScalar(package, key_package)), norm.nonce)]

\* The share `sign` returns when it ends with "Ok".
Sign(package, nonces, key_package, pubkeys) ==
    LET i      == key_package.identifier
        b      == NonceChallenge(package, pubkeys)
        c      == SigChallenge(package, pubkeys)
        nonce  == Add(nonces.d, Mul(b, nonces.e))
        z_rest == Add(Mul(Mul(c, Lagrange(i, Ids(package))), key_package.signing_share),
                      BlindingScalar(package, key_package))
        norm   == NormalizeShareR(AggregateNonce(package, pubkeys), nonce)
    IN  [identifier |-> i, R |-> norm.R, z |-> Add(z_rest, norm.nonce)]

\* How `aggregate` ends.  Only the number of shares is compared with the
\* package, not whose shares they are.
AggregateResult(package, shares) ==
    IF Cardinality(Ids(package)) # Cardinality(DOMAIN shares)
        THEN "ShareCountMismatch"
    ELSE IF \E i, j \in DOMAIN shares : shares[i].R # shares[j].R
        THEN "InconsistentAggregateNonce"
    ELSE IF DOMAIN shares = {} THEN "NoSignatureShares" ELSE "Ok"

\* The signature `aggregate` returns when it ends with "Ok".
Aggregate(shares) ==
    [R |-> CHOOSE R \in {shares[i].R : i \in DOMAIN shares} : TRUE,
     z |-> Sum([i \in DOMAIN shares |-> shares[i].z])]

-----------------------------------------------------------------------------
(* verify.rs                                                               *)

Verify(signature, message, pubkeys) ==
    /\ AcceptR(signature.R)
    /\ LET c == Challenge(pubkeys.verifying_key, signature.R, message)
       IN  signature.z = Add(signature.R, Mul(pubkeys.verifying_key, c))
=============================================================================
