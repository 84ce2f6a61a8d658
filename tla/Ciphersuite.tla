----------------------------- MODULE Ciphersuite -----------------------------
(***************************************************************************)
(* The hooks in which the ciphersuites differ, and the hash functions, of  *)
(* src/src/ciphersuite/.  Secp256k1Plain and Ed25519 keep every default    *)
(* hook ("plain"); Secp256k1Bip340 ("bip340") works with public keys and   *)
(* aggregate nonces of even y.                                             *)
(***************************************************************************)
EXTENDS ScalarField

CONSTANTS
    Suite,          \* "plain" or "bip340"
    Messages,       \* the 32-byte messages
    PairwiseKeys,   \* the 32-byte pairwise keys
    Hsig(_, _, _),  \* the scalar hashed from a key, a nonce and a message
    Hnon(_, _),     \* the binding factor hashed from a key and a package
    Hs(_, _)        \* the blinding value hashed from a pairwise key and a package

ASSUME SuiteAssumption == Suite \in {"plain", "bip340"}

\* The order of secp256k1 and of edwards25519 is odd.
ASSUME OddOrder == Q % 2 = 1

ASSUME HsigAssumption ==
    \A vk \in Scalar, R \in Scalar, m \in Messages : Hsig(vk, R, m) \in Scalar

\* No challenge is zero, which a hash is as seldom as any other scalar.
NoZeroChallenge ==
    \A vk \in Scalar, R \in Scalar, m \in Messages : Hsig(vk, R, m) # 0

-----------------------------------------------------------------------------

\* bip340::has_odd_y.  P and -P share their x; of the two exactly one has an
\* odd y, unless P is the identity, whose encoding is not the odd one.
HasOddY(P) == P % 2 = 1

\* bip340::x_only_bytes: the point of even y stands for the x coordinate.
XOnly(P) == IF HasOddY(P) THEN Neg(P) ELSE P

\* x_only_bytes slices 32 bytes out of an encoding which, for the identity,
\* is one byte long.
ChallengePanics(vk, R) == Suite = "bip340" /\ (vk = 0 \/ R = 0)

\* Wrong: the message is not hashed.
ChallengeWithoutMessage(vk, R, msg) == Hsig(vk, R, CHOOSE m \in Messages : TRUE)

Challenge(vk, R, msg) ==
    IF Suite = "bip340" THEN Hsig(XOnly(vk), XOnly(R), msg) ELSE Hsig(vk, R, msg)

NormalizeKeygen(sk, vk) ==
    IF Suite = "bip340" /\ HasOddY(vk)
    THEN [sk |-> Neg(sk), vk |-> Neg(vk)]
    ELSE [sk |-> sk, vk |-> vk]

\* Wrong: R is negated and the nonce is not.
NormalizeROnly(R, nonce) ==
    [R |-> IF Suite = "bip340" /\ HasOddY(R) THEN Neg(R) ELSE R, nonce |-> nonce]

NormalizeShareR(R, nonce) ==
    IF Suite = "bip340" /\ HasOddY(R)
    THEN [R |-> Neg(R), nonce |-> Neg(nonce)]
    ELSE [R |-> R, nonce |-> nonce]

AcceptR(R) == Suite = "bip340" => ~ HasOddY(R)

\* Pedersen commitment value*G + blinding*H: nobody knows the discrete
\* logarithm of H to the base G, so it commits to both of its components.
PedersenCommit(value, blinding) == [value |-> value, blinding |-> blinding]

\* hash_commitment under the tag /Hvk, collision free.
HashPairwiseKeyCommitment(k) == [Hvk |-> k]

\* hash_to_scalar under the tag /HIA, collision free: the randomizer only ever
\* blinds a Pedersen commitment.
BlindingRandomizer(k, view) == <<k, view>>
=============================================================================
