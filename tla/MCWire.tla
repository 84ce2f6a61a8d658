-------------------------------- MODULE MCWire --------------------------------
(***************************************************************************)
(* A small instance of Wire, with bytes of three values and points and     *)
(* scalars of two bytes, so that every string of them can be looked at.    *)
(***************************************************************************)
EXTENDS Wire

MCHnon(vk, p) == 0
MCHs(k, p) == 0

\* The identity is encoded as zeros, the other points by an x and a sign.
PointReprs == [P \in Scalar |-> IF P = 0 THEN <<0, 0>> ELSE <<(2 + P) \div 3, (2 + P) % 3>>]

ScalarReprs == [z \in Scalar |-> <<z \div 3, z % 3>>]

\* The identity has a second encoding, with the sign that its x of zero has not.
OtherRepr == [b \in {<<0, 1>>} |-> 0]

\* A hash of the bytes; the challenge is that of the encodings of R and vk.
MCRfc8032(r_enc, a_enc, m) ==
    LET number(b) == b[1] * 3 + b[2]
    IN  1 + ((2 * number(a_enc) + 3 * number(r_enc) + m) % (Q - 1))

MCHsig(vk, R, m) == MCRfc8032(PointReprs[R], PointReprs[vk], m)

\* What is assumed of the curve library holds of them.
ASSUME LibraryCondition == CanonicalReprs /\ OtherReprsCondition /\ ChallengeCondition

\* For the second encoding of the identity the two verifiers of Ed25519 differ.
ASSUME VerifiersDiffer ==
    \E vk, z \in Scalar, m \in Messages :
        /\ Verify([R |-> 0, z |-> z], m, [verifying_key |-> vk])
        /\ ~ Ed25519VerifyBytes(<<0, 1>> \o scalar_bytes(z), m, point_bytes(vk))
=============================================================================
