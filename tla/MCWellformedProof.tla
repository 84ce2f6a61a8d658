-------------------------- MODULE MCWellformedProof --------------------------
(***************************************************************************)
(* A small instance of WellformedProof, over the field of three elements:  *)
(* the prover of the code with all secrets and all randomness, and any     *)
(* other with every commitment and answer, for the statements in which the *)
(* key committed to is 1 and C_ij is blinded with 1.  The prover is signer *)
(* 1 (SigmaProof.cfg), whose blinding values count with the sign -1.       *)
(***************************************************************************)
EXTENDS WellformedProof

MCMessages == {1}
MCPairwiseKeys == Pairs

MCHsig(vk, R, m) == 1 + (R % (Q - 1))
MCHnon(vk, p) == 1
MCHs(k, p) == 1

\* With this package the aggregate nonce is odd: BIP-340 negates it.
MCPackage ==
    [message |-> 1,
     signing_commitments |->
        [i \in Identifier |-> [D |-> IF i = 1 THEN 1 ELSE 2, E |-> (i + 1) % 2]]]

ASSUME NonceIsNegated ==
    HasOddY(AggregateNonce(MCPackage, [verifying_key |-> VerifyingKey]))

Points(values, blindings) == [value : values, blinding : blindings]

\* Of the statements of other provers these fields are left at 1, which keeps
\* the run short.
MCStatements ==
    [z : Scalar, vk : Points({1}, Scalar), C : [Others -> Points(Scalar, {1})]]

MCCommitments ==
    [t_sig : Scalar, t_key : Points(Scalar, Scalar),
     t_blind : [Others -> Points(Scalar, Scalar)]]

MCResponses ==
    [z_sk : Scalar, z_sk_blinding : Scalar,
     z_blind : [Others -> Scalar], z_blind_blinding : [Others -> Scalar]]
=============================================================================
