--------------------------- MODULE WellformedProof ---------------------------
(***************************************************************************)
(* The sigma protocol of src/src/ia.rs, of which module IaRounds keeps the *)
(* outcome only: the prover commits to randomness, is given the challenge  *)
(* hashed from the transcript, and responds.  Here a prover, the code's or *)
(* any other, responds to up to MaxAnswers challenges after one commitment:*)
(* two responses that are accepted determine a witness, so that a prover   *)
(* without one can respond to a single challenge at most.                  *)
(*                                                                         *)
(* A point G*x + H*y is the record of its two components (PedersenCommit), *)
(* since nobody knows the discrete logarithm of H; a multiple of G alone   *)
(* is the scalar x.                                                        *)
(***************************************************************************)
EXTENDS IaRounds

CONSTANTS
    Package,        \* the signing package of the session
    VerifyingKey,   \* the group key
    Prover,         \* the signer whose share is proved well formed
    Witnesses,      \* the secrets of a prover that runs the code
    Coins,          \* the randomness it draws
    Statements,     \* what any other prover may claim
    Commitments,    \* the [t_sig, t_key, t_blind] it may send
    Responses,      \* the responses it may give
    MaxAnswers      \* bound: the challenges responded to

Others == Ids(Package) \ {Prover}

\* The signing share, the blinding values, and what blinds each of them.
Secrets == [sk : Scalar, sk_blinding : Scalar,
            blind : [Others -> Scalar], blind_blinding : [Others -> Scalar]]

\* A Pedersen commitment, what is proved about, and the responses.
Point == [value : Scalar, blinding : Scalar]
Claims == [z : Scalar, vk : Point, C : [Others -> Point]]
ResponseTypes == [z_sk : Scalar, z_sk_blinding : Scalar,
                  z_blind : [Others -> Scalar], z_blind_blinding : [Others -> Scalar]]

ASSUME WellformedProofAssumption ==
    /\ Package \in SigningPackages
    /\ Prover \in Ids(Package)
    /\ VerifyingKey \in Scalar
    /\ Witnesses \subseteq Secrets /\ Coins \subseteq Secrets
    /\ Statements \subseteq Claims /\ Responses \subseteq ResponseTypes
    /\ MaxAnswers \in Nat

VARIABLES
    runs_code,    \* whether the prover runs the code
    witness,      \* the secrets of such a prover
    coins,        \* its randomness
    statement,    \* the share's z, its key's commitment and its C_ij
    commitment,   \* t_sig, t_key and t_blind
    answers       \* the responses, by the challenge they answer

vars == <<runs_code, witness, coins, statement, commitment, answers>>

-----------------------------------------------------------------------------

\* The sum of two points and the multiple of a point.
Plus(P1, P2) ==
    [value |-> Add(P1.value, P2.value), blinding |-> Add(P1.blinding, P2.blinding)]
Times(P, x) == [value |-> Mul(P.value, x), blinding |-> Mul(P.blinding, x)]

\* The share and the keys the statement is about.
Share == [identifier |-> Prover, R |-> 0, z |-> statement.z]

Pubkeys ==
    [verifying_key |-> VerifyingKey,
     partial_verification_keys |->
        [i \in {Prover} |-> [signing_share_commitment |-> statement.vk]]]

\* lambda_i*c*key + the sum of the delta_ij*blind_j: what a share adds to its
\* nonce, and what t_sig commits to.
Combine(key, blind) ==
    Add(Mul(Mul(SigChallenge(Package, [verifying_key |-> VerifyingKey]),
                Lagrange(Prover, Ids(Package))), key),
        Sum([j \in Others |-> Mul(blind[j], Delta(Prover, j))]))

\* What `sign`, the dealer and ia1 make of the secrets.
StatementOf(w) ==
    LET pubkeys == [verifying_key |-> VerifyingKey]
        comm    == Package.signing_commitments[Prover]
        nonce   == Add(comm.D, Mul(NonceChallenge(Package, pubkeys), comm.E))
    IN  [z  |-> Add(NormalizeShareR(AggregateNonce(Package, pubkeys), nonce).nonce,
                    Combine(w.sk, w.blind)),
         vk |-> PedersenCommit(w.sk, w.sk_blinding),
         C  |-> [j \in Others |-> PedersenCommit(w.blind[j], w.blind_blinding[j])]]

\* Wrong: the randomness of the blinding values is added without its sign.
CommitToUnsigned(r) ==
    [t_sig   |-> Add(Combine(r.sk, [j \in Others |-> 0]), Sum(r.blind)),
     t_key   |-> PedersenCommit(r.sk, r.sk_blinding),
     t_blind |-> [j \in Others |-> PedersenCommit(r.blind[j], r.blind_blinding[j])]]

\* prove_wellformed up to the challenge.
CommitTo(r) ==
    [t_sig   |-> Combine(r.sk, r.blind),
     t_key   |-> PedersenCommit(r.sk, r.sk_blinding),
     t_blind |-> [j \in Others |-> PedersenCommit(r.blind[j], r.blind_blinding[j])]]

\* ... and after it.
Respond(challenge, w, r) ==
    [z_sk             |-> Add(r.sk, Mul(challenge, w.sk)),
     z_sk_blinding    |-> Add(r.sk_blinding, Mul(challenge, w.sk_blinding)),
     z_blind          |-> [j \in Others |-> Add(r.blind[j], Mul(challenge, w.blind[j]))],
     z_blind_blinding |->
        [j \in Others |-> Add(r.blind_blinding[j], Mul(challenge, w.blind_blinding[j]))]]

\* Wrong: the equation of the signing share is not checked.
AcceptsAnyKey(challenge, z) ==
    /\ commitment.t_sig =
           Add(Combine(z.z_sk, z.z_blind),
               Mul(SharePart(Package, Share, Pubkeys), Neg(challenge)))
    /\ \A j \in Others :
           commitment.t_blind[j] =
               Plus(PedersenCommit(z.z_blind[j], z.z_blind_blinding[j]),
                    Times(statement.C[j], Neg(challenge)))

\* The equations of verify_wellformed_proof.
Accepts(challenge, z) ==
    /\ commitment.t_sig =
           Add(Combine(z.z_sk, z.z_blind),
               Mul(SharePart(Package, Share, Pubkeys), Neg(challenge)))
    /\ commitment.t_key =
           Plus(PedersenCommit(z.z_sk, z.z_sk_blinding), Times(statement.vk, Neg(challenge)))
    /\ \A j \in Others :
           commitment.t_blind[j] =
               Plus(PedersenCommit(z.z_blind[j], z.z_blind_blinding[j]),
                    Times(statement.C[j], Neg(challenge)))

-----------------------------------------------------------------------------

\* A prover that runs the code.
InitRunsCode ==
    /\ runs_code = TRUE
    /\ witness \in Witnesses
    /\ coins \in Coins
    /\ statement = StatementOf(witness)
    /\ commitment = CommitTo(coins)

\* Any other prover: it may know no witness.
InitOther ==
    /\ runs_code = FALSE
    /\ witness = EmptyMap
    /\ coins = EmptyMap
    /\ statement \in Statements
    /\ commitment \in Commitments

Init == (InitRunsCode \/ InitOther) /\ answers = EmptyMap

Unanswered == IF Cardinality(DOMAIN answers) < MaxAnswers
              THEN Scalar \ DOMAIN answers ELSE {}

\* The code responds to the challenge from its witness and its randomness.
Answer(challenge) ==
    /\ challenge \in Unanswered
    /\ runs_code
    /\ answers' = Insert(answers, challenge, Respond(challenge, witness, coins))
    /\ UNCHANGED <<runs_code, witness, coins, statement, commitment>>

\* Any other prover finds a response that is accepted.
AnswerOther(challenge) ==
    /\ challenge \in Unanswered
    /\ ~ runs_code
    /\ \E z \in Responses : Accepts(challenge, z) /\ answers' = Insert(answers, challenge, z)
    /\ UNCHANGED <<runs_code, witness, coins, statement, commitment>>

Next == \E challenge \in Scalar : Answer(challenge) \/ AnswerOther(challenge)

Spec == Init /\ [][Next]_vars

-----------------------------------------------------------------------------
(* Properties.                                                             *)

\* What IaRounds takes for a proof with these secrets is accepted by what it
\* takes for verify_wellformed_proof.
AcceptedInIaRounds(x) ==
    VerifyWellformedProof(
        Package, Share,
        [identifier           |-> Prover,
         blinding_commitments |-> statement.C,
         proof |-> [transcript       |-> ProofTranscript(Package, Share, Pubkeys, statement.C),
                    z_sk             |-> x.sk,
                    z_sk_blinding    |-> x.sk_blinding,
                    z_blind          |-> x.blind,
                    z_blind_blinding |-> x.blind_blinding]],
        Pubkeys)

\* Dividing the difference of two responses by that of their challenges.
Extract(c1, c2) ==
    LET quotient(z1, z2) == Mul(Sub(z1, z2), Inv(Sub(c1, c2)))
        a1 == answers[c1]
        a2 == answers[c2]
    IN  [sk             |-> quotient(a1.z_sk, a2.z_sk),
         sk_blinding    |-> quotient(a1.z_sk_blinding, a2.z_sk_blinding),
         blind          |-> [j \in Others |-> quotient(a1.z_blind[j], a2.z_blind[j])],
         blind_blinding |->
            [j \in Others |-> quotient(a1.z_blind_blinding[j], a2.z_blind_blinding[j])]]

\* Completeness: the response prove_wellformed computes is accepted by
\* verify_wellformed_proof, and so is the idealised proof, for every share
\* that `sign` returns, with a negated nonce or not.
HonestProofsAccepted ==
    runs_code =>
        /\ \A challenge \in DOMAIN answers : Accepts(challenge, answers[challenge])
        /\ AcceptedInIaRounds(witness)

\* Special soundness: two accepted responses to one commitment give secrets
\* for which the idealised proof is accepted: the share is the signing share
\* committed to by the dealer and blinding values committed to in the C_ij.
TwoAnswersGiveWitness ==
    \A c1, c2 \in DOMAIN answers : c1 # c2 => AcceptedInIaRounds(Extract(c1, c2))
=============================================================================
