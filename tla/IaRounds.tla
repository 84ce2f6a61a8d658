------------------------------- MODULE IaRounds -------------------------------
(***************************************************************************)
(* The functions of src/src/ia.rs: the two rounds of the identifiable      *)
(* abort, ia1 and ia2, the well-formedness proof a first-round message     *)
(* carries, and decide, which names the malicious signers.                 *)
(*                                                                         *)
(* The sigma protocol is idealised to what it proves.  A proof carries the *)
(* transcript its challenge was hashed from and the witness its responses  *)
(* answer for; it is accepted when the transcript is the one the verifier  *)
(* rebuilds and the witness satisfies the verification equations.  Module  *)
(* WellformedProof has the protocol itself and shows the two agree.        *)
(***************************************************************************)
EXTENDS FaFrost

-----------------------------------------------------------------------------
(* ia1                                                                     *)

\* ia_view_bytes: the commitments of the package and the shares seen.  The
\* map's keys are hashed, the identifiers inside the shares are not.
IaView(package, shares) ==
    [commitments |-> package.signing_commitments,
     shares      |-> [id \in DOMAIN shares |-> <<shares[id].R, shares[id].z>>]]

\* C_ij for the pairwise key k.
BlindingCommitment(package, shares, k) ==
    PedersenCommit(Hs(k, package), BlindingRandomizer(k, IaView(package, shares)))

\* proof_challenge hashes these, the sigma commitments apart.
ProofTranscript(package, share, pubkeys, blinding_commitments) ==
    [signer               |-> share.identifier,
     b                    |-> NonceChallenge(package, pubkeys),
     c                    |-> SigChallenge(package, pubkeys),
     z                    |-> share.z,
     R                    |-> share.R,
     package              |-> package,
     blinding_commitments |-> blinding_commitments]

ProveWellformed(package, share, key_package, pubkeys, shares, blinding_commitments) ==
    LET others == Ids(package) \ {key_package.identifier}
        k(j)   == key_package.pairwise_keys[j]
    IN  [transcript       |-> ProofTranscript(package, share, pubkeys, blinding_commitments),
         z_sk             |-> key_package.signing_share,
         z_sk_blinding    |-> key_package.signing_share_blinding,
         z_blind          |-> [j \in others |-> Hs(k(j), package)],
         z_blind_blinding |->
             [j \in others |-> BlindingRandomizer(k(j), IaView(package, shares))]]

IA1Result(package, share, key_package) ==
    LET i == key_package.identifier
    IN  IF share.identifier # i \/ i \notin Ids(package) THEN "UnknownSigner"
        ELSE IF Ids(package) \ {i} \subseteq DOMAIN key_package.pairwise_keys
            THEN "Ok" ELSE "MissingPairwiseKey"

\* The message `ia1` returns when it ends with "Ok".
IA1Message(package, share, key_package, pubkeys, shares) ==
    LET i == key_package.identifier
        C == [j \in Ids(package) \ {i} |->
                 BlindingCommitment(package, shares, key_package.pairwise_keys[j])]
    IN  [identifier           |-> i,
         blinding_commitments |-> C,
         proof |-> ProveWellformed(package, share, key_package, pubkeys, shares, C)]

-----------------------------------------------------------------------------
(* ia2                                                                     *)

\* The signer `from` has sent a commitment about `about`.
HasCommitment(messages, from, about) ==
    /\ from \in DOMAIN messages
    /\ about \in DOMAIN messages[from].blinding_commitments

C(messages, from, about) == messages[from].blinding_commitments[about]

\* ia2 gives up when its own message is missing, or at the first peer whose
\* commitment is: there is no decision then, not even about the other peers.
IA2Fails(package, messages, i) ==
    \/ i \notin DOMAIN messages
    \/ \E j \in Ids(package) \ {i} :
          ~ (HasCommitment(messages, i, j) /\ HasCommitment(messages, j, i))

\* Wrong: one disagreement makes the signer open all of its keys.
IA2DecisionOpeningAll(package, messages, key_package) ==
    LET i     == key_package.identifier
        peers == Ids(package) \ {i}
    IN  [identifier |-> i,
         opened_pairwise_keys |->
             [j \in IF \E j \in peers : C(messages, i, j) # C(messages, j, i)
                    THEN peers ELSE {} |-> key_package.pairwise_keys[j]]]

\* The decision `ia2` returns otherwise (the dealer gives every signer a
\* pairwise key for every peer, so MissingPairwiseKey cannot be reached).
IA2Decision(package, messages, key_package) ==
    LET i == key_package.identifier
    IN  [identifier |-> i,
         opened_pairwise_keys |->
             [j \in {j \in Ids(package) \ {i} : C(messages, i, j) # C(messages, j, i)} |->
                 key_package.pairwise_keys[j]]]

-----------------------------------------------------------------------------
(* decide                                                                  *)

\* Wrong: the nonce is taken never to be negated.
SharePartUnprobed(package, share, pubkeys) ==
    LET comm == package.signing_commitments[share.identifier]
    IN  Sub(share.z, Add(comm.D, Mul(comm.E, NonceChallenge(package, pubkeys))))

\* A of verify_wellformed_proof: the share without its nonce.  A probe of one
\* through NormalizeShareR tells whether the nonce was negated.
SharePart(package, share, pubkeys) ==
    LET i    == share.identifier
        comm == package.signing_commitments[i]
        sign == NormalizeShareR(AggregateNonce(package, pubkeys), 1).nonce
    IN  Sub(share.z, Mul(Add(comm.D, Mul(comm.E, NonceChallenge(package, pubkeys))), sign))

VerifyWellformedProof(package, share, message, pubkeys) ==
    LET i      == share.identifier
        proof  == message.proof
        others == Ids(package) \ {i}
        vk     == pubkeys.partial_verification_keys
    IN  /\ message.identifier = i
        /\ i \in DOMAIN vk
        /\ i \in Ids(package)
        /\ proof.transcript =
               ProofTranscript(package, share, pubkeys, message.blinding_commitments)
        /\ others \subseteq DOMAIN proof.z_blind
        /\ SharePart(package, share, pubkeys) =
               Add(Mul(Mul(SigChallenge(package, pubkeys), Lagrange(i, Ids(package))),
                       proof.z_sk),
                   Sum([j \in others |-> Mul(proof.z_blind[j], Delta(i, j))]))
        /\ PedersenCommit(proof.z_sk, proof.z_sk_blinding)
               = vk[i].signing_share_commitment
        /\ others \subseteq DOMAIN message.blinding_commitments
        /\ others \subseteq DOMAIN proof.z_blind_blinding
        /\ \A j \in others :
               PedersenCommit(proof.z_blind[j], proof.z_blind_blinding[j])
                   = message.blinding_commitments[j]

\* Wrong: the proofs are not verified.
NamedByAbsence(package, pubkeys, shares, messages) ==
    {id \in Ids(package) : id \notin DOMAIN shares \/ id \notin DOMAIN messages}

\* First loop: a signer without a share, a message or a valid proof.
NamedByProof(package, pubkeys, shares, messages) ==
    {id \in Ids(package) :
        \/ id \notin DOMAIN shares
        \/ id \notin DOMAIN messages
        \/ ~ VerifyWellformedProof(package, shares[id], messages[id], pubkeys)}

\* The opened key is the one the dealer committed to for the pair.
OpeningIsValid(pubkeys, accuser, peer, opened_key) ==
    LET vk == pubkeys.partial_verification_keys
    IN  /\ accuser \in DOMAIN vk
        /\ peer \in DOMAIN vk[accuser].pairwise_key_commitments
        /\ HashPairwiseKeyCommitment(opened_key)
               = vk[accuser].pairwise_key_commitments[peer]

\* Wrong: a valid opening names the accuser too.
NamedByOpeningBoth(package, pubkeys, shares, messages, accuser, peer, opened_key) ==
    IF HasCommitment(messages, peer, accuser)
       /\ C(messages, peer, accuser) = BlindingCommitment(package, shares, opened_key)
    THEN {} ELSE {accuser, peer}

\* Second loop, for one opened key: an invalid opening names the accuser; a
\* valid one names the peer whose commitment is not the one the key gives.
NamedByOpening(package, pubkeys, shares, messages, accuser, peer, opened_key) ==
    IF ~ OpeningIsValid(pubkeys, accuser, peer, opened_key) THEN {accuser}
    ELSE IF /\ HasCommitment(messages, peer, accuser)
            /\ C(messages, peer, accuser) = BlindingCommitment(package, shares, opened_key)
         THEN {} ELSE {peer}

HasOpened(decisions, i, j) ==
    i \in DOMAIN decisions /\ j \in DOMAIN decisions[i].opened_pairwise_keys

\* Wrong: a missing commitment names both signers of the pair.
NamedByPairBoth(messages, decisions, i, j) ==
    IF HasCommitment(messages, i, j) /\ HasCommitment(messages, j, i)
    THEN IF C(messages, i, j) = C(messages, j, i) THEN {}
         ELSE {x \in {i, j} : ~ HasOpened(decisions, x, IF x = i THEN j ELSE i)}
    ELSE {i, j}

\* Third loop, for the pair i < j: a missing message or commitment names its
\* sender; commitments that differ name whoever has not opened its key.
NamedByPair(messages, decisions, i, j) ==
    IF i \notin DOMAIN messages THEN {i}
    ELSE IF j \notin DOMAIN messages THEN {j}
    ELSE IF ~ HasCommitment(messages, i, j) THEN {i}
    ELSE IF ~ HasCommitment(messages, j, i) THEN {j}
    ELSE IF C(messages, i, j) = C(messages, j, i) THEN {}
    ELSE {x \in {i, j} : ~ HasOpened(decisions, x, IF x = i THEN j ELSE i)}

NamedByOpenings(package, pubkeys, shares, messages, decisions) ==
    UNION {UNION {NamedByOpening(package, pubkeys, shares, messages, accuser, peer,
                                 decisions[accuser].opened_pairwise_keys[peer]) :
                     peer \in DOMAIN decisions[accuser].opened_pairwise_keys} :
               accuser \in DOMAIN decisions}

NamedByPairs(package, messages, decisions) ==
    UNION {NamedByPair(messages, decisions, ij[1], ij[2]) :
               ij \in {ij \in Ids(package) \X Ids(package) : ij[1] < ij[2]}}

\* Wrong: nobody has to open a key.
DecideWithoutPairs(package, pubkeys, shares, messages, decisions) ==
    NamedByProof(package, pubkeys, shares, messages)
    \cup NamedByOpenings(package, pubkeys, shares, messages, decisions)

Decide(package, pubkeys, shares, messages, decisions) ==
    NamedByProof(package, pubkeys, shares, messages)
    \cup NamedByOpenings(package, pubkeys, shares, messages, decisions)
    \cup NamedByPairs(package, messages, decisions)
=============================================================================
