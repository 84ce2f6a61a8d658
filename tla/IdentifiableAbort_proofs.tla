----------------------- MODULE IdentifiableAbort_proofs -----------------------
(***************************************************************************)
(* For every number of signers, threshold, ciphersuite, hash function and  *)
(* set of faulty parties: the types of IdentifiableAbort, and that a       *)
(* signer which follows the code is not named.                             *)
(***************************************************************************)
EXTENDS IdentifiableAbort, FaFrost_proofs, FiniteSetTheorems

\* A new map has no keys.
LEMMA EmptyMapFacts == DOMAIN EmptyMap = {}
  BY DEF EmptyMap

\* In every reachable state the keys are as the dealer returned them.
LEMMA KeysDealt ==
  ASSUME TypeOK
  PROVE  Dealt(keys)
<1>1. PICK dealing \in Dealings :
         keys = GenerateWithDealer(dealing.secret_key, dealing.random)
  BY DEF TypeOK
<1>2. dealing.secret_key \in Scalar /\ dealing.random \in Randomness
  BY DealingsAssumption
<1> QED BY <1>1, <1>2, DealtKeys

\* What the type invariant says of the signers, one fact each.
LEMMA SignersFacts ==
  ASSUME TypeOK
  PROVE  /\ Signers \subseteq Identifier
         /\ Honest \subseteq Signers
         /\ keys.pubkeys.verifying_key \in Scalar
         /\ \A i \in Signers : nonces[i] \in [d : Scalar, e : Scalar]
  BY PackageFacts, KeysDealt DEF TypeOK, Signers, Honest, Dealt

\* A faulty signer's key package is a dealt one up to one pairwise key.
LEMMA FaultyKeyPackageFacts ==
  ASSUME TypeOK, NEW i \in Signers, NEW kp \in FaultyKeyPackages(keys.shares[i])
  PROVE  kp.identifier = i /\ HasKeysFor(kp, package)
<1> DEFINE dealt == keys.shares[i]
<1>1. /\ package \in SigningPackages /\ Dealt(keys) /\ i \in Ids(package)
      /\ Ids(package) \subseteq Identifier
  BY KeysDealt, SignersFacts DEF TypeOK, Signers
<1>2. dealt.identifier = i /\ HasKeysFor(dealt, package)
  BY <1>1, DealtHasKeysFor
<1>3. CASE kp = dealt
  BY <1>2, <1>3
<1>4. ASSUME NEW j \in DOMAIN dealt.pairwise_keys, NEW k \in WrongKeys,
             kp = [dealt EXCEPT !.pairwise_keys[j] = k]
      PROVE  kp.identifier = i /\ HasKeysFor(kp, package)
  <2>1. kp.identifier = dealt.identifier /\ kp.signing_share = dealt.signing_share
    BY <1>4
  <2>2. \A l \in Ids(package) \ {i} : kp.pairwise_keys[l] \in PairwiseKeys
    BY <1>1, <1>2, <1>4, FaultAssumption DEF HasKeysFor, Dealt
  <2> QED BY <1>2, <2>1, <2>2 DEF HasKeysFor
<1> QED BY <1>3, <1>4 DEF FaultyKeyPackages

\* What `sign` returns for the key package a signer works with is a share.
LEMMA HeldSignType ==
  ASSUME TypeOK, NEW i \in Signers
  PROVE  /\ held[i].identifier = i
         /\ Sign(package, nonces[i], held[i], keys.pubkeys) \in SignatureShares
<1>1. held[i].identifier = i /\ HasKeysFor(held[i], package)
  BY FaultyKeyPackageFacts DEF TypeOK
<1> QED BY <1>1, SignersFacts, SignType DEF TypeOK

\* Whatever a faulty signer publishes in round 2 is typed as a share.
LEMMA FaultySharesType ==
  ASSUME TypeOK, NEW i \in Signers, NEW share \in FaultyShares(i)
  PROVE  share \in SignatureShares
<1> DEFINE s == Sign(package, nonces[i], held[i], keys.pubkeys)
<1>1. s \in SignatureShares
  BY HeldSignType
<1>0. CASE \E j \in DOMAIN signature_shares : share = signature_shares[j]
  BY <1>0 DEF TypeOK
<1> SUFFICES ASSUME ~ \E j \in DOMAIN signature_shares : share = signature_shares[j]
             PROVE  share \in SignatureShares
  BY <1>0
<1>2. PICK dz \in ZOffsets, dR \in ROffsets : share = Offset(s, dz, dR)
  BY DEF FaultyShares
<1>3. dz \in Scalar /\ dR \in Scalar
  BY FaultAssumption
<1> HIDE DEF s
<1> QED BY <1>1, <1>2, <1>3, AddType DEF SignatureShares, Offset

\* The message of ia1 names its signer and commits about all of its peers.
OwnMessage(m, i) ==
  /\ m.identifier = i
  /\ DOMAIN m.blinding_commitments = Signers \ {i}
  /\ \A j \in Signers \ {i} : m.blinding_commitments[j].value \in Scalar

\* ... whichever view of the shares it was made from.
LEMMA IA1MessageType ==
  ASSUME TypeOK, NEW i \in Signers, NEW kp \in FaultyKeyPackages(keys.shares[i]),
         NEW share, NEW shares
  PROVE  OwnMessage(IA1Message(package, share, kp, keys.pubkeys, shares), i)
<1>1. /\ kp.identifier = i
      /\ \A j \in Ids(package) \ {i} : Hs(kp.pairwise_keys[j], package) \in Scalar
  BY FaultyKeyPackageFacts, HashAssumption DEF HasKeysFor, TypeOK
<1> QED BY <1>1 DEF OwnMessage, IA1Message, Signers, BlindingCommitment, PedersenCommit

\* What TypeOK says of a first-round message.
MessageOK(m) ==
  /\ m.identifier \in Signers
  /\ DOMAIN m.blinding_commitments \subseteq Signers \ {m.identifier}
  /\ \A j \in DOMAIN m.blinding_commitments : m.blinding_commitments[j].value \in Scalar

\* A faulty first-round message, a copy included, is typed as one.
LEMMA FaultyIA1MessagesType ==
  ASSUME TypeOK, NEW i \in Signers, NEW m \in FaultyIA1Messages(i)
  PROVE  MessageOK(m)
<1> DEFINE own     == IF i \in DOMAIN signature_shares THEN signature_shares[i]
                      ELSE Sign(package, nonces[i], held[i], keys.pubkeys)
           views   == {signature_shares, Insert(EmptyMap, i, own)}
           correct == {IA1Message(package, own, kp, keys.pubkeys, view) :
                          kp \in {keys.shares[i], held[i]}, view \in views}
<1>1. keys.shares[i] \in FaultyKeyPackages(keys.shares[i])
      /\ held[i] \in FaultyKeyPackages(keys.shares[i])
  <2>1. keys.shares[i] \in FaultyKeyPackages(keys.shares[i])
    BY DEF FaultyKeyPackages
  <2>2. held[i] \in FaultyKeyPackages(keys.shares[i])
    BY DEF TypeOK
  <2> QED BY <2>1, <2>2
<1>2. ASSUME NEW c \in correct
      PROVE  OwnMessage(c, i)
  <2> HIDE DEF views, own
  <2>1. PICK kp \in {keys.shares[i], held[i]}, view \in views :
           c = IA1Message(package, own, kp, keys.pubkeys, view)
    OBVIOUS
  <2>2. kp \in FaultyKeyPackages(keys.shares[i])
    BY <1>1
  <2> HIDE DEF correct
  <2> QED BY <2>1, <2>2, IA1MessageType
<1>3. \/ m \in correct
      \/ \E j \in DOMAIN ia1_messages : m = ia1_messages[j]
      \/ \E c \in correct : \E T \in SUBSET (Signers \ {i}) :
            m = [c EXCEPT !.blinding_commitments = [j \in T |-> c.blinding_commitments[j]]]
  BY DEF FaultyIA1Messages
<1> HIDE DEF correct
<1>4. CASE m \in correct
  BY <1>2, <1>4 DEF OwnMessage, MessageOK
<1>5. ASSUME NEW c \in correct, NEW T \in SUBSET (Signers \ {i}),
             m = [c EXCEPT !.blinding_commitments = [j \in T |-> c.blinding_commitments[j]]]
      PROVE  MessageOK(m)
  <2>1. /\ c.identifier = i /\ DOMAIN c.blinding_commitments = Signers \ {i}
        /\ \A j \in Signers \ {i} : c.blinding_commitments[j].value \in Scalar
    BY <1>2 DEF OwnMessage
  <2>2. m.identifier = i /\ m.blinding_commitments = [j \in T |-> c.blinding_commitments[j]]
    BY <1>5, <2>1
  <2> QED BY <2>1, <2>2 DEF MessageOK
<1>6. CASE \E j \in DOMAIN ia1_messages : m = ia1_messages[j]
  BY <1>6 DEF TypeOK, MessageOK
<1> QED BY <1>3, <1>4, <1>5, <1>6

\* A faulty decision is its own signer's and opens no key to itself.
LEMMA FaultyIA2DecisionsType ==
  ASSUME TypeOK, NEW i \in Signers, NEW d \in FaultyIA2Decisions(i)
  PROVE  d.identifier = i /\ DOMAIN d.opened_pairwise_keys \subseteq Identifier \ {i}
  BY SignersFacts DEF FaultyIA2Decisions

\* decide names identifiers only.
LEMMA DecideType ==
  ASSUME TypeOK
  PROVE  Decide(package, keys.pubkeys, signature_shares, ia1_messages, ia2_decisions)
            \subseteq Identifier
<1> DEFINE pk == keys.pubkeys
<1>1. NamedByProof(package, pk, signature_shares, ia1_messages) \subseteq Identifier
  BY SignersFacts DEF NamedByProof, Signers
<1>2. ASSUME NEW a \in DOMAIN ia2_decisions,
             NEW p \in DOMAIN ia2_decisions[a].opened_pairwise_keys
      PROVE  NamedByOpening(package, pk, signature_shares, ia1_messages, a, p,
                            ia2_decisions[a].opened_pairwise_keys[p]) \subseteq Identifier
  <2>1. a \in Identifier /\ p \in Identifier
    BY SignersFacts DEF TypeOK
  <2> QED BY <2>1 DEF NamedByOpening
<1>3. NamedByOpenings(package, pk, signature_shares, ia1_messages, ia2_decisions)
         \subseteq Identifier
  BY <1>2 DEF NamedByOpenings
<1>4. \A x \in Signers, y \in Signers :
         NamedByPair(ia1_messages, ia2_decisions, x, y) \subseteq Identifier
  BY SignersFacts DEF NamedByPair
<1>5. NamedByPairs(package, ia1_messages, ia2_decisions) \subseteq Identifier
  BY <1>4 DEF NamedByPairs, Signers
<1> QED BY <1>1, <1>3, <1>5 DEF Decide

-----------------------------------------------------------------------------
(* The invariant holds initially.                                          *)

\* The inductive invariant holds when the driver has issued the package.
LEMMA InitIInv == Init => IInv
<1> SUFFICES ASSUME Init PROVE IInv
  OBVIOUS
<1>1. PICK S \in SignerSets, ns \in Nonces, message \in Messages :
         /\ nonces = [i \in S |-> ns[i]]
         /\ package = [message |-> message,
                       signing_commitments |-> [i \in S |-> Commitment(ns[i])]]
  BY DEF Init
<1>2. S \in SUBSET Identifier /\ \A i \in Identifier : ns[i] \in [d : Scalar, e : Scalar]
  BY SessionAssumption
<1>3. Signers = S
  BY <1>1 DEF Signers, Ids
<1>4. package \in SigningPackages
  <2>1. [i \in S |-> Commitment(ns[i])] \in [S -> SigningCommitments]
    BY <1>2 DEF Commitment, SigningCommitments
  <2>2. [i \in S |-> Commitment(ns[i])] \in
           UNION {[P -> SigningCommitments] : P \in SUBSET Identifier}
    BY <1>2, <2>1
  <2> QED BY <1>1, <2>2 DEF SigningPackages
<1>5. nonces \in [Signers -> [d : Scalar, e : Scalar]]
  BY <1>1, <1>2, <1>3
<1>6. /\ DOMAIN held = Signers
      /\ \A i \in Signers : held[i] \in FaultyKeyPackages(keys.shares[i])
      /\ \A i \in Honest : held[i] = keys.shares[i]
  <2>1. /\ DOMAIN held = Signers
        /\ \A i \in Signers :
              held[i] \in IF i \in Faulty THEN FaultyKeyPackages(keys.shares[i])
                                         ELSE {keys.shares[i]}
    BY DEF Init
  <2>2. \A i \in Signers : keys.shares[i] \in FaultyKeyPackages(keys.shares[i])
    BY DEF FaultyKeyPackages
  <2> QED BY <2>1, <2>2 DEF Honest
<1>7. TypeOK
  BY <1>4, <1>5, <1>6, EmptyMapFacts DEF TypeOK, Init
<1>8. NoncesPublished
  BY <1>1, <1>3 DEF NoncesPublished
<1>9. OutcomeKept /\ HonestShares /\ HonestMessages /\ HonestDecisions /\ Verdict
  BY <1>6, EmptyMapFacts
     DEF OutcomeKept, HonestShares, HonestMessages, HonestDecisions, Verdict, Init
<1> QED BY <1>7, <1>8, <1>9 DEF IInv

-----------------------------------------------------------------------------
(* Every step preserves it: one lemma per action that changes a map.       *)

\* The type of what is settled when the package is issued, and of the rest.
SessionOK ==
    /\ \E dealing \in Dealings :
          keys = GenerateWithDealer(dealing.secret_key, dealing.random)
    /\ package \in SigningPackages
    /\ nonces \in [Signers -> [d : Scalar, e : Scalar]]
    /\ DOMAIN held = Signers
    /\ \A i \in Signers : held[i] \in FaultyKeyPackages(keys.shares[i])

RunOK ==
    /\ phase \in {"sign", "signed", "ia1", "ia2", "decided"}
    /\ outcome \in {"none", "valid", "invalid", "ShareCountMismatch",
                    "InconsistentAggregateNonce", "NoSignatureShares"}
    /\ DOMAIN signature_shares \subseteq Signers
    /\ \A i \in DOMAIN signature_shares : signature_shares[i] \in SignatureShares
    /\ DOMAIN ia1_messages \subseteq Signers
    /\ \A i \in DOMAIN ia1_messages :
          /\ ia1_messages[i].identifier \in Signers
          /\ DOMAIN ia1_messages[i].blinding_commitments
                \subseteq Signers \ {ia1_messages[i].identifier}
          /\ \A j \in DOMAIN ia1_messages[i].blinding_commitments :
                ia1_messages[i].blinding_commitments[j].value \in Scalar
    /\ DOMAIN ia2_decisions \subseteq Signers
    /\ \A i \in DOMAIN ia2_decisions :
          /\ ia2_decisions[i].identifier = i
          /\ DOMAIN ia2_decisions[i].opened_pairwise_keys \subseteq Identifier \ {i}
    /\ ia2_errors \subseteq Honest
    /\ malicious \subseteq Identifier

LEMMA TypeParts == TypeOK <=> SessionOK /\ RunOK
  BY DEF TypeOK, SessionOK, RunOK

\* No step of the driver changes the former.
LEMMA SessionKept ==
  ASSUME TypeOK, UNCHANGED <<keys, held, nonces, package>>
  PROVE  SessionOK'
<1>1. Signers' = Signers
  BY DEF Signers
<1>2. /\ (\E dealing \in Dealings :
              keys = GenerateWithDealer(dealing.secret_key, dealing.random))'
      /\ (package \in SigningPackages)'
      /\ (nonces \in [Signers -> [d : Scalar, e : Scalar]])'
      /\ (DOMAIN held = Signers)'
  BY <1>1 DEF TypeOK
<1>3. (\A i \in Signers : held[i] \in FaultyKeyPackages(keys.shares[i]))'
  <2>1. \A i \in Signers : held[i] \in FaultyKeyPackages(keys.shares[i])
    BY DEF TypeOK
  <2> QED BY <1>1, <2>1 DEF FaultyKeyPackages
<1> QED BY <1>2, <1>3 DEF SessionOK

\* A signer's share joins the others in the round that collects them.
LEMMA PublishPreserves ==
  ASSUME IInv, NEW i \in Signers, NEW share \in SignatureShares,
         phase = "sign",
         i \notin DOMAIN signature_shares,
         i \in Honest => share = Sign(package, nonces[i], held[i], keys.pubkeys),
         signature_shares' = Insert(signature_shares, i, share),
         UNCHANGED <<session, phase, outcome, ia1_messages, ia2_decisions,
                     ia2_errors, malicious>>
  PROVE  IInv'
<1>1. /\ UNCHANGED <<keys, held, nonces, package, phase, outcome, ia1_messages,
                     ia2_decisions, ia2_errors, malicious>>
      /\ Signers' = Signers /\ Honest' = Honest
  BY DEF session, Signers, Honest
<1>2. /\ DOMAIN signature_shares' = DOMAIN signature_shares \cup {i}
      /\ signature_shares'[i] = share
      /\ \A k \in DOMAIN signature_shares \ {i} :
            signature_shares'[k] = signature_shares[k]
  BY DEF Insert
<1>3. TypeOK'
  <2>1. SessionOK'
    BY <1>1, SessionKept DEF IInv
  <2>2. RunOK'
    BY <1>1, <1>2, TypeParts DEF IInv, RunOK
  <2> QED BY <2>1, <2>2, Zenon DEF TypeOK, SessionOK, RunOK
<1>4. NoncesPublished' /\ OutcomeKept'
  BY <1>1 DEF IInv, NoncesPublished, OutcomeKept, Outcome
<1>5. HonestShares'
  BY <1>1, <1>2 DEF IInv, HonestShares
<1>6. HonestMessages'
  BY <1>1, EmptyMapFacts DEF IInv, HonestMessages
<1>7. HonestDecisions'
  BY <1>1, EmptyMapFacts DEF IInv, HonestDecisions
<1>8. Verdict'
  BY <1>1 DEF IInv, Verdict
<1> QED BY <1>3, <1>4, <1>5, <1>6, <1>7, <1>8 DEF IInv

\* The session is aggregated once every honest signer's share is there.
LEMMA AggregatePreserves ==
  ASSUME IInv, AggregateShares
  PROVE  IInv'
<1>1. /\ UNCHANGED <<keys, held, nonces, package, signature_shares, ia1_messages,
                     ia2_decisions, ia2_errors, malicious>>
      /\ Signers' = Signers /\ Honest' = Honest
      /\ phase = "sign" /\ phase' \in {"signed", "ia1"}
      /\ Honest \subseteq DOMAIN signature_shares
  BY DEF AggregateShares, session, Signers, Honest, Awaited
<1>2. outcome' \in {"none", "valid", "invalid", "ShareCountMismatch",
                    "InconsistentAggregateNonce", "NoSignatureShares"}
  BY DEF AggregateShares, Outcome, AggregateResult
<1>3. TypeOK'
  <2>1. SessionOK'
    BY <1>1, SessionKept DEF IInv
  <2>2. RunOK'
    BY <1>1, <1>2, TypeParts DEF IInv, RunOK
  <2> QED BY <2>1, <2>2, Zenon DEF TypeOK, SessionOK, RunOK
<1>4. NoncesPublished' /\ OutcomeKept'
  BY <1>1 DEF IInv, NoncesPublished, OutcomeKept, Outcome, AggregateShares
<1>5. HonestShares'
  BY <1>1 DEF IInv, HonestShares
<1>6. HonestMessages'
  BY <1>1, EmptyMapFacts DEF IInv, HonestMessages
<1>7. HonestDecisions'
  BY <1>1, EmptyMapFacts DEF IInv, HonestDecisions
<1>8. Verdict'
  BY <1>1 DEF IInv, Verdict
<1> QED BY <1>3, <1>4, <1>5, <1>6, <1>7, <1>8 DEF IInv

\* A signer's first-round message joins the others.
LEMMA IA1Preserves ==
  ASSUME IInv, NEW i \in Signers, NEW message,
         MessageOK(message),
         phase = "ia1",
         i \notin DOMAIN ia1_messages,
         i \in Honest => message = IA1Message(package, signature_shares[i], held[i],
                                              keys.pubkeys, signature_shares),
         ia1_messages' = Insert(ia1_messages, i, message),
         UNCHANGED <<session, phase, outcome, signature_shares, ia2_decisions,
                     ia2_errors, malicious>>
  PROVE  IInv'
<1>1. /\ UNCHANGED <<keys, held, nonces, package, phase, outcome, signature_shares,
                     ia2_decisions, ia2_errors, malicious>>
      /\ Signers' = Signers /\ Honest' = Honest
  BY DEF session, Signers, Honest
<1>2. /\ DOMAIN ia1_messages' = DOMAIN ia1_messages \cup {i}
      /\ ia1_messages'[i] = message
      /\ \A k \in DOMAIN ia1_messages \ {i} : ia1_messages'[k] = ia1_messages[k]
  BY DEF Insert
<1>3. TypeOK'
  <2>1. SessionOK'
    BY <1>1, SessionKept DEF IInv
  <2>2. RunOK'
    BY <1>1, <1>2, TypeParts DEF IInv, RunOK, MessageOK
  <2> QED BY <2>1, <2>2, Zenon DEF TypeOK, SessionOK, RunOK
<1>4. NoncesPublished' /\ OutcomeKept'
  BY <1>1 DEF IInv, NoncesPublished, OutcomeKept, Outcome
<1>5. HonestShares'
  BY <1>1 DEF IInv, HonestShares
<1>6. HonestMessages'
  BY <1>1, <1>2 DEF IInv, HonestMessages, HonestShares
<1>7. HonestDecisions'
  BY <1>1, EmptyMapFacts DEF IInv, HonestDecisions
<1>8. Verdict'
  BY <1>1 DEF IInv, Verdict
<1> QED BY <1>3, <1>4, <1>5, <1>6, <1>7, <1>8 DEF IInv

\* Closing the first round of the abort: every honest message is in.
LEMMA CloseIA1Preserves ==
  ASSUME IInv, CloseIA1
  PROVE  IInv'
<1>1. /\ UNCHANGED <<keys, held, nonces, package, outcome, signature_shares,
                     ia1_messages, ia2_decisions, ia2_errors, malicious>>
      /\ Signers' = Signers /\ Honest' = Honest
      /\ phase = "ia1" /\ phase' = "ia2"
      /\ Honest \subseteq DOMAIN ia1_messages
  BY DEF CloseIA1, session, Signers, Honest, Awaited
<1>2. TypeOK'
  <2>1. SessionOK'
    BY <1>1, SessionKept DEF IInv
  <2>2. RunOK'
    BY <1>1, TypeParts DEF IInv, RunOK
  <2> QED BY <2>1, <2>2, Zenon DEF TypeOK, SessionOK, RunOK
<1>3. NoncesPublished' /\ OutcomeKept' /\ HonestShares' /\ Verdict'
  BY <1>1 DEF IInv, NoncesPublished, OutcomeKept, Outcome, HonestShares, Verdict
<1>4. HonestMessages'
  BY <1>1 DEF IInv, HonestMessages
<1>5. HonestDecisions'
  BY <1>1, EmptyMapFacts DEF IInv, HonestDecisions
<1> QED BY <1>2, <1>3, <1>4, <1>5 DEF IInv

\* A signer's decision joins the others; nothing it was made from changes.
LEMMA IA2Preserves ==
  ASSUME IInv, NEW i \in Signers, NEW decision,
         decision.identifier = i,
         DOMAIN decision.opened_pairwise_keys \subseteq Identifier \ {i},
         phase = "ia2",
         i \notin DOMAIN ia2_decisions,
         i \in Honest => /\ ~ IA2Fails(package, ia1_messages, i)
                         /\ decision = IA2Decision(package, ia1_messages, held[i]),
         ia2_decisions' = Insert(ia2_decisions, i, decision),
         UNCHANGED <<session, phase, outcome, signature_shares, ia1_messages,
                     ia2_errors, malicious>>
  PROVE  IInv'
<1>1. /\ UNCHANGED <<keys, held, nonces, package, phase, outcome, signature_shares,
                     ia1_messages, ia2_errors, malicious>>
      /\ Signers' = Signers /\ Honest' = Honest
  BY DEF session, Signers, Honest
<1>2. /\ DOMAIN ia2_decisions' = DOMAIN ia2_decisions \cup {i}
      /\ ia2_decisions'[i] = decision
      /\ \A k \in DOMAIN ia2_decisions \ {i} : ia2_decisions'[k] = ia2_decisions[k]
  BY DEF Insert
<1>3. TypeOK'
  <2>1. SessionOK'
    BY <1>1, SessionKept DEF IInv
  <2>2. RunOK'
    BY <1>1, <1>2, TypeParts DEF IInv, RunOK
  <2> QED BY <2>1, <2>2, Zenon DEF TypeOK, SessionOK, RunOK
<1>4. NoncesPublished' /\ OutcomeKept' /\ HonestShares' /\ HonestMessages' /\ Verdict'
  BY <1>1 DEF IInv, NoncesPublished, OutcomeKept, Outcome, HonestShares, HonestMessages,
              Verdict
<1>5. HonestDecisions'
  BY <1>1, <1>2 DEF IInv, HonestDecisions, HonestShares
<1> QED BY <1>3, <1>4, <1>5 DEF IInv

\* A failed ia2 leaves a mark only.
LEMMA IA2ErrorPreserves ==
  ASSUME IInv, NEW i \in Honest,
         phase = "ia2", IA2Fails(package, ia1_messages, i),
         ia2_errors' = ia2_errors \cup {i},
         UNCHANGED <<session, phase, outcome, signature_shares, ia1_messages,
                     ia2_decisions, malicious>>
  PROVE  IInv'
<1>1. /\ UNCHANGED <<keys, held, nonces, package, phase, outcome, signature_shares,
                     ia1_messages, ia2_decisions, malicious>>
      /\ Signers' = Signers /\ Honest' = Honest
  BY DEF session, Signers, Honest
<1>2. TypeOK'
  <2>1. SessionOK'
    BY <1>1, SessionKept DEF IInv
  <2>2. RunOK'
    BY <1>1, TypeParts DEF IInv, RunOK
  <2> QED BY <2>1, <2>2, Zenon DEF TypeOK, SessionOK, RunOK
<1>3. /\ NoncesPublished' /\ OutcomeKept' /\ HonestShares' /\ HonestMessages'
      /\ HonestDecisions' /\ Verdict'
  BY <1>1 DEF IInv, NoncesPublished, OutcomeKept, Outcome, HonestShares, HonestMessages,
              HonestDecisions, Verdict
<1> QED BY <1>2, <1>3 DEF IInv

\* decide: every honest signer has answered, and the verdict is recorded.
LEMMA AdjudicatePreserves ==
  ASSUME IInv, Adjudicate
  PROVE  IInv'
<1>1. /\ UNCHANGED <<keys, held, nonces, package, outcome, signature_shares,
                     ia1_messages, ia2_decisions, ia2_errors>>
      /\ Signers' = Signers /\ Honest' = Honest
      /\ phase = "ia2" /\ phase' = "decided"
      /\ Honest \subseteq DOMAIN ia2_decisions \cup ia2_errors
      /\ malicious' = Decide(package, keys.pubkeys, signature_shares, ia1_messages,
                             ia2_decisions)
  BY DEF Adjudicate, session, Signers, Honest, Awaited
<1>2. malicious' \subseteq Identifier
  BY <1>1, DecideType DEF IInv
<1>3. TypeOK'
  <2>1. SessionOK'
    BY <1>1, SessionKept DEF IInv
  <2>2. RunOK'
    BY <1>1, <1>2, TypeParts DEF IInv, RunOK
  <2> QED BY <2>1, <2>2, Zenon DEF TypeOK, SessionOK, RunOK
<1>4. NoncesPublished' /\ OutcomeKept' /\ HonestShares' /\ HonestMessages' /\ HonestDecisions'
  BY <1>1 DEF IInv, NoncesPublished, OutcomeKept, Outcome, HonestShares, HonestMessages,
              HonestDecisions
<1>5. Verdict'
  BY <1>1 DEF Verdict
<1> QED BY <1>3, <1>4, <1>5 DEF IInv

\* A step that changes nothing keeps the invariant.
LEMMA StutterPreserves ==
  ASSUME IInv, UNCHANGED vars
  PROVE  IInv'
<1>1. /\ UNCHANGED <<keys, held, nonces, package, phase, outcome, signature_shares,
                     ia1_messages, ia2_decisions, ia2_errors, malicious>>
      /\ Signers' = Signers /\ Honest' = Honest
  BY DEF vars, session, Signers, Honest
<1>2. TypeOK'
  <2>1. SessionOK'
    BY <1>1, SessionKept DEF IInv
  <2>2. RunOK'
    BY <1>1, TypeParts DEF IInv, RunOK
  <2> QED BY <2>1, <2>2, Zenon DEF TypeOK, SessionOK, RunOK
<1>3. /\ NoncesPublished' /\ OutcomeKept' /\ HonestShares' /\ HonestMessages'
      /\ HonestDecisions' /\ Verdict'
  BY <1>1 DEF IInv, NoncesPublished, OutcomeKept, Outcome, HonestShares, HonestMessages,
              HonestDecisions, Verdict
<1> QED BY <1>2, <1>3 DEF IInv

\* Every step of the session keeps the inductive invariant.
LEMMA NextIInv == IInv /\ [Next]_vars => IInv'
<1> SUFFICES ASSUME IInv, [Next]_vars PROVE IInv'
  OBVIOUS
<1> USE DEF IInv
<1>0. TypeOK /\ HonestShares /\ Honest \subseteq Signers
  BY DEF Honest
<1> HIDE DEF IInv
<1>1. ASSUME NEW i \in Identifier, PublishShare(i) PROVE IInv'
  <2>1. i \in Signers
    BY <1>0, <1>1 DEF PublishShare
  <2>2. Sign(package, nonces[i], held[i], keys.pubkeys) \in SignatureShares
    BY <1>0, <2>1, HeldSignType
  <2> QED BY <1>1, <2>1, <2>2, PublishPreserves DEF PublishShare
<1>2. ASSUME NEW i \in Identifier, PublishFaultyShare(i) PROVE IInv'
  <2>1. i \in Signers /\ i \notin Honest
    BY <1>2 DEF PublishFaultyShare, Honest
  <2>2. PICK share \in FaultyShares(i) :
           signature_shares' = Insert(signature_shares, i, share)
    BY <1>2 DEF PublishFaultyShare
  <2>3. share \in SignatureShares
    BY <1>0, <2>1, <2>2, FaultySharesType
  <2> QED BY <1>2, <2>1, <2>2, <2>3, PublishPreserves DEF PublishFaultyShare
<1>3. CASE AggregateShares
  BY <1>3, AggregatePreserves
<1>4. ASSUME NEW i \in Identifier, IA1(i) PROVE IInv'
  <2>1. i \in Signers /\ held[i] \in FaultyKeyPackages(keys.shares[i])
    BY <1>0, <1>4 DEF IA1, TypeOK
  <2> DEFINE m == IA1Message(package, signature_shares[i], held[i], keys.pubkeys,
                             signature_shares)
  <2>2. MessageOK(m)
    BY <1>0, <2>1, IA1MessageType DEF MessageOK, OwnMessage
  <2>3. ia1_messages' = Insert(ia1_messages, i, m)
    BY <1>4 DEF IA1
  <2> HIDE DEF m
  <2>4. i \in Honest => m = IA1Message(package, signature_shares[i], held[i],
                                       keys.pubkeys, signature_shares)
    BY DEF m
  <2> QED BY <1>4, <2>1, <2>2, <2>3, <2>4, IA1Preserves DEF IA1
<1>5. ASSUME NEW i \in Identifier, FaultyIA1(i) PROVE IInv'
  <2>1. i \in Signers /\ i \notin Honest
    BY <1>5 DEF FaultyIA1, Honest
  <2>2. PICK m \in FaultyIA1Messages(i) : ia1_messages' = Insert(ia1_messages, i, m)
    BY <1>5 DEF FaultyIA1
  <2>3. MessageOK(m)
    BY <1>0, <2>1, <2>2, FaultyIA1MessagesType
  <2> QED BY <1>5, <2>1, <2>2, <2>3, IA1Preserves DEF FaultyIA1
<1>6. CASE CloseIA1
  BY <1>6, CloseIA1Preserves
<1>7. ASSUME NEW i \in Identifier, IA2(i) PROVE IInv'
  <2>1. i \in Signers /\ i \in Honest /\ held[i].identifier = i
    BY <1>0, <1>7, HeldSignType DEF IA2
  <2>2. CASE IA2Fails(package, ia1_messages, i)
    BY <1>7, <2>1, <2>2, IA2ErrorPreserves DEF IA2
  <2>3. CASE ~ IA2Fails(package, ia1_messages, i)
    <3> DEFINE d == IA2Decision(package, ia1_messages, held[i])
    <3>1. /\ d.identifier = i
          /\ DOMAIN d.opened_pairwise_keys \subseteq Identifier \ {i}
      BY <1>0, <2>1, SignersFacts DEF IA2Decision, Signers
    <3>2. ia2_decisions' = Insert(ia2_decisions, i, d)
      BY <1>7, <2>3 DEF IA2
    <3> HIDE DEF d
    <3>3. d = IA2Decision(package, ia1_messages, held[i])
      BY DEF d
    <3> QED BY <1>7, <2>1, <2>3, <3>1, <3>2, <3>3, IA2Preserves DEF IA2
  <2> QED BY <2>2, <2>3
<1>8. ASSUME NEW i \in Identifier, FaultyIA2(i) PROVE IInv'
  <2>1. i \in Signers /\ i \notin Honest
    BY <1>8 DEF FaultyIA2, Honest
  <2>2. PICK d \in FaultyIA2Decisions(i) : ia2_decisions' = Insert(ia2_decisions, i, d)
    BY <1>8 DEF FaultyIA2
  <2>3. d.identifier = i /\ DOMAIN d.opened_pairwise_keys \subseteq Identifier \ {i}
    BY <1>0, <2>1, <2>2, FaultyIA2DecisionsType
  <2> QED BY <1>8, <2>1, <2>2, <2>3, IA2Preserves DEF FaultyIA2
<1>9. CASE Adjudicate
  BY <1>9, AdjudicatePreserves
<1>10. CASE Terminated \/ UNCHANGED vars
  BY <1>10, StutterPreserves DEF Terminated
<1> QED
  BY <1>1, <1>2, <1>3, <1>4, <1>5, <1>6, <1>7, <1>8, <1>9, <1>10 DEF Next

-----------------------------------------------------------------------------
(* The theorems.                                                           *)

\* IInv holds of every reachable state: what the honest signers sent is what
\* the code computes from the maps that decide is given.
THEOREM Invariance == Spec => []IInv
  BY InitIInv, NextIInv, PTL DEF Spec

\* The variables keep their types: every share published is a share, every
\* map of the session has signers as its keys.
THEOREM TypeCorrect == Spec => []TypeOK
<1>1. IInv => TypeOK
  BY DEF IInv
<1> QED BY <1>1, Invariance, PTL

\* What an honest signer has run, as the lemmas on decide want it.
LEMMA HonestRuns ==
  ASSUME IInv, NEW i \in Honest
  PROVE  /\ package \in SigningPackages /\ Dealt(keys) /\ i \in Ids(package)
         /\ DOMAIN ia2_decisions \subseteq Ids(package)
         /\ i \in DOMAIN ia1_messages =>
               RanIA1(package, keys, signature_shares, ia1_messages, i)
         /\ phase = "decided" =>
               /\ RanSign(package, keys, nonces[i], signature_shares, i)
               /\ RanIA1(package, keys, signature_shares, ia1_messages, i)
<1>1. /\ package \in SigningPackages /\ Dealt(keys)
      /\ i \in Ids(package) /\ i \in Signers
      /\ DOMAIN ia2_decisions \subseteq Ids(package)
      /\ nonces[i] \in [d : Scalar, e : Scalar]
  BY KeysDealt, SignersFacts DEF IInv, TypeOK, Signers, Honest
<1>2. phase = "decided" => RanSign(package, keys, nonces[i], signature_shares, i)
  BY <1>1 DEF IInv, HonestShares, NoncesPublished, RanSign
<1>3. i \in DOMAIN ia1_messages => RanIA1(package, keys, signature_shares, ia1_messages, i)
  BY <1>1 DEF IInv, HonestMessages, RanIA1
<1>4. phase = "decided" => i \in DOMAIN ia1_messages
  BY DEF IInv, HonestMessages
<1> QED BY <1>1, <1>2, <1>3, <1>4

\* decide names no signer that ran the code and whose ia2 returned a decision.
THEOREM Accuracy == Spec => []HonestNotNamed
<1>1. IInv => HonestNotNamed
  <2> SUFFICES ASSUME IInv, NEW i \in Honest \cap DOMAIN ia2_decisions
               PROVE  i \notin malicious
    BY DEF HonestNotNamed
  <2>1. CASE phase # "decided"
    BY <2>1 DEF IInv, Verdict
  <2>2. CASE phase = "decided"
    <3>1. /\ ~ IA2Fails(package, ia1_messages, i)
          /\ ia2_decisions[i] = IA2Decision(package, ia1_messages, keys.shares[i])
      BY DEF IInv, HonestDecisions
    <3>2. malicious = Decide(package, keys.pubkeys, signature_shares, ia1_messages,
                             ia2_decisions)
      BY <2>2 DEF IInv, Verdict
    <3> QED BY <2>2, <3>1, <3>2, HonestRuns, NotNamedByDecide
  <2> QED BY <2>1, <2>2
<1> QED BY <1>1, Invariance, PTL

\* Both sides of an honest pair commit to the blinding value of the one key the
\* dealer gave the pair, under the one map of shares.
LEMMA HonestCommitmentsEqual == IInv => HonestPairsAgree
<1> SUFFICES ASSUME IInv, NEW i \in Honest \cap DOMAIN ia1_messages,
                    NEW j \in Honest \cap DOMAIN ia1_messages, i # j
             PROVE  C(ia1_messages, i, j) = C(ia1_messages, j, i)
  BY DEF HonestPairsAgree
<1>1. /\ package \in SigningPackages /\ Dealt(keys)
      /\ i \in Ids(package) /\ j \in Ids(package)
      /\ i \in Identifier /\ j \in Identifier
      /\ RanIA1(package, keys, signature_shares, ia1_messages, i)
      /\ RanIA1(package, keys, signature_shares, ia1_messages, j)
  BY HonestRuns, PackageFacts
<1>2. /\ C(ia1_messages, i, j)
            = BlindingCommitment(package, signature_shares, keys.shares[i].pairwise_keys[j])
      /\ C(ia1_messages, j, i)
            = BlindingCommitment(package, signature_shares, keys.shares[j].pairwise_keys[i])
  BY <1>1, CommitmentsOfIA1
<1>3. keys.shares[i].pairwise_keys[j] = keys.shares[j].pairwise_keys[i]
  BY <1>1 DEF Dealt
<1> QED BY <1>2, <1>3

\* The commitments of two honest signers to their common blinding value agree.
THEOREM PairsAgree == Spec => []HonestPairsAgree
  BY HonestCommitmentsEqual, Invariance, PTL

\* An honest signer opens no key that it shares with another honest signer.
THEOREM KeysStaySecret == Spec => []OpensOnlyTowardsFaulty
<1>1. IInv => OpensOnlyTowardsFaulty
  <2> SUFFICES ASSUME IInv, NEW i \in Honest \cap DOMAIN ia2_decisions,
                      NEW j \in DOMAIN ia2_decisions[i].opened_pairwise_keys
               PROVE  j \in Faulty
    BY DEF OpensOnlyTowardsFaulty
  <2>1. /\ ~ IA2Fails(package, ia1_messages, i)
        /\ ia2_decisions[i] = IA2Decision(package, ia1_messages, keys.shares[i])
    BY DEF IInv, HonestDecisions
  <2>2. keys.shares[i].identifier = i
    BY HonestRuns, DealtHasKeysFor
  <2>3. /\ j \in Ids(package) \ {i}
        /\ C(ia1_messages, i, j) # C(ia1_messages, j, i)
    BY <2>1, <2>2 DEF IA2Decision
  <2>4. i \in DOMAIN ia1_messages /\ j \in DOMAIN ia1_messages
    BY <2>1, <2>3 DEF IA2Fails, HasCommitment
  <2> QED BY <2>3, <2>4, HonestCommitmentsEqual DEF HonestPairsAgree, Honest, Signers
<1> QED BY <1>1, Invariance, PTL

\* With at most one faulty signer, the peer for which an honest signer's ia2
\* failed is the faulty one: it is silent, and all others agree.
LEMMA AgreesUnderLoneFault ==
  ASSUME IInv, Cardinality(Signers \cap Faulty) <= 1, phase = "decided",
         NEW i \in Honest, i \notin DOMAIN ia2_decisions,
         NEW j \in Ids(package) \ {i}, HasCommitment(ia1_messages, j, i)
  PROVE  C(ia1_messages, i, j) = C(ia1_messages, j, i)
<1>1. /\ package \in SigningPackages /\ Dealt(keys) /\ i \in Ids(package)
      /\ RanIA1(package, keys, signature_shares, ia1_messages, i)
  BY HonestRuns
<1>2. i \in DOMAIN ia1_messages
      /\ \A l \in Ids(package) \ {i} : HasCommitment(ia1_messages, i, l)
  <2>1. i \in DOMAIN ia1_messages
    BY <1>1 DEF RanIA1
  <2>2. \A l \in Ids(package) \ {i} : HasCommitment(ia1_messages, i, l)
    BY <1>1, CommitmentsOfIA1
  <2> QED BY <2>1, <2>2
<1>3. IA2Fails(package, ia1_messages, i)
  BY DEF IInv, HonestDecisions
<1>4. PICK l \in Ids(package) \ {i} : ~ HasCommitment(ia1_messages, l, i)
  BY <1>2, <1>3 DEF IA2Fails
<1>5. l \in Signers \cap Faulty
  <2> SUFFICES ASSUME l \in Honest PROVE FALSE
    BY DEF Signers, Honest
  <2>1. RanIA1(package, keys, signature_shares, ia1_messages, l)
    BY HonestRuns
  <2> QED BY <1>1, <1>4, <2>1, CommitmentsOfIA1
<1>6. Signers \cap Faulty \subseteq {l}
  <2>1. IsFiniteSet(Signers \cap Faulty)
    <3>1. IsFiniteSet(1..MaxSigners)
      BY FS_Interval, MaxSignersAssumption
    <3>2. Signers \cap Faulty \in SUBSET (1..MaxSigners)
      BY <1>1, PackageFacts DEF Signers, Identifier
    <3> QED BY <3>1, <3>2, FS_Subset
  <2>2. /\ IsFiniteSet((Signers \cap Faulty) \ {l})
        /\ Cardinality((Signers \cap Faulty) \ {l}) = Cardinality(Signers \cap Faulty) - 1
    BY <1>5, <2>1, FS_RemoveElement
  <2>3. Cardinality((Signers \cap Faulty) \ {l}) = 0
    <3>1. Cardinality((Signers \cap Faulty) \ {l}) \in Nat /\ Cardinality(Signers \cap Faulty) \in Nat
      BY <2>1, <2>2, FS_CardinalityType
    <3> QED BY <2>2, <3>1
  <2> QED BY <2>2, <2>3, FS_EmptySet
<1>7. j # l
  BY <1>4
<1>8. j \in Honest /\ j \in DOMAIN ia1_messages
  BY <1>6, <1>7 DEF Signers, Honest, HasCommitment
<1> QED BY <1>2, <1>8, HonestCommitmentsEqual DEF HonestPairsAgree

\* One faulty signer alone does not make decide name an honest one.
THEOREM LoneFaultAccuracy == Spec => []LoneFaultNamesNoHonestSigner
<1>1. IInv /\ HonestNotNamed => LoneFaultNamesNoHonestSigner
  <2> SUFFICES ASSUME IInv, HonestNotNamed, Cardinality(Signers \cap Faulty) <= 1,
                      NEW i \in Honest
               PROVE  i \notin malicious
    BY DEF LoneFaultNamesNoHonestSigner
  <2>1. CASE i \in DOMAIN ia2_decisions
    BY <2>1 DEF HonestNotNamed
  <2>2. CASE phase # "decided"
    BY <2>2 DEF IInv, Verdict
  <2>3. CASE phase = "decided" /\ i \notin DOMAIN ia2_decisions
    <3>1. malicious = Decide(package, keys.pubkeys, signature_shares, ia1_messages,
                             ia2_decisions)
      BY <2>3 DEF IInv, Verdict
    <3>2. \A j \in Ids(package) \ {i} : HasCommitment(ia1_messages, j, i) =>
             C(ia1_messages, i, j) = C(ia1_messages, j, i)
      BY <2>3, AgreesUnderLoneFault
    <3> QED BY <2>3, <3>1, <3>2, HonestRuns, AgreeingNotNamedByDecide
  <2> QED BY <2>1, <2>2, <2>3
<1> QED BY <1>1, Invariance, Accuracy, PTL

-----------------------------------------------------------------------------
(* The end of a session in which every signer has answered.                *)

\* Whichever dealing it was.
LEMMA DealtBySomeone ==
  ASSUME TypeOK
  PROVE  \E secret_key \in Scalar, random \in Randomness :
            keys = GenerateWithDealer(secret_key, random)
<1>1. PICK dealing \in Dealings :
         keys = GenerateWithDealer(dealing.secret_key, dealing.random)
  BY DEF TypeOK
<1>2. dealing.secret_key \in Scalar /\ dealing.random \in Randomness
  BY DealingsAssumption
<1> QED BY <1>1, <1>2

\* min_signers signers or more interpolate to the key of the group.
LEMMA SignersHaveKey ==
  ASSUME TypeOK, Signers # {}, Cardinality(Signers) >= MinSigners
  PROVE  KeySum(package, keys) = keys.pubkeys.verifying_key
<1>1. PICK secret_key \in Scalar, random \in Randomness :
         keys = GenerateWithDealer(secret_key, random)
  BY DealtBySomeone
<1>2. package \in SigningPackages
  BY DEF TypeOK
<1> QED BY <1>1, <1>2, KeySumInterpolates DEF Signers

\* Shares that `sign` returned for the dealt keys make a valid signature.
THEOREM FaithfulShares == Spec => []FaithfulSharesSign
<1>1. IInv => FaithfulSharesSign
  <2> SUFFICES ASSUME IInv, phase # "sign", DOMAIN signature_shares = Signers,
                      \A i \in Signers : signature_shares[i]
                         = Sign(package, nonces[i], keys.shares[i], keys.pubkeys),
                      Signers # {}, Cardinality(Signers) >= MinSigners
               PROVE  outcome = "valid"
    BY DEF FaithfulSharesSign
  <2>1. TypeOK /\ NoncesPublished /\ outcome = Outcome(signature_shares)
    BY DEF IInv, OutcomeKept
  <2>2. package \in SigningPackages /\ Dealt(keys)
    BY <2>1, KeysDealt DEF TypeOK
  <2>3. Signed(package, keys, signature_shares)
    BY <2>1, SignersFacts DEF Signed, Signers, NoncesPublished
  <2>4. /\ AggregateResult(package, signature_shares) = "Ok"
        /\ Verify(Aggregate(signature_shares), package.message, keys.pubkeys)
    BY <2>1, <2>2, <2>3, SignersHaveKey, SignedVerifies DEF Signers
  <2> QED BY <2>1, <2>4 DEF Outcome
<1> QED BY <1>1, Invariance, PTL

-----------------------------------------------------------------------------
(* When decide names no faulty signer, all of them have sent what makes a  *)
(* valid signature.                                                        *)

\* The loops of decide, as they bear on what it returns.
LEMMA NamedIsMalicious ==
  ASSUME IInv, phase = "decided"
  PROVE  /\ NamedByProof(package, keys.pubkeys, signature_shares, ia1_messages)
               \subseteq malicious
         /\ \A x, y \in Signers :
               x < y => NamedByPair(ia1_messages, ia2_decisions, x, y) \subseteq malicious
         /\ \A a \in DOMAIN ia2_decisions :
               \A p \in DOMAIN ia2_decisions[a].opened_pairwise_keys :
                  NamedByOpening(package, keys.pubkeys, signature_shares, ia1_messages, a, p,
                                 ia2_decisions[a].opened_pairwise_keys[p]) \subseteq malicious
<1>1. malicious = Decide(package, keys.pubkeys, signature_shares, ia1_messages, ia2_decisions)
  BY DEF IInv, Verdict
<1>2. ASSUME NEW x \in Signers, NEW y \in Signers, x < y
      PROVE  NamedByPair(ia1_messages, ia2_decisions, x, y)
                \subseteq NamedByPairs(package, ia1_messages, ia2_decisions)
  <2>1. PICK ij \in Signers \X Signers : ij = <<x, y>>
    OBVIOUS
  <2>2. ij[1] = x /\ ij[2] = y
    BY <2>1
  <2> QED BY <1>2, <2>2 DEF NamedByPairs, Signers
<1>3. ASSUME NEW a \in DOMAIN ia2_decisions,
             NEW p \in DOMAIN ia2_decisions[a].opened_pairwise_keys
      PROVE  NamedByOpening(package, keys.pubkeys, signature_shares, ia1_messages, a, p,
                            ia2_decisions[a].opened_pairwise_keys[p])
                \subseteq NamedByOpenings(package, keys.pubkeys, signature_shares,
                                          ia1_messages, ia2_decisions)
  BY DEF NamedByOpenings
<1> QED BY <1>1, <1>2, <1>3 DEF Decide

\* Every signer has published a share and a message with an accepted proof.
LEMMA AllAnswered ==
  ASSUME IInv, phase = "decided", malicious \cap Faulty = {}, NEW i \in Signers
  PROVE  /\ i \in DOMAIN signature_shares /\ i \in DOMAIN ia1_messages
         /\ VerifyWellformedProof(package, signature_shares[i], ia1_messages[i], keys.pubkeys)
<1>1. CASE i \in Honest
  BY <1>1, HonestRuns, HonestProofAccepted DEF RanSign, RanIA1
<1>2. CASE i \in Faulty
  <2>1. i \notin NamedByProof(package, keys.pubkeys, signature_shares, ia1_messages)
    BY <1>2, NamedIsMalicious
  <2> QED BY <2>1 DEF NamedByProof, Signers
<1> QED BY <1>1, <1>2 DEF Honest

\* Each share and message names the signer that sent it: the copy of another's
\* message says nothing about that other, which the third loop notices.
LEMMA OwnIdentifiers ==
  ASSUME IInv, phase = "decided", malicious \cap Faulty = {}, NEW i \in Signers
  PROVE  signature_shares[i].identifier = i /\ ia1_messages[i].identifier = i
<1>1. signature_shares[i].identifier = ia1_messages[i].identifier
  BY AllAnswered DEF VerifyWellformedProof
<1>2. CASE i \in Honest
  BY <1>1, <1>2, HonestRuns, CommitmentsOfIA1
<1>3. CASE i \in Faulty
  <2>1. PICK l \in Signers : /\ l = ia1_messages[i].identifier
                             /\ ~ HasCommitment(ia1_messages, i, l)
    BY AllAnswered DEF IInv, TypeOK, HasCommitment
  <2> SUFFICES ASSUME l # i PROVE FALSE
    BY <1>1, <2>1
  <2>2. i \in DOMAIN ia1_messages /\ l \in DOMAIN ia1_messages
    BY AllAnswered
  <2>3. l \in Faulty \/ HasCommitment(ia1_messages, l, i)
    <3> SUFFICES ASSUME l \in Honest PROVE HasCommitment(ia1_messages, l, i)
      BY DEF Honest
    <3> QED BY HonestRuns, CommitmentsOfIA1 DEF Signers
  <2>4. i \in Nat /\ l \in Nat
    BY SignersFacts, IdentifierFacts DEF IInv
  <2>5. CASE i < l
    <3>1. NamedByPair(ia1_messages, ia2_decisions, i, l) = {i}
      BY <2>1, <2>2 DEF NamedByPair
    <3> QED BY <1>3, <2>5, <3>1, NamedIsMalicious
  <2>6. CASE l < i
    <3>1. NamedByPair(ia1_messages, ia2_decisions, l, i)
             = IF HasCommitment(ia1_messages, l, i) THEN {i} ELSE {l}
      BY <2>1, <2>2 DEF NamedByPair
    <3> QED BY <1>3, <2>3, <2>6, <3>1, NamedIsMalicious
  <2> QED BY <2>4, <2>5, <2>6
<1> QED BY <1>2, <1>3 DEF Honest

\* Every signer has committed to a value for every other, so that no ia2 of an
\* honest signer has failed.
LEMMA AllCommitted ==
  ASSUME IInv, phase = "decided", malicious \cap Faulty = {}
  PROVE  /\ \A i \in Signers : \A j \in Signers \ {i} : HasCommitment(ia1_messages, i, j)
         /\ \A i \in Honest :
               /\ i \in DOMAIN ia2_decisions
               /\ ia2_decisions[i] = IA2Decision(package, ia1_messages, keys.shares[i])
<1>1. ASSUME NEW i \in Signers, NEW j \in Signers \ {i}
      PROVE  HasCommitment(ia1_messages, i, j)
  BY AllAnswered, OwnIdentifiers DEF VerifyWellformedProof, HasCommitment, Signers
<1>2. ASSUME NEW i \in Honest
      PROVE  i \notin ia2_errors
  <2>1. i \in Signers /\ i \in DOMAIN ia1_messages
    BY AllAnswered DEF Honest
  <2>2. ~ IA2Fails(package, ia1_messages, i)
    BY <1>1, <2>1 DEF IA2Fails, Signers
  <2> QED BY <2>2 DEF IInv, HonestDecisions
<1>3. ASSUME NEW i \in Honest
      PROVE  /\ i \in DOMAIN ia2_decisions
             /\ ia2_decisions[i] = IA2Decision(package, ia1_messages, keys.shares[i])
  BY <1>2 DEF IInv, HonestDecisions
<1> QED BY <1>1, <1>3

\* Where two commitments differ, that of either signer is the one which the
\* key dealt to the pair gives: the other has opened it.
LEMMA OpenedCommitment ==
  ASSUME IInv, phase = "decided", malicious \cap Faulty = {},
         NEW i \in Signers, NEW j \in Signers, i # j,
         C(ia1_messages, i, j) # C(ia1_messages, j, i)
  PROVE  C(ia1_messages, j, i)
            = BlindingCommitment(package, signature_shares, keys.shares[i].pairwise_keys[j])
<1>1. /\ package \in SigningPackages /\ Dealt(keys)
      /\ i \in Identifier /\ j \in Identifier /\ Signers = Ids(package)
      /\ keys.shares[i].pairwise_keys[j] = keys.shares[j].pairwise_keys[i]
      /\ keys.shares[i].identifier = i
  BY KeysDealt, SignersFacts DEF IInv, TypeOK, Signers, Dealt
<1>2. CASE j \in Honest
  BY <1>1, <1>2, HonestRuns, CommitmentsOfIA1
<1>3. CASE j \in Faulty
  <2>1. /\ HasOpened(ia2_decisions, i, j)
        /\ i \in Honest => ia2_decisions[i].opened_pairwise_keys[j]
                              = keys.shares[i].pairwise_keys[j]
    <3>1. CASE i \in Honest
      <4>1. i \in DOMAIN ia2_decisions
            /\ ia2_decisions[i] = IA2Decision(package, ia1_messages, keys.shares[i])
        BY <3>1, AllCommitted
      <4>2. /\ j \in DOMAIN ia2_decisions[i].opened_pairwise_keys
            /\ ia2_decisions[i].opened_pairwise_keys[j] = keys.shares[i].pairwise_keys[j]
        BY <1>1, <4>1 DEF IA2Decision
      <4> QED BY <4>1, <4>2 DEF HasOpened
    <3>2. CASE i \in Faulty
      <4>1. /\ i \in DOMAIN ia1_messages /\ j \in DOMAIN ia1_messages
            /\ HasCommitment(ia1_messages, i, j) /\ HasCommitment(ia1_messages, j, i)
        BY AllAnswered, AllCommitted
      <4>2. i \in Nat /\ j \in Nat
        BY <1>1, IdentifierFacts
      <4>3. CASE i < j
        <5>1. ~ HasOpened(ia2_decisions, i, j)
                 => i \in NamedByPair(ia1_messages, ia2_decisions, i, j)
          BY <4>1 DEF NamedByPair
        <5> QED BY <3>2, <4>3, <5>1, NamedIsMalicious DEF Honest
      <4>4. CASE j < i
        <5>1. ~ HasOpened(ia2_decisions, i, j)
                 => i \in NamedByPair(ia1_messages, ia2_decisions, j, i)
          BY <4>1 DEF NamedByPair
        <5> QED BY <3>2, <4>4, <5>1, NamedIsMalicious DEF Honest
      <4> QED BY <4>2, <4>3, <4>4
    <3> QED BY <3>1, <3>2 DEF Honest
  <2>2. PICK key : key = ia2_decisions[i].opened_pairwise_keys[j]
    OBVIOUS
  <2>3. NamedByOpening(package, keys.pubkeys, signature_shares, ia1_messages, i, j, key)
           \subseteq malicious
    BY <2>1, <2>2, NamedIsMalicious DEF HasOpened
  <2>4. OpeningIsValid(keys.pubkeys, i, j, key)
    <3>1. CASE i \in Honest
      BY <1>1, <2>1, <2>2, <3>1 DEF OpeningIsValid, Dealt
    <3>2. CASE i \in Faulty
      BY <2>3, <3>2 DEF NamedByOpening
    <3> QED BY <3>1, <3>2 DEF Honest
  <2>5. key = keys.shares[i].pairwise_keys[j]
    <3>1. keys.pubkeys.partial_verification_keys[i].pairwise_key_commitments[j]
             = HashPairwiseKeyCommitment(keys.shares[i].pairwise_keys[j])
      BY <1>1 DEF Dealt
    <3> QED BY <2>4, <3>1 DEF OpeningIsValid, HashPairwiseKeyCommitment
  <2> QED BY <1>3, <2>3, <2>4, <2>5 DEF NamedByOpening
<1> QED BY <1>2, <1>3 DEF Honest

\* So the two signers of every pair have committed to the same value.
LEMMA CommitmentsAgree ==
  ASSUME IInv, phase = "decided", malicious \cap Faulty = {},
         NEW i \in Signers, NEW j \in Signers \ {i}
  PROVE  C(ia1_messages, i, j) = C(ia1_messages, j, i)
<1> SUFFICES ASSUME C(ia1_messages, i, j) # C(ia1_messages, j, i) PROVE FALSE
  OBVIOUS
<1>1. keys.shares[i].pairwise_keys[j] = keys.shares[j].pairwise_keys[i]
  BY KeysDealt, SignersFacts DEF IInv, TypeOK, Dealt
<1>2. C(ia1_messages, j, i)
         = BlindingCommitment(package, signature_shares, keys.shares[i].pairwise_keys[j])
  BY OpenedCommitment
<1>3. C(ia1_messages, i, j)
         = BlindingCommitment(package, signature_shares, keys.shares[j].pairwise_keys[i])
  BY OpenedCommitment
<1> QED BY <1>1, <1>2, <1>3

\* The values committed to cancel over the session.
LEMMA CommittedValuesCancel ==
  ASSUME IInv, phase = "decided", malicious \cap Faulty = {},
         NEW B, B = [i \in Signers |->
                       Sum([j \in Signers \ {i} |->
                              Mul(C(ia1_messages, i, j).value, Delta(i, j))])]
  PROVE  ScalarMap(B) /\ Sum(B) = 0
<1>1. PICK V : V = [i \in Signers |-> [j \in Signers \ {i} |-> C(ia1_messages, i, j).value]]
  OBVIOUS
<1>2. Signers \in SUBSET Identifier
  BY SignersFacts DEF IInv
<1>3. ASSUME NEW i \in Signers, NEW j \in Signers \ {i}
      PROVE  V[i][j] \in Scalar /\ V[i][j] = V[j][i]
  <2>1. HasCommitment(ia1_messages, i, j)
    BY AllCommitted
  <2>2. C(ia1_messages, i, j).value \in Scalar
    BY <2>1 DEF IInv, TypeOK, HasCommitment, C
  <2>3. C(ia1_messages, i, j) = C(ia1_messages, j, i)
    BY CommitmentsAgree
  <2>4. V[i][j] = C(ia1_messages, i, j).value /\ V[j][i] = C(ia1_messages, j, i).value
    BY <1>1
  <2> QED BY <2>2, <2>3, <2>4
<1>4. \A i \in Signers : \A j \in Signers \ {i} : V[i][j] \in Scalar /\ V[i][j] = V[j][i]
  BY <1>3
<1>5. PICK b : b = [i \in Signers |-> Sum([j \in Signers \ {i} |-> Mul(V[i][j], Delta(i, j))])]
  OBVIOUS
<1>6. ScalarMap(b) /\ Sum(b) = 0
  BY <1>2, <1>4, <1>5, DeltasCancel
<1>7. B = b
  <2>1. ASSUME NEW i \in Signers
        PROVE  [j \in Signers \ {i} |-> Mul(C(ia1_messages, i, j).value, Delta(i, j))]
                 = [j \in Signers \ {i} |-> Mul(V[i][j], Delta(i, j))]
    BY <1>1
  <2>2. \A i \in Signers :
           Sum([j \in Signers \ {i} |-> Mul(C(ia1_messages, i, j).value, Delta(i, j))])
             = Sum([j \in Signers \ {i} |-> Mul(V[i][j], Delta(i, j))])
    BY <2>1
  <2> QED BY <1>5, <2>2
<1> QED BY <1>6, <1>7

\* Shares with accepted proofs, cancelling blinding values and the R of an
\* honest signer make the signature that honest shares make.
LEMMA UnnamedSessionVerifies ==
  ASSUME IInv, phase = "decided", malicious \cap Faulty = {}, Honest # {},
         Cardinality(Signers) >= MinSigners
  PROVE  outcome \in {"valid", "InconsistentAggregateNonce"}
<1>1. /\ package \in SigningPackages /\ Dealt(keys) /\ TypeOK
      /\ Signers = Ids(package) /\ Signers # {}
      /\ outcome = Outcome(signature_shares)
  BY KeysDealt DEF IInv, TypeOK, Signers, Honest, OutcomeKept
<1>2. DOMAIN signature_shares = Signers
  BY AllAnswered DEF IInv, TypeOK
<1>3. PICK r : r = NormalizeShareR(AggregateNonce(package, keys.pubkeys), 0).R
  OBVIOUS
<1>4. PICK h \in Signers : signature_shares[h].R = r
  <2>1. PICK h \in Honest : RanSign(package, keys, nonces[h], signature_shares, h)
    BY HonestRuns
  <2>2. \A R, a, b : NormalizeShareR(R, a).R = NormalizeShareR(R, b).R
    BY DEF NormalizeShareR
  <2>3. signature_shares[h].R = r
    BY <1>3, <2>1, <2>2 DEF RanSign, Sign
  <2> QED BY <2>3 DEF Honest
<1>5. CASE \E i, j \in Signers : signature_shares[i].R # signature_shares[j].R
  <2>1. AggregateResult(package, signature_shares)
           \in {"ShareCountMismatch", "InconsistentAggregateNonce"}
    BY <1>2, <1>5 DEF AggregateResult
  <2>2. AggregateResult(package, signature_shares) = "InconsistentAggregateNonce"
    BY <1>1, <1>2, <2>1 DEF AggregateResult
  <2> QED BY <1>1, <2>2 DEF Outcome
<1>6. CASE \A i, j \in Signers : signature_shares[i].R = signature_shares[j].R
  <2>1. PICK B : B = [i \in Signers |->
                        Sum([j \in Signers \ {i} |->
                               Mul(C(ia1_messages, i, j).value, Delta(i, j))])]
    OBVIOUS
  <2>2. DOMAIN B = Signers /\ ScalarMap(B) /\ Sum(B) = 0
    BY <2>1, CommittedValuesCancel
  <2>3. ASSUME NEW i \in Signers
        PROVE  /\ signature_shares[i].R = r
               /\ signature_shares[i].z
                    = Add(Add(KeyTerm(package, keys.shares[i], keys.pubkeys), B[i]),
                          NonceShare(package, keys.pubkeys, i))
    <3>1. signature_shares[i].R = r
      BY <1>4, <1>6
    <3>2. /\ signature_shares[i] \in SignatureShares
          /\ signature_shares[i].identifier = i
          /\ VerifyWellformedProof(package, signature_shares[i], ia1_messages[i],
                                   keys.pubkeys)
      BY <1>1, AllAnswered, OwnIdentifiers DEF TypeOK
    <3>3. \A j \in Ids(package) \ {i} :
             ia1_messages[i].blinding_commitments[j].value \in Scalar
      BY <1>1, AllCommitted DEF TypeOK, HasCommitment
    <3>4. B[i] = Sum([j \in Ids(package) \ {i} |->
                        Mul(ia1_messages[i].blinding_commitments[j].value, Delta(i, j))])
      BY <1>1, <2>1 DEF C
    <3>5. PICK share \in SignatureShares : share = signature_shares[i]
      BY <3>2
    <3>6. PICK message : message = ia1_messages[i]
      OBVIOUS
    <3>7. share.z
             = Add(Add(KeyTerm(package, keys.shares[i], keys.pubkeys),
                       Sum([j \in Ids(package) \ {i} |->
                              Mul(message.blinding_commitments[j].value, Delta(i, j))])),
                   NonceShare(package, keys.pubkeys, i))
      <4>1. \A j \in Ids(package) \ {i} : message.blinding_commitments[j].value \in Scalar
        BY <3>3, <3>6
      <4>2. share.identifier = i /\ VerifyWellformedProof(package, share, message, keys.pubkeys)
        BY <3>2, <3>5, <3>6
      <4>3. i \in Ids(package)
        BY <1>1
      <4>4. package \in SigningPackages /\ Dealt(keys)
        BY <1>1
      <4> QED BY <4>1, <4>2, <4>3, <4>4, AcceptedShare
    <3> QED BY <3>1, <3>4, <3>5, <3>6, <3>7
  <2>4. /\ AggregateResult(package, signature_shares) = "Ok"
        /\ Verify(Aggregate(signature_shares), package.message, keys.pubkeys)
    BY <1>1, <1>2, <1>3, <2>2, <2>3, SessionVerifies, SignersHaveKey
  <2> QED BY <1>1, <2>4 DEF Outcome
<1> QED BY <1>5, <1>6

\* A session of enough signers, one of them honest, in which a share is missing
\* or whose signature does not verify, ends with a faulty signer named.
THEOREM AbortAttributed == Spec => []AbortNamesFaulty
<1>1. IInv => AbortNamesFaulty
  BY UnnamedSessionVerifies DEF AbortNamesFaulty
<1> QED BY <1>1, Invariance, PTL

-----------------------------------------------------------------------------
(* The signers of the session, and whom they open keys to.                 *)

\* The driver's set of signers is kept, and without outside openings a decision
\* opens keys of signers only.
SessionInv ==
    /\ Signers \in SignerSets
    /\ ~ OutsideOpenings =>
          \A i \in DOMAIN ia2_decisions :
             DOMAIN ia2_decisions[i].opened_pairwise_keys \subseteq Signers

\* The driver issues the package for one of its sets of signers.
LEMMA InitSessionInv == Init => SessionInv
<1> SUFFICES ASSUME Init PROVE SessionInv
  OBVIOUS
<1>1. PICK S \in SignerSets : \E ns \in Nonces, message \in Messages :
         package = [message |-> message,
                    signing_commitments |-> [i \in S |-> Commitment(ns[i])]]
  BY DEF Init
<1>2. Signers = S
  BY <1>1 DEF Signers, Ids
<1>3. DOMAIN ia2_decisions = {}
  BY EmptyMapFacts DEF Init
<1> QED BY <1>2, <1>3 DEF SessionInv

\* A decision that opens keys of signers only can be added.
LEMMA DecisionPreservesSession ==
  ASSUME SessionInv, UNCHANGED package, NEW i \in Signers, NEW d,
         ia2_decisions' = Insert(ia2_decisions, i, d),
         ~ OutsideOpenings => DOMAIN d.opened_pairwise_keys \subseteq Signers
  PROVE  SessionInv'
<1>1. Signers' = Signers
  BY DEF Signers, Ids
<1>2. /\ DOMAIN ia2_decisions' = DOMAIN ia2_decisions \cup {i}
      /\ \A a \in DOMAIN ia2_decisions' :
            ia2_decisions'[a] = IF a = i THEN d ELSE ia2_decisions[a]
  BY DEF Insert
<1> QED BY <1>1, <1>2 DEF SessionInv

\* Every step keeps it.
LEMMA NextSessionInv == IInv /\ SessionInv /\ [Next]_vars => SessionInv'
<1> SUFFICES ASSUME IInv, SessionInv, [Next]_vars PROVE SessionInv'
  OBVIOUS
<1>1. CASE UNCHANGED <<package, ia2_decisions>>
  BY <1>1 DEF SessionInv, Signers, Ids
<1>2. ASSUME NEW i \in Identifier, IA2(i) PROVE SessionInv'
  <2>1. i \in Signers /\ TypeOK
    BY <1>2 DEF IA2, Honest, IInv
  <2> DEFINE d == IA2Decision(package, ia1_messages, held[i])
  <2>2. DOMAIN d.opened_pairwise_keys \subseteq Signers
    BY DEF IA2Decision, Signers
  <2>3. UNCHANGED package
    BY <1>2 DEF IA2, session
  <2> HIDE DEF d
  <2>4. CASE ia2_decisions' = Insert(ia2_decisions, i, d)
    BY <2>1, <2>2, <2>3, <2>4, DecisionPreservesSession
  <2>5. UNCHANGED ia2_decisions \/ ia2_decisions' = Insert(ia2_decisions, i, d)
    BY <1>2 DEF IA2, d
  <2> QED BY <1>1, <2>3, <2>4, <2>5
<1>3. ASSUME NEW i \in Identifier, FaultyIA2(i) PROVE SessionInv'
  <2>1. i \in Signers /\ UNCHANGED package
    BY <1>3 DEF FaultyIA2, session
  <2>2. PICK d \in FaultyIA2Decisions(i) : ia2_decisions' = Insert(ia2_decisions, i, d)
    BY <1>3 DEF FaultyIA2
  <2>3. ~ OutsideOpenings => DOMAIN d.opened_pairwise_keys \subseteq Signers
    BY <2>2 DEF FaultyIA2Decisions
  <2> QED BY <2>1, <2>2, <2>3, DecisionPreservesSession
<1>4. UNCHANGED <<package, ia2_decisions>> \/ \E i \in Identifier : IA2(i) \/ FaultyIA2(i)
  BY DEF Next, vars, session, PublishShare, PublishFaultyShare, AggregateShares, IA1,
         FaultyIA1, CloseIA1, Adjudicate, Terminated
<1> QED BY <1>1, <1>2, <1>3, <1>4

\* It holds of every reachable state.
LEMMA SessionInvariance == Spec => []SessionInv
  BY Invariance, InitSessionInv, NextSessionInv, PTL DEF Spec

\* decide names parties outside the session only on the keys that decisions open
\* to them, which its second loop does not check against the signers.
THEOREM SignersNamed ==
  ASSUME ~ OutsideOpenings
  PROVE  Spec => []OnlySignersNamed
<1>1. ASSUME IInv, SessionInv PROVE OnlySignersNamed
  <2> DEFINE pk == keys.pubkeys
  <2>1. CASE phase # "decided"
    BY <1>1, <2>1 DEF IInv, Verdict, OnlySignersNamed
  <2>2. CASE phase = "decided"
    <3>1. malicious = Decide(package, pk, signature_shares, ia1_messages, ia2_decisions)
      BY <1>1, <2>2 DEF IInv, Verdict
    <3>2. NamedByProof(package, pk, signature_shares, ia1_messages) \subseteq Signers
      BY DEF NamedByProof, Signers
    <3>3. ASSUME NEW a \in DOMAIN ia2_decisions,
                 NEW p \in DOMAIN ia2_decisions[a].opened_pairwise_keys
          PROVE  NamedByOpening(package, pk, signature_shares, ia1_messages, a, p,
                                ia2_decisions[a].opened_pairwise_keys[p]) \subseteq Signers
      <4>1. a \in Signers /\ p \in Signers
        BY <1>1 DEF IInv, TypeOK, SessionInv
      <4> QED BY <4>1 DEF NamedByOpening
    <3>4. NamedByOpenings(package, pk, signature_shares, ia1_messages, ia2_decisions)
             \subseteq Signers
      BY <3>3 DEF NamedByOpenings
    <3>5. \A x \in Signers, y \in Signers :
             NamedByPair(ia1_messages, ia2_decisions, x, y) \subseteq Signers
      BY DEF NamedByPair
    <3>6. NamedByPairs(package, ia1_messages, ia2_decisions) \subseteq Signers
      BY <3>5 DEF NamedByPairs, Signers
    <3> QED BY <3>1, <3>2, <3>4, <3>6 DEF Decide, OnlySignersNamed
  <2> QED BY <2>1, <2>2
<1> QED BY <1>1, Invariance, SessionInvariance, PTL

-----------------------------------------------------------------------------
(* The refinement of AccountableSigning.                                   *)

\* A session starts without a result and with nobody accused.
LEMMA AccountableInit == Init => Accountable!Init
<1> SUFFICES ASSUME Init PROVE Accountable!Init
  OBVIOUS
<1>1. Signers \subseteq Identifier
  BY InitIInv, SignersFacts DEF IInv
<1> QED BY <1>1 DEF Init, Accountable!Init

\* Aggregation concludes the session: when none of its signers is faulty, the
\* shares are those of `sign` and the signature verifies.
LEMMA AggregationConcludes ==
  ASSUME LoneFaultSessions, IInv, IInv', FaithfulSharesSign', SessionInv, AggregateShares
  PROVE  Accountable!Conclude
<1>1. outcome = "none"
  BY DEF IInv, OutcomeKept, AggregateShares
<1>2. UNCHANGED <<Signers, malicious>>
  BY DEF AggregateShares, session, Signers
<1>3. outcome' \in Accountable!Failures \cup {"valid"}
  <2>1. outcome' = Outcome(signature_shares)
    BY DEF AggregateShares
  <2>2. AggregateResult(package, signature_shares) \in
           {"Ok", "ShareCountMismatch", "InconsistentAggregateNonce", "NoSignatureShares"}
    BY DEF AggregateResult
  <2> QED BY <2>1, <2>2 DEF Outcome, Accountable!Failures
<1>4. Signers \cap Faulty = {} => outcome' = "valid"
  <2> SUFFICES ASSUME Signers \cap Faulty = {} PROVE outcome' = "valid"
    OBVIOUS
  <2>1. /\ phase' # "sign"
        /\ UNCHANGED <<keys, held, nonces, package, signature_shares>>
    BY DEF AggregateShares, session
  <2>2. Signers # {} /\ Cardinality(Signers) >= MinSigners
    BY DEF LoneFaultSessions, SessionInv
  <2>3. Honest = Signers /\ Signers' = Signers /\ Honest' = Honest
    BY <1>2 DEF Honest
  <2>4. Signers \subseteq DOMAIN signature_shares
    BY <2>3 DEF AggregateShares, Awaited
  <2>5. DOMAIN signature_shares \subseteq Signers
    BY DEF IInv, TypeOK
  <2>6. \A i \in Signers :
           signature_shares[i] = Sign(package, nonces[i], keys.shares[i], keys.pubkeys)
    BY <2>3, <2>4 DEF IInv, HonestShares
  <2> QED BY <2>1, <2>2, <2>3, <2>4, <2>5, <2>6 DEF FaithfulSharesSign
<1> QED BY <1>1, <1>2, <1>3, <1>4 DEF Accountable!Conclude

\* decide accuses, once: whom it names is a signer and faulty.
LEMMA DecisionAccuses ==
  ASSUME LoneFaultSessions, IInv, LoneFaultNamesNoHonestSigner', OnlySignersNamed',
         SessionInv, Adjudicate
  PROVE  [Accountable!Accuse]_(Accountable!vars)
<1>1. malicious = {} /\ phase = "ia2"
  BY DEF IInv, Verdict, Adjudicate
<1>2. outcome # "none"
  <2>1. outcome = Outcome(signature_shares)
    BY <1>1 DEF IInv, OutcomeKept
  <2>2. AggregateResult(package, signature_shares) # "none"
    BY DEF AggregateResult
  <2> QED BY <2>1, <2>2 DEF Outcome
<1>3. UNCHANGED <<Signers, Honest, outcome>>
  BY DEF Adjudicate, session, Signers, Honest
<1>4. Cardinality(Signers \cap Faulty) <= 1
  BY DEF LoneFaultSessions, SessionInv
<1>5. malicious' \subseteq Signers
  BY <1>3 DEF OnlySignersNamed
<1>6. malicious' \cap Honest = {}
  BY <1>3, <1>4 DEF LoneFaultNamesNoHonestSigner
<1>7. malicious' \in SUBSET (Signers \cap Faulty)
  BY <1>5, <1>6 DEF Honest
<1>8. CASE malicious' = {}
  BY <1>1, <1>3, <1>8 DEF Accountable!vars
<1>9. CASE malicious' # {}
  BY <1>1, <1>2, <1>3, <1>7, <1>9 DEF Accountable!Accuse
<1> QED BY <1>8, <1>9

\* Every other step leaves the signers, the result and the accused.
LEMMA AccountableStep ==
  ASSUME LoneFaultSessions, IInv, IInv', SessionInv, FaithfulSharesSign',
         LoneFaultNamesNoHonestSigner', OnlySignersNamed', [Next]_vars
  PROVE  [Accountable!Next]_(Accountable!vars)
<1>1. CASE AggregateShares
  BY <1>1, AggregationConcludes DEF Accountable!Next
<1>2. CASE Adjudicate
  BY <1>2, DecisionAccuses DEF Accountable!Next
<1>3. CASE UNCHANGED <<package, outcome, malicious>>
  BY <1>3 DEF Accountable!vars, Signers
<1> QED
  BY <1>1, <1>2, <1>3 DEF Next, vars, session, PublishShare, PublishFaultyShare, IA1,
         FaultyIA1, CloseIA1, IA2, FaultyIA2, Terminated

\* A session of enough signers, one of them faulty at most and opening keys of the
\* signers only, does what AccountableSigning allows: it fails only with a faulty
\* signer among them, and names no other, and once.
THEOREM SessionImplementsAccountableSigning ==
  ASSUME LoneFaultSessions
  PROVE  Spec => ImplementsAccountableSigning
<1>1. Spec => Accountable!Init
  BY AccountableInit, PTL DEF Spec
<1>2. Spec => []OnlySignersNamed
  BY SignersNamed DEF LoneFaultSessions
<1>3. Spec => [][Accountable!Next]_(Accountable!vars)
  BY <1>2, Invariance, SessionInvariance, FaithfulShares, LoneFaultAccuracy, AccountableStep,
     PTL DEF Spec
<1> QED BY <1>1, <1>3 DEF ImplementsAccountableSigning, Accountable!Safety
=============================================================================
