-------------------------- MODULE IdentifiableAbort --------------------------
(***************************************************************************)
(* A signing session that may end in an identified abort.  The driver (the *)
(* tests of src/tests/protocol.rs are the only ones) collects the shares   *)
(* of the signers, aggregates and verifies them, and then may run the two  *)
(* rounds ia1 and ia2 and decide.  It hands every signer the same maps,    *)
(* and opens a round when the one before is closed.                        *)
(*                                                                         *)
(* The signers of Faulty deviate: they hold a wrong pairwise key, publish  *)
(* a share that is off, commit under a view that is not everybody's, copy  *)
(* what another signer has sent, open keys at will, or fail to answer in a *)
(* round.  All others run the code.                                        *)
(***************************************************************************)
EXTENDS IaRounds

CONSTANTS
    Dealings,      \* the dealer's choices: [secret_key, random]
    SignerSets,    \* the sets of signers of a session
    Nonces,        \* the nonces the signers may draw
    Faulty,        \* the parties that may deviate
    WrongKeys,     \* the keys a faulty signer may hold instead of a dealt one
    ZOffsets,      \* what a faulty signer may add to the z of its share
    ROffsets,      \* ... and to its R
    MayOmit,       \* whether a faulty signer may fail to answer
    OutsideOpenings  \* whether it may open keys of parties that do not sign

ASSUME DealingsAssumption ==
    Dealings \subseteq [secret_key : Scalar, random : Randomness]
ASSUME SessionAssumption ==
    /\ SignerSets \subseteq SUBSET Identifier
    /\ Nonces \subseteq [Identifier -> [d : Scalar, e : Scalar]]
ASSUME FaultAssumption ==
    /\ WrongKeys \subseteq PairwiseKeys
    /\ ZOffsets \subseteq Scalar /\ ROffsets \subseteq Scalar
    /\ MayOmit \in BOOLEAN /\ OutsideOpenings \in BOOLEAN

VARIABLES
    keys,              \* what the dealer returned: [shares, pubkeys]
    held,              \* the key package each signer works with
    nonces,            \* its SigningNonces
    package,           \* the SigningPackage of the session
    phase,             \* the round the driver is in
    outcome,           \* how aggregation and verification ended
    signature_shares,  \* BTreeMap<Identifier, SignatureShare>
    ia1_messages,      \* BTreeMap<Identifier, IA1Message>
    ia2_decisions,     \* BTreeMap<Identifier, IA2Decision>
    ia2_errors,        \* the signers whose ia2 returned an error
    malicious          \* what decide returned

session == <<keys, held, nonces, package>>
vars == <<session, phase, outcome, signature_shares, ia1_messages,
          ia2_decisions, ia2_errors, malicious>>

Signers == Ids(package)
Honest  == Signers \ Faulty

-----------------------------------------------------------------------------
(* What the driver computes.                                               *)

\* aggregate, and verify when it returns a signature.
Outcome(shares) ==
    LET result == AggregateResult(package, shares)
    IN  IF result # "Ok" THEN result
        ELSE IF Verify(Aggregate(shares), package.message, keys.pubkeys)
             THEN "valid" ELSE "invalid"

\* The signers a round waits for: a signer that may omit its answer is timed
\* out at any moment.
Awaited == IF MayOmit THEN Honest ELSE Signers

-----------------------------------------------------------------------------
(* How a faulty signer deviates.                                           *)

FaultyKeyPackages(key_package) ==
    {key_package} \cup
    {[key_package EXCEPT !.pairwise_keys[j] = k] :
        j \in DOMAIN key_package.pairwise_keys, k \in WrongKeys}

Offset(share, dz, dR) ==
    [identifier |-> share.identifier, R |-> Add(share.R, dR), z |-> Add(share.z, dz)]

\* Its own share, off by something, or a copy of another signer's.
FaultyShares(i) ==
    LET share == Sign(package, nonces[i], held[i], keys.pubkeys)
    IN  {Offset(share, dz, dR) : dz \in ZOffsets, dR \in ROffsets}
        \cup {signature_shares[j] : j \in DOMAIN signature_shares}

\* Its messages: a copy of another signer's, or ia1 run with either key
\* package and either view of the shares, perhaps without some commitments.
FaultyIA1Messages(i) ==
    LET own     == IF i \in DOMAIN signature_shares THEN signature_shares[i]
                   ELSE Sign(package, nonces[i], held[i], keys.pubkeys)
        views   == {signature_shares, Insert(EmptyMap, i, own)}
        correct == {IA1Message(package, own, kp, keys.pubkeys, view) :
                       kp \in {keys.shares[i], held[i]}, view \in views}
        copies  == {ia1_messages[j] : j \in DOMAIN ia1_messages}
    IN  correct \cup copies \cup
        {[m EXCEPT !.blinding_commitments = [j \in T |-> m.blinding_commitments[j]]] :
            m \in correct, T \in IF MayOmit THEN SUBSET (Signers \ {i}) ELSE {}}

FaultyIA2Decisions(i) ==
    LET targets == (IF OutsideOpenings THEN Identifier ELSE Signers) \ {i}
    IN  {[identifier |-> i, opened_pairwise_keys |-> [j \in T |-> kp.pairwise_keys[j]]] :
            T \in SUBSET targets, kp \in {keys.shares[i], held[i]}}

-----------------------------------------------------------------------------

\* The dealer has dealt, the signers have drawn and published their nonces,
\* and the driver has issued the package.  (A nonce sum or a key of zero, for which
\* a BIP-340 challenge panics, comes up with a probability of 1/Q.)
Init ==
    /\ \E dealing \in Dealings :
          keys = GenerateWithDealer(dealing.secret_key, dealing.random)
    /\ \E S \in SignerSets, ns \in Nonces, message \in Messages :
          /\ nonces = [i \in S |-> ns[i]]
          /\ package = [message |-> message,
                        signing_commitments |-> [i \in S |-> Commitment(ns[i])]]
    /\ ~ ChallengePanics(keys.pubkeys.verifying_key, AggregateNonce(package, keys.pubkeys))
    /\ held \in {h \in [Signers -> UNION {FaultyKeyPackages(keys.shares[i]) : i \in Signers}] :
                    \A i \in Signers :
                        h[i] \in IF i \in Faulty THEN FaultyKeyPackages(keys.shares[i])
                                                 ELSE {keys.shares[i]}}
    /\ phase = "sign"
    /\ outcome = "none"
    /\ signature_shares = EmptyMap
    /\ ia1_messages = EmptyMap
    /\ ia2_decisions = EmptyMap
    /\ ia2_errors = {}
    /\ malicious = {}

\* Signing round 2.
PublishShare(i) ==
    /\ phase = "sign"
    /\ i \in Honest \ DOMAIN signature_shares
    /\ SignResult(package, nonces[i], held[i], keys.pubkeys) = "Ok"
    /\ signature_shares' =
           Insert(signature_shares, i, Sign(package, nonces[i], held[i], keys.pubkeys))
    /\ UNCHANGED <<session, phase, outcome, ia1_messages, ia2_decisions, ia2_errors, malicious>>

PublishFaultyShare(i) ==
    /\ phase = "sign"
    /\ i \in (Signers \cap Faulty) \ DOMAIN signature_shares
    /\ \E share \in FaultyShares(i) :
          signature_shares' = Insert(signature_shares, i, share)
    /\ UNCHANGED <<session, phase, outcome, ia1_messages, ia2_decisions, ia2_errors, malicious>>

\* The driver aggregates and verifies.  A session that signed may end, or run
\* the identifiable abort all the same (ia_no_false_accusation does).
AggregateShares ==
    /\ phase = "sign"
    /\ Awaited \subseteq DOMAIN signature_shares
    /\ outcome' = Outcome(signature_shares)
    /\ phase' \in IF outcome' = "valid" THEN {"signed", "ia1"} ELSE {"ia1"}
    /\ UNCHANGED <<session, signature_shares, ia1_messages, ia2_decisions, ia2_errors, malicious>>

\* Wrong: the signer hashes its own share instead of the shares collected.
IA1OwnView(i) ==
    /\ phase = "ia1"
    /\ i \in Honest \ DOMAIN ia1_messages
    /\ ia1_messages' =
           Insert(ia1_messages, i, IA1Message(package, signature_shares[i], held[i], keys.pubkeys,
                                              Insert(EmptyMap, i, signature_shares[i])))
    /\ UNCHANGED <<session, phase, outcome, signature_shares, ia2_decisions, ia2_errors, malicious>>

\* IA round 1.
IA1(i) ==
    /\ phase = "ia1"
    /\ i \in Honest \ DOMAIN ia1_messages
    /\ IA1Result(package, signature_shares[i], held[i]) = "Ok"
    /\ ia1_messages' =
           Insert(ia1_messages, i, IA1Message(package, signature_shares[i], held[i],
                                              keys.pubkeys, signature_shares))
    /\ UNCHANGED <<session, phase, outcome, signature_shares, ia2_decisions, ia2_errors, malicious>>

FaultyIA1(i) ==
    /\ phase = "ia1"
    /\ i \in (Signers \cap Faulty) \ DOMAIN ia1_messages
    /\ \E message \in FaultyIA1Messages(i) :
          ia1_messages' = Insert(ia1_messages, i, message)
    /\ UNCHANGED <<session, phase, outcome, signature_shares, ia2_decisions, ia2_errors, malicious>>

\* Wrong: the round is closed before everybody has answered.
CloseIA1Early ==
    /\ phase = "ia1"
    /\ phase' = "ia2"
    /\ UNCHANGED <<session, outcome, signature_shares, ia1_messages, ia2_decisions, ia2_errors, malicious>>

CloseIA1 ==
    /\ phase = "ia1"
    /\ Awaited \subseteq DOMAIN ia1_messages
    /\ phase' = "ia2"
    /\ UNCHANGED <<session, outcome, signature_shares, ia1_messages, ia2_decisions, ia2_errors, malicious>>

\* Wrong: a signer whose ia2 fails has the first round run again.
IA2Retrying(i) ==
    /\ phase = "ia2"
    /\ i \in Honest \ DOMAIN ia2_decisions
    /\ IF IA2Fails(package, ia1_messages, i)
       THEN phase' = "ia1" /\ UNCHANGED ia2_decisions
       ELSE /\ ia2_decisions' =
                   Insert(ia2_decisions, i, IA2Decision(package, ia1_messages, held[i]))
            /\ UNCHANGED phase
    /\ UNCHANGED <<session, outcome, signature_shares, ia1_messages, ia2_errors, malicious>>

\* IA round 2.
IA2(i) ==
    /\ phase = "ia2"
    /\ i \in Honest \ (DOMAIN ia2_decisions \cup ia2_errors)
    /\ IF IA2Fails(package, ia1_messages, i)
       THEN /\ ia2_errors' = ia2_errors \cup {i}
            /\ UNCHANGED ia2_decisions
       ELSE /\ ia2_decisions' =
                   Insert(ia2_decisions, i, IA2Decision(package, ia1_messages, held[i]))
            /\ UNCHANGED ia2_errors
    /\ UNCHANGED <<session, phase, outcome, signature_shares, ia1_messages, malicious>>

FaultyIA2(i) ==
    /\ phase = "ia2"
    /\ i \in (Signers \cap Faulty) \ DOMAIN ia2_decisions
    /\ \E decision \in FaultyIA2Decisions(i) :
          ia2_decisions' = Insert(ia2_decisions, i, decision)
    /\ UNCHANGED <<session, phase, outcome, signature_shares, ia1_messages, ia2_errors, malicious>>

\* The driver decides.
Adjudicate ==
    /\ phase = "ia2"
    /\ Awaited \subseteq DOMAIN ia2_decisions \cup ia2_errors
    /\ malicious' = Decide(package, keys.pubkeys, signature_shares, ia1_messages, ia2_decisions)
    /\ phase' = "decided"
    /\ UNCHANGED <<session, outcome, signature_shares, ia1_messages, ia2_decisions, ia2_errors>>

\* A session ends signed or decided.
Terminated ==
    /\ phase \in {"signed", "decided"}
    /\ UNCHANGED vars

Next ==
    \/ \E i \in Identifier :
          \/ PublishShare(i) \/ PublishFaultyShare(i)
          \/ IA1(i) \/ FaultyIA1(i)
          \/ IA2(i) \/ FaultyIA2(i)
    \/ AggregateShares \/ CloseIA1 \/ Adjudicate
    \/ Terminated

\* The driver keeps calling: while a call is to be made, one is made.
Spec == Init /\ [][Next]_vars /\ WF_vars(Next)

-----------------------------------------------------------------------------
(* Properties.                                                             *)

\* The types of the variables; the maps only have signers as keys.
TypeOK ==
    /\ \E dealing \in Dealings :
          keys = GenerateWithDealer(dealing.secret_key, dealing.random)
    /\ package \in SigningPackages
    /\ nonces \in [Signers -> [d : Scalar, e : Scalar]]
    /\ DOMAIN held = Signers
    /\ \A i \in Signers : held[i] \in FaultyKeyPackages(keys.shares[i])
    /\ phase \in {"sign", "signed", "ia1", "ia2", "decided"}
    /\ outcome \in {"none", "valid", "invalid", "ShareCountMismatch",
                    "InconsistentAggregateNonce", "NoSignatureShares"}
    /\ DOMAIN signature_shares \subseteq Signers
    /\ \A i \in DOMAIN signature_shares : signature_shares[i] \in SignatureShares
    /\ DOMAIN ia1_messages \subseteq Signers
    /\ \A i \in DOMAIN ia1_messages :
          /\ ia1_messages[i].identifier \in Signers
          /\ DOMAIN ia1_messages[i].blinding_commitments
                \subseteq Signers \ {ia1_messages[i].identifier}
          /\ \A j \in DOMAIN ia1_messages[i].blinding_commitments :
                ia1_messages[i].blinding_commitments[j].value \in Scalar
    /\ DOMAIN ia2_decisions \subseteq Signers
    /\ \A i \in DOMAIN ia2_decisions :
          /\ ia2_decisions[i].identifier = i
          /\ DOMAIN ia2_decisions[i].opened_pairwise_keys \subseteq Identifier \ {i}
    /\ ia2_errors \subseteq Honest
    /\ malicious \subseteq Identifier

\* No signer that followed the code and whose ia2 returned a decision is
\* named, whatever the others sent: decide gets the better of wrong shares,
\* forged openings and commitments under another view.
HonestNotNamed == malicious \cap Honest \cap DOMAIN ia2_decisions = {}

\* One faulty signer alone cannot make decide name an honest one, not even by
\* staying silent so that the ia2 of the honest signers fails.
LoneFaultNamesNoHonestSigner ==
    Cardinality(Signers \cap Faulty) <= 1 => malicious \cap Honest = {}

\* A session of at least min_signers signers in which a share is missing or
\* whose signature does not verify ends with a faulty signer named, if one of
\* its signers follows the code.  (Signers that are all faulty may agree on
\* another R, which no loop of decide looks at.)
AbortNamesFaulty ==
    /\ phase = "decided"
    /\ outcome \in {"invalid", "ShareCountMismatch", "NoSignatureShares"}
    /\ Cardinality(Signers) >= MinSigners
    /\ Honest # {}
    => malicious \cap Faulty # {}

\* The commitments of two honest signers to the blinding value they share are
\* equal, so that neither ever opens the key to the other.
HonestPairsAgree ==
    \A i, j \in Honest \cap DOMAIN ia1_messages :
        i # j => C(ia1_messages, i, j) = C(ia1_messages, j, i)

\* ia2 makes an honest signer open only keys it shares with a faulty one: a
\* session that aborts leaves the pairwise keys of honest signers secret.
OpensOnlyTowardsFaulty ==
    \A i \in Honest \cap DOMAIN ia2_decisions :
        DOMAIN ia2_decisions[i].opened_pairwise_keys \subseteq Faulty

\* Shares that `sign` returned for the dealt keys aggregate to a signature
\* that verifies, when there are at least min_signers of them: the blinding
\* values cancel and the interpolation gives the secret key.
FaithfulSharesSign ==
    /\ phase # "sign"
    /\ DOMAIN signature_shares = Signers
    /\ \A i \in Signers :
          signature_shares[i] = Sign(package, nonces[i], keys.shares[i], keys.pubkeys)
    /\ Signers # {}
    /\ Cardinality(Signers) >= MinSigners
    => outcome = "valid"

\* Every session that does not sign ends with a decision.
AbortIsDecided == (phase = "ia1") ~> (phase = "decided")

\* The session implements AccountableSigning: it fails only through a faulty
\* signer, and names faulty signers only, and once.
Accountable ==
    INSTANCE AccountableSigning
        WITH Parties <- Identifier, signers <- Signers, result <- outcome,
             accused <- malicious
ImplementsAccountableSigning == Accountable!Safety

\* ... and it promises what AccountableSigning does: a result, and when that is
\* a failure of the kinds listed there, a signer who is named.
FailuresAreAttributed == Accountable!Conclusive /\ Accountable!FailureIsAttributed

\* When it does: in sessions of enough signers, of which one at most is faulty and
\* opens keys of the signers only.
LoneFaultSessions ==
    /\ \A S \in SignerSets :
          S # {} /\ Cardinality(S) >= MinSigners /\ Cardinality(S \cap Faulty) <= 1
    /\ ~ OutsideOpenings

-----------------------------------------------------------------------------
(* The inductive invariant: what is left of each step of an honest signer  *)
(* and of the aggregation, and that it is left when decide runs.           *)

HonestShares ==
    \A i \in Honest :
        /\ held[i] = keys.shares[i]
        /\ i \in DOMAIN signature_shares =>
              signature_shares[i] = Sign(package, nonces[i], keys.shares[i], keys.pubkeys)
        /\ phase # "sign" => i \in DOMAIN signature_shares

\* The view an honest signer has hashed is still the map of the shares.
HonestMessages ==
    /\ phase = "sign" => ia1_messages = EmptyMap
    /\ \A i \in Honest :
          /\ i \in DOMAIN ia1_messages =>
                ia1_messages[i] = IA1Message(package, signature_shares[i], keys.shares[i],
                                             keys.pubkeys, signature_shares)
          /\ phase \in {"ia2", "decided"} => i \in DOMAIN ia1_messages

\* The messages an honest signer has compared are still the messages.
HonestDecisions ==
    /\ phase \in {"sign", "signed", "ia1"} => ia2_decisions = EmptyMap /\ ia2_errors = {}
    /\ phase = "decided" => Honest \subseteq DOMAIN ia2_decisions \cup ia2_errors
    /\ \A i \in ia2_errors : IA2Fails(package, ia1_messages, i)
    /\ \A i \in Honest \cap DOMAIN ia2_decisions :
          /\ ~ IA2Fails(package, ia1_messages, i)
          /\ ia2_decisions[i] = IA2Decision(package, ia1_messages, keys.shares[i])

Verdict ==
    malicious = IF phase = "decided"
                THEN Decide(package, keys.pubkeys, signature_shares, ia1_messages, ia2_decisions)
                ELSE {}

NoncesPublished ==
    \A i \in Signers : package.signing_commitments[i] = Commitment(nonces[i])

\* The result is that of the shares which decide is given.
OutcomeKept ==
    outcome = IF phase = "sign" THEN "none" ELSE Outcome(signature_shares)

IInv ==
    /\ TypeOK
    /\ OutcomeKept
    /\ NoncesPublished
    /\ HonestShares
    /\ HonestMessages
    /\ HonestDecisions
    /\ Verdict

-----------------------------------------------------------------------------
(* What the documentation suggests and the code does not do.               *)

\* Every abort of a session of enough signers names a faulty signer.
EveryAbortNamesFaulty ==
    /\ phase = "decided"
    /\ outcome # "valid"
    /\ Cardinality(Signers) >= MinSigners
    => malicious \cap Faulty # {}

\* decide names no honest signer.
NoHonestSignerNamed == malicious \cap Honest = {}

\* decide names signers of the session only.
OnlySignersNamed == malicious \subseteq Signers
=============================================================================
