-------------------------------- MODULE Redeal --------------------------------
(***************************************************************************)
(* A signing session while the key is dealt anew.  Every call of           *)
(* generate_with_dealer_from_key_yaml (src/src/keygen.rs) deals the stored *)
(* secret again, with other coefficients, blindings and pairwise keys, so  *)
(* each program that is started has packages of a deal of its own.  The    *)
(* calls take the key package and the public keys as arguments, and say    *)
(* nothing about the deal they are of.                                     *)
(*                                                                         *)
(* Every signer follows the code; it gets hold of a package of a later     *)
(* deal at any moment, and so does whoever decides.                        *)
(***************************************************************************)
EXTENDS IaRounds

CONSTANTS
    SecretKey,      \* the secret in the key file
    Random,         \* what the dealer draws, deal by deal
    Deals,          \* the numbers of the deals, DOMAIN Random; 1 is the first
    Signers,        \* the signers of the session
    SignerNonces,   \* their nonces
    Message         \* what they sign

ASSUME SessionAssumption ==
    /\ SecretKey \in Scalar
    /\ 1 \in Deals /\ Deals \subseteq Nat \ {0}
    /\ Random \in [Deals -> Randomness]
    \* The signers are as many as the threshold asks for.
    /\ Signers \subseteq Identifier /\ Signers # {}
    /\ Cardinality(Signers) >= MinSigners
    /\ SignerNonces \in [Signers -> [d : Scalar, e : Scalar]]
    /\ Message \in Messages

VARIABLES
    holds,       \* the deal of the key package each signer has
    signed,      \* the deal it has signed with, and likewise
    proved,      \*   run ia1 with
    opened,      \*   run ia2 with; 0 when it has not
    all_shares,  \* signature_shares
    messages,    \* ia1_messages
    decisions,   \* ia2_decisions
    outcome,     \* how the signature verified
    judge,       \* the deal of the public keys decide was given, or 0
    malicious    \* what decide returned

sessionvars == <<holds, signed, proved, opened, all_shares, messages, decisions,
                 outcome, judge, malicious>>

-----------------------------------------------------------------------------

Keys(n) == GenerateWithDealer(SecretKey, Random[n])

\* The SigningPackage.
session ==
    [message |-> Message,
     signing_commitments |-> [i \in Signers |-> Commitment(SignerNonces[i])]]

\* The public keys a signer is given come with its key package.
Package(i) == Keys(holds[i]).shares[i]
Pubkeys(i) == Keys(holds[i]).pubkeys

SessionInit ==
    /\ holds = [i \in Signers |-> 1]
    /\ signed = [i \in Signers |-> 0]
    /\ proved = [i \in Signers |-> 0]
    /\ opened = [i \in Signers |-> 0]
    /\ all_shares = EmptyMap /\ messages = EmptyMap /\ decisions = EmptyMap
    /\ outcome = "none"
    /\ judge = 0
    /\ malicious = {}

\* The signer is started again, after another deal.
Restart(i) ==
    /\ judge = 0
    /\ \E n \in Deals : n > holds[i] /\ holds' = [holds EXCEPT ![i] = n]
    /\ UNCHANGED <<signed, proved, opened, all_shares, messages, decisions,
                   outcome, judge, malicious>>

\* Signing round 2.
SignRound(i) ==
    /\ signed[i] = 0
    /\ SignResult(session, SignerNonces[i], Package(i), Pubkeys(i)) = "Ok"
    /\ all_shares' = Insert(all_shares, i,
                            Sign(session, SignerNonces[i], Package(i), Pubkeys(i)))
    /\ signed' = [signed EXCEPT ![i] = holds[i]]
    /\ UNCHANGED <<holds, proved, opened, messages, decisions, outcome, judge, malicious>>

\* The verifying key is the same in every deal.
AggregateShares ==
    /\ outcome = "none"
    /\ DOMAIN all_shares = Signers
    /\ AggregateResult(session, all_shares) = "Ok"
    /\ outcome' = IF Verify(Aggregate(all_shares), Message, Keys(1).pubkeys)
                  THEN "valid" ELSE "invalid"
    /\ UNCHANGED <<holds, signed, proved, opened, all_shares, messages, decisions,
                   judge, malicious>>

\* IA round 1.
IA1(i) ==
    /\ outcome # "none"
    /\ proved[i] = 0
    /\ IA1Result(session, all_shares[i], Package(i)) = "Ok"
    /\ messages' = Insert(messages, i,
                          IA1Message(session, all_shares[i], Package(i), Pubkeys(i), all_shares))
    /\ proved' = [proved EXCEPT ![i] = holds[i]]
    /\ UNCHANGED <<holds, signed, opened, all_shares, decisions, outcome, judge, malicious>>

\* IA round 2.
IA2(i) ==
    /\ DOMAIN messages = Signers
    /\ opened[i] = 0
    /\ ~ IA2Fails(session, messages, i)
    /\ decisions' = Insert(decisions, i, IA2Decision(session, messages, Package(i)))
    /\ opened' = [opened EXCEPT ![i] = holds[i]]
    /\ UNCHANGED <<holds, signed, proved, all_shares, messages, outcome, judge, malicious>>

\* decide, with the public keys of any deal.
Adjudicate ==
    /\ judge = 0
    /\ DOMAIN decisions = Signers
    /\ judge' \in Deals
    /\ malicious' = Decide(session, Keys(judge').pubkeys, all_shares, messages, decisions)
    /\ UNCHANGED <<holds, signed, proved, opened, all_shares, messages, decisions, outcome>>

Decided == judge # 0 /\ UNCHANGED sessionvars

SessionNext ==
    \/ \E i \in Signers : Restart(i) \/ SignRound(i) \/ IA1(i) \/ IA2(i)
    \/ AggregateShares \/ Adjudicate \/ Decided

SessionSpec == SessionInit /\ [][SessionNext]_sessionvars

-----------------------------------------------------------------------------
(* What is left to chance.                                                 *)

\* The z of the share signer i makes with its packages of deal n.
ShareOf(n, i) == Sign(session, SignerNonces[i], Keys(n).shares[i], Keys(n).pubkeys).z

\* No signer makes the same share with two deals, or is committed to the same
\* values: what the dealer draws and what is hashed is as seldom the same as any
\* two random scalars.
DealsDiffer ==
    \A m, n \in Deals, i \in Signers :
        LET vk(d) == Keys(d).pubkeys.partial_verification_keys[i]
        IN  m # n =>
              /\ ShareOf(m, i) # ShareOf(n, i)
              /\ vk(m).signing_share_commitment # vk(n).signing_share_commitment
              /\ \A j \in Signers \ {i} :
                    vk(m).pairwise_key_commitments[j] # vk(n).pairwise_key_commitments[j]

\* The shares of several deals do not add up to what those of one add up to.
MixturesDiffer ==
    \A deal \in [Signers -> Deals] :
        Sum([i \in Signers |-> ShareOf(deal[i], i)]) = Sum([i \in Signers |-> ShareOf(1, i)])
            => \A i, j \in Signers : deal[i] = deal[j]

-----------------------------------------------------------------------------
(* Properties.                                                             *)

\* The types of the variables.
SessionTypeOK ==
    /\ holds \in [Signers -> Deals]
    /\ {signed, proved, opened} \subseteq [Signers -> Deals \cup {0}]
    /\ \A i \in DOMAIN all_shares : i \in Signers /\ all_shares[i] \in SignatureShares
    /\ DOMAIN messages \subseteq Signers /\ DOMAIN decisions \subseteq Signers
    /\ outcome \in {"none", "valid", "invalid"}
    /\ judge \in Deals \cup {0}
    /\ malicious \subseteq Signers

\* Shares of one deal sign, whichever it is; shares of several deals do not,
\* although each is made as it should be and the deals have the same verifying
\* key, unless MixturesDiffer fails.
OnlyOneDealSigns ==
    outcome # "none" =>
        (outcome = "valid" <=> \A i, j \in Signers : signed[i] = signed[j])

\* The commitments of i to its blinding values and those of its peers differ.
Disputes(i) == \E j \in Signers \ {i} : C(messages, i, j) # C(messages, j, i)

\* The signers that have gone with another deal than n, if only in one of the
\* calls.
WithOtherDeals(n) ==
    {i \in Signers : signed[i] # n \/ proved[i] # n \/ (opened[i] # n /\ Disputes(i))}

\* decide names exactly the signers that have gone with another deal than the
\* one it was given: a signer that was restarted in the middle of a session, and
\* all the signers when whoever decides has read the key file again.  The
\* packages of the deal being the same throughout, no peer that was restarted
\* gets a signer named that was not; that the others are named is left to
\* DealsDiffer.
NamesOtherDeals == judge # 0 => malicious = WithOtherDeals(judge)
=============================================================================
