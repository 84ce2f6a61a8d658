------------------------------- MODULE Signing -------------------------------
(***************************************************************************)
(* The two signing rounds over several sessions (src/src/sign.rs).  Every  *)
(* party runs the code; a coordinator puts signing packages together from  *)
(* any commitments published so far, old ones too, and whoever aggregates  *)
(* may mix up the shares of the sessions.                                  *)
(***************************************************************************)
EXTENDS FaFrost, Sequences

CONSTANTS
    Dealings,     \* the dealer's choices: [secret_key, random]
    Draws,        \* the nonces each party draws, in their order
    MaxPackages   \* bound: the packages issued

ASSUME SigningAssumption ==
    /\ Dealings \subseteq [secret_key : Scalar, random : Randomness]
    /\ Draws \in [Identifier -> Seq([d : Scalar, e : Scalar])]
    /\ MaxPackages \in Nat

VARIABLES
    keys,        \* what the dealer returned: [shares, pubkeys]
    commits,     \* how often each party has called commit
    packages,    \* the SigningPackages issued
    shares,      \* what sign has returned: [package, share]
    signatures   \* what was aggregated and how it ended

vars == <<keys, commits, packages, shares, signatures>>

-----------------------------------------------------------------------------

\* The nonces a party holds are those it has drawn last: the caller drops the
\* old ones, which zeroizes them.
HeldNonces(i) == Draws[i][commits[i]]

\* The commitments a party has published, old ones included.
Published(i) == {Commitment(Draws[i][n]) : n \in 1..commits[i]}

PackagesFor(S) ==
    {[message |-> m, signing_commitments |-> comm] :
        m \in Messages,
        comm \in {f \in [S -> UNION {Published(i) : i \in S}] :
                     \A i \in S : f[i] \in Published(i)}}

\* Aggregating for `package` the share of each signer i for the session
\* from[i], and verifying the signature for the message of `package`.
Collected(from) ==
    [i \in DOMAIN from |->
        (CHOOSE s \in shares : s.package = from[i] /\ s.share.identifier = i).share]

Aggregated(package, from) ==
    LET result == AggregateResult(package, Collected(from))
    IN  [package |-> package,
         from    |-> from,
         result  |-> result,
         valid   |-> result = "Ok" /\ Verify(Aggregate(Collected(from)),
                                             package.message, keys.pubkeys)]

-----------------------------------------------------------------------------

Init ==
    /\ \E dealing \in Dealings :
          keys = GenerateWithDealer(dealing.secret_key, dealing.random)
    /\ commits = [i \in Identifier |-> 0]
    /\ packages = {}
    /\ shares = {}
    /\ signatures = {}

\* Signing round 1: the party draws nonces and publishes their commitments.
Commit(i) ==
    /\ commits[i] < Len(Draws[i])
    /\ commits' = [commits EXCEPT ![i] = @ + 1]
    /\ UNCHANGED <<keys, packages, shares, signatures>>

\* The coordinator fixes a message, a set of signers and their commitments.
IssuePackage ==
    /\ Cardinality(packages) < MaxPackages
    /\ \E S \in SUBSET {i \in Identifier : commits[i] > 0} :
          \E package \in PackagesFor(S) : packages' = packages \cup {package}
    /\ UNCHANGED <<keys, commits, shares, signatures>>

\* Signing round 2.  A call that returns an error changes nothing.
SignPackage(i) ==
    /\ commits[i] > 0
    /\ \E package \in packages :
          /\ SignResult(package, HeldNonces(i), keys.shares[i], keys.pubkeys) = "Ok"
          /\ shares' = shares \cup
                {[package |-> package,
                  share   |-> Sign(package, HeldNonces(i), keys.shares[i], keys.pubkeys)]}
    /\ UNCHANGED <<keys, commits, packages, signatures>>

\* The shares of some signers, from whichever sessions, are aggregated for one
\* package.  (One aggregation is looked at in each behaviour.)
AggregateSome ==
    /\ signatures = {}
    /\ \E package \in packages, S \in SUBSET {s.share.identifier : s \in shares} :
          \E from \in [S -> packages] :
             /\ \A i \in S : \E s \in shares :
                   s.package = from[i] /\ s.share.identifier = i
             /\ signatures' = {Aggregated(package, from)}
    /\ UNCHANGED <<keys, commits, packages, shares>>

Next ==
    \/ \E i \in Identifier : Commit(i) \/ SignPackage(i)
    \/ IssuePackage \/ AggregateSome

Spec == Init /\ [][Next]_vars

-----------------------------------------------------------------------------
(* Properties.                                                             *)

\* The types of the variables.
TypeOK ==
    /\ commits \in [Identifier -> Nat]
    /\ \A i \in Identifier : commits[i] <= Len(Draws[i])
    /\ packages \subseteq SigningPackages
    /\ shares \subseteq [package : packages, share : SignatureShares]
    /\ \A s \in signatures : s.package \in packages /\ s.valid \in BOOLEAN

\* Whichever commitments the coordinator has picked, once every signer of a
\* package has signed it, and min_signers of them or more, its shares aggregate
\* to a signature that verifies: no stale commitment is ever signed for, the
\* blinding values cancel, the interpolation gives the secret key, and the
\* nonces have the sign of the normalised R.
CompleteSessionVerifies ==
    \A s \in signatures :
        /\ DOMAIN s.from = Ids(s.package)
        /\ Ids(s.package) # {}
        /\ \A i \in DOMAIN s.from : s.from[i] = s.package
        /\ Cardinality(Ids(s.package)) >= MinSigners
        => s.result = "Ok" /\ s.valid

\* What ValidSignsOneSession asks of chance where there are messages to be told
\* apart: they have different challenges, and the secret key is not zero (a zero
\* key verifies R = z for every message).
MessagesKeptApart ==
    \A m, n \in Messages :
        m # n =>
            /\ \A vk, R \in Scalar : Hsig(vk, R, m) # Hsig(vk, R, n)
            /\ \A dealing \in Dealings : dealing.secret_key # 0

\* A signature that verifies is made of the shares of one package, and when
\* they are all the shares of enough signers it is the signature of its message:
\* shares of different sessions do not add up to one, and a session does not
\* sign the message of another.  (As far as the packages have different nonces;
\* in a small field, some of the shares may verify by chance.)
ValidSignsOneSession ==
    \A s \in signatures :
        /\ s.valid
        /\ \A p, q \in packages :
              NormalizeShareR(AggregateNonce(p, keys.pubkeys), 0).R
                  = NormalizeShareR(AggregateNonce(q, keys.pubkeys), 0).R => p = q
        => \E p \in packages :
              /\ \A i \in DOMAIN s.from : s.from[i] = p
              /\ DOMAIN s.from = Ids(p) /\ Cardinality(Ids(p)) >= MinSigners
                    => p.message = s.package.message

\* What ThresholdNeeded asks of the dealer's randomness, besides NoZeroChallenge:
\* the polynomials have their full degree.  It fails as seldom as a random
\* scalar is zero.
FullDegree ==
    \A dealing \in Dealings :
        LET coeffs == dealing.random.coeffs
        IN  MinSigners \in DOMAIN coeffs => coeffs[MinSigners] # 0

\* Signers that are one short of the threshold sign, since the code does not
\* compare their number with min_signers, but make no signature that verifies:
\* min_signers is the number of coefficients.
ThresholdNeeded ==
    \A s \in signatures :
        /\ s.valid
        /\ \A i \in DOMAIN s.from : s.from[i] = s.package
        => Cardinality(Ids(s.package)) # MinSigners - 1
=============================================================================
