---------------------------- MODULE Signing_proofs ----------------------------
(***************************************************************************)
(* For every number of parties, threshold, ciphersuite, dealing and draw   *)
(* of nonces: a session whose signers have all signed verifies, one signer *)
(* short of the threshold does not, and sessions do not mix.               *)
(***************************************************************************)
EXTENDS Signing, FaFrost_proofs

\* The key packages are those of one dealing.
KeysDealt ==
    \E dealing \in Dealings :
        keys = GenerateWithDealer(dealing.secret_key, dealing.random)

\* Every share is the one `sign` computes from the nonces committed to in its
\* package: no session has been signed with any other nonces.
SharesSigned ==
    \A s \in shares :
        LET i == s.share.identifier
        IN  /\ s.package \in packages /\ i \in Ids(s.package)
            /\ \E nonces \in [d : Scalar, e : Scalar] :
                  /\ s.package.signing_commitments[i] = Commitment(nonces)
                  /\ s.share = Sign(s.package, nonces, keys.shares[i], keys.pubkeys)

\* What was aggregated are shares there are, one for each signer it lists.
SignaturesCollected ==
    \A s \in signatures :
        \E collected \in [DOMAIN s.from -> {t.share : t \in shares}] :
            /\ \A i \in DOMAIN s.from :
                  /\ [package |-> s.from[i], share |-> collected[i]] \in shares
                  /\ collected[i].identifier = i
            /\ s.result = AggregateResult(s.package, collected)
            /\ s.valid = (s.result = "Ok" /\ Verify(Aggregate(collected),
                                               s.package.message, keys.pubkeys))

\* The inductive invariant.
IInv == TypeOK /\ KeysDealt /\ SharesSigned /\ SignaturesCollected

-----------------------------------------------------------------------------

\* The dealings are of the dealer's choices.
LEMMA KeysFacts ==
  ASSUME KeysDealt
  PROVE  /\ Dealt(keys)
         /\ \E secret_key \in Scalar, random \in Randomness :
               keys = GenerateWithDealer(secret_key, random)
<1>1. PICK dealing \in Dealings :
         keys = GenerateWithDealer(dealing.secret_key, dealing.random)
  BY DEF KeysDealt
<1>2. dealing.secret_key \in Scalar /\ dealing.random \in Randomness
  BY SigningAssumption
<1> QED BY <1>1, <1>2, DealtKeys

\* The nonces a party has drawn are two scalars each.
LEMMA DrawsFacts ==
  ASSUME NEW i \in Identifier, NEW n \in 1..Len(Draws[i])
  PROVE  /\ Draws[i][n] \in [d : Scalar, e : Scalar]
         /\ Commitment(Draws[i][n]) \in SigningCommitments
<1>1. Draws[i] \in Seq([d : Scalar, e : Scalar])
  BY SigningAssumption
<1>2. ASSUME NEW T, NEW q \in Seq(T), NEW k \in 1..Len(q)
      PROVE  q[k] \in T
  OBVIOUS
<1>3. Draws[i][n] \in [d : Scalar, e : Scalar]
  BY <1>1, <1>2
<1> QED BY <1>3 DEF Commitment, SigningCommitments

\* A coordinator's package is a SigningPackage.
LEMMA PackagesForType ==
  ASSUME TypeOK, NEW S \in SUBSET Identifier, NEW package \in PackagesFor(S)
  PROVE  package \in SigningPackages
<1>1. /\ package.message \in Messages
      /\ package = [message |-> package.message,
                    signing_commitments |-> package.signing_commitments]
      /\ package.signing_commitments \in [S -> UNION {Published(i) : i \in S}]
      /\ \A i \in S : package.signing_commitments[i] \in Published(i)
  BY DEF PackagesFor
<1>2. \A i \in S : Published(i) \subseteq SigningCommitments
  <2> SUFFICES ASSUME NEW i \in S, NEW n \in 1..commits[i]
               PROVE  Commitment(Draws[i][n]) \in SigningCommitments
    BY DEF Published
  <2>1. commits[i] \in Nat /\ commits[i] <= Len(Draws[i]) /\ Len(Draws[i]) \in Nat
    BY SigningAssumption DEF TypeOK
  <2> QED BY <2>1, DrawsFacts
<1>3. package.signing_commitments \in [S -> SigningCommitments]
  BY <1>1, <1>2
<1> QED BY <1>1, <1>3 DEF SigningPackages

\* Nothing has been signed at first.
LEMMA InitIInv == Init => IInv
<1> SUFFICES ASSUME Init PROVE IInv
  OBVIOUS
<1>1. TypeOK
  <2>1. \A i \in Identifier : Len(Draws[i]) \in Nat
    BY SigningAssumption
  <2> QED BY <2>1 DEF Init, TypeOK
<1>2. KeysDealt /\ SharesSigned /\ SignaturesCollected
  BY DEF Init, KeysDealt, SharesSigned, SignaturesCollected
<1> QED BY <1>1, <1>2 DEF IInv

\* Committing touches no share.
LEMMA CommitPreserves ==
  ASSUME IInv, NEW i \in Identifier, Commit(i)
  PROVE  IInv'
<1>1. TypeOK'
  <2>1. Len(Draws[i]) \in Nat
    BY SigningAssumption
  <2>2. /\ commits' = [commits EXCEPT ![i] = @ + 1]
        /\ commits[i] + 1 <= Len(Draws[i])
    BY <2>1 DEF IInv, TypeOK, Commit
  <2>3. /\ commits' \in [Identifier -> Nat]
        /\ \A j \in Identifier : commits'[j] <= Len(Draws[j])
    BY <2>2 DEF IInv, TypeOK
  <2> QED BY <2>3 DEF IInv, TypeOK, Commit
<1>2. KeysDealt' /\ SharesSigned' /\ SignaturesCollected'
  BY DEF IInv, Commit, KeysDealt, SharesSigned, SignaturesCollected
<1> QED BY <1>1, <1>2 DEF IInv

\* Issuing a package touches no share.
LEMMA IssuePackagePreserves ==
  ASSUME IInv, IssuePackage
  PROVE  IInv'
<1>1. PICK S \in SUBSET Identifier :
         \E package \in PackagesFor(S) : packages' = packages \cup {package}
  BY DEF IssuePackage
<1>2. PICK package \in PackagesFor(S) : packages' = packages \cup {package}
  BY <1>1
<1>3. package \in SigningPackages
  BY PackagesForType DEF IInv
<1>4. TypeOK'
  BY <1>2, <1>3 DEF IInv, TypeOK, IssuePackage
<1>5. KeysDealt' /\ SharesSigned' /\ SignaturesCollected'
  BY <1>2 DEF IInv, IssuePackage, KeysDealt, SharesSigned, SignaturesCollected
<1> QED BY <1>4, <1>5 DEF IInv

\* `sign` returns a share only for the nonces that its package commits to.
LEMMA SignPackagePreserves ==
  ASSUME IInv, NEW i \in Identifier, SignPackage(i)
  PROVE  IInv'
<1>1. PICK package \in packages :
         /\ SignResult(package, HeldNonces(i), keys.shares[i], keys.pubkeys) = "Ok"
         /\ shares' = shares \cup
               {[package |-> package,
                 share   |-> Sign(package, HeldNonces(i), keys.shares[i], keys.pubkeys)]}
  BY DEF SignPackage
<1>2. PICK share : share = Sign(package, HeldNonces(i), keys.shares[i], keys.pubkeys)
  OBVIOUS
<1>3. UNCHANGED <<keys, commits, packages, signatures>>
  BY DEF SignPackage
<1>4. HeldNonces(i) \in [d : Scalar, e : Scalar]
  <2>1. commits[i] \in 1..Len(Draws[i])
    BY SigningAssumption DEF IInv, TypeOK, SignPackage
  <2> QED BY <2>1, DrawsFacts DEF HeldNonces
<1>5. package \in SigningPackages /\ Dealt(keys) /\ keys.shares[i].identifier = i
  BY KeysFacts DEF IInv, TypeOK, Dealt
<1>6. /\ i \in Ids(package)
      /\ package.signing_commitments[i] = Commitment(HeldNonces(i))
  BY <1>1, <1>5 DEF SignResult
<1>7. share \in SignatureShares /\ share.identifier = i
  <2>1. HasKeysFor(keys.shares[i], package) /\ keys.pubkeys.verifying_key \in Scalar
    BY <1>5, <1>6, DealtHasKeysFor DEF Dealt
  <2>2. share \in SignatureShares
    BY <1>2, <1>4, <1>5, <2>1, SignType
  <2> QED BY <1>2, <1>5, <2>2 DEF Sign
<1>8. TypeOK'
  BY <1>1, <1>2, <1>3, <1>7 DEF IInv, TypeOK
<1>9. KeysDealt'
  BY <1>3 DEF IInv, KeysDealt
<1>10. SharesSigned'
  <2> SUFFICES ASSUME NEW s \in shares'
               PROVE  /\ s.package \in packages /\ s.share.identifier \in Ids(s.package)
                      /\ \E nonces \in [d : Scalar, e : Scalar] :
                           /\ s.package.signing_commitments[s.share.identifier]
                                 = Commitment(nonces)
                           /\ s.share = Sign(s.package, nonces,
                                             keys.shares[s.share.identifier], keys.pubkeys)
    BY <1>3 DEF SharesSigned
  <2>1. CASE s \in shares
    BY <2>1 DEF IInv, SharesSigned
  <2>2. CASE s = [package |-> package, share |-> share]
    BY <1>2, <1>4, <1>6, <1>7, <2>2
  <2> QED BY <1>1, <1>2, <2>1, <2>2
<1>11. SignaturesCollected'
  <2>1. {t.share : t \in shares} \subseteq {t.share : t \in shares'}
        /\ shares \subseteq shares'
    BY <1>1
  <2>2. ASSUME NEW s \in signatures
        PROVE  \E collected \in [DOMAIN s.from -> {t.share : t \in shares'}] :
                 /\ \A j \in DOMAIN s.from :
                       /\ [package |-> s.from[j], share |-> collected[j]] \in shares'
                       /\ collected[j].identifier = j
                 /\ s.result = AggregateResult(s.package, collected)
                 /\ s.valid = (s.result = "Ok" /\ Verify(Aggregate(collected),
                                                    s.package.message, keys.pubkeys))
    <3>1. PICK collected \in [DOMAIN s.from -> {t.share : t \in shares}] :
             /\ \A j \in DOMAIN s.from :
                   /\ [package |-> s.from[j], share |-> collected[j]] \in shares
                   /\ collected[j].identifier = j
             /\ s.result = AggregateResult(s.package, collected)
             /\ s.valid = (s.result = "Ok" /\ Verify(Aggregate(collected),
                                                s.package.message, keys.pubkeys))
      BY DEF IInv, SignaturesCollected
    <3>2. collected \in [DOMAIN s.from -> {t.share : t \in shares'}]
      BY <2>1
    <3> QED BY <2>1, <3>1, <3>2
  <2> QED BY <1>3, <2>2 DEF SignaturesCollected
<1> QED BY <1>8, <1>9, <1>10, <1>11 DEF IInv

\* The shares that are aggregated are among those that were returned.
LEMMA CollectedShares ==
  ASSUME NEW from, NEW S, from \in [S -> packages],
         \A i \in S : \E s \in shares : s.package = from[i] /\ s.share.identifier = i
  PROVE  \A i \in S : \E s \in shares :
            s.package = from[i] /\ s.share.identifier = i /\ s.share = Collected(from)[i]
<1> SUFFICES ASSUME NEW i \in S
             PROVE  \E s \in shares : s.package = from[i] /\ s.share.identifier = i
                                      /\ s.share = Collected(from)[i]
  OBVIOUS
<1>1. PICK s : s = CHOOSE t \in shares : t.package = from[i] /\ t.share.identifier = i
  OBVIOUS
<1>2. s \in shares /\ s.package = from[i] /\ s.share.identifier = i
  BY <1>1
<1>3. Collected(from)[i] = s.share
  BY <1>1 DEF Collected
<1> QED BY <1>2, <1>3

\* Aggregating touches no share, and collects what there is.
LEMMA AggregateSomePreserves ==
  ASSUME IInv, AggregateSome
  PROVE  IInv'
<1>1. PICK package \in packages, S \in SUBSET {s.share.identifier : s \in shares} :
         \E from \in [S -> packages] :
            /\ \A i \in S : \E s \in shares :
                  s.package = from[i] /\ s.share.identifier = i
            /\ signatures' = {Aggregated(package, from)}
  BY DEF AggregateSome
<1>2. PICK from \in [S -> packages] :
         /\ \A i \in S : \E s \in shares :
               s.package = from[i] /\ s.share.identifier = i
         /\ signatures' = {Aggregated(package, from)}
  BY <1>1
<1>3. UNCHANGED <<keys, commits, packages, shares>>
  BY DEF AggregateSome
<1>4. PICK collected, a : collected = Collected(from) /\ a = Aggregated(package, from)
  OBVIOUS
<1>5. \A i \in S : \E s \in shares :
         s.package = from[i] /\ s.share.identifier = i /\ s.share = collected[i]
  BY <1>2, <1>4, CollectedShares
<1>6. /\ a.package = package /\ a.from = from
      /\ a.result = AggregateResult(package, collected)
      /\ a.valid = (a.result = "Ok" /\ Verify(Aggregate(collected),
                                         package.message, keys.pubkeys))
  BY <1>4 DEF Aggregated
<1>7. TypeOK'
  <2>1. a.valid \in BOOLEAN
    BY <1>6
  <2> QED BY <1>2, <1>3, <1>4, <1>6, <2>1 DEF IInv, TypeOK
<1>8. KeysDealt' /\ SharesSigned'
  BY <1>3 DEF IInv, KeysDealt, SharesSigned
<1>9. SignaturesCollected'
  <2>1. \A s \in shares : s = [package |-> s.package, share |-> s.share]
    BY DEF IInv, TypeOK
  <2>2. collected \in [S -> {t.share : t \in shares}]
    BY <1>4, <1>5 DEF Collected
  <2>3. \A i \in S : /\ [package |-> from[i], share |-> collected[i]] \in shares
                     /\ collected[i].identifier = i
    BY <1>5, <2>1
  <2> QED BY <1>2, <1>3, <1>4, <1>6, <2>2, <2>3 DEF SignaturesCollected
<1> QED BY <1>7, <1>8, <1>9 DEF IInv

\* Every step preserves the invariant.
LEMMA NextIInv == IInv /\ [Next]_vars => IInv'
<1> SUFFICES ASSUME IInv, [Next]_vars PROVE IInv'
  OBVIOUS
<1>1. ASSUME NEW i \in Identifier, Commit(i) PROVE IInv'
  BY <1>1, CommitPreserves
<1>2. ASSUME NEW i \in Identifier, SignPackage(i) PROVE IInv'
  BY <1>2, SignPackagePreserves
<1>3. CASE IssuePackage
  BY <1>3, IssuePackagePreserves
<1>4. CASE AggregateSome
  BY <1>4, AggregateSomePreserves
<1>5. CASE UNCHANGED vars
  BY <1>5 DEF vars, IInv, TypeOK, KeysDealt, SharesSigned, SignaturesCollected
<1> QED BY <1>1, <1>2, <1>3, <1>4, <1>5 DEF Next

\* The invariant holds in every state that can be reached.
THEOREM Invariance == Spec => []IInv
  BY InitIInv, NextIInv, PTL DEF Spec

\* The variables have their types.
THEOREM TypeCorrect == Spec => []TypeOK
<1>1. IInv => TypeOK
  BY DEF IInv
<1> QED BY <1>1, Invariance, PTL

\* Shares that were all returned for one package are the shares of that session.
LEMMA OneSession ==
  ASSUME IInv, NEW s \in signatures, NEW p, \A i \in DOMAIN s.from : s.from[i] = p
  PROVE  \E collected :
            /\ DOMAIN collected = DOMAIN s.from
            /\ DOMAIN s.from \subseteq Ids(p)
            /\ s.result = AggregateResult(s.package, collected)
            /\ s.valid = (s.result = "Ok" /\ Verify(Aggregate(collected),
                                               s.package.message, keys.pubkeys))
            /\ DOMAIN s.from = Ids(p) => Signed(p, keys, collected)
<1>1. PICK collected \in [DOMAIN s.from -> {t.share : t \in shares}] :
         /\ \A i \in DOMAIN s.from :
               /\ [package |-> s.from[i], share |-> collected[i]] \in shares
               /\ collected[i].identifier = i
         /\ s.result = AggregateResult(s.package, collected)
         /\ s.valid = (s.result = "Ok" /\ Verify(Aggregate(collected),
                                            s.package.message, keys.pubkeys))
  BY DEF IInv, SignaturesCollected
<1>2. ASSUME NEW i \in DOMAIN s.from
      PROVE  /\ i \in Ids(p)
             /\ \E nonces \in [d : Scalar, e : Scalar] :
                   /\ p.signing_commitments[i] = Commitment(nonces)
                   /\ collected[i] = Sign(p, nonces, keys.shares[i], keys.pubkeys)
  <2>1. PICK t \in shares : t = [package |-> p, share |-> collected[i]]
    BY <1>1
  <2>2. t.package = p /\ t.share = collected[i] /\ t.share.identifier = i
    BY <1>1, <2>1
  <2> QED BY <2>2 DEF IInv, SharesSigned
<1>3. DOMAIN s.from = Ids(p) => Signed(p, keys, collected)
  BY <1>1, <1>2 DEF Signed
<1> QED BY <1>1, <1>2, <1>3

\* A session of min_signers or more whose signers have all signed verifies.
THEOREM CompleteSessions == Spec => []CompleteSessionVerifies
<1>1. IInv => CompleteSessionVerifies
  <2> SUFFICES ASSUME IInv, NEW s \in signatures,
                      DOMAIN s.from = Ids(s.package), Ids(s.package) # {},
                      \A i \in DOMAIN s.from : s.from[i] = s.package,
                      Cardinality(Ids(s.package)) >= MinSigners
               PROVE  s.result = "Ok" /\ s.valid
    BY DEF CompleteSessionVerifies
  <2>1. s.package \in SigningPackages /\ Dealt(keys)
    BY KeysFacts DEF IInv, TypeOK
  <2>2. PICK collected :
           /\ Signed(s.package, keys, collected)
           /\ s.result = AggregateResult(s.package, collected)
           /\ s.valid = (s.result = "Ok" /\ Verify(Aggregate(collected),
                                              s.package.message, keys.pubkeys))
    BY OneSession
  <2>3. KeySum(s.package, keys) = keys.pubkeys.verifying_key
    BY <2>1, KeysFacts, KeySumInterpolates DEF IInv
  <2> QED BY <2>1, <2>2, <2>3, SignedVerifies
<1> QED BY <1>1, Invariance, PTL

\* With a polynomial of full degree, one share less than min_signers makes no
\* signature that verifies.
THEOREM OneShort ==
  ASSUME NoZeroChallenge, FullDegree
  PROVE  Spec => []ThresholdNeeded
<1>1. IInv => ThresholdNeeded
  <2> SUFFICES ASSUME IInv, NEW s \in signatures, s.valid,
                      \A i \in DOMAIN s.from : s.from[i] = s.package,
                      Cardinality(Ids(s.package)) = MinSigners - 1
               PROVE  FALSE
    BY DEF ThresholdNeeded
  <2>1. s.package \in SigningPackages /\ Dealt(keys) /\ Ids(s.package) \in SUBSET Identifier
    BY KeysFacts, PackageFacts DEF IInv, TypeOK
  <2>2. PICK collected :
           /\ DOMAIN collected = DOMAIN s.from
           /\ DOMAIN s.from \subseteq Ids(s.package)
           /\ s.result = AggregateResult(s.package, collected)
           /\ s.valid = (s.result = "Ok" /\ Verify(Aggregate(collected),
                                              s.package.message, keys.pubkeys))
           /\ DOMAIN s.from = Ids(s.package) => Signed(s.package, keys, collected)
    BY OneSession
  <2>3. /\ AggregateResult(s.package, collected) = "Ok"
        /\ Verify(Aggregate(collected), s.package.message, keys.pubkeys)
    BY <2>2
  <2>4. /\ Cardinality(Ids(s.package)) = Cardinality(DOMAIN s.from)
        /\ DOMAIN s.from # {}
    BY <2>2, <2>3 DEF AggregateResult
  <2>5. DOMAIN s.from = Ids(s.package) /\ Ids(s.package) # {}
    <3>1. IsFiniteSet(Ids(s.package))
      BY <2>1, SignersFinite
    <3> QED BY <2>2, <2>4, <3>1, FS_Subset
  <2>6. MinSigners >= 2
    <3>1. Cardinality(Ids(s.package)) \in Nat /\ Cardinality(Ids(s.package)) # 0
      BY <2>1, <2>5, SignersFinite, FS_EmptySet, MaxSignersAssumption
    <3> QED BY <3>1, MinSignersAssumption, MaxSignersAssumption
  <2>7. PICK dealing \in Dealings :
           keys = GenerateWithDealer(dealing.secret_key, dealing.random)
    BY DEF IInv, KeysDealt
  <2>8. /\ dealing.secret_key \in Scalar /\ dealing.random \in Randomness
        /\ dealing.random.coeffs[MinSigners] # 0
    <3>1. dealing.secret_key \in Scalar /\ dealing.random \in Randomness
      BY SigningAssumption
    <3>2. DOMAIN dealing.random.coeffs = 2..NumCoeffs
      BY <3>1 DEF Randomness
    <3>3. MinSigners \in 2..NumCoeffs
      BY <2>6, MinSignersAssumption, MaxSignersAssumption DEF NumCoeffs
    <3> QED BY <3>1, <3>2, <3>3 DEF FullDegree
  <2>9. KeySum(s.package, keys) # keys.pubkeys.verifying_key
    BY <2>1, <2>5, <2>7, <2>8, KeySumInterpolates
  <2>10. PICK c \in Scalar \ {0}, k \in Scalar, vk \in Scalar :
            /\ c = SigChallenge(s.package, keys.pubkeys)
            /\ k = KeySum(s.package, keys)
            /\ vk = keys.pubkeys.verifying_key
    BY <2>1, <2>2, <2>5, ChallengeNonzero, SignedVerifies DEF Dealt
  <2>11. Mul(c, k) = Mul(c, vk)
    BY <2>1, <2>2, <2>3, <2>5, <2>10, SignedVerifies
  <2> QED BY <2>9, <2>10, <2>11, MulCancel
<1> QED BY <1>1, Invariance, PTL

\* The R of every share that was aggregated is that of the package it was
\* returned for, so that they agree only when the packages' nonces do.
LEMMA SharesNonces ==
  ASSUME IInv, NEW s \in signatures, s.result = "Ok"
  PROVE  /\ DOMAIN s.from # {}
         /\ \A i, j \in DOMAIN s.from :
               /\ s.from[i] \in packages
               /\ NormalizeShareR(AggregateNonce(s.from[i], keys.pubkeys), 0).R
                     = NormalizeShareR(AggregateNonce(s.from[j], keys.pubkeys), 0).R
<1>1. PICK collected \in [DOMAIN s.from -> {t.share : t \in shares}] :
         /\ \A i \in DOMAIN s.from :
               /\ [package |-> s.from[i], share |-> collected[i]] \in shares
               /\ collected[i].identifier = i
         /\ s.result = AggregateResult(s.package, collected)
  BY DEF IInv, SignaturesCollected
<1>2. /\ DOMAIN collected # {}
      /\ \A i, j \in DOMAIN collected : collected[i].R = collected[j].R
  BY <1>1 DEF AggregateResult
<1>3. ASSUME NEW i \in DOMAIN s.from
      PROVE  /\ s.from[i] \in packages
             /\ collected[i].R = NormalizeShareR(AggregateNonce(s.from[i], keys.pubkeys), 0).R
  <2>1. PICK t \in shares : t = [package |-> s.from[i], share |-> collected[i]]
    BY <1>1
  <2>2. t.package = s.from[i] /\ t.share = collected[i] /\ t.share.identifier = i
    BY <1>1, <2>1
  <2>3. PICK nonces \in [d : Scalar, e : Scalar] :
           collected[i] = Sign(s.from[i], nonces, keys.shares[i], keys.pubkeys)
    BY <2>2 DEF IInv, SharesSigned
  <2>4. \A R, n : NormalizeShareR(R, n).R = NormalizeShareR(R, 0).R
    BY DEF NormalizeShareR
  <2>5. collected[i].R = NormalizeShareR(AggregateNonce(s.from[i], keys.pubkeys), 0).R
    BY <2>3, <2>4 DEF Sign
  <2> QED BY <2>2, <2>5 DEF IInv, SharesSigned
<1> QED BY <1>1, <1>2, <1>3

\* A signature that verifies for two messages under a key that is not zero has
\* the same challenge for both.
LEMMA OneMessage ==
  ASSUME MessagesKeptApart, IInv, NEW R \in Scalar, NEW z,
         NEW m \in Messages, NEW n \in Messages,
         Verify([R |-> R, z |-> z], m, keys.pubkeys),
         Verify([R |-> R, z |-> z], n, keys.pubkeys)
  PROVE  m = n
<1> SUFFICES ASSUME m # n PROVE FALSE
  OBVIOUS
<1>1. PICK dealing \in Dealings :
         keys = GenerateWithDealer(dealing.secret_key, dealing.random)
  BY DEF IInv, KeysDealt
<1>2. dealing.secret_key \in Scalar \ {0}
  BY SigningAssumption DEF MessagesKeptApart
<1>3. PICK vk : /\ vk = keys.pubkeys.verifying_key
                /\ vk = NormalizeKeygen(dealing.secret_key, dealing.secret_key).vk
  BY <1>1 DEF GenerateWithDealer
<1>4. vk \in Scalar \ {0}
  BY <1>2, <1>3, QAssumption DEF NormalizeKeygen, Neg, Scalar
<1>5. PICK c, d : c = Challenge(vk, R, m) /\ d = Challenge(vk, R, n)
  OBVIOUS
<1>6. c \in Scalar /\ d \in Scalar /\ c # d
  <2>1. XOnly(vk) \in Scalar /\ XOnly(R) \in Scalar
    BY <1>4, NegType DEF XOnly
  <2> QED BY <1>4, <1>5, <2>1, HsigAssumption DEF Challenge, MessagesKeptApart
<1>7. Add(R, Mul(vk, c)) = Add(R, Mul(vk, d))
  BY <1>3, <1>5 DEF Verify
<1>8. Mul(vk, c) = Mul(vk, d)
  <2>1. PICK x \in Scalar, y \in Scalar : x = Mul(vk, c) /\ y = Mul(vk, d)
    BY <1>4, <1>6, MulScalars
  <2>2. Add(R, x) = Add(R, y)
    BY <1>7, <2>1
  <2>3. x = y
    BY <2>2, QAssumption DEF Add, Scalar
  <2> QED BY <2>1, <2>3
<1> QED BY <1>4, <1>6, <1>8, MulCancel

\* A signature that verifies is of one session, and of the message of that
\* session when its signers have all signed.
THEOREM SessionsDoNotMix ==
  ASSUME MessagesKeptApart
  PROVE  Spec => []ValidSignsOneSession
<1>1. IInv => ValidSignsOneSession
  <2> SUFFICES ASSUME IInv, NEW s \in signatures, s.valid,
                      \A p, q \in packages :
                         NormalizeShareR(AggregateNonce(p, keys.pubkeys), 0).R
                            = NormalizeShareR(AggregateNonce(q, keys.pubkeys), 0).R => p = q
               PROVE  \E p \in packages :
                         /\ \A i \in DOMAIN s.from : s.from[i] = p
                         /\ DOMAIN s.from = Ids(p) /\ Cardinality(Ids(p)) >= MinSigners
                               => p.message = s.package.message
    BY DEF ValidSignsOneSession
  <2>1. s.result = "Ok"
    BY DEF IInv, SignaturesCollected
  <2>2. PICK p \in packages : \A i \in DOMAIN s.from : s.from[i] = p
    <3>1. PICK i : i \in DOMAIN s.from
      BY <2>1, SharesNonces
    <3>2. \A j \in DOMAIN s.from : s.from[j] \in packages /\ s.from[j] = s.from[i]
      BY <2>1, <3>1, SharesNonces
    <3> QED BY <3>1, <3>2
  <2>3. ASSUME DOMAIN s.from = Ids(p), Cardinality(Ids(p)) >= MinSigners
        PROVE  p.message = s.package.message
    <3>1. p \in SigningPackages /\ s.package \in SigningPackages /\ Dealt(keys)
      BY KeysFacts DEF IInv, TypeOK
    <3>2. PICK collected :
             /\ Signed(p, keys, collected)
             /\ Verify(Aggregate(collected), s.package.message, keys.pubkeys)
      BY <2>2, <2>3, OneSession
    <3>3. Ids(p) # {}
      BY <2>1, <2>3, SharesNonces
    <3>4. /\ Verify(Aggregate(collected), p.message, keys.pubkeys)
          /\ Aggregate(collected).R
                = NormalizeShareR(AggregateNonce(p, keys.pubkeys), 0).R
      <4>1. KeySum(p, keys) = keys.pubkeys.verifying_key
        BY <2>3, <3>1, <3>3, KeysFacts, KeySumInterpolates DEF IInv
      <4> QED BY <3>1, <3>2, <3>3, <4>1, SignedVerifies
    <3>5. PICK R, z : R \in Scalar /\ Aggregate(collected) = [R |-> R, z |-> z]
      <4>1. Aggregate(collected).R \in Scalar
        BY <3>1, <3>4, AggregateNonceType, NormalizeShareRType, ScalarFacts DEF Dealt
      <4>2. Aggregate(collected) = [R |-> Aggregate(collected).R, z |-> Aggregate(collected).z]
        BY DEF Aggregate
      <4> QED BY <4>1, <4>2
    <3>6. p.message \in Messages /\ s.package.message \in Messages
      BY <3>1, PackageFacts
    <3> QED BY <3>2, <3>4, <3>5, <3>6, OneMessage
  <2> QED BY <2>2, <2>3
<1> QED BY <1>1, Invariance, PTL
=============================================================================
