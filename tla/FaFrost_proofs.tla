---------------------------- MODULE FaFrost_proofs ----------------------------
(***************************************************************************)
(* Facts about the functions of FaFrost, and about those of the rounds of  *)
(* the identifiable abort, IaRounds: for every ciphersuite, threshold,     *)
(* number of signers and hash function.                                    *)
(***************************************************************************)
EXTENDS IaRounds, ScalarField_proofs, FiniteSetTheorems

\* Identifiers are nonzero scalars: they are dealt as 1..=max_signers (keygen.rs).
LEMMA IdentifierFacts == Identifier \subseteq Scalar /\ Identifier \subseteq Nat \ {0}
  BY MaxSignersAssumption, QAssumption DEF Identifier, Scalar

-----------------------------------------------------------------------------
(* The dealer.                                                             *)

\* What the packages the dealer returns have in common.
Dealt(keys) ==
  /\ DOMAIN keys.shares = Identifier
  /\ keys.pubkeys.verifying_key \in Scalar
  /\ DOMAIN keys.pubkeys.partial_verification_keys = Identifier
  /\ \A i \in Identifier :
        LET kp == keys.shares[i]
            vk == keys.pubkeys.partial_verification_keys[i]
        IN  /\ kp.identifier = i
            /\ kp.signing_share \in Scalar
            /\ DOMAIN kp.pairwise_keys = Identifier \ {i}
            /\ vk.signing_share_commitment
                  = PedersenCommit(kp.signing_share, kp.signing_share_blinding)
            /\ DOMAIN vk.pairwise_key_commitments = Identifier \ {i}
            /\ \A j \in Identifier \ {i} :
                  /\ kp.pairwise_keys[j] \in PairwiseKeys
                  /\ kp.pairwise_keys[j] = keys.shares[j].pairwise_keys[i]
                  /\ vk.pairwise_key_commitments[j]
                        = HashPairwiseKeyCommitment(kp.pairwise_keys[j])

\* normalize_keygen returns scalars, whether it negates or not.
LEMMA NormalizeKeygenType ==
  ASSUME NEW sk \in Scalar
  PROVE  /\ NormalizeKeygen(sk, sk).sk \in Scalar
         /\ NormalizeKeygen(sk, sk).vk \in Scalar
  BY NegType DEF NormalizeKeygen

\* The running power of the share evaluation is a scalar.
LEMMA PowerType ==
  ASSUME NEW x \in Scalar, NEW n
  PROVE  Power(x, n) \in Scalar
<1> ScalarMap([k \in 1..n |-> x])
  BY DEF ScalarMap
<1> QED BY ProductType DEF Power

\* A share, the polynomial at an identifier, is a scalar.
LEMMA EvaluateType ==
  ASSUME NEW n, NEW coeffs \in [1..n -> Scalar], NEW x \in Scalar
  PROVE  Evaluate(coeffs, x) \in Scalar
<1> DEFINE f == [k \in DOMAIN coeffs |-> Mul(coeffs[k], Power(x, k - 1))]
<1>1. ScalarMap(f)
  BY PowerType, MulScalars DEF ScalarMap
<1> QED BY <1>1, SumType DEF Evaluate

\* The packages the dealer returns agree with each other: both ends of a pair
\* hold the key that both have published the hash of.
LEMMA DealtKeys ==
  ASSUME NEW secret_key \in Scalar, NEW random \in Randomness
  PROVE  Dealt(GenerateWithDealer(secret_key, random))
<1> DEFINE key    == NormalizeKeygen(secret_key, secret_key)
           coeffs == [n \in 1..NumCoeffs |-> IF n = 1 THEN key.sk ELSE random.coeffs[n]]
           y(id)  == Evaluate(coeffs, id)
           keys   == GenerateWithDealer(secret_key, random)
<1>1. coeffs \in [1..NumCoeffs -> Scalar]
  <2>1. NumCoeffs \in Nat
    BY MinSignersAssumption, MaxSignersAssumption DEF NumCoeffs
  <2>2. \A n \in 2..NumCoeffs : random.coeffs[n] \in Scalar
    BY DEF Randomness
  <2> QED BY <2>1, <2>2, NormalizeKeygenType
<1>2. \A id \in Identifier : y(id) \in Scalar
  BY <1>1, EvaluateType, IdentifierFacts
<1>3. /\ keys.shares = [id \in Identifier |-> KeyPackage(id, y(id), random)]
      /\ keys.pubkeys.verifying_key = key.vk
      /\ keys.pubkeys.partial_verification_keys
            = [id \in Identifier |-> PartialVerificationKey(id, y(id), random)]
  BY DEF GenerateWithDealer
<1>4. \A i \in Identifier, j \in Identifier :
         i # j => /\ PairKey(random, i, j) \in PairwiseKeys
                   /\ PairKey(random, i, j) = PairKey(random, j, i)
  <2>1. random.k \in [Pairs -> PairwiseKeys]
    BY DEF Randomness
  <2>2. \A i \in Identifier, j \in Identifier : i # j => {i, j} \in Pairs
    BY DEF Pairs
  <2> QED BY <2>1, <2>2 DEF PairKey
<1> HIDE DEF y, keys
<1>5. /\ DOMAIN keys.shares = Identifier
      /\ DOMAIN keys.pubkeys.partial_verification_keys = Identifier
      /\ keys.pubkeys.verifying_key \in Scalar
  BY <1>3, NormalizeKeygenType
<1>6. ASSUME NEW i \in Identifier
      PROVE  LET kp == keys.shares[i]
                 vk == keys.pubkeys.partial_verification_keys[i]
             IN  /\ kp.identifier = i
                 /\ kp.signing_share \in Scalar
                 /\ DOMAIN kp.pairwise_keys = Identifier \ {i}
                 /\ \A j \in Identifier \ {i} :
                       kp.pairwise_keys[j] = PairKey(random, i, j)
                 /\ vk.signing_share_commitment
                       = PedersenCommit(kp.signing_share, kp.signing_share_blinding)
                 /\ DOMAIN vk.pairwise_key_commitments = Identifier \ {i}
                 /\ \A j \in Identifier \ {i} :
                       vk.pairwise_key_commitments[j]
                          = HashPairwiseKeyCommitment(PairKey(random, i, j))
  <2>1. /\ keys.shares[i] = KeyPackage(i, y(i), random)
        /\ keys.pubkeys.partial_verification_keys[i]
              = PartialVerificationKey(i, y(i), random)
    BY <1>3
  <2> QED BY <1>2, <2>1 DEF KeyPackage, PartialVerificationKey
<1>7. ASSUME NEW i \in Identifier, NEW j \in Identifier \ {i}
      PROVE  LET kp == keys.shares[i]
                 vk == keys.pubkeys.partial_verification_keys[i]
             IN  /\ kp.pairwise_keys[j] \in PairwiseKeys
                 /\ kp.pairwise_keys[j] = keys.shares[j].pairwise_keys[i]
                 /\ vk.pairwise_key_commitments[j]
                       = HashPairwiseKeyCommitment(kp.pairwise_keys[j])
  <2>1. i \in Identifier \ {j}
    OBVIOUS
  <2>2. /\ PairKey(random, i, j) \in PairwiseKeys
        /\ PairKey(random, i, j) = PairKey(random, j, i)
    BY <1>4
  <2> QED BY <1>6, <2>1, <2>2
<1>9. Dealt(keys)
  BY <1>5, <1>6, <1>7 DEF Dealt
<1> QED BY <1>9 DEF keys

-----------------------------------------------------------------------------
(* Types.                                                                  *)

\* The signers of a package are identifiers and their commitments scalars.
LEMMA PackageFacts ==
  ASSUME NEW package \in SigningPackages
  PROVE  /\ Ids(package) \subseteq Identifier
         /\ package.message \in Messages
         /\ \A j \in Ids(package) :
               /\ package.signing_commitments[j].D \in Scalar
               /\ package.signing_commitments[j].E \in Scalar
  BY DEF SigningPackages, SigningCommitments, Ids

\* The binding factor and the aggregate nonce of a package are scalars.
LEMMA AggregateNonceType ==
  ASSUME NEW package \in SigningPackages, NEW pubkeys,
         pubkeys.verifying_key \in Scalar
  PROVE  /\ NonceChallenge(package, pubkeys) \in Scalar
         /\ AggregateNonce(package, pubkeys) \in Scalar
<1> DEFINE comm == package.signing_commitments
           D    == [j \in Ids(package) |-> comm[j].D]
           E    == [j \in Ids(package) |-> comm[j].E]
<1>1. NonceChallenge(package, pubkeys) \in Scalar
  BY HashAssumption DEF NonceChallenge
<1>2. ScalarMap(D) /\ ScalarMap(E)
  BY PackageFacts DEF ScalarMap
<1>3. Sum(D) \in Scalar /\ Sum(E) \in Scalar
  BY <1>2, SumType
<1> QED BY <1>1, <1>3, AddType, MulScalars DEF AggregateNonce

\* The challenge of a package is a scalar.
LEMMA SigChallengeType ==
  ASSUME NEW package \in SigningPackages, NEW pubkeys,
         pubkeys.verifying_key \in Scalar
  PROVE  SigChallenge(package, pubkeys) \in Scalar
<1>1. AggregateNonce(package, pubkeys) \in Scalar
  BY AggregateNonceType
<1>2. \A P \in Scalar : XOnly(P) \in Scalar
  BY NegType DEF XOnly
<1> QED BY <1>1, <1>2, HsigAssumption, PackageFacts DEF SigChallenge, Challenge

\* The challenge of a package is a hash.
LEMMA ChallengeNonzero ==
  ASSUME NoZeroChallenge, NEW package \in SigningPackages, NEW pubkeys,
         pubkeys.verifying_key \in Scalar
  PROVE  SigChallenge(package, pubkeys) \in Scalar \ {0}
<1>1. PICK vk \in Scalar, R \in Scalar, m \in Messages :
         /\ vk = pubkeys.verifying_key /\ R = AggregateNonce(package, pubkeys)
         /\ m = package.message
  BY AggregateNonceType, PackageFacts
<1>2. XOnly(vk) \in Scalar /\ XOnly(R) \in Scalar
  BY NegType DEF XOnly
<1>3. Challenge(vk, R, m) \in Scalar \ {0}
  BY <1>2, HsigAssumption DEF Challenge, NoZeroChallenge
<1> QED BY <1>1, <1>3 DEF SigChallenge

\* A Lagrange coefficient is a scalar (utils.rs, lagrange).
LEMMA LagrangeType ==
  ASSUME NEW i \in Identifier, NEW S \in SUBSET Identifier
  PROVE  Lagrange(i, S) \in Scalar
<1> DEFINE num == [j \in S \ {i} |-> j]
           den == [j \in S \ {i} |-> Sub(j, i)]
<1>1. ScalarMap(num) /\ ScalarMap(den)
  BY IdentifierFacts, SubType DEF ScalarMap
<1>2. Product(num) \in Scalar /\ Product(den) \in Scalar
  BY <1>1, ProductType
<1> QED BY <1>2, InvType, MulScalars DEF Lagrange

\* The key package has a pairwise key for every other signer of the package.
HasKeysFor(key_package, package) ==
  /\ key_package.identifier \in Ids(package)
  /\ key_package.signing_share \in Scalar
  /\ \A j \in Ids(package) \ {key_package.identifier} :
        key_package.pairwise_keys[j] \in PairwiseKeys

\* A signer with a key for every peer has a blinding scalar (sign.rs).
LEMMA BlindingScalarType ==
  ASSUME NEW package \in SigningPackages, NEW key_package,
         HasKeysFor(key_package, package)
  PROVE  BlindingScalar(package, key_package) \in Scalar
<1> DEFINE i == key_package.identifier
           f == [j \in Ids(package) \ {i} |->
                   IF i > j THEN Hs(key_package.pairwise_keys[j], package)
                            ELSE Neg(Hs(key_package.pairwise_keys[j], package))]
<1>1. ScalarMap(f)
  BY HashAssumption, NegType DEF ScalarMap, HasKeysFor
<1> QED BY <1>1, SumType DEF BlindingScalar

\* normalize_share_r returns scalars, whether it negates or not.
LEMMA NormalizeShareRType ==
  ASSUME NEW R \in Scalar, NEW nonce \in Scalar
  PROVE  /\ NormalizeShareR(R, nonce).R \in Scalar
         /\ NormalizeShareR(R, nonce).nonce \in Scalar
  BY NegType DEF NormalizeShareR

\* The part of a share that does not depend on the nonces.
KeyTerm(package, key_package, pubkeys) ==
  Mul(Mul(SigChallenge(package, pubkeys),
          Lagrange(key_package.identifier, Ids(package))),
      key_package.signing_share)

\* `sign` returns a well-typed share for every signer that has its keys.
LEMMA SignType ==
  ASSUME NEW package \in SigningPackages, NEW nonces \in [d : Scalar, e : Scalar],
         NEW key_package, HasKeysFor(key_package, package),
         NEW pubkeys, pubkeys.verifying_key \in Scalar
  PROVE  /\ KeyTerm(package, key_package, pubkeys) \in Scalar
         /\ Sign(package, nonces, key_package, pubkeys) \in SignatureShares
<1> DEFINE i == key_package.identifier
           b == NonceChallenge(package, pubkeys)
           c == SigChallenge(package, pubkeys)
           L == Lagrange(i, Ids(package))
           R == AggregateNonce(package, pubkeys)
           B == BlindingScalar(package, key_package)
           nonce == Add(nonces.d, Mul(b, nonces.e))
<1>1. i \in Identifier /\ Ids(package) \in SUBSET Identifier
  BY PackageFacts DEF HasKeysFor
<1>2. b \in Scalar /\ c \in Scalar /\ L \in Scalar /\ R \in Scalar /\ B \in Scalar
  BY <1>1, AggregateNonceType, SigChallengeType, LagrangeType, BlindingScalarType
<1> HIDE DEF b, c, L, R, B
<1>3. nonce \in Scalar
  BY <1>2, AddType, MulScalars
<1>4. key_package.signing_share \in Scalar
  BY DEF HasKeysFor
<1>5. Mul(Mul(c, L), key_package.signing_share) \in Scalar
  BY <1>2, <1>4, MulScalars
<1>6. KeyTerm(package, key_package, pubkeys) \in Scalar
  BY <1>5 DEF KeyTerm, c, L
<1> HIDE DEF nonce
<1>7. Add(Add(Mul(Mul(c, L), key_package.signing_share), B),
          NormalizeShareR(R, nonce).nonce) \in Scalar
  BY <1>2, <1>3, <1>5, AddType, NormalizeShareRType
<1>8. Sign(package, nonces, key_package, pubkeys)
        = [identifier |-> i, R |-> NormalizeShareR(R, nonce).R,
           z |-> Add(Add(Mul(Mul(c, L), key_package.signing_share), B),
                     NormalizeShareR(R, nonce).nonce)]
  BY DEF Sign, b, c, L, R, B, nonce
<1>9. NormalizeShareR(R, nonce).R \in Scalar
  BY <1>2, <1>3, NormalizeShareRType
<1> QED BY <1>1, <1>6, <1>7, <1>8, <1>9 DEF SignatureShares

\* The sign a signer blinds with (blinding_scalar) is the sign its proof is
\* verified with (delta).
LEMMA BlindingIsSumOfDeltas ==
  ASSUME NEW package \in SigningPackages, NEW key_package,
         HasKeysFor(key_package, package)
  PROVE  BlindingScalar(package, key_package)
            = Sum([j \in Ids(package) \ {key_package.identifier} |->
                     Mul(Hs(key_package.pairwise_keys[j], package),
                         Delta(key_package.identifier, j))])
<1> DEFINE i == key_package.identifier
           k(j) == key_package.pairwise_keys[j]
<1>1. ASSUME NEW j \in Ids(package) \ {i}
      PROVE  Mul(Hs(k(j), package), Delta(i, j))
                = IF i > j THEN Hs(k(j), package) ELSE Neg(Hs(k(j), package))
  <2>1. Hs(k(j), package) \in Scalar
    BY HashAssumption DEF HasKeysFor
  <2> QED BY <2>1, MulOne, MulMinusOne DEF Delta
<1> QED BY <1>1 DEF BlindingScalar

\* The dealer gives each signer a pairwise key for every peer of any package.
LEMMA DealtHasKeysFor ==
  ASSUME NEW package \in SigningPackages, NEW keys, Dealt(keys), NEW i \in Ids(package)
  PROVE  /\ HasKeysFor(keys.shares[i], package)
         /\ keys.shares[i].identifier = i
<1>1. i \in Identifier /\ Ids(package) \subseteq Identifier
  BY PackageFacts
<1>2. /\ keys.shares[i].identifier = i
      /\ keys.shares[i].signing_share \in Scalar
      /\ \A j \in Identifier \ {i} : keys.shares[i].pairwise_keys[j] \in PairwiseKeys
  BY <1>1 DEF Dealt
<1> QED BY <1>1, <1>2 DEF HasKeysFor

-----------------------------------------------------------------------------
(* Interpolation at zero with the Lagrange coefficients.                   *)

\* Adding what was subtracted.
LEMMA SubFacts ==
  /\ \A a, b \in Scalar : Add(b, Sub(a, b)) = a
  /\ \A a, b \in Scalar : a # b => Sub(a, b) # 0
  BY QAssumption DEF Sub, Add, Neg, Scalar

\* Dividing by a product divides by each factor.
LEMMA InvOfProduct ==
  ASSUME NEW a \in Scalar \ {0}, NEW b \in Scalar \ {0}
  PROVE  Mul(Inv(Mul(a, b)), b) = Inv(a)
<1>1. PICK c \in Scalar, x \in Scalar, y \in Scalar :
         c = Mul(a, b) /\ x = Inv(c) /\ y = Inv(a)
  BY MulScalars, InvType
<1>2. Mul(c, x) = 1 /\ Mul(a, y) = 1
  BY <1>1, InvFacts, NoZeroDivisors
<1>3. Mul(a, Mul(x, b)) = 1
  <2>1. Mul(x, b) = Mul(b, x)
    BY ScalarsCommute
  <2> QED BY <1>1, <1>2, <2>1, MulAssociative
<1>4. Mul(x, b) = y
  BY <1>2, <1>3, MulCancel, MulScalars
<1> QED BY <1>1, <1>4

\* The coefficient of i among S and among S without t (utils.rs, lagrange).
LEMMA LagrangeSplit ==
  ASSUME NEW S \in SUBSET Identifier, NEW i \in S, NEW t \in S, i # t
  PROVE  Mul(Lagrange(i, S), Sub(t, i)) = Mul(Lagrange(i, S \ {t}), t)
<1>1. PICK n, n0, d, d0 :
         /\ n  = [j \in S \ {i} |-> j]         /\ d  = [j \in S \ {i} |-> Sub(j, i)]
         /\ n0 = [j \in (S \ {t}) \ {i} |-> j] /\ d0 = [j \in (S \ {t}) \ {i} |-> Sub(j, i)]
  OBVIOUS
<1>2. ScalarMap(n) /\ ScalarMap(d) /\ ScalarMap(n0) /\ ScalarMap(d0)
  BY <1>1, IdentifierFacts, SubType DEF ScalarMap
<1>3. Product(n) = Mul(Product(n0), t)
  <2>1. t \in Identifier \cap DOMAIN n /\ DOMAIN n0 = DOMAIN n \ {t} /\ n[t] = t
        /\ \A k \in Identifier \cap DOMAIN n0 : n0[k] = n[k]
    BY <1>1
  <2> QED BY <1>2, <2>1, ProductSplit
<1>4. Product(d) = Mul(Product(d0), Sub(t, i))
  <2>1. t \in Identifier \cap DOMAIN d /\ DOMAIN d0 = DOMAIN d \ {t} /\ d[t] = Sub(t, i)
        /\ \A k \in Identifier \cap DOMAIN d0 : d0[k] = d[k]
    BY <1>1
  <2> QED BY <1>2, <2>1, ProductSplit
<1>5. i \in Scalar /\ t \in Scalar /\ Sub(t, i) \in Scalar \ {0}
  BY IdentifierFacts, SubFacts, SubType
<1>6. Product(d0) # 0
  <2>1. \A k \in Identifier \cap DOMAIN d0 : d0[k] # 0
    BY <1>1, IdentifierFacts, SubFacts
  <2> QED BY <1>2, <2>1, ProductNonzero
<1>7. PICK N \in Scalar, D \in Scalar \ {0}, e \in Scalar \ {0} :
         N = Product(n0) /\ D = Product(d0) /\ e = Sub(t, i)
  BY <1>2, <1>5, <1>6, ProductType
<1>8. Lagrange(i, S) = Mul(Mul(N, t), Inv(Mul(D, e)))
  BY <1>1, <1>3, <1>4, <1>7 DEF Lagrange
<1>9. Lagrange(i, S \ {t}) = Mul(N, Inv(D))
  BY <1>1, <1>7 DEF Lagrange
<1>10. PICK x \in Scalar, y \in Scalar : x = Inv(Mul(D, e)) /\ y = Inv(D)
  BY MulScalars, InvType
<1>11. Mul(x, e) = y
  BY <1>10, InvOfProduct
<1>12. Mul(Mul(Mul(N, t), x), e) = Mul(Mul(N, t), y)
  <2>1. PICK w \in Scalar : w = Mul(N, t)
    BY <1>5, MulScalars
  <2>2. Mul(Mul(w, x), e) = Mul(w, Mul(x, e))
    BY MulAssociative
  <2> QED BY <1>11, <2>1, <2>2
<1>13. Mul(Mul(N, t), y) = Mul(Mul(N, y), t)
  BY <1>5, MulAssociative, ScalarsCommute
<1> QED BY <1>7, <1>8, <1>9, <1>10, <1>12, <1>13

\* The interpolation at zero of the values p over the signers S.
LagrangeSum(p, S) == Sum([i \in S |-> Mul(Lagrange(i, S), p[i])])

\* It is a scalar.
LEMMA LagrangeSumType ==
  ASSUME NEW S \in SUBSET Identifier, NEW p \in [Identifier -> Scalar]
  PROVE  /\ ScalarMap([i \in S |-> Mul(Lagrange(i, S), p[i])])
         /\ LagrangeSum(p, S) \in Scalar
<1>1. ScalarMap([i \in S |-> Mul(Lagrange(i, S), p[i])])
  BY LagrangeType, MulScalars DEF ScalarMap
<1> QED BY <1>1, SumType DEF LagrangeSum

\* Multiplying the values by their arguments drops one signer.
LEMMA LagrangeSumStep ==
  ASSUME NEW S \in SUBSET Identifier, NEW t \in S,
         NEW p \in [Identifier -> Scalar], NEW q \in [Identifier -> Scalar],
         \A i \in S : q[i] = Mul(p[i], i)
  PROVE  Mul(t, LagrangeSum(p, S)) = Add(LagrangeSum(q, S), Mul(t, LagrangeSum(p, S \ {t})))
<1>1. PICK U : U = S \ {t}
  OBVIOUS
<1>2. PICK f, fq, g, tf, fU, fqU, tg :
         /\ f   = [i \in S |-> Mul(Lagrange(i, S), p[i])]
         /\ fq  = [i \in S |-> Mul(Lagrange(i, S), q[i])]
         /\ g   = [i \in U |-> Mul(Lagrange(i, U), p[i])]
         /\ tf  = [i \in S |-> Mul(t, f[i])]
         /\ tg  = [i \in U |-> Mul(t, g[i])]
         /\ fU  = [i \in U |-> tf[i]]
         /\ fqU = [i \in U |-> fq[i]]
  OBVIOUS
<1>3. t \in Scalar /\ t \in Identifier
  BY IdentifierFacts
<1>4. ScalarMap(f) /\ ScalarMap(fq) /\ ScalarMap(g)
  <2>1. ScalarMap(f)
    BY <1>2, LagrangeSumType
  <2>2. ScalarMap(fq)
    BY <1>2, LagrangeSumType
  <2>3. U \in SUBSET Identifier
    BY <1>1
  <2>4. ScalarMap(g)
    BY <1>2, <2>3, LagrangeSumType
  <2> QED BY <2>1, <2>2, <2>4
<1>5. ScalarMap(tf) /\ ScalarMap(tg)
  BY <1>1, <1>2, <1>3, <1>4, MulScalars DEF ScalarMap
<1>6. ScalarMap(fU) /\ ScalarMap(fqU)
  BY <1>1, <1>2, <1>4, <1>5 DEF ScalarMap
<1>7. Sum(tf) = Mul(t, Sum(f)) /\ Sum(tg) = Mul(t, Sum(g))
  BY <1>2, <1>3, <1>4, SumTimes
<1>8. Sum(tf) = Add(Sum(fU), tf[t]) /\ Sum(fq) = Add(Sum(fqU), fq[t])
  <2>1. DOMAIN tf = S /\ DOMAIN fq = S /\ DOMAIN fU = S \ {t} /\ DOMAIN fqU = S \ {t}
    BY <1>1, <1>2
  <2>2. t \in Identifier \cap DOMAIN tf /\ t \in Identifier \cap DOMAIN fq
    BY <1>3, <2>1
  <2>3. (\A n \in Identifier \cap DOMAIN fU : fU[n] = tf[n])
        /\ (\A n \in Identifier \cap DOMAIN fqU : fqU[n] = fq[n])
    BY <1>2
  <2> QED BY <1>4, <1>5, <2>1, <2>2, <2>3, SumSplit
<1>9. tf[t] = fq[t]
  <2>1. PICK l \in Scalar, y \in Scalar : l = Lagrange(t, S) /\ y = p[t]
    BY LagrangeType
  <2>2. tf[t] = Mul(t, Mul(l, y)) /\ fq[t] = Mul(l, Mul(y, t))
    BY <1>2, <2>1
  <2> QED BY <1>3, <2>2, MulAssociative, ScalarsCommute, MulScalars
<1>10. ASSUME NEW i \in U PROVE fU[i] = Add(fqU[i], tg[i])
  <2>1. i \in S /\ i # t /\ i \in Scalar
    BY <1>1, IdentifierFacts
  <2>2. PICK l \in Scalar, m \in Scalar, y \in Scalar, e \in Scalar :
           l = Lagrange(i, S) /\ m = Lagrange(i, U) /\ y = p[i] /\ e = Sub(t, i)
    BY <1>1, <1>3, <2>1, LagrangeType, SubType
  <2>3. /\ fU[i] = Mul(t, Mul(l, y))
        /\ fqU[i] = Mul(l, Mul(y, i))
        /\ tg[i] = Mul(t, Mul(m, y))
    BY <1>2, <2>1, <2>2
  <2>4. Mul(l, e) = Mul(m, t) /\ Add(i, e) = t
    BY <1>1, <1>3, <2>1, <2>2, LagrangeSplit, SubFacts
  <2>5. PICK ly \in Scalar : ly = Mul(l, y)
    BY MulScalars
  <2>6. Mul(t, ly) = Add(Mul(ly, i), Mul(ly, e))
    BY <1>3, <2>1, <2>4, MulDistributes, ScalarsCommute
  <2>7. Mul(ly, i) = fqU[i]
    BY <2>1, <2>3, <2>5, MulAssociative
  <2>8. Mul(ly, e) = tg[i]
    <3>1. Mul(ly, e) = Mul(y, Mul(l, e))
      BY <2>5, MulAssociative, ScalarsCommute
    <3>2. Mul(y, Mul(m, t)) = Mul(t, Mul(m, y))
      BY <1>3, MulAssociative, ScalarsCommute, MulScalars
    <3> QED BY <2>3, <2>4, <3>1, <3>2
  <2> QED BY <2>3, <2>5, <2>6, <2>7, <2>8
<1>11. Sum(fU) = Add(Sum(fqU), Sum(tg))
  <2>1. DOMAIN fU = U /\ DOMAIN fqU = U /\ DOMAIN tg = U
    BY <1>2
  <2> QED BY <1>5, <1>6, <1>10, <2>1, SumPlus
<1>12. Add(Add(Sum(fqU), Sum(tg)), fq[t]) = Add(Add(Sum(fqU), fq[t]), Sum(tg))
  <2>1. Sum(fqU) \in Scalar /\ Sum(tg) \in Scalar /\ fq[t] \in Scalar
    BY <1>2, <1>3, <1>4, <1>5, <1>6, SumType DEF ScalarMap
  <2> QED BY <2>1, AddAssociative, AddCommutative
<1> QED BY <1>1, <1>2, <1>7, <1>8, <1>9, <1>11, <1>12 DEF LagrangeSum

\* The m-th powers of the identifiers.
Powers(m) == [i \in Identifier |-> Power(i, m)]

\* Powers are scalars; the zeroth is one, each of the others a factor more.
LEMMA PowersFacts ==
  /\ \A m : Powers(m) \in [Identifier -> Scalar]
  /\ \A i \in Identifier : Powers(0)[i] = 1
  /\ \A m \in 0..(MaxSigners - 1), i \in Identifier :
        Powers(m + 1)[i] = Mul(Powers(m)[i], i)
  BY PowerType, PowerStep, IdentifierFacts DEF Powers

\* With one signer the interpolation is the value itself.
LEMMA LagrangeSumOfOne ==
  ASSUME NEW s \in Identifier, NEW p \in [Identifier -> Scalar]
  PROVE  LagrangeSum(p, {s}) = p[s]
<1>1. Lagrange(s, {s}) = Mul(1, Inv(1))
  <2>1. Product([j \in {s} \ {s} |-> j]) = 1 /\ Product([j \in {s} \ {s} |-> Sub(j, s)]) = 1
    BY ProductEmpty
  <2> QED BY <2>1 DEF Lagrange
<1>2. Mul(1, Inv(1)) = 1
  BY InvFacts, ScalarFacts
<1>3. Mul(1, p[s]) = p[s]
  BY MulOne, ScalarsCommute, ScalarFacts
<1>4. PICK f, g : f = [i \in {s} |-> Mul(Lagrange(i, {s}), p[i])] /\ g = [i \in {} |-> 0]
  OBVIOUS
<1>5. f[s] = p[s] /\ DOMAIN f = {s} /\ DOMAIN g = DOMAIN f \ {s}
  BY <1>1, <1>2, <1>3, <1>4
<1>6. ScalarMap(f)
  BY <1>5 DEF ScalarMap
<1>7. Sum(f) = Add(Sum(g), f[s])
  BY <1>4, <1>5, <1>6, SumSplit
<1>8. Sum(g) = 0
  BY <1>4, SumZero
<1> QED BY <1>4, <1>5, <1>7, <1>8, AddZero DEF LagrangeSum

\* The interpolation at zero of the powers smaller than the number of signers:
\* one for the constant, zero for the others; not zero for the next power.
Moments(S, n) ==
  /\ LagrangeSum(Powers(0), S) = 1
  /\ \A m \in 1..(n - 1) : LagrangeSum(Powers(m), S) = 0
  /\ LagrangeSum(Powers(n), S) # 0

\* One signer interpolates a constant.
LEMMA MomentsOfOne ==
  ASSUME NEW s \in Identifier
  PROVE  Moments({s}, 1)
<1>1. 1 \in Nat /\ 0 \in 0..(MaxSigners - 1) /\ 1..(1 - 1) = {}
  BY MaxSignersAssumption DEF Identifier
<1>2. Powers(1)[s] = s
  <2>1. Powers(0 + 1)[s] = Mul(1, s)
    BY <1>1, PowersFacts
  <2>2. Mul(1, s) = s
    BY IdentifierFacts, MulOne, ScalarsCommute, ScalarFacts
  <2> QED BY <2>1, <2>2
<1>3. LagrangeSum(Powers(0), {s}) = 1 /\ LagrangeSum(Powers(1), {s}) = s /\ s # 0
  BY <1>2, LagrangeSumOfOne, PowersFacts, IdentifierFacts
<1> QED BY <1>1, <1>3 DEF Moments

\* One signer more raises the degree that vanishes by one: the interpolation over
\* S is a combination of those without t and without u (LagrangeSumStep).
LEMMA MomentsStep ==
  ASSUME NEW n \in Identifier, n + 1 \in Identifier, NEW S \in SUBSET Identifier,
         NEW t \in S, NEW u \in S, t # u,
         Moments(S \ {t}, n), Moments(S \ {u}, n)
  PROVE  Moments(S, n + 1)
<1>1. n \in Nat \ {0} /\ n \in 0..(MaxSigners - 1) /\ MaxSigners \in Nat
  BY MaxSignersAssumption DEF Identifier
<1>2. t \in Scalar \ {0} /\ u \in Scalar \ {0}
  BY IdentifierFacts
<1> DEFINE A(m) == LagrangeSum(Powers(m), S)
<1>3. \A m \in Nat : A(m) \in Scalar
  BY LagrangeSumType, PowersFacts
<1>4. ASSUME NEW v \in S, NEW m \in 0..n
      PROVE  Mul(v, A(m)) = Add(A(m + 1), Mul(v, LagrangeSum(Powers(m), S \ {v})))
  <2>1. m \in 0..(MaxSigners - 1)
    BY <1>1
  <2>2. \A i \in S : Powers(m + 1)[i] = Mul(Powers(m)[i], i)
    BY <2>1, PowersFacts
  <2> QED BY <2>2, PowersFacts, LagrangeSumStep
<1>5. A(0) = 1 /\ A(1) = 0
  <2>1. 0 \in 0..n /\ 0 + 1 = 1
    BY <1>1
  <2>2. Mul(t, A(0)) = Add(A(1), t) /\ Mul(u, A(0)) = Add(A(1), u)
    <3>1. Mul(t, 1) = t /\ Mul(u, 1) = u
      BY <1>2, MulOne
    <3> HIDE DEF A
    <3> QED BY <1>4, <2>1, <3>1 DEF Moments
  <2>3. PICK a \in Scalar, b \in Scalar : a = A(0) /\ b = A(1)
    BY <1>3
  <2>4. Sub(t, u) \in Scalar \ {0} /\ Add(u, Sub(t, u)) = t
    BY <1>2, SubFacts, SubType
  <2>5. Mul(Sub(t, u), a) = Sub(t, u)
    <3>1. PICK e \in Scalar, ea \in Scalar, ua \in Scalar :
             e = Sub(t, u) /\ ea = Mul(e, a) /\ ua = Mul(u, a)
      BY <1>2, <2>4, MulScalars
    <3>2. Mul(t, a) = Add(ua, ea)
      BY <1>2, <2>4, <3>1, MulDistributes, ScalarsCommute
    <3>3. Add(b, t) = Add(ua, ea) /\ Add(b, u) = ua /\ t = Add(u, e)
      BY <2>2, <2>3, <2>4, <3>1, <3>2
    <3>4. Add(b, Add(u, e)) = Add(Add(b, u), ea)
      BY <3>3
    <3>5. ea = e
      BY <1>2, <3>4, QAssumption DEF Add, Scalar
    <3> QED BY <3>1, <3>5
  <2>6. a = 1
    <3>1. PICK e \in Scalar \ {0} : e = Sub(t, u)
      BY <2>4
    <3>2. Mul(e, a) = Mul(e, 1)
      BY <2>5, <3>1, MulOne
    <3> QED BY <3>2, MulCancel, ScalarFacts
  <2>7. b = 0
    <3>1. t = Add(b, t)
      BY <1>2, <2>2, <2>3, <2>6, MulOne
    <3> QED BY <1>2, <3>1, QAssumption DEF Add, Scalar
  <2> QED BY <2>3, <2>6, <2>7
<1>6. ASSUME NEW m \in 1..n, A(m) = 0
      PROVE  A(m + 1) = 0 <=> LagrangeSum(Powers(m), S \ {t}) = 0
  <2>1. PICK b \in Scalar, c \in Scalar :
           b = A(m + 1) /\ c = LagrangeSum(Powers(m), S \ {t})
    <3>1. m + 1 \in Nat /\ S \ {t} \in SUBSET Identifier
      OBVIOUS
    <3> QED BY <1>3, <3>1, LagrangeSumType, PowersFacts
  <2>2. 0 = Add(b, Mul(t, c))
    <3>1. Mul(t, 0) = 0 /\ m \in 0..n
      BY <1>2, MulZero
    <3> HIDE DEF A
    <3> QED BY <1>4, <1>6, <2>1, <3>1
  <2>3. b = 0 <=> Mul(t, c) = 0
    <3>1. PICK x \in Scalar : x = Mul(t, c)
      BY <1>2, MulScalars
    <3>2. 0 = Add(b, x)
      BY <2>2, <3>1
    <3> QED BY <3>1, <3>2, QAssumption DEF Add, Scalar
  <2>4. Mul(t, c) = 0 <=> c = 0
    BY <1>2, MulZero, NoZeroDivisors
  <2> HIDE DEF A
  <2> QED BY <2>1, <2>3, <2>4
<1> HIDE DEF A
<1> DEFINE T == {m \in 0..(n - 1) : A(m + 1) = 0}
<1>7. 0 \in T
  BY <1>1, <1>5
<1>8. ASSUME NEW k \in 0..((n - 1) - 1), k \in T PROVE k + 1 \in T
  <2>1. k + 1 \in 1..n /\ k + 1 \in 1..(n - 1) /\ k + 1 \in 0..(n - 1)
    BY <1>1
  <2>2. LagrangeSum(Powers(k + 1), S \ {t}) = 0
    BY <2>1 DEF Moments
  <2>3. A((k + 1) + 1) = 0
    BY <1>6, <1>8, <2>1, <2>2
  <2> QED BY <2>1, <2>3
<1> HIDE DEF T
<1>9. 0..(n - 1) \subseteq T
  BY <1>1, <1>7, <1>8, InductionUpTo
<1>10. \A m \in 1..n : A(m) = 0
  <2> SUFFICES ASSUME NEW m \in 1..n PROVE A(m) = 0
    OBVIOUS
  <2>1. m - 1 \in T /\ (m - 1) + 1 = m
    BY <1>1, <1>9
  <2> QED BY <2>1 DEF T
<1>11. A(n + 1) # 0
  <2>1. n \in 1..n
    BY <1>1
  <2> QED BY <1>6, <1>10, <2>1 DEF Moments
<1>12. (n + 1) - 1 = n
  BY <1>1
<1> QED BY <1>5, <1>10, <1>11, <1>12 DEF Moments, A

\* Removing one element of a set of signers.
LEMMA SignersFinite ==
  ASSUME NEW S \in SUBSET Identifier
  PROVE  IsFiniteSet(S) /\ Cardinality(S) \in 0..MaxSigners
<1>1. IsFiniteSet(1..MaxSigners) /\ Cardinality(1..MaxSigners) = MaxSigners
  BY FS_Interval, MaxSignersAssumption
<1>2. IsFiniteSet(S) /\ Cardinality(S) <= MaxSigners
  BY <1>1, FS_Subset DEF Identifier
<1> QED BY <1>2, FS_CardinalityType, MaxSignersAssumption

\* The interpolation at zero of the powers, for every set of signers.
LEMMA MomentsOfSigners ==
  ASSUME NEW S \in SUBSET Identifier, S # {}
  PROVE  Moments(S, Cardinality(S))
<1> DEFINE Good(n) == \A V \in SUBSET Identifier : Cardinality(V) = n => Moments(V, n)
           T == {n \in 0..(MaxSigners - 1) : Good(n + 1)}
<1>1. MaxSigners \in Nat /\ MaxSigners - 1 \in Nat
  <2>1. PICK s : s \in 1..MaxSigners
    BY DEF Identifier
  <2> QED BY <2>1, MaxSignersAssumption
<1>2. Good(1)
  <2> SUFFICES ASSUME NEW V \in SUBSET Identifier, Cardinality(V) = 1 PROVE Moments(V, 1)
    OBVIOUS
  <2>1. PICK s : V = {s}
    BY SignersFinite, FS_Singleton
  <2> QED BY <2>1, MomentsOfOne
<1>3. ASSUME NEW k \in 0..((MaxSigners - 1) - 1), Good(k + 1) PROVE Good((k + 1) + 1)
  <2>1. k + 1 \in Identifier /\ (k + 1) + 1 \in Identifier /\ k + 1 \in Nat \ {0}
    BY MaxSignersAssumption DEF Identifier
  <2> SUFFICES ASSUME NEW V \in SUBSET Identifier, Cardinality(V) = (k + 1) + 1
               PROVE  Moments(V, (k + 1) + 1)
    OBVIOUS
  <2>2. IsFiniteSet(V)
    BY SignersFinite
  <2>3. PICK t : t \in V
    BY <2>1, <2>2, FS_EmptySet
  <2>4. \A v \in V : Cardinality(V \ {v}) = k + 1
    BY <2>1, <2>2, FS_RemoveElement
  <2>5. V \ {t} # {}
    BY <2>1, <2>3, <2>4, FS_EmptySet
  <2>6. PICK u : u \in V \ {t}
    BY <2>5
  <2>7. Moments(V \ {t}, k + 1) /\ Moments(V \ {u}, k + 1)
    BY <1>3, <2>3, <2>4, <2>6
  <2> QED BY <2>1, <2>3, <2>6, <2>7, MomentsStep
<1> HIDE DEF Good
<1>4. 0 \in T
  BY <1>1, <1>2
<1>5. ASSUME NEW k \in 0..((MaxSigners - 1) - 1), k \in T PROVE k + 1 \in T
  BY <1>1, <1>3, <1>5
<1> HIDE DEF T
<1>6. 0..(MaxSigners - 1) \subseteq T
  BY <1>1, <1>4, <1>5, InductionUpTo
<1>7. Cardinality(S) - 1 \in 0..(MaxSigners - 1) /\ (Cardinality(S) - 1) + 1 = Cardinality(S)
  <2>1. Cardinality(S) # 0
    BY SignersFinite, FS_EmptySet
  <2> QED BY <1>1, <2>1, SignersFinite
<1>8. Good(Cardinality(S))
  BY <1>6, <1>7 DEF T
<1> QED BY <1>8 DEF Good

-----------------------------------------------------------------------------
(* The shares of a whole session add up.                                   *)

\* The interpolation at zero is linear in the values.
LEMMA LagrangeSumLinear ==
  ASSUME NEW S \in SUBSET Identifier, NEW c \in Scalar,
         NEW p \in [Identifier -> Scalar], NEW q \in [Identifier -> Scalar],
         NEW r \in [Identifier -> Scalar],
         \A i \in S : r[i] = Add(p[i], Mul(c, q[i]))
  PROVE  LagrangeSum(r, S) = Add(LagrangeSum(p, S), Mul(c, LagrangeSum(q, S)))
<1>1. PICK fp, fq, fr, fc :
         /\ fp = [i \in S |-> Mul(Lagrange(i, S), p[i])]
         /\ fq = [i \in S |-> Mul(Lagrange(i, S), q[i])]
         /\ fr = [i \in S |-> Mul(Lagrange(i, S), r[i])]
         /\ fc = [i \in S |-> Mul(c, fq[i])]
  OBVIOUS
<1>2. ScalarMap(fp) /\ ScalarMap(fq)
  BY <1>1, LagrangeSumType
<1>3. ScalarMap(fc) /\ Sum(fc) = Mul(c, Sum(fq))
  <2>1. DOMAIN fc = DOMAIN fq /\ \A n \in Identifier \cap DOMAIN fq : fc[n] = Mul(c, fq[n])
    BY <1>1
  <2>2. ScalarMap(fc)
    BY <1>2, <2>1, MulScalars DEF ScalarMap
  <2> QED BY <1>2, <2>1, <2>2, SumTimes
<1>4. ASSUME NEW i \in S PROVE fr[i] = Add(fp[i], fc[i])
  <2>1. PICK l \in Scalar, x \in Scalar, y \in Scalar :
           l = Lagrange(i, S) /\ x = p[i] /\ y = q[i]
    BY LagrangeType
  <2>2. fr[i] = Mul(l, Add(x, Mul(c, y))) /\ fp[i] = Mul(l, x) /\ fc[i] = Mul(c, Mul(l, y))
    BY <1>1, <2>1
  <2>3. Mul(l, Mul(c, y)) = Mul(c, Mul(l, y))
    BY MulAssociative, ScalarsCommute
  <2> QED BY <2>2, <2>3, MulDistributes, MulScalars
<1>5. Sum(fr) = Add(Sum(fp), Sum(fc))
  <2>1. DOMAIN fp = S /\ DOMAIN fc = S /\ DOMAIN fr = S
    BY <1>1
  <2> QED BY <1>2, <1>3, <1>4, <2>1, SumPlus
<1> QED BY <1>1, <1>3, <1>5 DEF LagrangeSum

\* The values of a polynomial with as many coefficients as there are signers,
\* or fewer, interpolate to its constant term; with one more coefficient the
\* last one shows.
LEMMA Interpolation ==
  ASSUME NEW S \in SUBSET Identifier, S # {},
         NEW k \in Identifier, k <= Cardinality(S) + 1,
         NEW coeffs \in [1..k -> Scalar],
         NEW y \in [Identifier -> Scalar],
         \A i \in S : y[i] = Evaluate(coeffs, i)
  PROVE  LagrangeSum(y, S)
            = IF k <= Cardinality(S) THEN coeffs[1]
              ELSE Add(coeffs[1], Mul(coeffs[k], LagrangeSum(Powers(k - 1), S)))
<1>1. PICK s \in Nat \ {0} : s = Cardinality(S) /\ s <= MaxSigners
  <2>1. Cardinality(S) # 0
    BY SignersFinite, FS_EmptySet
  <2> QED BY <2>1, SignersFinite, MaxSignersAssumption
<1>2. k \in Nat \ {0} /\ k <= MaxSigners /\ k <= s + 1 /\ MaxSigners \in Nat
  BY <1>1, MaxSignersAssumption DEF Identifier
<1>3. PICK term : term = [i \in Identifier |-> [n \in 1..k |-> Mul(coeffs[n], Power(i, n - 1))]]
  OBVIOUS
<1>4. \A i \in Identifier : ScalarMap(term[i]) /\ DOMAIN term[i] = 1..k
         /\ \A n \in 1..k : term[i][n] = Mul(coeffs[n], Powers(n - 1)[i])
  BY <1>3, IdentifierFacts, PowerType, MulScalars DEF ScalarMap, Powers
<1> DEFINE V(n) == [i \in Identifier |-> PartialSums(term[i])[n]]
           E(n) == LagrangeSum(V(n), S)
           last == Add(coeffs[1], Mul(coeffs[k], LagrangeSum(Powers(k - 1), S)))
           want(n) == IF n = 0 THEN 0 ELSE IF n <= s \/ k <= s THEN coeffs[1] ELSE last
           T == {n \in 0..MaxSigners : E(n) = want(n)}
<1>5. \A n \in 0..MaxSigners : V(n) \in [Identifier -> Scalar]
  BY <1>4, PartialSumsStep
<1>6. \A n \in Identifier, i \in Identifier :
         V(n)[i] = IF n \in 1..k THEN Add(V(n - 1)[i], Mul(coeffs[n], Powers(n - 1)[i]))
                                 ELSE V(n - 1)[i]
  <2> SUFFICES ASSUME NEW n \in Identifier, NEW i \in Identifier
               PROVE  V(n)[i] = IF n \in 1..k THEN Add(V(n - 1)[i], Mul(coeffs[n], Powers(n - 1)[i]))
                                              ELSE V(n - 1)[i]
    OBVIOUS
  <2>1. /\ V(n)[i] = PartialSums(term[i])[n]
        /\ V(n - 1)[i] = PartialSums(term[i])[n - 1]
    OBVIOUS
  <2> HIDE DEF V
  <2>2. PICK f : f = term[i]
    OBVIOUS
  <2>3. ScalarMap(f) /\ DOMAIN f = 1..k
        /\ (n \in 1..k => f[n] = Mul(coeffs[n], Powers(n - 1)[i]))
    BY ONLY <1>4, <2>2, i \in Identifier
  <2>4. PartialSums(f)[n] = IF n \in DOMAIN f THEN Add(PartialSums(f)[n - 1], f[n])
                                              ELSE PartialSums(f)[n - 1]
    BY ONLY <2>3, PartialSumsStep, n \in Identifier
  <2> QED BY ONLY <2>1, <2>2, <2>3, <2>4
<1>7. E(0) = 0
  <2>1. \A i \in Identifier : V(0)[i] = 0
    BY <1>4, PartialSumsStep
  <2> HIDE DEF V
  <2>2. \A i \in S : Mul(Lagrange(i, S), V(0)[i]) = 0
    BY <2>1, LagrangeType, MulZero
  <2> QED BY <2>2, SumZero DEF LagrangeSum
<1> HIDE DEF V
<1>8. ASSUME NEW n \in 1..k
      PROVE  E(n) = Add(E(n - 1), Mul(coeffs[n], LagrangeSum(Powers(n - 1), S)))
  <2>1. n \in Identifier /\ n \in 0..MaxSigners /\ n - 1 \in 0..MaxSigners
    BY <1>2 DEF Identifier
  <2>2. \A i \in S : V(n)[i] = Add(V(n - 1)[i], Mul(coeffs[n], Powers(n - 1)[i]))
    BY <1>6, <2>1
  <2>3. PICK p \in [Identifier -> Scalar], q \in [Identifier -> Scalar],
             r \in [Identifier -> Scalar], c \in Scalar :
           p = V(n - 1) /\ q = Powers(n - 1) /\ r = V(n) /\ c = coeffs[n]
    BY <1>5, <2>1, PowersFacts
  <2> QED BY <2>2, <2>3, LagrangeSumLinear
<1>9. ASSUME NEW n \in Identifier, n \notin 1..k
      PROVE  E(n) = E(n - 1)
  <2>1. n \in 0..MaxSigners /\ n - 1 \in 0..MaxSigners
    BY MaxSignersAssumption DEF Identifier
  <2>2. V(n) = V(n - 1)
    <3>1. \A i \in Identifier : V(n)[i] = V(n - 1)[i]
      BY <1>6, <1>9
    <3>2. PICK p \in [Identifier -> Scalar], q \in [Identifier -> Scalar] :
             p = V(n) /\ q = V(n - 1)
      BY <1>5, <2>1
    <3>3. \A i \in Identifier : p[i] = q[i]
      BY <3>1, <3>2
    <3>4. p = q
      BY <3>3
    <3> QED BY <3>2, <3>4
  <2> QED BY <2>2
<1>10. Moments(S, s)
  BY <1>1, MomentsOfSigners
<1>11. coeffs[1] \in Scalar /\ \A n \in 1..k : coeffs[n] \in Scalar
  BY <1>2
<1> HIDE DEF E
<1>12. 0 \in T
  BY <1>7, MaxSignersAssumption
<1>13. ASSUME NEW n \in Identifier, n - 1 \in T PROVE n \in T
  <2>1. n \in 0..MaxSigners /\ n \in Nat \ {0} /\ E(n - 1) = want(n - 1)
    BY <1>13, MaxSignersAssumption DEF Identifier
  <2> SUFFICES E(n) = want(n)
    BY <2>1
  <2>2. CASE n = 1
    <3>1. E(1) = Add(0, Mul(coeffs[1], 1))
      BY <1>2, <1>8, <1>10, <2>1, <2>2 DEF Moments
    <3>2. E(1) = coeffs[1]
      BY <1>11, <3>1, MulOne, AddZero
    <3> QED BY <1>1, <2>2, <3>2
  <2>3. CASE n # 1 /\ n <= s /\ n <= k
    <3>1. n \in 1..k /\ n - 1 \in 1..(s - 1) /\ n - 1 # 0 /\ n - 1 <= s
      BY <1>1, <2>1, <2>3
    <3>2. E(n) = Add(coeffs[1], Mul(coeffs[n], 0))
      BY <1>8, <1>10, <2>1, <3>1 DEF Moments
    <3>3. E(n) = coeffs[1]
      BY <1>11, <3>1, <3>2, MulZero, AddZero
    <3> QED BY <2>1, <2>3, <3>3
  <2>4. CASE n # 1 /\ n > k
    <3>1. E(n) = E(n - 1)
      BY <1>9, <2>1, <2>4, <1>2
    <3>2. n - 1 # 0 /\ (n - 1 <= s \/ k <= s <=> n <= s \/ k <= s)
      BY <1>1, <1>2, <2>1, <2>4
    <3> QED BY <2>1, <3>1, <3>2
  <2>5. CASE n # 1 /\ n <= k /\ n > s
    <3>1. n = k /\ n = s + 1 /\ n \in 1..k /\ n - 1 # 0 /\ n - 1 <= s
      BY <1>1, <1>2, <2>1, <2>5
    <3>2. E(n) = last
      BY <1>8, <2>1, <3>1
    <3>3. ~ (n <= s \/ k <= s)
      BY <1>1, <3>1
    <3> QED BY <2>1, <3>2, <3>3
  <2> QED BY <1>1, <1>2, <2>1, <2>2, <2>3, <2>4, <2>5
<1> HIDE DEF T, last
<1>14. MaxSigners \in T
  BY <1>12, <1>13, InductionOnIdentifiers, MaxSignersAssumption
<1>15. E(MaxSigners) = IF k <= s THEN coeffs[1] ELSE last
  BY <1>1, <1>2, <1>14 DEF T
<1>16. \A i \in S : V(MaxSigners)[i] = y[i]
  <2> SUFFICES ASSUME NEW i \in S PROVE V(MaxSigners)[i] = y[i]
    OBVIOUS
  <2>1. Evaluate(coeffs, i) = Sum(term[i])
    BY <1>3 DEF Evaluate
  <2>2. V(MaxSigners)[i] = PartialSums(term[i])[MaxSigners]
    BY DEF V
  <2> QED BY <1>4, <2>1, <2>2, PartialSumsStep
<1>17. E(MaxSigners) = LagrangeSum(y, S)
  <2>1. [i \in S |-> Mul(Lagrange(i, S), V(MaxSigners)[i])]
          = [i \in S |-> Mul(Lagrange(i, S), y[i])]
    BY <1>16
  <2> QED BY <2>1 DEF E, LagrangeSum
<1> QED BY <1>1, <1>15, <1>17 DEF last
-----------------------------------------------------------------------------
(* A session in which every signer of the package has signed.              *)

\* What the signers interpolate: the sum of the lambda_i*y_i.
KeySum(package, keys) ==
  Sum([i \in Ids(package) |->
         Mul(Lagrange(i, Ids(package)), keys.shares[i].signing_share)])

\* What signer i adds for its nonces: d + b*e, negated with the aggregate nonce.
NonceShare(package, pubkeys, i) ==
  LET comm == package.signing_commitments[i]
  IN  NormalizeShareR(AggregateNonce(package, pubkeys),
                      Add(comm.D, Mul(NonceChallenge(package, pubkeys), comm.E))).nonce

\* The nonces add up to the aggregate nonce, negated or not as it is.
LEMMA NoncesSumUp ==
  ASSUME NEW package \in SigningPackages, NEW pubkeys,
         pubkeys.verifying_key \in Scalar, NEW n,
         n = [i \in Ids(package) |-> NonceShare(package, pubkeys, i)]
  PROVE  /\ ScalarMap(n)
         /\ Sum(n) = NormalizeShareR(AggregateNonce(package, pubkeys), 0).R
<1>1. PICK b \in Scalar, R \in Scalar :
         b = NonceChallenge(package, pubkeys) /\ R = AggregateNonce(package, pubkeys)
  BY AggregateNonceType
<1>2. PICK S : S = Ids(package)
  OBVIOUS
<1>3. PICK D, EE, bE, m :
         /\ D  = [i \in S |-> package.signing_commitments[i].D]
         /\ EE = [i \in S |-> package.signing_commitments[i].E]
         /\ bE = [i \in S |-> Mul(b, EE[i])]
         /\ m  = [i \in S |-> Add(D[i], bE[i])]
  OBVIOUS
<1>4. ScalarMap(D) /\ ScalarMap(EE)
  BY <1>1, <1>2, <1>3, PackageFacts DEF ScalarMap
<1>5. ScalarMap(bE) /\ ScalarMap(m)
  BY <1>1, <1>2, <1>3, <1>4, AddType, MulScalars DEF ScalarMap
<1>6. Sum(bE) = Mul(b, Sum(EE))
  BY <1>1, <1>2, <1>3, <1>4, SumTimes
<1>7. Sum(m) = Add(Sum(D), Sum(bE))
  <2>1. DOMAIN D = S /\ DOMAIN bE = S /\ DOMAIN m = S /\ \A i \in S : m[i] = Add(D[i], bE[i])
    BY <1>1, <1>2, <1>3
  <2> QED BY <1>4, <1>5, <2>1, SumPlus
<1>8. R = Add(Sum(D), Mul(Sum(EE), b))
  BY <1>1, <1>2, <1>3 DEF AggregateNonce
<1>9. Sum(m) = R
  BY <1>1, <1>2, <1>3, <1>4, <1>6, <1>7, <1>8, SumType, ScalarsCommute
<1>10. /\ DOMAIN n = S /\ DOMAIN m = S /\ S \subseteq Identifier
      /\ \A i \in S : n[i] = NormalizeShareR(R, m[i]).nonce /\ m[i] \in Scalar
  BY <1>1, <1>2, <1>3, <1>5, PackageFacts DEF ScalarMap, NonceShare
<1>11. CASE Suite = "bip340" /\ HasOddY(R)
  <2>1. \A i \in S : n[i] = Neg(m[i])
    BY <1>10, <1>11 DEF NormalizeShareR
  <2>2. ScalarMap(n)
    BY <1>10, <2>1, NegType DEF ScalarMap
  <2>3. Sum(n) = Neg(Sum(m))
    BY <1>5, <1>10, <2>1, SumNeg
  <2> QED BY <1>1, <1>2, <1>3, <1>9, <1>11, <2>2, <2>3 DEF NormalizeShareR
<1>12. CASE ~ (Suite = "bip340" /\ HasOddY(R))
  <2>1. \A i \in S : n[i] = m[i]
    BY <1>10, <1>12 DEF NormalizeShareR
  <2>2. n = m
    <3>1. n = [i \in S |-> n[i]] /\ m = [i \in S |-> m[i]]
      BY <1>1, <1>2, <1>3
    <3>2. [i \in S |-> n[i]] = [i \in S |-> m[i]]
      BY <2>1
    <3> QED BY <3>1, <3>2
  <2> QED BY <1>1, <1>2, <1>3, <1>5, <1>9, <1>12, <2>2 DEF NormalizeShareR
<1> QED BY <1>11, <1>12

\* The shares add up to the aggregate nonce and the challenge times the
\* interpolated key, when the blinding values B cancel.
LEMMA SharesSumUp ==
  ASSUME NEW package \in SigningPackages, NEW keys, Dealt(keys),
         NEW B, DOMAIN B = Ids(package), ScalarMap(B), Sum(B) = 0,
         NEW z, DOMAIN z = Ids(package),
         \A i \in Ids(package) :
            z[i] = Add(Add(KeyTerm(package, keys.shares[i], keys.pubkeys), B[i]),
                       NonceShare(package, keys.pubkeys, i))
  PROVE  /\ KeySum(package, keys) \in Scalar
         /\ Sum(z) = Add(NormalizeShareR(AggregateNonce(package, keys.pubkeys), 0).R,
                         Mul(SigChallenge(package, keys.pubkeys), KeySum(package, keys)))
<1>1. PICK c \in Scalar : c = SigChallenge(package, keys.pubkeys)
  <2>1. keys.pubkeys.verifying_key \in Scalar
    BY DEF Dealt
  <2> QED BY <2>1, SigChallengeType
<1>2. PICK S : S = Ids(package)
  OBVIOUS
<1>3. PICK l, k, n, kB :
         /\ l = [i \in S |-> Mul(Lagrange(i, S), keys.shares[i].signing_share)]
         /\ k = [i \in S |-> Mul(c, l[i])]
         /\ n = [i \in S |->
                   NonceShare(package, keys.pubkeys, i)]
         /\ kB = [i \in S |-> Add(k[i], B[i])]
  OBVIOUS
<1>4. S \in SUBSET Identifier /\ keys.pubkeys.verifying_key \in Scalar
      /\ \A i \in S : keys.shares[i].identifier = i /\ keys.shares[i].signing_share \in Scalar
  BY <1>1, <1>2, <1>3, PackageFacts DEF Dealt
<1>5. ScalarMap(l)
  BY <1>1, <1>2, <1>3, <1>4, LagrangeType, MulScalars DEF ScalarMap
<1>6. ScalarMap(k)
  BY <1>1, <1>2, <1>3, <1>5, MulScalars DEF ScalarMap
<1>7. Sum(k) = Mul(c, Sum(l))
  BY <1>1, <1>2, <1>3, <1>5, SumTimes
<1>8. ScalarMap(kB)
  BY <1>1, <1>2, <1>3, <1>6, AddType DEF ScalarMap
<1>9. Sum(kB) = Sum(k)
  <2>1. DOMAIN k = S /\ DOMAIN kB = S /\ DOMAIN B = S /\ \A i \in S : kB[i] = Add(k[i], B[i])
    BY <1>1, <1>2, <1>3
  <2>2. Sum(kB) = Add(Sum(k), Sum(B))
    BY <1>6, <2>1, SumPlus
  <2> QED BY <1>6, <2>2, SumType, AddZero
<1>10. ScalarMap(n) /\ Sum(n) = NormalizeShareR(AggregateNonce(package, keys.pubkeys), 0).R
  BY <1>1, <1>2, <1>3, <1>4, NoncesSumUp
<1>11. \A i \in S : z[i] = Add(kB[i], n[i])
  <2> SUFFICES ASSUME NEW i \in S PROVE z[i] = Add(kB[i], n[i])
    OBVIOUS
  <2>1. KeyTerm(package, keys.shares[i], keys.pubkeys) = k[i]
    <3>1. PICK x \in Scalar, y \in Scalar :
             x = Lagrange(i, S) /\ y = keys.shares[i].signing_share
      BY <1>4, LagrangeType
    <3>2. KeyTerm(package, keys.shares[i], keys.pubkeys) = Mul(Mul(c, x), y)
      BY <1>1, <1>2, <1>3, <1>4, <3>1 DEF KeyTerm
    <3>3. k[i] = Mul(c, Mul(x, y))
      BY <1>1, <1>2, <1>3, <3>1
    <3> QED BY <3>2, <3>3, MulAssociative
  <2> QED BY <1>1, <1>2, <1>3, <2>1
<1>12. Sum(z) = Add(Sum(kB), Sum(n))
  <2>1. DOMAIN kB = S /\ DOMAIN n = S /\ DOMAIN z = S
    BY <1>1, <1>2, <1>3
  <2> QED BY <1>8, <1>10, <1>11, <2>1, SumPlus
<1>13. Sum(l) = KeySum(package, keys)
  BY <1>1, <1>2, <1>3 DEF KeySum
<1>14. Sum(z) = Add(Mul(c, Sum(l)), Sum(n))
  BY <1>7, <1>9, <1>12
<1> QED BY <1>1, <1>2, <1>3, <1>5, <1>10, <1>13, <1>14, SumType, MulScalars, AddCommutative

\* Verification does not see the sign of the aggregate nonce, and accepts the
\* one the shares carry.
LEMMA NormalisedNonce ==
  ASSUME NEW R \in Scalar, NEW vk, NEW m
  PROVE  /\ AcceptR(NormalizeShareR(R, 0).R)
         /\ Challenge(vk, NormalizeShareR(R, 0).R, m) = Challenge(vk, R, m)
<1>1. CASE Suite = "bip340" /\ HasOddY(R)
  <2>1. NormalizeShareR(R, 0).R = Q - R /\ R # 0
    BY <1>1 DEF NormalizeShareR, Neg, HasOddY
  <2>2. (Q - R) % 2 = 0
    BY <1>1, OddOrder, QAssumption DEF HasOddY, Scalar
  <2>3. ~ HasOddY(Q - R)
    BY <2>2 DEF HasOddY
  <2>4. XOnly(Q - R) = XOnly(R)
    BY <1>1, <2>1, <2>3 DEF XOnly, Neg
  <2>5. PICK r : r = NormalizeShareR(R, 0).R
    OBVIOUS
  <2>6. r = Q - R
    BY <2>1, <2>5
  <2>7. ~ HasOddY(r) /\ XOnly(r) = XOnly(R)
    BY <2>3, <2>4, <2>6
  <2> QED BY <1>1, <2>5, <2>7 DEF AcceptR, Challenge
<1>2. CASE ~ (Suite = "bip340" /\ HasOddY(R))
  BY <1>2 DEF NormalizeShareR, AcceptR
<1> QED BY <1>1, <1>2

\* The shares of all signers of a package aggregate to the nonce plus the
\* challenge times the interpolated key, and the signature verifies exactly
\* when the interpolated key, times the challenge, is the group's.
LEMMA SessionVerifies ==
  ASSUME NEW package \in SigningPackages, Ids(package) # {}, NEW keys, Dealt(keys),
         NEW B, DOMAIN B = Ids(package), ScalarMap(B), Sum(B) = 0,
         NEW shares, DOMAIN shares = Ids(package),
         \A i \in Ids(package) :
            /\ shares[i].R = NormalizeShareR(AggregateNonce(package, keys.pubkeys), 0).R
            /\ shares[i].z
                  = Add(Add(KeyTerm(package, keys.shares[i], keys.pubkeys), B[i]),
                        NonceShare(package, keys.pubkeys, i))
  PROVE  /\ KeySum(package, keys) \in Scalar
         /\ AggregateResult(package, shares) = "Ok"
         /\ Aggregate(shares).R = NormalizeShareR(AggregateNonce(package, keys.pubkeys), 0).R
         /\ Aggregate(shares).z
               = Add(Aggregate(shares).R,
                     Mul(SigChallenge(package, keys.pubkeys), KeySum(package, keys)))
         /\ Verify(Aggregate(shares), package.message, keys.pubkeys)
               <=> Mul(SigChallenge(package, keys.pubkeys), KeySum(package, keys))
                      = Mul(SigChallenge(package, keys.pubkeys), keys.pubkeys.verifying_key)
<1>1. /\ keys.pubkeys.verifying_key \in Scalar
      /\ SigChallenge(package, keys.pubkeys) \in Scalar
      /\ AggregateNonce(package, keys.pubkeys) \in Scalar
      /\ NormalizeShareR(AggregateNonce(package, keys.pubkeys), 0).R \in Scalar
  <2>1. keys.pubkeys.verifying_key \in Scalar
    BY DEF Dealt
  <2> QED BY <2>1, SigChallengeType, AggregateNonceType, NormalizeShareRType, ScalarFacts
<1>2. PICK vk \in Scalar, c \in Scalar, R \in Scalar, r \in Scalar :
         /\ vk = keys.pubkeys.verifying_key
         /\ c = SigChallenge(package, keys.pubkeys)
         /\ R = AggregateNonce(package, keys.pubkeys)
         /\ r = NormalizeShareR(R, 0).R
  BY <1>1
<1>3. PICK S, z : S = Ids(package) /\ z = [i \in S |-> shares[i].z]
  OBVIOUS
<1>4. /\ S = Ids(package) /\ vk = keys.pubkeys.verifying_key
      /\ c = SigChallenge(package, keys.pubkeys)
      /\ R = AggregateNonce(package, keys.pubkeys)
      /\ r = NormalizeShareR(R, 0).R
      /\ z = [i \in S |-> shares[i].z]
  BY <1>2, <1>3
<1>5. \A i \in S : shares[i].R = r
  BY <1>4
<1>6. AggregateResult(package, shares) = "Ok"
  BY <1>4, <1>5 DEF AggregateResult
<1>7. Aggregate(shares).R = r
  <2>1. {shares[i].R : i \in DOMAIN shares} = {r}
    BY <1>4, <1>5
  <2> QED BY <2>1 DEF Aggregate
<1>8. Aggregate(shares).z = Sum(z)
  BY <1>4 DEF Aggregate
<1>9. KeySum(package, keys) \in Scalar /\ Sum(z) = Add(r, Mul(c, KeySum(package, keys)))
  <2>1. DOMAIN z = Ids(package)
    BY <1>4
  <2>2. \A i \in Ids(package) : z[i] = shares[i].z
    BY <1>4
  <2> QED BY <1>4, <2>1, <2>2, SharesSumUp
<1>10. AcceptR(r) /\ Challenge(vk, r, package.message) = c
  BY <1>4, NormalisedNonce DEF SigChallenge
<1>11. Verify(Aggregate(shares), package.message, keys.pubkeys)
         <=> Add(r, Mul(c, KeySum(package, keys))) = Add(r, Mul(vk, c))
  BY <1>4, <1>7, <1>8, <1>9, <1>10 DEF Verify
<1>12. PICK x \in Scalar, y \in Scalar : x = Mul(c, KeySum(package, keys)) /\ y = Mul(c, vk)
  BY <1>9, MulScalars
<1>13. Mul(vk, c) = y
  BY <1>12, ScalarsCommute
<1>14. Add(r, x) = Add(r, y) <=> x = y
  BY QAssumption DEF Add, Scalar
<1> QED BY <1>4, <1>6, <1>7, <1>8, <1>9, <1>11, <1>12, <1>13, <1>14

\* What the dealer's shares interpolate to: the group's key for min_signers
\* signers or more, not for one less, when the polynomial has its degree.
LEMMA KeySumInterpolates ==
  ASSUME NEW secret_key \in Scalar, NEW random \in Randomness,
         NEW keys, keys = GenerateWithDealer(secret_key, random),
         NEW package \in SigningPackages, Ids(package) # {}
  PROVE  /\ Cardinality(Ids(package)) >= MinSigners
               => KeySum(package, keys) = keys.pubkeys.verifying_key
         /\ Cardinality(Ids(package)) = MinSigners - 1 /\ random.coeffs[MinSigners] # 0
               => KeySum(package, keys) # keys.pubkeys.verifying_key
<1>1. PICK S, key, coeffs :
         /\ S = Ids(package)
         /\ key = NormalizeKeygen(secret_key, secret_key)
         /\ coeffs = [n \in 1..NumCoeffs |-> IF n = 1 THEN key.sk ELSE random.coeffs[n]]
  OBVIOUS
<1>2. S \in SUBSET Identifier /\ S # {}
  BY <1>1, PackageFacts
<1>3. PICK s \in Nat \ {0} : s = Cardinality(S)
  <2>1. Cardinality(S) # 0 /\ Cardinality(S) \in Nat
    BY <1>2, SignersFinite, FS_EmptySet, MaxSignersAssumption
  <2> QED BY <2>1
<1>4. MinSigners \in Nat /\ MaxSigners \in Nat /\ MinSigners <= MaxSigners
  BY MinSignersAssumption, MaxSignersAssumption
<1>5. NumCoeffs \in Identifier
  <2>1. PICK i : i \in 1..MaxSigners
    BY <1>2 DEF Identifier
  <2> QED BY <1>4, <2>1 DEF NumCoeffs, Identifier
<1>6. key.sk = key.vk /\ key.sk \in Scalar
  BY <1>1, NormalizeKeygenType DEF NormalizeKeygen
<1>7. coeffs \in [1..NumCoeffs -> Scalar] /\ coeffs[1] = key.vk
  <2>1. \A n \in 2..NumCoeffs : random.coeffs[n] \in Scalar
    BY DEF Randomness
  <2>2. NumCoeffs \in Nat \ {0}
    BY <1>4, <1>5 DEF Identifier
  <2>3. coeffs \in [1..NumCoeffs -> Scalar]
    BY <1>1, <1>6, <2>1, <2>2
  <2> QED BY <1>1, <1>6, <2>2, <2>3
<1>8. PICK y \in [Identifier -> Scalar] : y = [i \in Identifier |-> Evaluate(coeffs, i)]
  <2>1. \A i \in Identifier : Evaluate(coeffs, i) \in Scalar
    BY <1>7, EvaluateType, IdentifierFacts
  <2> QED BY <2>1
<1>9. /\ keys.pubkeys.verifying_key = key.vk
      /\ \A i \in Identifier : keys.shares[i].signing_share = y[i]
  BY <1>1, <1>8 DEF GenerateWithDealer, KeyPackage
<1>10. KeySum(package, keys) = LagrangeSum(y, S)
  <2>1. [i \in S |-> Mul(Lagrange(i, S), keys.shares[i].signing_share)]
          = [i \in S |-> Mul(Lagrange(i, S), y[i])]
    BY <1>2, <1>9
  <2> QED BY <1>1, <2>1 DEF KeySum, LagrangeSum
<1>11. \A i \in S : y[i] = Evaluate(coeffs, i)
  BY <1>2, <1>8
<1>12. ASSUME s >= MinSigners PROVE KeySum(package, keys) = keys.pubkeys.verifying_key
  <2>1. NumCoeffs <= s /\ NumCoeffs <= s + 1
    BY <1>3, <1>4, <1>12 DEF NumCoeffs
  <2> QED BY <1>2, <1>3, <1>5, <1>7, <1>8, <1>9, <1>10, <1>11, <2>1, Interpolation
<1>13. ASSUME s = MinSigners - 1, random.coeffs[MinSigners] # 0
       PROVE  KeySum(package, keys) # keys.pubkeys.verifying_key
  <2>1. NumCoeffs = MinSigners /\ NumCoeffs = s + 1 /\ NumCoeffs - 1 = s
        /\ ~ (NumCoeffs <= s) /\ NumCoeffs \in 2..NumCoeffs /\ NumCoeffs <= s + 1
    BY <1>3, <1>4, <1>13 DEF NumCoeffs
  <2>2. PICK a \in Scalar \ {0} : a = coeffs[NumCoeffs]
    <3>1. coeffs[NumCoeffs] \in Scalar
      BY <1>7, <2>1
    <3>2. coeffs[NumCoeffs] # 0
      BY <1>1, <1>4, <1>13, <2>1
    <3> QED BY <3>1, <3>2
  <2>3. PICK m \in Scalar \ {0} : m = LagrangeSum(Powers(s), S)
    <3>1. Moments(S, s)
      BY <1>2, <1>3, MomentsOfSigners
    <3>2. LagrangeSum(Powers(s), S) \in Scalar
      BY <1>2, LagrangeSumType, PowersFacts
    <3> QED BY <3>1, <3>2 DEF Moments
  <2>4. LagrangeSum(y, S) = Add(key.vk, Mul(a, m))
    <3>1. LagrangeSum(y, S)
             = IF NumCoeffs <= Cardinality(S) THEN coeffs[1]
               ELSE Add(coeffs[1], Mul(coeffs[NumCoeffs], LagrangeSum(Powers(NumCoeffs - 1), S)))
      BY <1>2, <1>3, <1>5, <1>7, <1>8, <1>11, <2>1, Interpolation
    <3> QED BY <1>3, <1>7, <2>1, <2>2, <2>3, <3>1
  <2>5. PICK x \in Scalar \ {0} : x = Mul(a, m)
    BY MulScalars, NoZeroDivisors
  <2>6. PICK v \in Scalar : v = key.vk
    BY <1>6
  <2>7. Add(v, x) # v
    BY QAssumption DEF Add, Scalar
  <2> QED BY <1>9, <1>10, <2>4, <2>5, <2>6, <2>7
<1> QED BY <1>1, <1>3, <1>12, <1>13

\* Values shared by the two signers of a pair cancel: one adds, one subtracts.
LEMMA DeltasCancel ==
  ASSUME NEW S \in SUBSET Identifier, NEW V,
         \A i \in S : \A j \in S \ {i} : V[i][j] \in Scalar /\ V[i][j] = V[j][i],
         NEW B, B = [i \in S |-> Sum([j \in S \ {i} |-> Mul(V[i][j], Delta(i, j))])]
  PROVE  ScalarMap(B) /\ Sum(B) = 0
<1> DEFINE F == [p \in Identifier \X Identifier |->
                    IF p[1] \in S /\ p[2] \in S \ {p[1]}
                    THEN Mul(V[p[1]][p[2]], Delta(p[1], p[2])) ELSE 0]
<1>1. \A i, j \in Identifier : Delta(i, j) \in Scalar
  BY NegType, ScalarFacts DEF Delta
<1>2. \A i \in S : \A j \in S \ {i} : F[<<i, j>>] = Mul(V[i][j], Delta(i, j))
  OBVIOUS
<1>3. F \in [Identifier \X Identifier -> Scalar]
  <2>1. ASSUME NEW p \in Identifier \X Identifier, p[1] \in S, p[2] \in S \ {p[1]}
        PROVE  Mul(V[p[1]][p[2]], Delta(p[1], p[2])) \in Scalar
    BY <1>1, <2>1, MulScalars
  <2> QED BY <2>1, ScalarFacts
<1> HIDE DEF F
<1>4. ASSUME NEW i \in S, NEW j \in S, i # j
      PROVE  Add(F[<<i, j>>], F[<<j, i>>]) = 0
  <2>1. PICK v \in Scalar : v = V[i][j] /\ v = V[j][i]
    BY <1>4
  <2>2. F[<<i, j>>] = Mul(v, Delta(i, j)) /\ F[<<j, i>>] = Mul(v, Delta(j, i))
    BY <1>2, <1>4, <2>1
  <2>3. i \in Nat /\ j \in Nat
    BY IdentifierFacts
  <2>4. CASE i > j
    BY <2>2, <2>3, <2>4, MulOne, MulMinusOne, AddNeg DEF Delta
  <2>5. CASE ~ (i > j)
    <3>1. j > i
      BY <1>4, <2>3, <2>5
    <3> QED BY <2>2, <2>3, <2>5, <3>1, MulOne, MulMinusOne, AddNeg DEF Delta
  <2> QED BY <2>4, <2>5
<1>5. Antisymmetric(F, S)
  BY <1>3, <1>4 DEF Antisymmetric
<1>6. RowSums(F, S) = B
  <2>1. ASSUME NEW i \in S
        PROVE  [j \in S \ {i} |-> F[<<i, j>>]] = [j \in S \ {i} |-> Mul(V[i][j], Delta(i, j))]
    BY <1>2
  <2>2. \A i \in S : Sum([j \in S \ {i} |-> F[<<i, j>>]])
                        = Sum([j \in S \ {i} |-> Mul(V[i][j], Delta(i, j))])
    BY <2>1
  <2> QED BY <2>2 DEF RowSums
<1>7. Sum(B) = 0
  BY <1>5, <1>6, AntisymmetricSum
<1>8. ASSUME NEW i \in S
      PROVE  Sum([j \in S \ {i} |-> Mul(V[i][j], Delta(i, j))]) \in Scalar
  <2>1. ScalarMap([j \in S \ {i} |-> Mul(V[i][j], Delta(i, j))])
    BY <1>1, MulScalars DEF ScalarMap
  <2> QED BY <2>1, SumType
<1>9. ScalarMap(B)
  BY <1>8 DEF ScalarMap
<1> QED BY <1>7, <1>9

\* The blinding scalars of the signers of a package cancel.
LEMMA BlindingsCancel ==
  ASSUME NEW package \in SigningPackages, NEW keys, Dealt(keys),
         NEW B, B = [i \in Ids(package) |-> BlindingScalar(package, keys.shares[i])]
  PROVE  ScalarMap(B) /\ Sum(B) = 0
<1>1. PICK S, V : /\ S = Ids(package)
                  /\ V = [i \in S |-> [j \in S \ {i} |->
                            Hs(keys.shares[i].pairwise_keys[j], package)]]
  OBVIOUS
<1>2. S \in SUBSET Identifier
  BY <1>1, PackageFacts
<1>3. ASSUME NEW i \in S, NEW j \in S \ {i}
      PROVE  /\ V[i][j] \in Scalar /\ V[i][j] = V[j][i]
             /\ V[i][j] = Hs(keys.shares[i].pairwise_keys[j], package)
  <2>1. /\ keys.shares[i].pairwise_keys[j] \in PairwiseKeys
        /\ keys.shares[i].pairwise_keys[j] = keys.shares[j].pairwise_keys[i]
    BY <1>2 DEF Dealt
  <2>2. /\ V[i][j] = Hs(keys.shares[i].pairwise_keys[j], package)
        /\ V[j][i] = Hs(keys.shares[j].pairwise_keys[i], package)
    BY <1>1
  <2> QED BY <2>1, <2>2, HashAssumption
<1>4. ASSUME NEW i \in S
      PROVE  B[i] = Sum([j \in S \ {i} |-> Mul(V[i][j], Delta(i, j))])
  <2>1. HasKeysFor(keys.shares[i], package) /\ keys.shares[i].identifier = i
    BY <1>1, DealtHasKeysFor
  <2>2. B[i] = Sum([j \in S \ {i} |->
                      Mul(Hs(keys.shares[i].pairwise_keys[j], package), Delta(i, j))])
    BY <1>1, <2>1, BlindingIsSumOfDeltas
  <2>3. [j \in S \ {i} |-> Mul(Hs(keys.shares[i].pairwise_keys[j], package), Delta(i, j))]
          = [j \in S \ {i} |-> Mul(V[i][j], Delta(i, j))]
    BY <1>3
  <2> QED BY <2>2, <2>3
<1>5. B = [i \in S |-> Sum([j \in S \ {i} |-> Mul(V[i][j], Delta(i, j))])]
  <2>1. B = [i \in S |-> B[i]]
    BY <1>1
  <2>2. [i \in S |-> B[i]] = [i \in S |-> Sum([j \in S \ {i} |-> Mul(V[i][j], Delta(i, j))])]
    BY <1>4
  <2> QED BY <2>1, <2>2
<1>6. \A i \in S : \A j \in S \ {i} : V[i][j] \in Scalar /\ V[i][j] = V[j][i]
  BY <1>3
<1>7. PICK b : b = [i \in S |-> Sum([j \in S \ {i} |-> Mul(V[i][j], Delta(i, j))])]
  OBVIOUS
<1>8. ScalarMap(b) /\ Sum(b) = 0
  BY ONLY <1>2, <1>6, <1>7, DeltasCancel
<1> QED BY <1>5, <1>7, <1>8

\* What the signers of a package return when all of them run `sign`.
Signed(package, keys, shares) ==
  /\ DOMAIN shares = Ids(package)
  /\ \A i \in Ids(package) : \E nonces \in [d : Scalar, e : Scalar] :
        /\ package.signing_commitments[i] = Commitment(nonces)
        /\ shares[i] = Sign(package, nonces, keys.shares[i], keys.pubkeys)

\* Such shares aggregate, and verify exactly when the shares of the key
\* interpolate to the group's key (or the challenge is zero).
LEMMA SignedVerifies ==
  ASSUME NEW package \in SigningPackages, Ids(package) # {}, NEW keys, Dealt(keys),
         NEW shares, Signed(package, keys, shares)
  PROVE  /\ KeySum(package, keys) \in Scalar
         /\ AggregateResult(package, shares) = "Ok"
         /\ Aggregate(shares).R = NormalizeShareR(AggregateNonce(package, keys.pubkeys), 0).R
         /\ Aggregate(shares).z
               = Add(Aggregate(shares).R,
                     Mul(SigChallenge(package, keys.pubkeys), KeySum(package, keys)))
         /\ Verify(Aggregate(shares), package.message, keys.pubkeys)
               <=> Mul(SigChallenge(package, keys.pubkeys), KeySum(package, keys))
                      = Mul(SigChallenge(package, keys.pubkeys), keys.pubkeys.verifying_key)
<1>1. PICK B : B = [i \in Ids(package) |-> BlindingScalar(package, keys.shares[i])]
  OBVIOUS
<1>2. DOMAIN B = Ids(package) /\ ScalarMap(B) /\ Sum(B) = 0
  BY <1>1, BlindingsCancel
<1>3. ASSUME NEW i \in Ids(package)
      PROVE  /\ shares[i].R = NormalizeShareR(AggregateNonce(package, keys.pubkeys), 0).R
             /\ shares[i].z
                  = Add(Add(KeyTerm(package, keys.shares[i], keys.pubkeys), B[i]),
                        NonceShare(package, keys.pubkeys, i))
  <2>1. PICK nonces \in [d : Scalar, e : Scalar] :
           /\ package.signing_commitments[i] = Commitment(nonces)
           /\ shares[i] = Sign(package, nonces, keys.shares[i], keys.pubkeys)
    BY DEF Signed
  <2>2. keys.shares[i].identifier = i
    BY DealtHasKeysFor
  <2>3. Mul(NonceChallenge(package, keys.pubkeys), nonces.e)
          = Mul(NonceChallenge(package, keys.pubkeys), package.signing_commitments[i].E)
        /\ nonces.d = package.signing_commitments[i].D
    BY <2>1 DEF Commitment
  <2>4. \A R, a, b : NormalizeShareR(R, a).R = NormalizeShareR(R, b).R
    BY DEF NormalizeShareR
  <2>5. /\ shares[i].R = NormalizeShareR(AggregateNonce(package, keys.pubkeys),
              Add(nonces.d, Mul(NonceChallenge(package, keys.pubkeys), nonces.e))).R
        /\ shares[i].z = Add(Add(KeyTerm(package, keys.shares[i], keys.pubkeys),
                                 BlindingScalar(package, keys.shares[i])),
              NormalizeShareR(AggregateNonce(package, keys.pubkeys),
                 Add(nonces.d, Mul(NonceChallenge(package, keys.pubkeys), nonces.e))).nonce)
    BY <2>1, <2>2 DEF Sign, KeyTerm
  <2>6. shares[i].R = NormalizeShareR(AggregateNonce(package, keys.pubkeys), 0).R
    BY <2>4, <2>5
  <2> QED BY <1>1, <2>3, <2>5, <2>6 DEF NonceShare
<1>4. DOMAIN shares = Ids(package)
  BY DEF Signed
<1> QED BY <1>2, <1>3, <1>4, SessionVerifies

-----------------------------------------------------------------------------
(* The rounds of the identifiable abort: the proof of a signer that ran    *)
(* the code is accepted under every ciphersuite, and none of the three     *)
(* loops of decide names a signer that ran the code.                       *)

\* A probe of one tells whether normalize_share_r negates a nonce.
LEMMA ProbedNonce ==
  ASSUME NEW R \in Scalar, NEW nonce \in Scalar
  PROVE  Mul(nonce, NormalizeShareR(R, 1).nonce) = NormalizeShareR(R, nonce).nonce
  BY MulOne, MulMinusOne DEF NormalizeShareR

\* A signer's key term is a scalar.
LEMMA KeyTermType ==
  ASSUME NEW package \in SigningPackages, NEW key_package,
         HasKeysFor(key_package, package),
         NEW pubkeys, pubkeys.verifying_key \in Scalar
  PROVE  KeyTerm(package, key_package, pubkeys) \in Scalar
<1>1. key_package.identifier \in Identifier /\ Ids(package) \in SUBSET Identifier
  BY PackageFacts DEF HasKeysFor
<1>2. /\ SigChallenge(package, pubkeys) \in Scalar
      /\ Lagrange(key_package.identifier, Ids(package)) \in Scalar
  BY <1>1, SigChallengeType, LagrangeType
<1> QED BY <1>2, MulScalars DEF KeyTerm, HasKeysFor

\* Subtracting the nonce that normalize_share_r negated or kept, found with a
\* probe of one, leaves the key term and the blinding of an honest share.
LEMMA SharePartOfSign ==
  ASSUME NEW package \in SigningPackages, NEW nonces \in [d : Scalar, e : Scalar],
         NEW key_package, HasKeysFor(key_package, package),
         package.signing_commitments[key_package.identifier] = Commitment(nonces),
         NEW pubkeys, pubkeys.verifying_key \in Scalar
  PROVE  SharePart(package, Sign(package, nonces, key_package, pubkeys), pubkeys)
            = Add(KeyTerm(package, key_package, pubkeys),
                  BlindingScalar(package, key_package))
<1> DEFINE i == key_package.identifier
           b == NonceChallenge(package, pubkeys)
           R == AggregateNonce(package, pubkeys)
           nonce == Add(nonces.d, Mul(b, nonces.e))
           norm == NormalizeShareR(R, nonce)
           probe == NormalizeShareR(R, 1)
           rest == Add(KeyTerm(package, key_package, pubkeys),
                       BlindingScalar(package, key_package))
           share == Sign(package, nonces, key_package, pubkeys)
<1>1. b \in Scalar /\ R \in Scalar
  BY AggregateNonceType
<1>2. nonce \in Scalar
  <2> HIDE DEF b
  <2> QED BY <1>1, AddType, MulScalars
<1>3. rest \in Scalar
  BY SignType, BlindingScalarType, AddType
<1>4. norm.nonce \in Scalar
  BY <1>1, <1>2, NormalizeShareRType
<1>5. Mul(nonce, probe.nonce) = norm.nonce
  <2> HIDE DEF R, nonce
  <2> QED BY <1>1, <1>2, ProbedNonce
<1>6. share.identifier = i /\ share.z = Add(rest, norm.nonce)
  BY DEF Sign, KeyTerm
<1>7. Add(package.signing_commitments[i].D,
          Mul(package.signing_commitments[i].E, b)) = nonce
  <2>1. /\ package.signing_commitments[i].D = nonces.d
        /\ package.signing_commitments[i].E = nonces.e
    BY DEF Commitment
  <2> HIDE DEF b
  <2>2. Mul(nonces.e, b) = Mul(b, nonces.e)
    <3>1. nonces.e \in Scalar /\ b \in Scalar
      BY <1>1
    <3>2. \A a \in Scalar : a \in Int
      BY ScalarFacts
    <3> QED BY <3>1, <3>2, MulCommutative
  <2> QED BY <2>1, <2>2
<1> HIDE DEF rest, nonce, b, R
<1>8. SharePart(package, share, pubkeys) = Sub(share.z, Mul(nonce, probe.nonce))
  <2> HIDE DEF share, probe
  <2> QED BY <1>6, <1>7 DEF SharePart, b, R, probe
<1>9. SharePart(package, share, pubkeys) = Sub(Add(rest, norm.nonce), norm.nonce)
  BY <1>5, <1>6, <1>8
<1>10. Sub(Add(rest, norm.nonce), norm.nonce) = rest
  BY <1>3, <1>4, SubAdd
<1> QED BY <1>9, <1>10 DEF rest

-----------------------------------------------------------------------------

\* A signer of the session that has run the code: its key package is the one
\* the dealer gave it, its share is the one `sign` returned.
RanSign(package, keys, nonces, shares, i) ==
  /\ i \in Ids(package) /\ i \in DOMAIN shares
  /\ nonces \in [d : Scalar, e : Scalar]
  /\ package.signing_commitments[i] = Commitment(nonces)
  /\ shares[i] = Sign(package, nonces, keys.shares[i], keys.pubkeys)

\* ... and its message is the one `ia1` returned for these shares.
RanIA1(package, keys, shares, messages, i) ==
  /\ i \in DOMAIN messages
  /\ messages[i] = IA1Message(package, shares[i], keys.shares[i], keys.pubkeys, shares)

\* The commitments of such a message.
LEMMA CommitmentsOfIA1 ==
  ASSUME NEW package \in SigningPackages, NEW keys, Dealt(keys), NEW shares,
         NEW messages, NEW i \in Ids(package),
         RanIA1(package, keys, shares, messages, i)
  PROVE  /\ messages[i].identifier = i
         /\ \A j \in Ids(package) \ {i} :
               /\ HasCommitment(messages, i, j)
               /\ C(messages, i, j)
                     = BlindingCommitment(package, shares, keys.shares[i].pairwise_keys[j])
<1>1. keys.shares[i].identifier = i
  BY DealtHasKeysFor
<1> QED BY <1>1 DEF RanIA1, IA1Message, HasCommitment, C

\* Its proof is accepted, whether or not the aggregate nonce was negated.
LEMMA HonestProofAccepted ==
  ASSUME NEW package \in SigningPackages, NEW keys, Dealt(keys), NEW nonces,
         NEW shares, NEW messages, NEW i,
         RanSign(package, keys, nonces, shares, i),
         RanIA1(package, keys, shares, messages, i)
  PROVE  VerifyWellformedProof(package, shares[i], messages[i], keys.pubkeys)
<1> DEFINE kp     == keys.shares[i]
           vk     == keys.pubkeys.partial_verification_keys
           others == Ids(package) \ {i}
           proof  == messages[i].proof
           comm   == messages[i].blinding_commitments
<1>1. /\ i \in Ids(package) /\ i \in Identifier
      /\ HasKeysFor(kp, package) /\ kp.identifier = i
      /\ keys.pubkeys.verifying_key \in Scalar
      /\ i \in DOMAIN vk
      /\ vk[i].signing_share_commitment
            = PedersenCommit(kp.signing_share, kp.signing_share_blinding)
  BY DealtHasKeysFor, PackageFacts DEF RanSign, Dealt
<1>2. shares[i].identifier = i
  BY <1>1 DEF RanSign, Sign
<1>3. /\ messages[i].identifier = i
      /\ comm = [j \in others |-> BlindingCommitment(package, shares, kp.pairwise_keys[j])]
      /\ proof = ProveWellformed(package, shares[i], kp, keys.pubkeys, shares, comm)
  BY <1>1 DEF RanIA1, IA1Message
<1>4. /\ proof.transcript = ProofTranscript(package, shares[i], keys.pubkeys, comm)
      /\ proof.z_sk = kp.signing_share
      /\ proof.z_sk_blinding = kp.signing_share_blinding
      /\ proof.z_blind = [j \in others |-> Hs(kp.pairwise_keys[j], package)]
      /\ proof.z_blind_blinding
            = [j \in others |->
                  BlindingRandomizer(kp.pairwise_keys[j], IaView(package, shares))]
  BY <1>1, <1>3 DEF ProveWellformed
<1> HIDE DEF kp, vk, proof, comm
<1>5. \A j \in others :
         PedersenCommit(proof.z_blind[j], proof.z_blind_blinding[j]) = comm[j]
  BY <1>3, <1>4 DEF BlindingCommitment
<1>6. SharePart(package, shares[i], keys.pubkeys)
         = Add(Mul(Mul(SigChallenge(package, keys.pubkeys), Lagrange(i, Ids(package))),
                   proof.z_sk),
               Sum([j \in others |-> Mul(proof.z_blind[j], Delta(i, j))]))
  <2>1. SharePart(package, shares[i], keys.pubkeys)
           = Add(KeyTerm(package, kp, keys.pubkeys), BlindingScalar(package, kp))
    BY <1>1, SharePartOfSign DEF RanSign, kp
  <2>2. BlindingScalar(package, kp)
           = Sum([j \in others |-> Mul(Hs(kp.pairwise_keys[j], package), Delta(i, j))])
    BY <1>1, BlindingIsSumOfDeltas
  <2>3. [j \in others |-> Mul(Hs(kp.pairwise_keys[j], package), Delta(i, j))]
           = [j \in others |-> Mul(proof.z_blind[j], Delta(i, j))]
    BY <1>4
  <2>4. KeyTerm(package, kp, keys.pubkeys)
           = Mul(Mul(SigChallenge(package, keys.pubkeys), Lagrange(i, Ids(package))),
                 proof.z_sk)
    BY <1>1, <1>4 DEF KeyTerm
  <2> HIDE DEF others
  <2> QED BY <2>1, <2>2, <2>3, <2>4
<1> QED
  BY <1>1, <1>2, <1>3, <1>4, <1>5, <1>6 DEF VerifyWellformedProof, proof, comm, vk

\* What an accepted proof says of the share: it is the dealt key's term, the
\* blinding values that the signer has committed to, and the nonce it published.
LEMMA AcceptedShare ==
  ASSUME NEW package \in SigningPackages, NEW keys, Dealt(keys),
         NEW share \in SignatureShares, NEW message,
         NEW i \in Ids(package), share.identifier = i,
         VerifyWellformedProof(package, share, message, keys.pubkeys),
         \A j \in Ids(package) \ {i} : message.blinding_commitments[j].value \in Scalar
  PROVE  share.z
            = Add(Add(KeyTerm(package, keys.shares[i], keys.pubkeys),
                      Sum([j \in Ids(package) \ {i} |->
                             Mul(message.blinding_commitments[j].value, Delta(i, j))])),
                  NonceShare(package, keys.pubkeys, i))
<1>1. PICK others, proof, comm, vk, kp :
         /\ others = Ids(package) \ {i}
         /\ proof = message.proof
         /\ comm = message.blinding_commitments
         /\ vk = keys.pubkeys.partial_verification_keys
         /\ kp = keys.shares[i]
  OBVIOUS
<1>2. /\ i \in Identifier /\ kp.identifier = i /\ HasKeysFor(kp, package)
      /\ keys.pubkeys.verifying_key \in Scalar
      /\ vk[i].signing_share_commitment
            = PedersenCommit(kp.signing_share, kp.signing_share_blinding)
  BY <1>1, DealtHasKeysFor, PackageFacts DEF Dealt
<1>3. /\ SharePart(package, share, keys.pubkeys)
            = Add(Mul(Mul(SigChallenge(package, keys.pubkeys), Lagrange(i, Ids(package))),
                      proof.z_sk),
                  Sum([j \in others |-> Mul(proof.z_blind[j], Delta(i, j))]))
      /\ PedersenCommit(proof.z_sk, proof.z_sk_blinding) = vk[i].signing_share_commitment
      /\ \A j \in others :
            PedersenCommit(proof.z_blind[j], proof.z_blind_blinding[j]) = comm[j]
  BY <1>1 DEF VerifyWellformedProof
<1>4. proof.z_sk = kp.signing_share
  BY <1>2, <1>3 DEF PedersenCommit
<1>5. ASSUME NEW j \in others
      PROVE  proof.z_blind[j] = comm[j].value
  <2>1. PedersenCommit(proof.z_blind[j], proof.z_blind_blinding[j]).value = proof.z_blind[j]
    BY DEF PedersenCommit
  <2> QED BY <1>3, <2>1
<1>6. PICK k \in Scalar, B \in Scalar :
         /\ k = KeyTerm(package, kp, keys.pubkeys)
         /\ B = Sum([j \in others |-> Mul(comm[j].value, Delta(i, j))])
  <2>1. KeyTerm(package, kp, keys.pubkeys) \in Scalar
    BY <1>2, KeyTermType
  <2>2. ScalarMap([j \in others |-> Mul(comm[j].value, Delta(i, j))])
    <3>1. \A j \in others : Delta(i, j) \in Scalar
      BY NegType, ScalarFacts DEF Delta
    <3> QED BY <1>1, <3>1, MulScalars DEF ScalarMap
  <2> QED BY <2>1, <2>2, SumType
<1>7. SharePart(package, share, keys.pubkeys) = Add(k, B)
  <2>1. [j \in others |-> Mul(proof.z_blind[j], Delta(i, j))]
           = [j \in others |-> Mul(comm[j].value, Delta(i, j))]
    BY <1>5
  <2> QED BY <1>2, <1>3, <1>4, <1>6, <2>1 DEF KeyTerm
<1>8. PICK w \in Scalar : w = NonceShare(package, keys.pubkeys, i)
                          /\ SharePart(package, share, keys.pubkeys) = Sub(share.z, w)
  <2>1. PICK b \in Scalar, R \in Scalar, D \in Scalar, E \in Scalar :
           /\ b = NonceChallenge(package, keys.pubkeys)
           /\ R = AggregateNonce(package, keys.pubkeys)
           /\ D = package.signing_commitments[i].D
           /\ E = package.signing_commitments[i].E
    BY <1>2, AggregateNonceType, PackageFacts
  <2>2. PICK nonce \in Scalar : nonce = Add(D, Mul(b, E)) /\ nonce = Add(D, Mul(E, b))
    BY AddType, MulScalars, ScalarsCommute
  <2>3. NonceShare(package, keys.pubkeys, i) = NormalizeShareR(R, nonce).nonce
    BY <2>1, <2>2 DEF NonceShare
  <2>4. SharePart(package, share, keys.pubkeys)
           = Sub(share.z, Mul(nonce, NormalizeShareR(R, 1).nonce))
    BY <2>1, <2>2 DEF SharePart
  <2> QED BY <2>3, <2>4, ProbedNonce, NormalizeShareRType
<1>9. PICK z \in Scalar : z = share.z
  BY DEF SignatureShares
<1>10. z = Add(w, Add(k, B))
  BY <1>7, <1>8, <1>9, SubFacts
<1>11. z = Add(Add(k, B), w)
  BY <1>10, AddType, AddCommutative
<1> QED BY <1>1, <1>6, <1>8, <1>9, <1>11

-----------------------------------------------------------------------------
(* The loops of decide.                                                    *)

\* The first loop of decide does not name a signer that ran sign and ia1.
LEMMA NotNamedByProof ==
  ASSUME NEW package \in SigningPackages, NEW keys, Dealt(keys), NEW nonces,
         NEW shares, NEW messages, NEW i,
         RanSign(package, keys, nonces, shares, i),
         RanIA1(package, keys, shares, messages, i)
  PROVE  i \notin NamedByProof(package, keys.pubkeys, shares, messages)
  BY HonestProofAccepted DEF NamedByProof, RanSign, RanIA1

\* An opening by another signer, valid or not, does not name it.
LEMMA NotNamedByAccuser ==
  ASSUME NEW package \in SigningPackages, NEW keys, Dealt(keys), NEW shares,
         NEW messages, NEW i \in Ids(package),
         RanIA1(package, keys, shares, messages, i),
         NEW accuser \in Ids(package) \ {i}, NEW peer, NEW opened_key
  PROVE  i \notin NamedByOpening(package, keys.pubkeys, shares, messages,
                                 accuser, peer, opened_key)
<1>1. i \in Identifier /\ accuser \in Identifier
  BY PackageFacts
<1>2. CASE peer # i
  BY <1>2 DEF NamedByOpening
<1>3. CASE peer = i /\ OpeningIsValid(keys.pubkeys, accuser, peer, opened_key)
  <2>1. keys.pubkeys.partial_verification_keys[accuser].pairwise_key_commitments[i]
           = HashPairwiseKeyCommitment(keys.shares[accuser].pairwise_keys[i])
    BY <1>1 DEF Dealt
  <2>2. keys.shares[accuser].pairwise_keys[i] = keys.shares[i].pairwise_keys[accuser]
    BY <1>1 DEF Dealt
  <2>3. opened_key = keys.shares[i].pairwise_keys[accuser]
    BY <1>3, <2>1, <2>2 DEF OpeningIsValid, HashPairwiseKeyCommitment
  <2>4. /\ HasCommitment(messages, i, accuser)
        /\ C(messages, i, accuser) = BlindingCommitment(package, shares, opened_key)
    BY <2>3, CommitmentsOfIA1
  <2> QED BY <1>3, <2>4 DEF NamedByOpening
<1>4. CASE peer = i /\ ~ OpeningIsValid(keys.pubkeys, accuser, peer, opened_key)
  BY <1>4 DEF NamedByOpening
<1> QED BY <1>2, <1>3, <1>4

\* Nor do the keys it opens itself: they are the dealt ones.
LEMMA NotNamedByOwnOpening ==
  ASSUME NEW package \in SigningPackages, NEW keys, Dealt(keys), NEW shares,
         NEW messages, NEW i \in Ids(package), NEW peer \in Ids(package) \ {i}
  PROVE  i \notin NamedByOpening(package, keys.pubkeys, shares, messages,
                                 i, peer, keys.shares[i].pairwise_keys[peer])
<1>1. i \in Identifier /\ peer \in Identifier \ {i}
  BY PackageFacts
<1>2. OpeningIsValid(keys.pubkeys, i, peer, keys.shares[i].pairwise_keys[peer])
  BY <1>1 DEF OpeningIsValid, Dealt
<1> QED BY <1>2 DEF NamedByOpening

\* A signer whose ia2 returned a decision has opened its key to every peer
\* whose commitment differs from its own.
LEMMA NotNamedByPair ==
  ASSUME NEW package \in SigningPackages, NEW keys, Dealt(keys), NEW messages,
         NEW decisions, NEW i \in Ids(package), i \in DOMAIN decisions,
         ~ IA2Fails(package, messages, i),
         decisions[i] = IA2Decision(package, messages, keys.shares[i]),
         NEW x \in Ids(package), NEW y \in Ids(package), x # y
  PROVE  i \notin NamedByPair(messages, decisions, x, y)
<1>1. keys.shares[i].identifier = i
  BY DealtHasKeysFor
<1>2. \A j \in Ids(package) \ {i} :
         /\ HasCommitment(messages, i, j) /\ HasCommitment(messages, j, i)
         /\ j \in DOMAIN messages /\ i \in DOMAIN messages
         /\ C(messages, i, j) # C(messages, j, i) => HasOpened(decisions, i, j)
  BY <1>1 DEF IA2Fails, IA2Decision, HasOpened, HasCommitment
<1>3. CASE i \notin {x, y}
  BY <1>3 DEF NamedByPair
<1>4. CASE i = x
  BY <1>2, <1>4 DEF NamedByPair
<1>5. CASE i = y
  BY <1>2, <1>5 DEF NamedByPair
<1> QED BY <1>3, <1>4, <1>5

\* Nor is a signer named whose commitments agree with those of every peer that
\* has sent it one: a pair without a commitment names its silent side.
LEMMA NotNamedByAgreeingPair ==
  ASSUME NEW package \in SigningPackages, NEW messages, NEW decisions,
         NEW i \in Ids(package),
         \A j \in Ids(package) \ {i} :
            /\ HasCommitment(messages, i, j)
            /\ HasCommitment(messages, j, i) => C(messages, i, j) = C(messages, j, i),
         NEW x \in Ids(package), NEW y \in Ids(package), x # y
  PROVE  i \notin NamedByPair(messages, decisions, x, y)
<1>1. CASE i \notin {x, y}
  BY <1>1 DEF NamedByPair
<1>2. CASE i = x
  BY <1>2 DEF NamedByPair, HasCommitment
<1>3. CASE i = y
  BY <1>3 DEF NamedByPair, HasCommitment
<1> QED BY <1>1, <1>2, <1>3

\* The third loop names whom some pair names (the union over the pairs).
LEMMA NotNamedByPairs ==
  ASSUME NEW package \in SigningPackages, NEW messages, NEW decisions, NEW i,
         \A x, y \in Ids(package) :
            x # y => i \notin NamedByPair(messages, decisions, x, y)
  PROVE  i \notin NamedByPairs(package, messages, decisions)
<1>1. ASSUME NEW ij \in Ids(package) \X Ids(package), ij[1] < ij[2]
      PROVE  i \notin NamedByPair(messages, decisions, ij[1], ij[2])
  <2>1. ij[1] \in Ids(package) /\ ij[2] \in Ids(package)
    OBVIOUS
  <2>2. ij[1] \in Nat /\ ij[2] \in Nat
    BY <2>1, PackageFacts, IdentifierFacts
  <2>3. ij[1] # ij[2]
    BY <1>1, <2>2
  <2> QED BY <2>1, <2>3
<1> QED BY <1>1 DEF NamedByPairs

\* No opened key names a signer that ran ia1, and ia2 if it sent a decision.
LEMMA NotNamedByOpenings ==
  ASSUME NEW package \in SigningPackages, NEW keys, Dealt(keys), NEW shares,
         NEW messages, NEW decisions, NEW i \in Ids(package),
         DOMAIN decisions \subseteq Ids(package),
         RanIA1(package, keys, shares, messages, i),
         i \in DOMAIN decisions =>
            decisions[i] = IA2Decision(package, messages, keys.shares[i])
  PROVE  i \notin NamedByOpenings(package, keys.pubkeys, shares, messages, decisions)
<1> DEFINE Named(accuser, peer) ==
             NamedByOpening(package, keys.pubkeys, shares, messages, accuser, peer,
                            decisions[accuser].opened_pairwise_keys[peer])
<1>1. ASSUME NEW accuser \in DOMAIN decisions,
             NEW peer \in DOMAIN decisions[accuser].opened_pairwise_keys
      PROVE  i \notin Named(accuser, peer)
  <2>1. CASE accuser # i
    BY <2>1, NotNamedByAccuser
  <2>2. CASE accuser = i
    <3>1. /\ peer \in Ids(package) \ {i}
          /\ decisions[i].opened_pairwise_keys[peer] = keys.shares[i].pairwise_keys[peer]
      BY <2>2, DealtHasKeysFor DEF IA2Decision
    <3> QED BY <2>2, <3>1, NotNamedByOwnOpening
  <2> QED BY <2>1, <2>2
<1>2. i \notin UNION {UNION {Named(accuser, peer) :
                         peer \in DOMAIN decisions[accuser].opened_pairwise_keys} :
                      accuser \in DOMAIN decisions}
  <2> HIDE DEF Named
  <2> QED BY <1>1 DEF Named
<1> QED BY <1>2 DEF NamedByOpenings

\* decide names no signer that ran sign, ia1 and ia2.
LEMMA NotNamedByDecide ==
  ASSUME NEW package \in SigningPackages, NEW keys, Dealt(keys), NEW nonces,
         NEW shares, NEW messages, NEW decisions, NEW i,
         DOMAIN decisions \subseteq Ids(package), i \in DOMAIN decisions,
         RanSign(package, keys, nonces, shares, i),
         RanIA1(package, keys, shares, messages, i),
         ~ IA2Fails(package, messages, i),
         decisions[i] = IA2Decision(package, messages, keys.shares[i])
  PROVE  i \notin Decide(package, keys.pubkeys, shares, messages, decisions)
<1>1. i \in Ids(package)
  BY DEF RanSign
<1>2. i \notin NamedByProof(package, keys.pubkeys, shares, messages)
  BY NotNamedByProof
<1>3. i \notin NamedByOpenings(package, keys.pubkeys, shares, messages, decisions)
  BY <1>1, NotNamedByOpenings
<1>4. i \notin NamedByPairs(package, messages, decisions)
  BY <1>1, NotNamedByPair, NotNamedByPairs
<1> QED BY <1>2, <1>3, <1>4 DEF Decide

\* ... nor one that ran sign and ia1, whose ia2 returned an error, and whose
\* commitments agree with those of every peer that has sent it one.
LEMMA AgreeingNotNamedByDecide ==
  ASSUME NEW package \in SigningPackages, NEW keys, Dealt(keys), NEW nonces,
         NEW shares, NEW messages, NEW decisions, NEW i,
         DOMAIN decisions \subseteq Ids(package), i \notin DOMAIN decisions,
         RanSign(package, keys, nonces, shares, i),
         RanIA1(package, keys, shares, messages, i),
         \A j \in Ids(package) \ {i} :
            HasCommitment(messages, j, i) => C(messages, i, j) = C(messages, j, i)
  PROVE  i \notin Decide(package, keys.pubkeys, shares, messages, decisions)
<1>1. i \in Ids(package)
  BY DEF RanSign
<1>2. i \notin NamedByProof(package, keys.pubkeys, shares, messages)
  BY NotNamedByProof
<1>3. i \notin NamedByOpenings(package, keys.pubkeys, shares, messages, decisions)
  BY <1>1, NotNamedByOpenings
<1>4. i \notin NamedByPairs(package, messages, decisions)
  <2>1. \A j \in Ids(package) \ {i} : HasCommitment(messages, i, j)
    BY <1>1, CommitmentsOfIA1
  <2> QED BY <1>1, <2>1, NotNamedByAgreeingPair, NotNamedByPairs
<1> QED BY <1>2, <1>3, <1>4 DEF Decide
=============================================================================
