------------------------ MODULE WellformedProof_proofs ------------------------
(***************************************************************************)
(* For every field, package, witness and prover: the sigma protocol is     *)
(* complete, and two accepted responses to one commitment give a witness.  *)
(* Both are the linearity of what is committed to.                         *)
(***************************************************************************)
EXTENDS WellformedProof, FaFrost_proofs

-----------------------------------------------------------------------------
(* Scalars.                                                                *)

\* The commitment is recovered from the response: (r + c*w) - c*w = r.
LEMMA ResponseCancels ==
  \A r, w, c \in Scalar : Add(Add(r, Mul(c, w)), Mul(w, Neg(c))) = r
<1> SUFFICES ASSUME NEW r \in Scalar, NEW w \in Scalar, NEW c \in Scalar
             PROVE  Add(Add(r, Mul(c, w)), Mul(w, Neg(c))) = r
  OBVIOUS
<1>1. PICK x \in Scalar : x = Mul(c, w)
  BY MulScalars
<1>2. Mul(w, Neg(c)) = Neg(x)
  BY <1>1, MulNeg, ScalarsCommute
<1>3. Add(Add(r, x), Neg(x)) = r
  BY SubAdd DEF Sub
<1> QED BY <1>1, <1>2, <1>3

\* Two responses to one commitment: x1 - c1*s = x2 - c2*s gives s.
LEMMA Extraction ==
  ASSUME NEW x1 \in Scalar, NEW x2 \in Scalar, NEW s \in Scalar,
         NEW c1 \in Scalar, NEW c2 \in Scalar, c1 # c2,
         Add(x1, Mul(s, Neg(c1))) = Add(x2, Mul(s, Neg(c2)))
  PROVE  s = Mul(Sub(x1, x2), Inv(Sub(c1, c2)))
<1>1. PICK a \in Scalar, b \in Scalar : a = Mul(s, c1) /\ b = Mul(s, c2)
  BY MulScalars
<1>2. Mul(s, Neg(c1)) = Neg(a) /\ Mul(s, Neg(c2)) = Neg(b)
  BY <1>1, MulNeg
<1>3. Sub(x1, x2) = Sub(a, b)
  <2>1. Add(x1, Neg(a)) = Add(x2, Neg(b))
    BY <1>2
  <2> QED BY <2>1, QAssumption DEF Add, Neg, Sub, Scalar
<1>4. PICK d \in Scalar : d = Sub(c1, c2)
  BY SubType
<1>5. d # 0
  BY <1>4, QAssumption DEF Add, Neg, Sub, Scalar
<1>6. Sub(a, b) = Mul(s, d)
  <2>1. Mul(s, Add(c1, Neg(c2))) = Add(Mul(s, c1), Mul(s, Neg(c2)))
    BY NegType, MulDistributes
  <2> QED BY <1>1, <1>2, <1>4, <2>1 DEF Sub
<1>7. PICK i \in Scalar : i = Inv(d) /\ Mul(d, i) = 1
  BY <1>5, InvType, InvFacts
<1>8. Mul(Mul(s, d), i) = s
  BY <1>7, MulAssociative, MulOne
<1> QED BY <1>3, <1>4, <1>6, <1>7, <1>8

\* A quotient of a difference is a combination of its two values.
LEMMA QuotientCombines ==
  \A a, b, m \in Scalar : Mul(Sub(a, b), m) = Add(Mul(m, a), Mul(Neg(m), b))
<1> SUFFICES ASSUME NEW a \in Scalar, NEW b \in Scalar, NEW m \in Scalar
             PROVE  Mul(Sub(a, b), m) = Add(Mul(m, a), Mul(Neg(m), b))
  OBVIOUS
<1>1. Mul(Sub(a, b), m) = Mul(m, Add(a, Neg(b)))
  BY SubType, ScalarsCommute DEF Sub
<1>2. Mul(m, Add(a, Neg(b))) = Add(Mul(m, a), Mul(m, Neg(b)))
  BY NegType, MulDistributes
<1>3. Mul(m, Neg(b)) = Mul(Neg(m), b)
  BY MulNeg
<1> QED BY <1>1, <1>2, <1>3

\* Linear combinations are scaled by a scalar.
LEMMA ScaledCombination ==
  \A k, a, b, x, y \in Scalar :
     Mul(k, Add(Mul(a, x), Mul(b, y))) = Add(Mul(a, Mul(k, x)), Mul(b, Mul(k, y)))
<1> SUFFICES ASSUME NEW k \in Scalar, NEW a \in Scalar, NEW b \in Scalar,
                    NEW x \in Scalar, NEW y \in Scalar
             PROVE  Mul(k, Add(Mul(a, x), Mul(b, y)))
                       = Add(Mul(a, Mul(k, x)), Mul(b, Mul(k, y)))
  OBVIOUS
<1>1. Mul(k, Add(Mul(a, x), Mul(b, y))) = Add(Mul(k, Mul(a, x)), Mul(k, Mul(b, y)))
  BY MulScalars, MulDistributes
<1>2. ASSUME NEW u \in Scalar, NEW v \in Scalar PROVE Mul(k, Mul(u, v)) = Mul(u, Mul(k, v))
  <2>1. Mul(k, Mul(u, v)) = Mul(Mul(k, u), v)
    BY MulAssociative
  <2>2. Mul(k, u) = Mul(u, k)
    BY ScalarsCommute
  <2> QED BY <2>1, <2>2, MulAssociative
<1> QED BY <1>1, <1>2

-----------------------------------------------------------------------------
(* What a share adds to its nonce is linear in the secrets.                *)

\* lambda_i * c, the factor of the signing share.
KeyFactor ==
    Mul(SigChallenge(Package, [verifying_key |-> VerifyingKey]), Lagrange(Prover, Ids(Package)))

\* The terms of the blinding values.
BlindTerms(blind) == [j \in Others |-> Mul(blind[j], Delta(Prover, j))]

\* The other signers and the factor of the signing share are in their types.
LEMMA CombineFacts ==
  /\ Others \subseteq Identifier /\ Prover \in Identifier
  /\ KeyFactor \in Scalar
  /\ \A j \in Others : Delta(Prover, j) \in Scalar
<1>1. /\ Ids(Package) \subseteq Identifier /\ Package \in SigningPackages
      /\ Prover \in Ids(Package) /\ VerifyingKey \in Scalar
  BY WellformedProofAssumption, PackageFacts
<1>2. /\ SigChallenge(Package, [verifying_key |-> VerifyingKey]) \in Scalar
      /\ Lagrange(Prover, Ids(Package)) \in Scalar
  BY <1>1, SigChallengeType, LagrangeType
<1>3. \A j \in Others : Delta(Prover, j) \in Scalar
  BY NegType, ScalarFacts DEF Delta
<1> QED BY <1>1, <1>2, <1>3, MulScalars DEF Others, KeyFactor

\* The sum of the blinding terms is a scalar, and so is what t_sig commits to.
LEMMA CombineType ==
  ASSUME NEW key \in Scalar, NEW blind, \A j \in Others : blind[j] \in Scalar
  PROVE  /\ ScalarMap(BlindTerms(blind))
         /\ Combine(key, blind) = Add(Mul(KeyFactor, key), Sum(BlindTerms(blind)))
         /\ Combine(key, blind) \in Scalar
<1>1. ScalarMap(BlindTerms(blind))
  BY CombineFacts, MulScalars DEF BlindTerms, ScalarMap
<1>2. Combine(key, blind) = Add(Mul(KeyFactor, key), Sum(BlindTerms(blind)))
  BY DEF Combine, KeyFactor, BlindTerms
<1>3. Mul(KeyFactor, key) \in Scalar /\ Sum(BlindTerms(blind)) \in Scalar
  BY <1>1, CombineFacts, MulScalars, SumType
<1> QED BY <1>1, <1>2, <1>3, AddType

\* A combination of secrets is combined to the combination of what they give.
LEMMA CombineLinear ==
  ASSUME NEW a \in Scalar, NEW b \in Scalar,
         NEW key1 \in Scalar, NEW blind1, \A j \in Others : blind1[j] \in Scalar,
         NEW key2 \in Scalar, NEW blind2, \A j \in Others : blind2[j] \in Scalar,
         NEW key, key = Add(Mul(a, key1), Mul(b, key2)),
         NEW blind,
         \A j \in Others : blind[j] = Add(Mul(a, blind1[j]), Mul(b, blind2[j]))
  PROVE  Combine(key, blind) = Add(Mul(a, Combine(key1, blind1)), Mul(b, Combine(key2, blind2)))
<1>1. PICK k \in Scalar : k = KeyFactor
  BY CombineFacts
<1>2. PICK f1, f2, f : /\ f1 = BlindTerms(blind1) /\ f2 = BlindTerms(blind2)
                       /\ f = BlindTerms(blind)
  OBVIOUS
<1>3. key \in Scalar /\ \A j \in Others : blind[j] \in Scalar
  BY AddType, MulScalars
<1>4. ScalarMap(f1) /\ ScalarMap(f2) /\ ScalarMap(f)
  BY <1>2, <1>3, CombineType
<1>5. DOMAIN f1 = Others /\ DOMAIN f2 = Others /\ DOMAIN f = Others
  BY <1>2 DEF BlindTerms
<1>6. PICK g1, g2 : /\ g1 = [j \in Others |-> Mul(a, f1[j])]
                    /\ g2 = [j \in Others |-> Mul(b, f2[j])]
  OBVIOUS
<1>7. ScalarMap(g1) /\ ScalarMap(g2)
  BY <1>4, <1>5, <1>6, MulScalars DEF ScalarMap
<1>8. Sum(g1) = Mul(a, Sum(f1)) /\ Sum(g2) = Mul(b, Sum(f2))
  <2>1. /\ DOMAIN g1 = DOMAIN f1 /\ DOMAIN g2 = DOMAIN f2
        /\ \A n \in Identifier \cap DOMAIN f1 : g1[n] = Mul(a, f1[n])
        /\ \A n \in Identifier \cap DOMAIN f2 : g2[n] = Mul(b, f2[n])
    BY <1>5, <1>6
  <2> QED BY <1>4, <2>1, SumTimes
<1>9. Sum(f) = Add(Sum(g1), Sum(g2))
  <2>1. ASSUME NEW n \in Others PROVE f[n] = Add(g1[n], g2[n])
    <3>1. PICK d \in Scalar : d = Delta(Prover, n)
      BY CombineFacts
    <3>2. PICK x \in Scalar, y \in Scalar : x = blind1[n] /\ y = blind2[n]
      OBVIOUS
    <3>3. f[n] = Mul(Add(Mul(a, x), Mul(b, y)), d)
      BY <1>2, <3>1, <3>2 DEF BlindTerms
    <3>4. g1[n] = Mul(a, Mul(x, d)) /\ g2[n] = Mul(b, Mul(y, d))
      BY <1>2, <1>6, <3>1, <3>2 DEF BlindTerms
    <3>5. Mul(Add(Mul(a, x), Mul(b, y)), d) = Mul(d, Add(Mul(a, x), Mul(b, y)))
      BY AddType, MulScalars, ScalarsCommute
    <3>6. Mul(d, x) = Mul(x, d) /\ Mul(d, y) = Mul(y, d)
      BY ScalarsCommute
    <3> QED BY <3>3, <3>4, <3>5, <3>6, ScaledCombination
  <2>2. DOMAIN g1 = Others /\ DOMAIN g2 = Others
    BY <1>6
  <2> QED BY <1>5, <1>7, <2>1, <2>2, SumPlus
<1>10. PICK s1 \in Scalar, s2 \in Scalar : s1 = Sum(f1) /\ s2 = Sum(f2)
  BY <1>4, SumType
<1>11. PICK t1 \in Scalar, t2 \in Scalar : t1 = Mul(k, key1) /\ t2 = Mul(k, key2)
  BY MulScalars
<1>12. /\ Combine(key1, blind1) = Add(t1, s1)
       /\ Combine(key2, blind2) = Add(t2, s2)
  BY <1>1, <1>2, <1>10, <1>11, CombineType
<1>13. Combine(key, blind) = Add(Add(Mul(a, t1), Mul(b, t2)), Add(Mul(a, s1), Mul(b, s2)))
  <2>1. Combine(key, blind) = Add(Mul(k, key), Sum(f))
    BY <1>1, <1>2, <1>3, CombineType
  <2>2. Mul(k, key) = Add(Mul(a, t1), Mul(b, t2))
    BY <1>11, ScaledCombination
  <2> QED BY <1>8, <1>9, <1>10, <2>1, <2>2
<1>14. /\ Mul(a, Add(t1, s1)) = Add(Mul(a, t1), Mul(a, s1))
       /\ Mul(b, Add(t2, s2)) = Add(Mul(b, t2), Mul(b, s2))
  BY MulDistributes
<1>15. /\ Mul(a, t1) \in Scalar /\ Mul(b, t2) \in Scalar
       /\ Mul(a, s1) \in Scalar /\ Mul(b, s2) \in Scalar
  BY MulScalars
<1> QED BY <1>12, <1>13, <1>14, <1>15, AddFour

-----------------------------------------------------------------------------
(* The share the proof is about.                                           *)

\* Both sides use the challenges of the same key.
LEMMA SameChallenges ==
  LET pubkeys == [verifying_key |-> VerifyingKey]
  IN  /\ NonceChallenge(Package, Pubkeys) = NonceChallenge(Package, pubkeys)
      /\ AggregateNonce(Package, Pubkeys) = AggregateNonce(Package, pubkeys)
      /\ SigChallenge(Package, Pubkeys) = SigChallenge(Package, pubkeys)
      /\ NonceChallenge(Package, pubkeys) \in Scalar
      /\ AggregateNonce(Package, pubkeys) \in Scalar
<1> DEFINE pubkeys == [verifying_key |-> VerifyingKey]
<1>1. Pubkeys.verifying_key = VerifyingKey /\ pubkeys.verifying_key = VerifyingKey
  BY DEF Pubkeys
<1>2. NonceChallenge(Package, Pubkeys) = NonceChallenge(Package, pubkeys)
  BY <1>1 DEF NonceChallenge
<1>3. AggregateNonce(Package, Pubkeys) = AggregateNonce(Package, pubkeys)
  BY <1>2 DEF AggregateNonce
<1>4. SigChallenge(Package, Pubkeys) = SigChallenge(Package, pubkeys)
  BY <1>1, <1>3 DEF SigChallenge
<1>5. NonceChallenge(Package, pubkeys) \in Scalar /\ AggregateNonce(Package, pubkeys) \in Scalar
  BY <1>1, WellformedProofAssumption, AggregateNonceType
<1> QED BY <1>2, <1>3, <1>4, <1>5

\* What the verifier subtracts from z, given a probe of one, is a scalar: the
\* nonce that the code adds to the share.
LEMMA SubtractedNonce ==
  LET pubkeys == [verifying_key |-> VerifyingKey]
      comm    == Package.signing_commitments[Prover]
      nonce   == Add(comm.D, Mul(NonceChallenge(Package, pubkeys), comm.E))
      norm    == NormalizeShareR(AggregateNonce(Package, pubkeys), nonce).nonce
  IN  norm \in Scalar /\ SharePart(Package, Share, Pubkeys) = Sub(statement.z, norm)
<1>1. PICK b, R, D, E :
         /\ b = NonceChallenge(Package, [verifying_key |-> VerifyingKey])
         /\ R = AggregateNonce(Package, [verifying_key |-> VerifyingKey])
         /\ D = Package.signing_commitments[Prover].D
         /\ E = Package.signing_commitments[Prover].E
  OBVIOUS
<1>2. b \in Scalar /\ R \in Scalar /\ D \in Scalar /\ E \in Scalar
  BY <1>1, SameChallenges, WellformedProofAssumption, PackageFacts
<1>3. PICK nonce \in Scalar : nonce = Add(D, Mul(b, E)) /\ nonce = Add(D, Mul(E, b))
  BY <1>2, AddType, MulScalars, ScalarsCommute
<1>4. /\ NormalizeShareR(R, nonce).nonce \in Scalar
      /\ Mul(nonce, NormalizeShareR(R, 1).nonce) = NormalizeShareR(R, nonce).nonce
  BY <1>2, NormalizeShareRType, ProbedNonce
<1>5. SharePart(Package, Share, Pubkeys)
         = Sub(statement.z, Mul(Add(D, Mul(E, b)), NormalizeShareR(R, 1).nonce))
  BY <1>1, SameChallenges DEF SharePart, Share
<1> QED BY <1>1, <1>3, <1>4, <1>5

\* The share without its nonce is a scalar.
LEMMA SharePartType ==
  ASSUME statement \in Claims
  PROVE  SharePart(Package, Share, Pubkeys) \in Scalar
<1>1. statement.z \in Scalar
  BY DEF Claims
<1> QED BY <1>1, SubtractedNonce, SubType

\* The code's statement, and the part of its share that the proof is about.
LEMMA SharePartOfCode ==
  ASSUME NEW w \in Secrets, statement = StatementOf(w)
  PROVE  /\ statement \in Claims
         /\ SharePart(Package, Share, Pubkeys) = Combine(w.sk, w.blind)
<1>1. /\ w.sk \in Scalar /\ w.sk_blinding \in Scalar
      /\ \A j \in Others : w.blind[j] \in Scalar /\ w.blind_blinding[j] \in Scalar
  BY DEF Secrets
<1>2. PICK rest \in Scalar : rest = Combine(w.sk, w.blind)
  BY <1>1, CombineType
<1>3. PICK norm \in Scalar :
         statement.z = Add(norm, rest) /\ SharePart(Package, Share, Pubkeys) = Sub(statement.z, norm)
  BY <1>2, SubtractedNonce DEF StatementOf
<1>4. Sub(Add(norm, rest), norm) = rest
  BY AddCommutative, SubAdd
<1>5. statement.z \in Scalar
  BY <1>3, AddType
<1>6. PedersenCommit(w.sk, w.sk_blinding) \in Point
      /\ \A j \in Others : PedersenCommit(w.blind[j], w.blind_blinding[j]) \in Point
  BY <1>1 DEF PedersenCommit, Point
<1>7. /\ statement = [z |-> statement.z, vk |-> PedersenCommit(w.sk, w.sk_blinding),
                      C |-> [j \in Others |-> PedersenCommit(w.blind[j], w.blind_blinding[j])]]
  BY DEF StatementOf
<1>8. statement \in Claims
  BY <1>5, <1>6, <1>7 DEF Claims
<1> QED BY <1>2, <1>3, <1>4, <1>8

\* Secrets that satisfy the equations are a witness for module IaRounds.
LEMMA AcceptedWitness ==
  ASSUME statement \in Claims, NEW x,
         DOMAIN x.blind = Others, DOMAIN x.blind_blinding = Others,
         SharePart(Package, Share, Pubkeys) = Combine(x.sk, x.blind),
         PedersenCommit(x.sk, x.sk_blinding) = statement.vk,
         \A j \in Others : PedersenCommit(x.blind[j], x.blind_blinding[j]) = statement.C[j]
  PROVE  AcceptedInIaRounds(x)
<1>1. /\ Share.identifier = Prover /\ Prover \in Ids(Package)
      /\ Pubkeys.partial_verification_keys
            = [i \in {Prover} |-> [signing_share_commitment |-> statement.vk]]
      /\ DOMAIN statement.C = Others
  BY WellformedProofAssumption DEF Share, Pubkeys, Claims
<1>2. SharePart(Package, Share, Pubkeys)
         = Add(Mul(Mul(SigChallenge(Package, Pubkeys), Lagrange(Prover, Ids(Package))), x.sk),
               Sum([j \in Others |-> Mul(x.blind[j], Delta(Prover, j))]))
  BY SameChallenges DEF Combine
<1> QED BY <1>1, <1>2 DEF AcceptedInIaRounds, VerifyWellformedProof, Others

-----------------------------------------------------------------------------
(* Completeness.                                                           *)

\* prove_wellformed responds with scalars, which satisfy the equations.
LEMMA ResponseAccepted ==
  ASSUME NEW w \in Secrets, NEW r \in Secrets, NEW c \in Scalar,
         statement = StatementOf(w), commitment = CommitTo(r)
  PROVE  /\ Respond(c, w, r) \in ResponseTypes
         /\ Accepts(c, Respond(c, w, r))
<1>1. /\ w.sk \in Scalar /\ w.sk_blinding \in Scalar
      /\ \A j \in Others : w.blind[j] \in Scalar /\ w.blind_blinding[j] \in Scalar
      /\ r.sk \in Scalar /\ r.sk_blinding \in Scalar
      /\ \A j \in Others : r.blind[j] \in Scalar /\ r.blind_blinding[j] \in Scalar
  BY DEF Secrets
<1>2. PICK z : z = Respond(c, w, r)
  OBVIOUS
<1>3. /\ z.z_sk = Add(r.sk, Mul(c, w.sk))
      /\ z.z_sk_blinding = Add(r.sk_blinding, Mul(c, w.sk_blinding))
      /\ \A j \in Others :
            /\ z.z_blind[j] = Add(r.blind[j], Mul(c, w.blind[j]))
            /\ z.z_blind_blinding[j] = Add(r.blind_blinding[j], Mul(c, w.blind_blinding[j]))
  BY <1>2 DEF Respond
<1>4. z \in ResponseTypes
  <2>1. \A a, b \in Scalar : Add(a, Mul(c, b)) \in Scalar
    BY AddType, MulScalars
  <2> QED BY <1>1, <1>2, <2>1 DEF Respond, ResponseTypes
<1>5. commitment.t_sig = Add(Combine(z.z_sk, z.z_blind),
                             Mul(SharePart(Package, Share, Pubkeys), Neg(c)))
  <2>1. PICK R \in Scalar, W \in Scalar :
           R = Combine(r.sk, r.blind) /\ W = Combine(w.sk, w.blind)
    BY <1>1, CombineType
  <2>2. SharePart(Package, Share, Pubkeys) = W /\ commitment.t_sig = R
    BY <2>1, SharePartOfCode DEF CommitTo
  <2>3. \A a \in Scalar : Mul(1, a) = a
    BY MulOne, ScalarsCommute, ScalarFacts
  <2>4. /\ z.z_sk = Add(Mul(1, r.sk), Mul(c, w.sk))
        /\ \A j \in Others : z.z_blind[j] = Add(Mul(1, r.blind[j]), Mul(c, w.blind[j]))
    BY <1>1, <1>3, <2>3
  <2>5. Combine(z.z_sk, z.z_blind) = Add(Mul(1, R), Mul(c, W))
    <3>1. PICK k, k1, k2, b, b1, b2 :
             /\ k = z.z_sk /\ k1 = r.sk /\ k2 = w.sk
             /\ b = z.z_blind /\ b1 = r.blind /\ b2 = w.blind
      OBVIOUS
    <3>2. /\ k1 \in Scalar /\ \A j \in Others : b1[j] \in Scalar
          /\ k2 \in Scalar /\ \A j \in Others : b2[j] \in Scalar
          /\ k = Add(Mul(1, k1), Mul(c, k2))
          /\ \A j \in Others : b[j] = Add(Mul(1, b1[j]), Mul(c, b2[j]))
      BY <1>1, <2>4, <3>1
    <3>3. Combine(k, b) = Add(Mul(1, Combine(k1, b1)), Mul(c, Combine(k2, b2)))
      BY <3>2, CombineLinear, ScalarFacts
    <3> QED BY <2>1, <3>1, <3>3
  <2>6. Combine(z.z_sk, z.z_blind) = Add(R, Mul(c, W))
    BY <2>3, <2>5
  <2> QED BY <2>2, <2>6, ResponseCancels
<1>6. commitment.t_key
         = Plus(PedersenCommit(z.z_sk, z.z_sk_blinding), Times(statement.vk, Neg(c)))
  <2>1. /\ commitment.t_key = [value |-> r.sk, blinding |-> r.sk_blinding]
        /\ statement.vk = [value |-> w.sk, blinding |-> w.sk_blinding]
    BY DEF CommitTo, StatementOf, PedersenCommit
  <2> QED BY <1>1, <1>3, <2>1, ResponseCancels DEF Plus, Times, PedersenCommit
<1>7. ASSUME NEW j \in Others
      PROVE  commitment.t_blind[j]
                = Plus(PedersenCommit(z.z_blind[j], z.z_blind_blinding[j]),
                       Times(statement.C[j], Neg(c)))
  <2>1. /\ commitment.t_blind[j] = [value |-> r.blind[j], blinding |-> r.blind_blinding[j]]
        /\ statement.C[j] = [value |-> w.blind[j], blinding |-> w.blind_blinding[j]]
    BY DEF CommitTo, StatementOf, PedersenCommit
  <2> QED BY <1>1, <1>3, <2>1, ResponseCancels DEF Plus, Times, PedersenCommit
<1> QED BY <1>2, <1>4, <1>5, <1>6, <1>7 DEF Accepts

\* The secrets of the code are a witness of its statement.
LEMMA CodeHasWitness ==
  ASSUME NEW w \in Secrets, statement = StatementOf(w)
  PROVE  AcceptedInIaRounds(w)
<1>1. /\ statement \in Claims
      /\ SharePart(Package, Share, Pubkeys) = Combine(w.sk, w.blind)
  BY SharePartOfCode
<1>2. DOMAIN w.blind = Others /\ DOMAIN w.blind_blinding = Others
  BY DEF Secrets
<1>3. /\ PedersenCommit(w.sk, w.sk_blinding) = statement.vk
      /\ \A j \in Others : PedersenCommit(w.blind[j], w.blind_blinding[j]) = statement.C[j]
  BY DEF StatementOf
<1> QED BY <1>1, <1>2, <1>3, AcceptedWitness

-----------------------------------------------------------------------------
(* Special soundness.                                                      *)

\* Secrets extracted from two responses that the equations accept.
LEMMA ExtractedWitness ==
  ASSUME statement \in Claims, NEW c1 \in DOMAIN answers, NEW c2 \in DOMAIN answers,
         c1 \in Scalar, c2 \in Scalar, c1 # c2,
         answers[c1] \in ResponseTypes, Accepts(c1, answers[c1]),
         answers[c2] \in ResponseTypes, Accepts(c2, answers[c2])
  PROVE  AcceptedInIaRounds(Extract(c1, c2))
<1>1. PICK a1 \in ResponseTypes : a1 = answers[c1]
  OBVIOUS
<1>2. PICK a2 \in ResponseTypes : a2 = answers[c2]
  OBVIOUS
<1>3. /\ a1.z_sk \in Scalar /\ a1.z_sk_blinding \in Scalar
      /\ \A j \in Others : a1.z_blind[j] \in Scalar /\ a1.z_blind_blinding[j] \in Scalar
      /\ a2.z_sk \in Scalar /\ a2.z_sk_blinding \in Scalar
      /\ \A j \in Others : a2.z_blind[j] \in Scalar /\ a2.z_blind_blinding[j] \in Scalar
  BY DEF ResponseTypes
<1>4. PICK m \in Scalar : m = Inv(Sub(c1, c2))
  BY SubType, InvType
<1>5. PICK x : x = Extract(c1, c2)
  OBVIOUS
<1>6. /\ x.sk = Mul(Sub(a1.z_sk, a2.z_sk), m)
      /\ x.sk_blinding = Mul(Sub(a1.z_sk_blinding, a2.z_sk_blinding), m)
      /\ DOMAIN x.blind = Others /\ DOMAIN x.blind_blinding = Others
      /\ \A j \in Others :
            /\ x.blind[j] = Mul(Sub(a1.z_blind[j], a2.z_blind[j]), m)
            /\ x.blind_blinding[j]
                  = Mul(Sub(a1.z_blind_blinding[j], a2.z_blind_blinding[j]), m)
  BY <1>1, <1>2, <1>4, <1>5 DEF Extract
<1>7. \A x1, x2, s \in Scalar :
         Add(x1, Mul(s, Neg(c1))) = Add(x2, Mul(s, Neg(c2))) => s = Mul(Sub(x1, x2), m)
  BY <1>4, Extraction
<1>8. SharePart(Package, Share, Pubkeys) = Combine(x.sk, x.blind)
  <2>1. PICK X1 \in Scalar, X2 \in Scalar, S \in Scalar :
           /\ X1 = Combine(a1.z_sk, a1.z_blind) /\ X2 = Combine(a2.z_sk, a2.z_blind)
           /\ S = SharePart(Package, Share, Pubkeys)
    BY <1>3, CombineType, SharePartType
  <2>2. Add(X1, Mul(S, Neg(c1))) = Add(X2, Mul(S, Neg(c2)))
    BY <1>1, <1>2, <2>1 DEF Accepts
  <2>3. S = Mul(Sub(X1, X2), m)
    BY <1>7, <2>2
  <2>4. PICK n \in Scalar : n = Neg(m)
    BY NegType
  <2>5. \A a, b \in Scalar : Mul(Sub(a, b), m) = Add(Mul(m, a), Mul(n, b))
    BY <2>4, QuotientCombines
  <2>6. /\ x.sk = Add(Mul(m, a1.z_sk), Mul(n, a2.z_sk))
        /\ \A j \in Others : x.blind[j] = Add(Mul(m, a1.z_blind[j]), Mul(n, a2.z_blind[j]))
    BY <1>3, <1>6, <2>5
  <2>7. Combine(x.sk, x.blind) = Add(Mul(m, X1), Mul(n, X2))
    <3>1. PICK k, k1, k2, b, b1, b2 :
             /\ k = x.sk /\ k1 = a1.z_sk /\ k2 = a2.z_sk
             /\ b = x.blind /\ b1 = a1.z_blind /\ b2 = a2.z_blind
      OBVIOUS
    <3>2. /\ k1 \in Scalar /\ \A j \in Others : b1[j] \in Scalar
          /\ k2 \in Scalar /\ \A j \in Others : b2[j] \in Scalar
          /\ k = Add(Mul(m, k1), Mul(n, k2))
          /\ \A j \in Others : b[j] = Add(Mul(m, b1[j]), Mul(n, b2[j]))
      BY <1>3, <2>6, <3>1
    <3>3. Combine(k, b) = Add(Mul(m, Combine(k1, b1)), Mul(n, Combine(k2, b2)))
      BY <3>2, CombineLinear, SMTT(20)
    <3> QED BY <2>1, <3>1, <3>3
  <2> QED BY <2>1, <2>3, <2>5, <2>7
<1>9. PedersenCommit(x.sk, x.sk_blinding) = statement.vk
  <2>1. PICK v \in Scalar, u \in Scalar : statement.vk = [value |-> v, blinding |-> u]
    BY DEF Claims, Point
  <2>2. /\ Add(a1.z_sk, Mul(v, Neg(c1))) = Add(a2.z_sk, Mul(v, Neg(c2)))
        /\ Add(a1.z_sk_blinding, Mul(u, Neg(c1))) = Add(a2.z_sk_blinding, Mul(u, Neg(c2)))
    BY <1>1, <1>2, <2>1 DEF Accepts, Plus, Times, PedersenCommit
  <2> QED BY <1>3, <1>6, <1>7, <2>1, <2>2 DEF PedersenCommit
<1>10. ASSUME NEW j \in Others
       PROVE  PedersenCommit(x.blind[j], x.blind_blinding[j]) = statement.C[j]
  <2>1. PICK v \in Scalar, u \in Scalar : statement.C[j] = [value |-> v, blinding |-> u]
    BY DEF Claims, Point
  <2>2. /\ Add(a1.z_blind[j], Mul(v, Neg(c1))) = Add(a2.z_blind[j], Mul(v, Neg(c2)))
        /\ Add(a1.z_blind_blinding[j], Mul(u, Neg(c1)))
              = Add(a2.z_blind_blinding[j], Mul(u, Neg(c2)))
    <3>1. /\ commitment.t_blind[j] = Plus(PedersenCommit(a1.z_blind[j], a1.z_blind_blinding[j]),
                                          Times(statement.C[j], Neg(c1)))
          /\ commitment.t_blind[j] = Plus(PedersenCommit(a2.z_blind[j], a2.z_blind_blinding[j]),
                                          Times(statement.C[j], Neg(c2)))
      BY <1>1, <1>2 DEF Accepts
    <3> QED BY <2>1, <3>1 DEF Plus, Times, PedersenCommit
  <2> QED BY <1>3, <1>6, <1>7, <2>1, <2>2 DEF PedersenCommit
<1> QED BY <1>5, <1>6, <1>8, <1>9, <1>10, AcceptedWitness

-----------------------------------------------------------------------------
(* The protocol.                                                           *)

\* The inductive invariant: the prover of the code works with the secrets its
\* statement and its commitment are made of, and every response is accepted.
ProofInv ==
    /\ runs_code =>
          /\ witness \in Secrets /\ coins \in Secrets
          /\ statement = StatementOf(witness) /\ commitment = CommitTo(coins)
    /\ statement \in Claims
    /\ \A c \in DOMAIN answers :
          c \in Scalar /\ answers[c] \in ResponseTypes /\ Accepts(c, answers[c])

\* It holds when the prover has committed.
LEMMA InitProofInv == Init => ProofInv
<1> SUFFICES ASSUME Init PROVE ProofInv
  OBVIOUS
<1>1. DOMAIN answers = {}
  BY DEF Init, EmptyMap
<1>2. CASE InitRunsCode
  <2>1. /\ witness \in Secrets /\ coins \in Secrets
        /\ statement = StatementOf(witness) /\ commitment = CommitTo(coins)
    BY <1>2, WellformedProofAssumption DEF InitRunsCode
  <2> QED BY <1>1, <2>1, SharePartOfCode DEF ProofInv
<1>3. CASE InitOther
  BY <1>1, <1>3, WellformedProofAssumption DEF InitOther, ProofInv
<1> QED BY <1>2, <1>3 DEF Init

\* An accepted response can be added.
LEMMA AnswerPreserves ==
  ASSUME ProofInv, NEW challenge \in Scalar, NEW z \in ResponseTypes, Accepts(challenge, z),
         answers' = Insert(answers, challenge, z),
         UNCHANGED <<runs_code, witness, coins, statement, commitment>>
  PROVE  ProofInv'
<1>1. /\ DOMAIN answers' = DOMAIN answers \cup {challenge}
      /\ \A c \in DOMAIN answers' :
            answers'[c] = IF c = challenge THEN z ELSE answers[c]
  BY DEF Insert
<1>2. SharePart(Package, Share, Pubkeys)' = SharePart(Package, Share, Pubkeys)
  BY DEF SharePart, Share, Pubkeys, AggregateNonce, NonceChallenge
<1>3. ASSUME NEW c, NEW a PROVE Accepts(c, a)' <=> Accepts(c, a)
  BY <1>2 DEF Accepts
<1> QED BY <1>1, <1>3 DEF ProofInv

\* Every step keeps it.
LEMMA NextProofInv == ProofInv /\ [Next]_vars => ProofInv'
<1> SUFFICES ASSUME ProofInv, [Next]_vars PROVE ProofInv'
  OBVIOUS
<1>1. ASSUME NEW challenge \in Scalar, Answer(challenge) PROVE ProofInv'
  <2>1. /\ Respond(challenge, witness, coins) \in ResponseTypes
        /\ Accepts(challenge, Respond(challenge, witness, coins))
    BY <1>1, ResponseAccepted DEF ProofInv, Answer
  <2> QED BY <1>1, <2>1, AnswerPreserves DEF Answer
<1>2. ASSUME NEW challenge \in Scalar, AnswerOther(challenge) PROVE ProofInv'
  <2>1. PICK z \in Responses :
           Accepts(challenge, z) /\ answers' = Insert(answers, challenge, z)
    BY <1>2 DEF AnswerOther
  <2>2. z \in ResponseTypes
    BY <2>1, WellformedProofAssumption
  <2> QED BY <1>2, <2>1, <2>2, AnswerPreserves DEF AnswerOther
<1>3. CASE UNCHANGED vars
  <2>1. SharePart(Package, Share, Pubkeys)' = SharePart(Package, Share, Pubkeys)
    BY <1>3 DEF vars, SharePart, Share, Pubkeys, AggregateNonce, NonceChallenge
  <2> QED BY <1>3, <2>1 DEF vars, ProofInv, Accepts
<1> QED BY <1>1, <1>2, <1>3 DEF Next

\* The invariant holds of every reachable state.
LEMMA ProofInvariance == Spec => []ProofInv
  BY InitProofInv, NextProofInv, PTL DEF Spec

\* Completeness: every proof that prove_wellformed makes, of any share that `sign`
\* returns, is accepted by verify_wellformed_proof, whatever its challenge is.
THEOREM Completeness == Spec => []HonestProofsAccepted
<1>1. ProofInv => HonestProofsAccepted
  BY CodeHasWitness DEF ProofInv, HonestProofsAccepted
<1> QED BY <1>1, ProofInvariance, PTL

\* Special soundness: whoever can respond to two challenges after one commitment
\* knows a signing share and blinding values which make the share what it is and
\* are those committed to.
THEOREM SpecialSoundness == Spec => []TwoAnswersGiveWitness
<1>1. ASSUME ProofInv PROVE TwoAnswersGiveWitness
  <2> SUFFICES ASSUME NEW c1 \in DOMAIN answers, NEW c2 \in DOMAIN answers, c1 # c2
               PROVE  AcceptedInIaRounds(Extract(c1, c2))
    BY DEF TwoAnswersGiveWitness
  <2>1. /\ statement \in Claims /\ c1 \in Scalar /\ c2 \in Scalar
        /\ answers[c1] \in ResponseTypes /\ Accepts(c1, answers[c1])
        /\ answers[c2] \in ResponseTypes /\ Accepts(c2, answers[c2])
    BY <1>1 DEF ProofInv
  <2> QED BY <2>1, ExtractedWitness
<1> QED BY <1>1, ProofInvariance, PTL
=============================================================================
