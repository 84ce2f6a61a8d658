---------------------------- MODULE KeyUses_proofs ----------------------------
(***************************************************************************)
(* The uses of a dealt key, for every key, nonce and hash function.        *)
(*                                                                         *)
(* The Taproot demo: which keys its two signers can spend with, what they  *)
(* then print, and what the tweak does to the identifiable abort.          *)
(*                                                                         *)
(* A session during which the key is dealt again, for every number of      *)
(* deals and signers, threshold and ciphersuite: shares of one deal sign,  *)
(* and decide names those that have gone with another deal than its own.   *)
(* What is left to chance is a hypothesis of the theorems that need it.    *)
(***************************************************************************)
EXTENDS TaprootSpend, Redeal, FaFrost_proofs

-----------------------------------------------------------------------------
(* The Taproot demo: points of even y.                                     *)

\* The point of even y that an x coordinate stands for (x_only_bytes, lift_x),
\* and what normalize_share_r makes of the aggregate nonce.
LEMMA Coordinates ==
  ASSUME NEW P \in Scalar
  PROVE  /\ XOnly(P) \in Scalar /\ ~ HasOddY(XOnly(P))
         /\ XOnly(P) = 0 <=> P = 0
         /\ ~ HasOddY(P) => XOnly(P) = P
         /\ P # 0 => XOnly(P) \in XCoordinates
         /\ NormalizeShareR(P, 0).R = XOnly(P)
<1>1. CASE HasOddY(P)
  <2>1. P # 0 /\ P \in 1..(Q - 1)
    BY <1>1 DEF HasOddY, Scalar
  <2>2. XOnly(P) = Q - P
    BY <1>1, <2>1 DEF XOnly, Neg
  <2>3. (Q - P) % 2 = 0 /\ Q - P \in Scalar /\ Q - P # 0
    BY <1>1, <2>1, OddOrder, QAssumption DEF HasOddY, Scalar
  <2>4. NormalizeShareR(P, 0).R = XOnly(P)
    BY <1>1, TaprootAssumption DEF NormalizeShareR, XOnly
  <2>5. ~ HasOddY(Q - P)
    BY <2>3 DEF HasOddY
  <2>6. XOnly(P) \in XCoordinates
    BY <2>1 DEF XCoordinates
  <2> QED BY <1>1, <2>1, <2>2, <2>3, <2>4, <2>5, <2>6
<1>2. CASE ~ HasOddY(P)
  BY <1>2, TaprootAssumption DEF XOnly, NormalizeShareR, XCoordinates
<1> QED BY <1>1, <1>2

\* The challenge hashed from two coordinates.
LEMMA ChallengeOfCoordinates ==
  ASSUME NEW x \in Scalar, NEW r \in Scalar \cup {Q}, NEW m \in Messages
  PROVE  Hsig(x, r, m) \in Scalar
  BY HsigAssumption, TaprootAssumption

\* bip340_verify_bytes recomputes the nonce: it accepts one of even y exactly if
\* the rest of s is the challenge times the key.
LEMMA VerifyBytes ==
  ASSUME NEW vk \in Scalar \ {0}, ~ HasOddY(vk), NEW r \in Scalar \cup {Q},
         NEW s, NEW m \in Messages
  PROVE  Bip340VerifyBytes([r_x |-> r, s |-> s], m, XOnly(vk))
            <=> /\ s \in Scalar /\ r \in Scalar \ {0} /\ ~ HasOddY(r)
                /\ s = Add(r, Mul(vk, Hsig(vk, r, m)))
<1>1. XOnly(vk) = vk /\ vk \in XCoordinates
  BY Coordinates
<1>2. PICK p \in Scalar : p = Mul(vk, Hsig(vk, r, m))
  BY ChallengeOfCoordinates, MulScalars
<1>3. CASE s \in Scalar
  <2>1. PICK R \in Scalar : R = Sub(s, p)
    BY <1>3, SubType
  <2>2. Bip340VerifyBytes([r_x |-> r, s |-> s], m, XOnly(vk))
           <=> R # 0 /\ ~ HasOddY(R) /\ XOnly(R) = r
    BY <1>1, <1>2, <1>3, <2>1 DEF Bip340VerifyBytes
  <2>3. ~ HasOddY(R) => XOnly(R) = R
    BY Coordinates
  <2>4. R = r /\ r \in Scalar <=> r \in Scalar /\ s = Add(r, p)
    <3>1. s = Add(R, p)
      BY <1>3, <2>1, SubFacts, AddCommutative
    <3>2. r \in Scalar => (Add(R, p) = Add(r, p) <=> R = r)
      BY QAssumption DEF Add, Scalar
    <3> QED BY <3>1, <3>2
  <2> QED BY <1>2, <1>3, <2>2, <2>3, <2>4
<1>4. CASE s \notin Scalar
  BY <1>4 DEF Bip340VerifyBytes
<1> QED BY <1>3, <1>4

\* verify, for a key of even y.
LEMMA VerifyEven ==
  ASSUME NEW pubkeys, NEW vk \in Scalar, vk = pubkeys.verifying_key, ~ HasOddY(vk),
         NEW R \in Scalar, NEW z, NEW m
  PROVE  Verify([R |-> R, z |-> z], m, pubkeys)
            <=> ~ HasOddY(R) /\ z = Add(R, Mul(vk, Hsig(vk, R, m)))
<1>1. AcceptR(R) <=> ~ HasOddY(R)
  BY TaprootAssumption DEF AcceptR
<1>2. XOnly(vk) = vk /\ (~ HasOddY(R) => XOnly(R) = R)
  BY Coordinates
<1>3. Challenge(vk, R, m) = Hsig(XOnly(vk), XOnly(R), m)
  BY TaprootAssumption DEF Challenge
<1> QED BY <1>1, <1>2, <1>3 DEF Verify

-----------------------------------------------------------------------------
(* The inductive invariant: what main has computed by then.                *)

KeysDealt ==
  \E dealing \in Dealings : keys = GenerateWithDealer(dealing.secret_key, dealing.random)

NothingTweaked == signing_keys = keys /\ tweak_eff = 0

NothingSigned == package = EmptyMap /\ shares = EmptyMap /\ sig = EmptyMap

\* What TweakKeys has made of the keys.
Tweaked ==
  /\ q_raw # 0
  /\ DOMAIN signing_keys.shares = Identifier
  /\ \A i \in Identifier :
        LET dealt   == keys.shares[i]
            tweaked == signing_keys.shares[i]
        IN  /\ tweaked.identifier = i
            /\ tweaked.signing_share = IF HasOddY(q_raw) THEN Neg(dealt.signing_share)
                                                         ELSE dealt.signing_share
            /\ tweaked.signing_share_blinding = dealt.signing_share_blinding
            /\ tweaked.pairwise_keys = dealt.pairwise_keys
  /\ signing_keys.pubkeys.verifying_key = XOnly(q_raw)
  /\ signing_keys.pubkeys.partial_verification_keys
        = keys.pubkeys.partial_verification_keys
  /\ tweak_eff = IF HasOddY(q_raw) THEN Neg(tweak) ELSE tweak

Committed ==
  /\ package \in SigningPackages /\ Ids(package) = signer_ids
  /\ nonces \in [signer_ids -> [d : Scalar, e : Scalar]]
  /\ \A i \in signer_ids : package.signing_commitments[i] = Commitment(nonces[i])

\* Each share is what `sign` returned: the aggregate nonce is not the identity.
SharesSigned ==
  /\ DOMAIN shares \subseteq signer_ids
  /\ DOMAIN shares # {} => AggregateNonce(package, signing_keys.pubkeys) # 0
  /\ \A i \in DOMAIN shares :
        shares[i] = Sign(package, nonces[i], signing_keys.shares[i], signing_keys.pubkeys)

\* aggregate's signature and the coordinator's share for the tweak.
FinishedSignature ==
  LET s == Aggregate(shares)
      c == Hsig(XOnly(signing_keys.pubkeys.verifying_key), XOnly(s.R), package.message)
  IN  [s EXCEPT !.z = Add(@, Mul(c, tweak_eff))]

\* What is asserted before the transaction is printed.
SignatureVerifies ==
  /\ ~ SignatureToBytesPanics(sig)
  /\ Bip340VerifyBytes(SignatureToBytes(sig), package.message,
                       XOnly(signing_keys.pubkeys.verifying_key))

Preparing ==
  /\ phase \in {"start", "prepared", "failed", "panicked"}
  /\ NothingTweaked /\ NothingSigned
  /\ phase = "prepared" => q_raw # 0
  /\ phase = "panicked" => keys.pubkeys.verifying_key = 0 \/ q_raw = 0

Committing == phase = "tweaked" /\ Tweaked /\ NothingSigned

Signing ==
  /\ phase \in {"sign", "panicked"}
  /\ Tweaked /\ Committed /\ SharesSigned
  /\ sig = EmptyMap
  /\ phase = "panicked" => AggregateNonce(package, signing_keys.pubkeys) = 0

Concluding ==
  /\ phase \in {"check", "printed", "panicked"}
  /\ Tweaked /\ Committed /\ SharesSigned
  /\ DOMAIN shares = signer_ids
  /\ sig = FinishedSignature
  /\ phase = "printed" => SignatureVerifies
  /\ phase = "panicked" => ~ SignatureVerifies

SpendInv ==
  /\ KeysDealt /\ tweak \in Scalar
  /\ Preparing \/ Committing \/ Signing \/ Concluding

-----------------------------------------------------------------------------
(* The keys.                                                               *)

\* The dealt key has an even y.
LEMMA DealtEven ==
  ASSUME KeysDealt
  PROVE  /\ Dealt(keys)
         /\ ~ HasOddY(keys.pubkeys.verifying_key)
<1>1. PICK dealing \in Dealings :
         keys = GenerateWithDealer(dealing.secret_key, dealing.random)
  BY DEF KeysDealt
<1>2. dealing.secret_key \in Scalar /\ dealing.random \in Randomness
  BY TaprootAssumption
<1>3. Dealt(keys)
  BY <1>1, <1>2, DealtKeys
<1>4. PICK vk \in Scalar : vk = dealing.secret_key
  BY <1>2
<1>5. keys.pubkeys.verifying_key = NormalizeKeygen(vk, vk).vk
  BY <1>1, <1>4 DEF GenerateWithDealer
<1>6. NormalizeKeygen(vk, vk).vk = XOnly(vk)
  BY TaprootAssumption DEF NormalizeKeygen, XOnly
<1> QED BY <1>3, <1>5, <1>6, Coordinates

\* The tweaked key has an even y and is not the identity.
LEMMA TweakedKey ==
  ASSUME KeysDealt, tweak \in Scalar, Tweaked
  PROVE  /\ signing_keys.pubkeys.verifying_key \in Scalar \ {0}
         /\ ~ HasOddY(signing_keys.pubkeys.verifying_key)
         /\ XOnly(signing_keys.pubkeys.verifying_key) = XOnly(q_raw)
         /\ q_raw \in Scalar /\ tweak_eff \in Scalar
<1>1. q_raw \in Scalar
  BY DealtEven, AddType DEF q_raw, Dealt
<1>2. XOnly(XOnly(q_raw)) = XOnly(q_raw)
  BY <1>1, Coordinates
<1> QED BY <1>1, <1>2, Coordinates, NegType DEF Tweaked

\* The functions of the rounds use no more of the public keys than the group's
\* key; the identifiable abort compares commitments as well.
LEMMA ChallengesOfKey ==
  ASSUME NEW p, NEW a, NEW b, a.verifying_key = b.verifying_key
  PROVE  /\ NonceChallenge(p, a) = NonceChallenge(p, b)
         /\ AggregateNonce(p, a) = AggregateNonce(p, b)
         /\ SigChallenge(p, a) = SigChallenge(p, b)
<1>1. NonceChallenge(p, a) = NonceChallenge(p, b)
  BY DEF NonceChallenge
<1>2. AggregateNonce(p, a) = AggregateNonce(p, b)
  BY <1>1 DEF AggregateNonce
<1> QED BY <1>1, <1>2 DEF SigChallenge

\* `sign` under two public key packages of the same group key.
LEMMA SignOfKey ==
  ASSUME NEW p, NEW n, NEW kp, NEW a, NEW b, a.verifying_key = b.verifying_key
  PROVE  Sign(p, n, kp, a) = Sign(p, n, kp, b)
  BY ChallengesOfKey DEF Sign

\* The tweaked keys with commitments to the tweaked shares, as a dealer would
\* have published them.
Recommitted ==
  [shares  |-> signing_keys.shares,
   pubkeys |-> [verifying_key |-> signing_keys.pubkeys.verifying_key,
                partial_verification_keys |->
                   [i \in Identifier |->
                      [signing_share_commitment |->
                          PedersenCommit(signing_keys.shares[i].signing_share,
                                         signing_keys.shares[i].signing_share_blinding),
                       pairwise_key_commitments |->
                          keys.pubkeys.partial_verification_keys[i].pairwise_key_commitments]]]]

\* They are keys a dealer returns.
LEMMA RecommittedDealt ==
  ASSUME KeysDealt, tweak \in Scalar, Tweaked
  PROVE  Dealt(Recommitted)
<1>1. Dealt(keys)
  BY DealtEven
<1>2. /\ Recommitted.shares = signing_keys.shares
      /\ Recommitted.pubkeys.verifying_key = signing_keys.pubkeys.verifying_key
      /\ DOMAIN Recommitted.pubkeys.partial_verification_keys = Identifier
      /\ DOMAIN Recommitted.shares = Identifier
  BY DEF Recommitted, Tweaked
<1>3. Recommitted.pubkeys.verifying_key \in Scalar
  BY <1>2, TweakedKey
<1>4. ASSUME NEW i \in Identifier
      PROVE  LET kp == signing_keys.shares[i]
             IN  /\ kp.identifier = i
                 /\ kp.signing_share \in Scalar
                 /\ kp.pairwise_keys = keys.shares[i].pairwise_keys
                 /\ Recommitted.pubkeys.partial_verification_keys[i].signing_share_commitment
                       = PedersenCommit(kp.signing_share, kp.signing_share_blinding)
                 /\ Recommitted.pubkeys.partial_verification_keys[i].pairwise_key_commitments
                       = keys.pubkeys.partial_verification_keys[i].pairwise_key_commitments
  <2>1. keys.shares[i].signing_share \in Scalar
    BY <1>1 DEF Dealt
  <2> QED BY <2>1, NegType DEF Tweaked, Recommitted
<1>5. ASSUME NEW i \in Identifier
      PROVE  /\ DOMAIN keys.shares[i].pairwise_keys = Identifier \ {i}
             /\ DOMAIN keys.pubkeys.partial_verification_keys[i].pairwise_key_commitments
                   = Identifier \ {i}
             /\ \A j \in Identifier \ {i} :
                   /\ keys.shares[i].pairwise_keys[j] \in PairwiseKeys
                   /\ keys.shares[i].pairwise_keys[j] = keys.shares[j].pairwise_keys[i]
                   /\ keys.pubkeys.partial_verification_keys[i].pairwise_key_commitments[j]
                         = HashPairwiseKeyCommitment(keys.shares[i].pairwise_keys[j])
  BY <1>1 DEF Dealt
<1>6. PICK made : made = Recommitted
  OBVIOUS
<1>7. Dealt(made)
  BY <1>2, <1>3, <1>4, <1>5, <1>6, SMTT(20) DEF Dealt
<1> QED BY <1>6, <1>7

-----------------------------------------------------------------------------
(* The signature.                                                          *)

\* The tweaked shares interpolate to the dealt key or its negation.
LEMMA TweakedSum ==
  ASSUME KeysDealt, tweak \in Scalar, Tweaked, NEW p \in SigningPackages
  PROVE  /\ KeySum(p, keys) \in Scalar
         /\ KeySum(p, Recommitted) = IF HasOddY(q_raw) THEN Neg(KeySum(p, keys))
                                                       ELSE KeySum(p, keys)
<1>1. PICK S \in SUBSET Identifier : S = Ids(p)
  BY PackageFacts
<1>2. PICK f, h :
         /\ f = [i \in S |-> Mul(Lagrange(i, S), keys.shares[i].signing_share)]
         /\ h = [i \in S |-> Mul(Lagrange(i, S), Recommitted.shares[i].signing_share)]
  OBVIOUS
<1>3. KeySum(p, keys) = Sum(f) /\ KeySum(p, Recommitted) = Sum(h)
  BY <1>1, <1>2 DEF KeySum
<1>4. \A i \in S : Lagrange(i, S) \in Scalar /\ keys.shares[i].signing_share \in Scalar
  BY DealtEven, LagrangeType DEF Dealt
<1>5. ScalarMap(f) /\ DOMAIN f = S /\ DOMAIN h = S
  BY <1>2, <1>4, MulScalars DEF ScalarMap
<1>6. CASE HasOddY(q_raw)
  <2>1. \A i \in S : Recommitted.shares[i].signing_share = Neg(keys.shares[i].signing_share)
    BY <1>6 DEF Recommitted, Tweaked
  <2>2. \A i \in S : h[i] = Neg(f[i])
    BY <1>2, <1>4, <2>1, MulNeg
  <2> QED BY <1>3, <1>5, <1>6, <2>2, SumNeg, SumType
<1>7. CASE ~ HasOddY(q_raw)
  <2>1. \A i \in S : Recommitted.shares[i].signing_share = keys.shares[i].signing_share
    BY <1>7 DEF Recommitted, Tweaked
  <2>2. h = f
    BY <1>2, <2>1
  <2> QED BY <1>3, <1>5, <1>7, <2>2, SumType
<1> QED BY <1>6, <1>7

\* The shares of the demo are those that the owners of the recommitted keys sign.
LEMMA SharesOfRecommitted ==
  ASSUME Committed, SharesSigned, DOMAIN shares = signer_ids
  PROVE  Signed(package, Recommitted, shares)
<1>1. ASSUME NEW i \in signer_ids
      PROVE  /\ nonces[i] \in [d : Scalar, e : Scalar]
             /\ package.signing_commitments[i] = Commitment(nonces[i])
             /\ shares[i] = Sign(package, nonces[i], Recommitted.shares[i],
                                 Recommitted.pubkeys)
  <2>1. Recommitted.shares = signing_keys.shares
        /\ Recommitted.pubkeys.verifying_key = signing_keys.pubkeys.verifying_key
    BY DEF Recommitted
  <2> QED BY <2>1, SignOfKey DEF Committed, SharesSigned
<1> QED BY <1>1 DEF Signed, Committed

\* aggregate succeeds, and what the coordinator makes of its signature.
LEMMA FinishedFacts ==
  ASSUME KeysDealt, tweak \in Scalar, Tweaked, Committed, SharesSigned,
         DOMAIN shares = signer_ids
  PROVE  /\ AggregateResult(package, shares) = "Ok"
         /\ \E r \in Scalar \ {0}, c \in Scalar :
               /\ ~ HasOddY(r)
               /\ c = SigChallenge(package, signing_keys.pubkeys)
               /\ c = Hsig(XOnly(q_raw), r, package.message)
               /\ FinishedSignature
                     = [R |-> r, z |-> Add(Add(r, Mul(c, KeySum(package, Recommitted))),
                                           Mul(c, tweak_eff))]
<1>1. PICK pubkeys : pubkeys = Recommitted.pubkeys
  OBVIOUS
<1>2. /\ pubkeys.verifying_key = signing_keys.pubkeys.verifying_key
      /\ pubkeys.verifying_key \in Scalar
      /\ XOnly(pubkeys.verifying_key) = XOnly(q_raw)
  BY <1>1, TweakedKey DEF Recommitted
<1>3. PICK R \in Scalar \ {0} :
         /\ R = AggregateNonce(package, pubkeys)
         /\ R = AggregateNonce(package, signing_keys.pubkeys)
  <2>1. AggregateNonce(package, pubkeys) = AggregateNonce(package, signing_keys.pubkeys)
    BY <1>2, ChallengesOfKey
  <2>2. DOMAIN shares # {}
    BY DEF signer_ids
  <2> QED BY <1>2, <2>1, <2>2, AggregateNonceType DEF Committed, SharesSigned
<1>4. PICK r \in Scalar \ {0} :
         r = NormalizeShareR(R, 0).R /\ r = XOnly(R) /\ ~ HasOddY(r) /\ XOnly(r) = r
  BY Coordinates
<1>5. /\ package \in SigningPackages /\ Ids(package) # {} /\ Dealt(Recommitted)
      /\ Signed(package, Recommitted, shares) /\ package.message \in Messages
  BY RecommittedDealt, SharesOfRecommitted, PackageFacts DEF Committed, signer_ids
<1>6. PICK c \in Scalar :
         /\ c = SigChallenge(package, pubkeys)
         /\ c = SigChallenge(package, signing_keys.pubkeys)
         /\ c = Hsig(XOnly(q_raw), r, package.message)
  <2>1. SigChallenge(package, pubkeys) = SigChallenge(package, signing_keys.pubkeys)
    BY <1>2, ChallengesOfKey
  <2>2. SigChallenge(package, pubkeys) = Hsig(XOnly(q_raw), r, package.message)
    BY <1>2, <1>3, <1>4, TaprootAssumption DEF SigChallenge, Challenge
  <2> QED BY <1>2, <1>5, <2>1, <2>2, SigChallengeType
<1>7. /\ AggregateResult(package, shares) = "Ok"
      /\ Aggregate(shares).R = r
      /\ Aggregate(shares).z = Add(r, Mul(c, KeySum(package, Recommitted)))
  BY <1>1, <1>3, <1>4, <1>5, <1>6, SignedVerifies
<1>8. FinishedSignature = [R |-> r, z |-> Add(Aggregate(shares).z, Mul(c, tweak_eff))]
  <2>1. PICK x, z : Aggregate(shares) = [R |-> x, z |-> z]
    BY DEF Aggregate
  <2>2. Hsig(XOnly(signing_keys.pubkeys.verifying_key), XOnly(r), package.message) = c
    BY <1>2, <1>4, <1>6
  <2> QED BY <1>7, <2>1, <2>2 DEF FinishedSignature
<1> QED BY <1>4, <1>6, <1>7, <1>8

\* The assertion before the transaction is printed holds exactly if the shares
\* interpolate to the dealt key (or the challenge is zero), whatever the tweak
\* and whichever of the points have an odd y.
LEMMA AssertionHolds ==
  ASSUME KeysDealt, tweak \in Scalar, Tweaked, Committed, SharesSigned,
         DOMAIN shares = signer_ids, sig = FinishedSignature
  PROVE  /\ sig \in [R : Scalar, z : Scalar]
         /\ SignatureVerifies
               <=> Mul(SigChallenge(package, signing_keys.pubkeys), KeySum(package, keys))
                      = Mul(SigChallenge(package, signing_keys.pubkeys),
                            keys.pubkeys.verifying_key)
<1>1. PICK r \in Scalar \ {0}, c \in Scalar :
         /\ ~ HasOddY(r)
         /\ c = SigChallenge(package, signing_keys.pubkeys)
         /\ c = Hsig(XOnly(q_raw), r, package.message)
         /\ FinishedSignature
               = [R |-> r, z |-> Add(Add(r, Mul(c, KeySum(package, Recommitted))),
                                     Mul(c, tweak_eff))]
  BY FinishedFacts
<1>2. PICK vk \in Scalar, t \in Scalar, y \in Scalar \ {0}, K \in Scalar :
         /\ vk = keys.pubkeys.verifying_key /\ t = tweak
         /\ y = signing_keys.pubkeys.verifying_key /\ y = XOnly(q_raw)
         /\ XOnly(y) = y /\ ~ HasOddY(y)
         /\ K = KeySum(package, keys)
  BY TweakedSum, TweakedKey, DealtEven DEF Dealt, Tweaked, Committed
<1>3. PICK a \in Scalar, b \in Scalar, d \in Scalar :
         a = Mul(c, K) /\ b = Mul(c, vk) /\ d = Mul(c, t)
  BY MulScalars
<1>4. q_raw \in Scalar /\ q_raw = Add(vk, t) /\ Mul(c, q_raw) = Add(b, d)
  <2>1. q_raw = Add(vk, t)
    BY <1>2 DEF q_raw
  <2>2. Add(vk, t) \in Scalar
    BY AddType
  <2>3. Mul(c, Add(vk, t)) = Add(b, d)
    BY <1>3, MulDistributes
  <2> QED BY <2>1, <2>2, <2>3
<1>5. PICK z : z = sig.z
  OBVIOUS
<1>6. z = IF HasOddY(q_raw) THEN Add(Add(r, Neg(a)), Neg(d)) ELSE Add(Add(r, a), d)
  <2>1. KeySum(package, Recommitted) = IF HasOddY(q_raw) THEN Neg(K) ELSE K
    BY <1>2, TweakedSum DEF Committed
  <2>2. tweak_eff = IF HasOddY(q_raw) THEN Neg(t) ELSE t
    BY <1>2 DEF Tweaked
  <2>3. Mul(c, Neg(K)) = Neg(a) /\ Mul(c, Neg(t)) = Neg(d)
    BY <1>3, MulNeg
  <2> QED BY <1>1, <1>3, <1>5, <2>1, <2>2, <2>3
<1>7. Mul(c, y) = IF HasOddY(q_raw) THEN Neg(Add(b, d)) ELSE Add(b, d)
  <2>1. XOnly(q_raw) = IF HasOddY(q_raw) THEN Neg(q_raw) ELSE q_raw
    BY DEF XOnly
  <2> QED BY <1>2, <1>4, <2>1, MulNeg
<1>8. z \in Scalar
  BY <1>6, AddType, NegType
<1>9. sig = [R |-> r, z |-> z]
  BY <1>1, <1>5
<1>10. SignatureVerifies <=> z = Add(r, Mul(y, c))
  <2>1. ~ SignatureToBytesPanics(sig) /\ SignatureToBytes(sig) = [r_x |-> r, s |-> z]
    BY <1>1, <1>9, Coordinates DEF SignatureToBytesPanics, SignatureToBytes
  <2>2. package.message \in Messages
    BY PackageFacts DEF Committed
  <2>3. Bip340VerifyBytes([r_x |-> r, s |-> z], package.message, XOnly(y))
           <=> z = Add(r, Mul(y, Hsig(y, r, package.message)))
    BY <1>1, <1>2, <1>8, <2>2, VerifyBytes
  <2> QED BY <1>1, <1>2, <2>1, <2>3 DEF SignatureVerifies
<1>11. Mul(y, c) = Mul(c, y)
  BY ScalarsCommute
<1>12. z = Add(r, Mul(c, y)) <=> a = b
  <2>1. Add(Add(r, a), d) = Add(r, Add(b, d)) <=> a = b
    BY QAssumption DEF Add, Scalar
  <2>2. Add(Add(r, Neg(a)), Neg(d)) = Add(r, Neg(Add(b, d))) <=> a = b
    BY QAssumption DEF Add, Neg, Scalar
  <2> QED BY <1>6, <1>7, <2>1, <2>2
<1> QED BY <1>1, <1>2, <1>3, <1>8, <1>9, <1>10, <1>11, <1>12

-----------------------------------------------------------------------------
(* The invariance.                                                         *)

\* The packages of the dealer are records, in which TweakKeys replaces a field.
LEMMA DealtRecords ==
  ASSUME KeysDealt
  PROVE  /\ \E vk, partial : keys.pubkeys = [verifying_key |-> vk,
                                             partial_verification_keys |-> partial]
         /\ \A i \in Identifier : \E y, omega, k :
               keys.shares[i] = [identifier |-> i, signing_share |-> y,
                                 signing_share_blinding |-> omega, pairwise_keys |-> k]
<1>1. PICK dealing \in Dealings :
         keys = GenerateWithDealer(dealing.secret_key, dealing.random)
  BY DEF KeysDealt
<1>2. \E vk, partial : keys.pubkeys = [verifying_key |-> vk,
                                       partial_verification_keys |-> partial]
  BY <1>1 DEF GenerateWithDealer
<1>3. PICK f : keys.shares = [i \in Identifier |-> KeyPackage(i, f[i], dealing.random)]
  <2> DEFINE key    == NormalizeKeygen(dealing.secret_key, dealing.secret_key)
             coeffs == [n \in 1..NumCoeffs |->
                           IF n = 1 THEN key.sk ELSE dealing.random.coeffs[n]]
             g      == [i \in Identifier |-> Evaluate(coeffs, i)]
  <2>1. keys.shares = [i \in Identifier |-> KeyPackage(i, Evaluate(coeffs, i), dealing.random)]
    BY <1>1 DEF GenerateWithDealer
  <2>2. \A i \in Identifier : g[i] = Evaluate(coeffs, i)
    OBVIOUS
  <2> HIDE DEF g, coeffs
  <2>3. keys.shares = [i \in Identifier |-> KeyPackage(i, g[i], dealing.random)]
    BY <2>1, <2>2
  <2> QED BY <2>3
<1>4. ASSUME NEW i \in Identifier
      PROVE  \E y, omega, k :
                keys.shares[i] = [identifier |-> i, signing_share |-> y,
                                  signing_share_blinding |-> omega, pairwise_keys |-> k]
  <2>1. PICK k : k = [j \in Identifier \ {i} |-> PairKey(dealing.random, i, j)]
    OBVIOUS
  <2>2. keys.shares[i] = [identifier |-> i, signing_share |-> f[i],
                          signing_share_blinding |-> dealing.random.omega[i],
                          pairwise_keys |-> k]
    BY <1>3, <2>1 DEF KeyPackage
  <2> QED BY <2>2
<1> QED BY <1>2, <1>4

\* How `sign` ends for a signer of the demo: it panics for the identity alone.
LEMMA SignsOrPanics ==
  ASSUME KeysDealt, tweak \in Scalar, Tweaked, Committed, NEW i \in signer_ids
  PROVE  SignResult(package, nonces[i], signing_keys.shares[i], signing_keys.pubkeys)
            = IF AggregateNonce(package, signing_keys.pubkeys) = 0 THEN "Panic" ELSE "Ok"
<1>1. i \in Identifier /\ signer_ids \subseteq Identifier
  BY TaprootAssumption, MaxSignersAssumption DEF signer_ids, Identifier
<1>2. /\ signing_keys.shares[i].identifier = i
      /\ signing_keys.pubkeys.verifying_key # 0
  BY <1>1, TweakedKey DEF Tweaked
<1>3. DOMAIN signing_keys.shares[i].pairwise_keys = Identifier \ {i}
  <2>1. DOMAIN keys.shares[i].pairwise_keys = Identifier \ {i}
    BY <1>1, DealtEven DEF Dealt
  <2> QED BY <1>1, <2>1 DEF Tweaked
<1>4. Ids(package) = signer_ids /\ package.signing_commitments[i] = Commitment(nonces[i])
  BY DEF Committed
<1> QED BY <1>1, <1>2, <1>3, <1>4, TaprootAssumption DEF SignResult, ChallengePanics

\* Before anything is computed, the keys are as dealt.
LEMMA SpendInit == Init => SpendInv
<1> SUFFICES ASSUME Init PROVE SpendInv
  OBVIOUS
<1>1. KeysDealt /\ tweak \in Scalar
  BY DEF Init, KeysDealt
<1>2. Preparing
  BY DEF Init, Preparing, NothingTweaked, NothingSigned
<1> QED BY <1>1, <1>2 DEF SpendInv

\* Prepare goes on only with an internal and an output key that are points.
LEMMA PrepareKeeps ==
  ASSUME SpendInv, Prepare PROVE SpendInv'
<1>1. phase = "start" /\ Preparing /\ UNCHANGED <<setup, signing_keys, tweak_eff, nonces, package, shares, sig>>
  BY DEF Prepare, SpendInv, Committing, Signing, Concluding
<1>2. q_raw' = q_raw /\ KeysDealt' /\ tweak' \in Scalar
  BY <1>1 DEF q_raw, setup, KeysDealt, SpendInv
<1>3. /\ phase' \in {"prepared", "failed", "panicked"}
      /\ phase' = "prepared" => q_raw # 0
      /\ phase' = "panicked" => keys.pubkeys.verifying_key = 0 \/ q_raw = 0
  BY DEF Prepare
<1>4. Preparing'
  BY <1>1, <1>2, <1>3 DEF Preparing, NothingTweaked, NothingSigned, setup
<1> QED BY <1>2, <1>4 DEF SpendInv

\* The negation changes the shares alone, and the tweaked key is of even y.
LEMMA TweakKeysKeeps ==
  ASSUME SpendInv, TweakKeys PROVE SpendInv'
<1>1. /\ phase = "prepared" /\ Preparing
      /\ UNCHANGED <<setup, nonces, package, shares, sig>>
  BY DEF TweakKeys, SpendInv, Committing, Signing, Concluding
<1>2. q_raw' = q_raw /\ KeysDealt' /\ tweak' \in Scalar /\ KeysDealt
  BY <1>1 DEF q_raw, setup, KeysDealt, SpendInv
<1>3. ASSUME NEW i \in Identifier
      PROVE  LET dealt   == keys.shares[i]
                 tweaked == signing_keys'.shares[i]
             IN  /\ tweaked.identifier = i
                 /\ tweaked.signing_share = IF HasOddY(q_raw) THEN Neg(dealt.signing_share)
                                                              ELSE dealt.signing_share
                 /\ tweaked.signing_share_blinding = dealt.signing_share_blinding
                 /\ tweaked.pairwise_keys = dealt.pairwise_keys
  <2>1. PICK y, omega, k :
           keys.shares[i] = [identifier |-> i, signing_share |-> y,
                             signing_share_blinding |-> omega, pairwise_keys |-> k]
    BY <1>2, DealtRecords
  <2>2. signing_keys'.shares[i]
           = [keys.shares[i] EXCEPT !.signing_share =
                 IF HasOddY(q_raw) THEN Neg(@) ELSE @]
    BY DEF TweakKeys
  <2> QED BY <2>1, <2>2
<1>4. /\ DOMAIN signing_keys'.shares = Identifier
      /\ signing_keys'.pubkeys.verifying_key = XOnly(q_raw)
      /\ signing_keys'.pubkeys.partial_verification_keys
            = keys.pubkeys.partial_verification_keys
  <2>1. PICK vk, partial : keys.pubkeys = [verifying_key |-> vk,
                                           partial_verification_keys |-> partial]
    BY <1>2, DealtRecords
  <2>2. signing_keys'.pubkeys = [keys.pubkeys EXCEPT !.verifying_key = XOnly(q_raw)]
        /\ DOMAIN signing_keys'.shares = Identifier
    BY DEF TweakKeys
  <2> QED BY <2>1, <2>2
<1>5. Tweaked'
  <2>1. keys' = keys /\ tweak' = tweak /\ q_raw # 0
    BY <1>1 DEF setup, Preparing
  <2>2. tweak_eff' = IF HasOddY(q_raw) THEN Neg(tweak) ELSE tweak
    BY DEF TweakKeys
  <2> QED BY <1>2, <1>3, <1>4, <2>1, <2>2 DEF Tweaked
<1>6. Committing'
  BY <1>1, <1>5 DEF Committing, Preparing, NothingSigned, TweakKeys
<1> QED BY <1>2, <1>6 DEF SpendInv

\* The package has the commitments to the nonces the signers keep.
LEMMA CommitNoncesKeeps ==
  ASSUME SpendInv, CommitNonces PROVE SpendInv'
<1>1. /\ Committing
      /\ UNCHANGED <<setup, signing_keys, tweak_eff, shares, sig>>
  BY SMTT(20) DEF CommitNonces, SpendInv, Preparing, Signing, Concluding
<1>2. KeysDealt' /\ tweak' \in Scalar /\ Tweaked'
  BY <1>1 DEF q_raw, setup, KeysDealt, SpendInv, Committing, Tweaked
<1>3. PICK message \in Messages :
         package' = [message |-> message,
                     signing_commitments |->
                        [i \in signer_ids |-> Commitment(nonces'[i])]]
  BY DEF CommitNonces
<1>4. nonces' \in [signer_ids -> [d : Scalar, e : Scalar]]
  BY TaprootAssumption DEF CommitNonces
<1>5. signer_ids \in SUBSET Identifier
  BY TaprootAssumption, MaxSignersAssumption DEF signer_ids, Identifier
<1>6. \A i \in signer_ids : Commitment(nonces'[i]) \in SigningCommitments
  BY <1>4 DEF Commitment, SigningCommitments
<1>7. Committed'
  <2>1. package'.signing_commitments \in [signer_ids -> SigningCommitments]
    BY <1>3, <1>6
  <2>2. package' \in SigningPackages
    BY <1>3, <1>5, <2>1 DEF SigningPackages
  <2> QED BY <1>3, <1>4, <2>2 DEF Committed, Ids
<1>8. SharesSigned' /\ sig' = EmptyMap
  BY <1>1 DEF SharesSigned, Committing, NothingSigned, EmptyMap
<1>9. Signing'
  BY <1>2, <1>7, <1>8 DEF Signing, CommitNonces
<1> QED BY <1>2, <1>9 DEF SpendInv

\* `sign` returns a share, or panics for an aggregate nonce that is the
\* identity; it never fails.
LEMMA SignShareKeeps ==
  ASSUME SpendInv, NEW i \in signer_ids, SignShare(i) PROVE SpendInv'
<1>1. PICK result : result = SignResult(package, nonces[i], signing_keys.shares[i],
                                        signing_keys.pubkeys)
  OBVIOUS
<1>2. /\ phase = "sign" /\ i \notin DOMAIN shares
      /\ Signing
      /\ UNCHANGED <<setup, signing_keys, tweak_eff, nonces, package, sig>>
  BY DEF SignShare, SpendInv, Preparing, Committing, Concluding
<1>3. /\ KeysDealt /\ tweak \in Scalar /\ Tweaked /\ Committed /\ SharesSigned
      /\ sig = EmptyMap
  BY <1>2 DEF SpendInv, Signing
<1>4. KeysDealt' /\ tweak' \in Scalar /\ Tweaked' /\ Committed'
  BY <1>2, <1>3 DEF setup, KeysDealt, Tweaked, q_raw, Committed
<1>5. result = IF AggregateNonce(package, signing_keys.pubkeys) = 0 THEN "Panic" ELSE "Ok"
  BY <1>1, <1>3, SignsOrPanics
<1>6. CASE result = "Ok"
  <2>1. /\ phase' = phase
        /\ shares' = Insert(shares, i, Sign(package, nonces[i], signing_keys.shares[i],
                                            signing_keys.pubkeys))
    BY <1>1, <1>6 DEF SignShare
  <2>2. AggregateNonce(package, signing_keys.pubkeys) # 0
    BY <1>5, <1>6
  <2>3. SharesSigned'
    BY <1>2, <1>3, <2>1, <2>2 DEF SharesSigned, Insert
  <2>4. Signing'
    BY <1>2, <1>3, <1>4, <2>1, <2>3 DEF Signing
  <2> QED BY <1>4, <2>4 DEF SpendInv
<1>7. CASE result = "Panic"
  <2>1. phase' = "panicked" /\ shares' = shares
    BY <1>1, <1>7 DEF SignShare
  <2>2. AggregateNonce(package, signing_keys.pubkeys) = 0
    BY <1>5, <1>7
  <2>3. SharesSigned'
    BY <1>2, <1>3, <2>1 DEF SharesSigned
  <2>4. Signing'
    BY <1>2, <1>3, <1>4, <2>1, <2>2, <2>3 DEF Signing
  <2> QED BY <1>4, <2>4 DEF SpendInv
<1> QED BY <1>5, <1>6, <1>7

\* aggregate takes the two shares; the signature is the one FinishedSignature
\* computes.
LEMMA FinishKeeps ==
  ASSUME SpendInv, Finish PROVE SpendInv'
<1>1. /\ phase = "sign" /\ Signing
      /\ DOMAIN shares = signer_ids
      /\ UNCHANGED <<setup, signing_keys, tweak_eff, nonces, package, shares>>
  BY DEF Finish, SpendInv, Preparing, Committing, Concluding
<1>2. /\ KeysDealt /\ tweak \in Scalar /\ Tweaked /\ Committed /\ SharesSigned
  BY <1>1 DEF SpendInv, Signing
<1>3. /\ KeysDealt' /\ tweak' \in Scalar /\ Tweaked' /\ Committed' /\ SharesSigned'
  BY <1>1, <1>2 DEF setup, KeysDealt, Tweaked, q_raw, Committed, SharesSigned
<1>4. phase' = "check"
  BY <1>1, <1>2, FinishedFacts DEF Finish
<1>5. sig' = FinishedSignature'
  <2>1. sig' = FinishedSignature
    BY DEF Finish, FinishedSignature
  <2>2. FinishedSignature' = FinishedSignature
    BY <1>1 DEF FinishedSignature
  <2> QED BY <2>1, <2>2
<1>6. Concluding'
  BY <1>1, <1>3, <1>4, <1>5 DEF Concluding
<1> QED BY <1>3, <1>6 DEF SpendInv

\* The transaction is printed exactly if the assertion holds.
LEMMA PrintTransactionKeeps ==
  ASSUME SpendInv, PrintTransaction PROVE SpendInv'
<1>1. /\ phase = "check" /\ Concluding /\ KeysDealt /\ tweak \in Scalar
      /\ UNCHANGED <<setup, signing_keys, tweak_eff, nonces, package, shares, sig>>
  BY DEF PrintTransaction, SpendInv, Preparing, Committing, Signing
<1>2. /\ KeysDealt' /\ tweak' \in Scalar /\ Tweaked' /\ Committed' /\ SharesSigned'
      /\ (DOMAIN shares = signer_ids)' /\ (sig = FinishedSignature)'
      /\ SignatureVerifies' = SignatureVerifies
  BY <1>1 DEF setup, KeysDealt, Tweaked, q_raw, Committed, SharesSigned, Concluding,
              FinishedSignature, SignatureVerifies
<1>3. /\ phase' \in {"printed", "panicked"}
      /\ phase' = "printed" => SignatureVerifies
      /\ phase' = "panicked" => ~ SignatureVerifies
  BY DEF PrintTransaction, SignatureVerifies
<1>4. Concluding'
  BY <1>2, <1>3 DEF Concluding
<1> QED BY <1>2, <1>4 DEF SpendInv

\* When main has ended nothing changes.
LEMMA UnchangedKeeps ==
  ASSUME SpendInv, UNCHANGED vars PROVE SpendInv'
<1> USE DEF vars, setup, q_raw, Tweaked
<1>1. KeysDealt' /\ tweak' \in Scalar /\ (Tweaked => Tweaked')
  BY DEF KeysDealt, SpendInv
<1>2. CASE Preparing
  BY <1>1, <1>2 DEF SpendInv, Preparing, NothingTweaked, NothingSigned
<1>3. CASE Committing
  BY <1>1, <1>3 DEF SpendInv, Committing, NothingSigned
<1>4. CASE Signing
  BY <1>1, <1>4 DEF SpendInv, Signing, Committed, SharesSigned
<1>5. CASE Concluding
  BY <1>1, <1>5 DEF SpendInv, Concluding, Committed, SharesSigned, FinishedSignature,
                    SignatureVerifies
<1> QED BY <1>2, <1>3, <1>4, <1>5 DEF SpendInv

\* The invariant holds in every state of the demo.
THEOREM Invariance == Spec => []SpendInv
<1>1. SpendInv /\ [Next]_vars => SpendInv'
  BY PrepareKeeps, TweakKeysKeeps, CommitNoncesKeeps, SignShareKeeps, FinishKeeps,
     PrintTransactionKeeps, UnchangedKeeps DEF Next, Terminated
<1> QED BY <1>1, SpendInit, PTL DEF Spec

-----------------------------------------------------------------------------
(* The theorems.                                                           *)

\* Every variable has its type: in particular the negated shares and the
\* coordinator's share are scalars.
THEOREM TypeCorrect == Spec => []TypeOK
<1>1. SpendInv => TypeOK
  <2> SUFFICES ASSUME SpendInv PROVE TypeOK
    OBVIOUS
  <2>1. KeysDealt /\ tweak \in Scalar /\ Dealt(keys)
    BY DealtEven DEF SpendInv
  <2>2. CASE Preparing
    <3>1. /\ tweak_eff \in Scalar /\ signing_keys.pubkeys.verifying_key \in Scalar
          /\ \A i \in Identifier : signing_keys.shares[i].signing_share \in Scalar
      BY <2>1, <2>2, ScalarFacts DEF Preparing, NothingTweaked, Dealt
    <3> QED BY <2>1, <2>2, <3>1 DEF Preparing, NothingSigned, EmptyMap, TypeOK
  <2>3. ASSUME Tweaked
        PROVE  /\ tweak_eff \in Scalar /\ signing_keys.pubkeys.verifying_key \in Scalar
               /\ \A i \in Identifier : signing_keys.shares[i].signing_share \in Scalar
    <3>1. \A i \in Identifier : keys.shares[i].signing_share \in Scalar
      BY <2>1 DEF Dealt
    <3> QED BY <2>1, <2>3, <3>1, TweakedKey, NegType DEF Tweaked
  <2>4. CASE Committing
    BY <2>1, <2>3, <2>4 DEF Committing, NothingSigned, EmptyMap, TypeOK
  <2>5. ASSUME Tweaked, Committed, SharesSigned, NEW i \in DOMAIN shares
        PROVE  shares[i] \in SignatureShares
    <3>1. /\ i \in Ids(package) /\ package \in SigningPackages /\ Dealt(Recommitted)
          /\ nonces[i] \in [d : Scalar, e : Scalar]
          /\ signing_keys.pubkeys.verifying_key \in Scalar
          /\ signing_keys.shares[i] = Recommitted.shares[i]
      BY <2>1, <2>5, RecommittedDealt, TweakedKey DEF Committed, SharesSigned, Recommitted
    <3>2. HasKeysFor(signing_keys.shares[i], package)
      BY <3>1, DealtHasKeysFor
    <3> QED BY <2>5, <3>1, <3>2, SignType DEF SharesSigned
  <2>6. CASE Signing
    BY <2>1, <2>3, <2>5, <2>6 DEF Signing, Committed, SharesSigned, TypeOK
  <2>7. CASE Concluding
    <3>1. sig \in [R : Scalar, z : Scalar]
      BY <2>1, <2>7, AssertionHolds DEF Concluding
    <3> QED BY <2>1, <2>3, <2>5, <2>7, <3>1 DEF Concluding, Committed, SharesSigned, TypeOK
  <2> QED BY <2>2, <2>4, <2>6, <2>7 DEF SpendInv
<1> QED BY <1>1, Invariance, PTL

\* A transaction that is printed spends the output of the address: the internal
\* key is of even y, so that its x coordinate loses nothing the tweak needs.
THEOREM PrintsSpendable == Spec => []PrintedSpendsAddress
<1>1. SpendInv => PrintedSpendsAddress
  <2> SUFFICES ASSUME SpendInv, phase = "printed"
               PROVE  Bip340VerifyBytes(SignatureToBytes(sig), package.message,
                                        OutputKey(XOnly(keys.pubkeys.verifying_key), tweak))
    BY DEF PrintedSpendsAddress
  <2>1. /\ KeysDealt /\ tweak \in Scalar /\ Tweaked /\ SignatureVerifies
    BY DEF SpendInv, Preparing, Committing, Signing, Concluding
  <2>2. XOnly(keys.pubkeys.verifying_key) = keys.pubkeys.verifying_key
    BY <2>1, DealtEven, Coordinates DEF Dealt
  <2>3. XOnly(signing_keys.pubkeys.verifying_key)
           = OutputKey(XOnly(keys.pubkeys.verifying_key), tweak)
    BY <2>1, <2>2, TweakedKey DEF OutputKey, q_raw
  <2> QED BY <2>1, <2>3 DEF SignatureVerifies
<1> QED BY <1>1, Invariance, PTL

\* For a key two signers may use, the assertion never fires, whatever the key,
\* the tweak, the nonces and the message; for one they may not, it always does,
\* unless a challenge is zero.
THEOREM TwoSignersSuffice ==
  ASSUME NoZeroChallenge
  PROVE  Spec => []TwoSignersSpend
<1>1. SpendInv => TwoSignersSpend
  <2> SUFFICES ASSUME SpendInv PROVE TwoSignersSpend
    OBVIOUS
  <2>1. CASE Preparing
    BY <2>1 DEF Preparing, NothingSigned, TwoSignersSpend
  <2>2. CASE Committing
    BY <2>2 DEF Committing, TwoSignersSpend
  <2>3. CASE Signing
    <3>1. package # EmptyMap
      BY <2>3 DEF Signing, Committed, Ids, EmptyMap, SigningPackages
    <3> QED BY <2>3, <3>1 DEF Signing, TwoSignersSpend
  <2>4. CASE Concluding
    <3>1. KeysDealt /\ tweak \in Scalar /\ Tweaked /\ Committed /\ SharesSigned
          /\ DOMAIN shares = signer_ids /\ sig = FinishedSignature
      BY <2>4 DEF SpendInv, Concluding
    <3>2. PICK c \in Scalar \ {0}, K \in Scalar, vk \in Scalar :
             /\ c = SigChallenge(package, signing_keys.pubkeys)
             /\ K = KeySum(package, keys)
             /\ vk = keys.pubkeys.verifying_key
      BY <3>1, ChallengeNonzero, TweakedKey, TweakedSum, DealtEven DEF Dealt, Committed
    <3>3. TwoDetermineKey <=> K = vk
      BY <3>1, <3>2 DEF TwoDetermineKey, KeySum, Committed
    <3>4. SignatureVerifies <=> Mul(c, K) = Mul(c, vk)
      BY <3>1, <3>2, AssertionHolds
    <3>5. SignatureVerifies <=> K = vk
      BY <3>4, MulCancel
    <3> QED BY <2>4, <3>3, <3>5 DEF Concluding, TwoSignersSpend
  <2> QED BY <2>1, <2>2, <2>3, <2>4 DEF SpendInv
<1> QED BY <1>1, Invariance, PTL

\* bip340_verify_bytes is verify on the 64 bytes, for every key the demo signs
\* with, every number for s and every coordinate.
THEOREM BytesVerifyAsSignatures == Spec => []VerifiersAgree
<1>1. SpendInv => VerifiersAgree
  <2> SUFFICES ASSUME SpendInv, NEW vk, vk = signing_keys.pubkeys.verifying_key, vk # 0,
                      NEW r_x \in XCoordinates \cup {Q}, NEW s \in 0..(2 * Q - 1),
                      NEW m \in Messages
               PROVE  Bip340VerifyBytes([r_x |-> r_x, s |-> s], m, XOnly(vk)) <=>
                         \E signature \in [R : Scalar \ {0}, z : Scalar] :
                            /\ Verify(signature, m, signing_keys.pubkeys)
                            /\ SignatureToBytes(signature) = [r_x |-> r_x, s |-> s]
    BY DEF VerifiersAgree
  <2>1. vk \in Scalar \ {0} /\ ~ HasOddY(vk)
    <3>1. CASE Preparing
      BY <3>1, DealtEven DEF SpendInv, Preparing, NothingTweaked, Dealt
    <3>2. CASE Tweaked
      BY <3>2, TweakedKey DEF SpendInv
    <3> QED BY <3>1, <3>2 DEF SpendInv, Committing, Signing, Concluding
  <2>2. r_x \in Scalar \cup {Q}
    BY Coordinates DEF XCoordinates
  <2>3. Bip340VerifyBytes([r_x |-> r_x, s |-> s], m, XOnly(vk))
           <=> /\ s \in Scalar /\ r_x \in Scalar \ {0} /\ ~ HasOddY(r_x)
               /\ s = Add(r_x, Mul(vk, Hsig(vk, r_x, m)))
    BY <2>1, <2>2, VerifyBytes
  <2>4. ASSUME s \in Scalar, r_x \in Scalar \ {0}, ~ HasOddY(r_x),
               s = Add(r_x, Mul(vk, Hsig(vk, r_x, m)))
        PROVE  \E signature \in [R : Scalar \ {0}, z : Scalar] :
                  /\ Verify(signature, m, signing_keys.pubkeys)
                  /\ SignatureToBytes(signature) = [r_x |-> r_x, s |-> s]
    <3>1. [R |-> r_x, z |-> s] \in [R : Scalar \ {0}, z : Scalar]
      BY <2>4
    <3>2. Verify([R |-> r_x, z |-> s], m, signing_keys.pubkeys)
      BY <2>1, <2>4, VerifyEven
    <3>3. SignatureToBytes([R |-> r_x, z |-> s]) = [r_x |-> r_x, s |-> s]
      BY <2>4, Coordinates DEF SignatureToBytes
    <3> QED BY <3>1, <3>2, <3>3
  <2>5. ASSUME NEW signature \in [R : Scalar \ {0}, z : Scalar],
               Verify(signature, m, signing_keys.pubkeys),
               SignatureToBytes(signature) = [r_x |-> r_x, s |-> s]
        PROVE  /\ s \in Scalar /\ r_x \in Scalar \ {0} /\ ~ HasOddY(r_x)
               /\ s = Add(r_x, Mul(vk, Hsig(vk, r_x, m)))
    <3>1. PICK R \in Scalar \ {0}, z \in Scalar : signature = [R |-> R, z |-> z]
      OBVIOUS
    <3>2. ~ HasOddY(R) /\ z = Add(R, Mul(vk, Hsig(vk, R, m)))
      BY <2>1, <2>5, <3>1, VerifyEven
    <3>3. r_x = R /\ s = z
      BY <2>5, <3>1, <3>2, Coordinates DEF SignatureToBytes
    <3> QED BY <3>2, <3>3
  <2> QED BY <2>3, <2>4, <2>5
<1> QED BY <1>1, Invariance, PTL

-----------------------------------------------------------------------------
(* The identifiable abort.                                                 *)

\* ia1's message, and what its verifier computes, under two public key packages
\* of the same group key.
LEMMA IA1OfKey ==
  ASSUME NEW p, NEW s, NEW kp, NEW all, NEW a, NEW b, a.verifying_key = b.verifying_key
  PROVE  /\ IA1Message(p, s, kp, a, all) = IA1Message(p, s, kp, b, all)
         /\ SharePart(p, s, a) = SharePart(p, s, b)
         /\ \A comm : ProofTranscript(p, s, a, comm) = ProofTranscript(p, s, b, comm)
<1>1. /\ NonceChallenge(p, a) = NonceChallenge(p, b)
      /\ AggregateNonce(p, a) = AggregateNonce(p, b)
      /\ SigChallenge(p, a) = SigChallenge(p, b)
  BY ChallengesOfKey
<1>2. \A comm : ProofTranscript(p, s, a, comm) = ProofTranscript(p, s, b, comm)
  BY <1>1 DEF ProofTranscript
<1>3. SharePart(p, s, a) = SharePart(p, s, b)
  BY <1>1 DEF SharePart
<1>4. \A comm : ProveWellformed(p, s, kp, a, all, comm) = ProveWellformed(p, s, kp, b, all, comm)
  BY <1>2 DEF ProveWellformed
<1> QED BY <1>2, <1>3, <1>4 DEF IA1Message

\* What the two signers would send each other.
Messages1 ==
  [i \in signer_ids |-> IA1Message(package, shares[i], signing_keys.shares[i],
                                   signing_keys.pubkeys, shares)]

Decisions == [i \in signer_ids |-> IA2Decision(package, Messages1, signing_keys.shares[i])]

\* Both have run sign, ia1 and ia2 on the recommitted keys.
LEMMA RanRounds ==
  ASSUME KeysDealt, tweak \in Scalar, Tweaked, Committed, SharesSigned,
         DOMAIN shares = signer_ids, NEW i \in signer_ids
  PROVE  /\ RanSign(package, Recommitted, nonces[i], shares, i)
         /\ RanIA1(package, Recommitted, shares, Messages1, i)
         /\ ~ IA2Fails(package, Messages1, i)
         /\ Decisions[i] = IA2Decision(package, Messages1, Recommitted.shares[i])
<1>1. /\ Recommitted.shares = signing_keys.shares
      /\ Recommitted.pubkeys.verifying_key = signing_keys.pubkeys.verifying_key
  BY DEF Recommitted
<1>2. ASSUME NEW j \in signer_ids
      PROVE  /\ RanSign(package, Recommitted, nonces[j], shares, j)
             /\ RanIA1(package, Recommitted, shares, Messages1, j)
  <2>1. RanSign(package, Recommitted, nonces[j], shares, j)
    BY <1>1, SignOfKey DEF RanSign, Committed, SharesSigned
  <2>2. /\ j \in DOMAIN Messages1
        /\ Messages1[j] = IA1Message(package, shares[j], signing_keys.shares[j],
                                     signing_keys.pubkeys, shares)
    BY DEF Messages1
  <2>3. Messages1[j] = IA1Message(package, shares[j], Recommitted.shares[j],
                                  Recommitted.pubkeys, shares)
    BY <1>1, <2>2, IA1OfKey
  <2> QED BY <2>1, <2>2, <2>3 DEF RanIA1
<1>3. ASSUME NEW j \in signer_ids, NEW k \in signer_ids \ {j}
      PROVE  HasCommitment(Messages1, j, k)
  BY <1>2, RecommittedDealt, CommitmentsOfIA1 DEF Committed
<1>4. ~ IA2Fails(package, Messages1, i)
  BY <1>3 DEF IA2Fails, Committed, Messages1
<1>5. Decisions[i] = IA2Decision(package, Messages1, Recommitted.shares[i])
  BY <1>1 DEF Decisions
<1> QED BY <1>2, <1>4, <1>5

\* decide names those whose share the tweak has changed: their proofs answer for
\* a share the dealer has not committed to, and nothing else is wrong.
LEMMA NamedOnes ==
  ASSUME KeysDealt, tweak \in Scalar, Tweaked, Committed, SharesSigned,
         DOMAIN shares = signer_ids
  PROVE  Named = {i \in signer_ids :
                     signing_keys.shares[i].signing_share # keys.shares[i].signing_share}
<1>1. PICK rk, pk, msgs, decs :
         /\ rk = Recommitted /\ pk = signing_keys.pubkeys
         /\ msgs = Messages1 /\ decs = Decisions
  OBVIOUS
<1>2. /\ package \in SigningPackages /\ Ids(package) = signer_ids
      /\ signer_ids \subseteq Identifier /\ Dealt(rk)
      /\ DOMAIN msgs = signer_ids /\ DOMAIN decs = signer_ids
  BY <1>1, RecommittedDealt, PackageFacts DEF Committed, Messages1, Decisions
<1>3. ASSUME NEW i \in signer_ids
      PROVE  /\ RanSign(package, rk, nonces[i], shares, i)
             /\ RanIA1(package, rk, shares, msgs, i)
             /\ ~ IA2Fails(package, msgs, i)
             /\ decs[i] = IA2Decision(package, msgs, rk.shares[i])
  BY <1>1, RanRounds
<1>4. ASSUME NEW i \in signer_ids
      PROVE  i \notin Decide(package, rk.pubkeys, shares, msgs, decs)
  BY <1>2, <1>3, NotNamedByDecide
<1>5. /\ pk.verifying_key = rk.pubkeys.verifying_key
      /\ DOMAIN pk.partial_verification_keys = Identifier
      /\ DOMAIN rk.pubkeys.partial_verification_keys = Identifier
      /\ \A i \in Identifier :
            /\ pk.partial_verification_keys[i].pairwise_key_commitments
                  = rk.pubkeys.partial_verification_keys[i].pairwise_key_commitments
            /\ rk.pubkeys.partial_verification_keys[i].signing_share_commitment
                  = PedersenCommit(signing_keys.shares[i].signing_share,
                                   signing_keys.shares[i].signing_share_blinding)
            /\ pk.partial_verification_keys[i].signing_share_commitment
                  = PedersenCommit(keys.shares[i].signing_share,
                                   keys.shares[i].signing_share_blinding)
  <2>1. /\ DOMAIN keys.pubkeys.partial_verification_keys = Identifier
        /\ \A i \in Identifier :
              keys.pubkeys.partial_verification_keys[i].signing_share_commitment
                 = PedersenCommit(keys.shares[i].signing_share,
                                  keys.shares[i].signing_share_blinding)
    BY DealtEven DEF Dealt
  <2> QED BY <1>1, <2>1 DEF Recommitted, Tweaked
<1>6. NamedByOpenings(package, pk, shares, msgs, decs) = {}
  <2>1. \A a, p, k : OpeningIsValid(pk, a, p, k) <=> OpeningIsValid(rk.pubkeys, a, p, k)
    BY <1>5 DEF OpeningIsValid
  <2>2. \A a, p, k : NamedByOpening(package, pk, shares, msgs, a, p, k)
                        = NamedByOpening(package, rk.pubkeys, shares, msgs, a, p, k)
    BY <2>1 DEF NamedByOpening
  <2>3. NamedByOpenings(package, pk, shares, msgs, decs)
           = NamedByOpenings(package, rk.pubkeys, shares, msgs, decs)
    BY <2>2 DEF NamedByOpenings
  <2>4. ASSUME NEW a \in signer_ids, NEW p \in DOMAIN decs[a].opened_pairwise_keys, NEW k
        PROVE  NamedByOpening(package, pk, shares, msgs, a, p, k) \subseteq signer_ids
    <3>1. \A kp : DOMAIN IA2Decision(package, msgs, kp).opened_pairwise_keys
                     \subseteq Ids(package)
      BY DEF IA2Decision
    <3>2. decs[a] = IA2Decision(package, msgs, rk.shares[a])
      BY <1>3
    <3>3. p \in signer_ids
      BY <1>2, <3>1, <3>2
    <3> QED BY <3>3 DEF NamedByOpening
  <2>5. NamedByOpenings(package, pk, shares, msgs, decs) \subseteq signer_ids
    BY <1>2, <2>4 DEF NamedByOpenings
  <2> QED BY <1>4, <2>3, <2>5 DEF Decide
<1>7. NamedByPairs(package, msgs, decs) = {}
  <2>1. \A x, y \in signer_ids : NamedByPair(msgs, decs, x, y) \subseteq signer_ids
    BY DEF NamedByPair
  <2>2. NamedByPairs(package, msgs, decs) \subseteq signer_ids
    BY <1>2, <2>1 DEF NamedByPairs
  <2> QED BY <1>4, <2>2 DEF Decide
<1>8. ASSUME NEW i \in signer_ids
      PROVE  VerifyWellformedProof(package, shares[i], msgs[i], pk)
                <=> signing_keys.shares[i].signing_share = keys.shares[i].signing_share
  <2>1. VerifyWellformedProof(package, shares[i], msgs[i], rk.pubkeys)
    BY <1>2, <1>3, HonestProofAccepted
  <2>2. shares[i].identifier = i /\ i \in Identifier
    BY <1>2, <2>1, <1>3, DealtHasKeysFor DEF RanSign, Sign
  <2>3. /\ SharePart(package, shares[i], pk) = SharePart(package, shares[i], rk.pubkeys)
        /\ \A comm : ProofTranscript(package, shares[i], pk, comm)
                        = ProofTranscript(package, shares[i], rk.pubkeys, comm)
        /\ SigChallenge(package, pk) = SigChallenge(package, rk.pubkeys)
    <3>1. pk.verifying_key = rk.pubkeys.verifying_key
      BY <1>5
    <3>2. PICK share, b : share = shares[i] /\ b = rk.pubkeys
      OBVIOUS
    <3>3. pk.verifying_key = b.verifying_key
      BY <3>1, <3>2
    <3>4. SigChallenge(package, pk) = SigChallenge(package, b)
      BY <3>3, ChallengesOfKey
    <3>5. /\ SharePart(package, share, pk) = SharePart(package, share, b)
          /\ \A comm : ProofTranscript(package, share, pk, comm)
                          = ProofTranscript(package, share, b, comm)
      BY ONLY <3>3, IA1OfKey
    <3> QED BY <3>2, <3>4, <3>5
  <2>4. VerifyWellformedProof(package, shares[i], msgs[i], pk)
           <=> PedersenCommit(msgs[i].proof.z_sk, msgs[i].proof.z_sk_blinding)
                  = pk.partial_verification_keys[i].signing_share_commitment
    BY <1>5, <2>1, <2>2, <2>3 DEF VerifyWellformedProof
  <2>5. PedersenCommit(msgs[i].proof.z_sk, msgs[i].proof.z_sk_blinding)
           = PedersenCommit(signing_keys.shares[i].signing_share,
                            signing_keys.shares[i].signing_share_blinding)
    BY <1>5, <2>1, <2>2 DEF VerifyWellformedProof
  <2>6. signing_keys.shares[i].signing_share_blinding = keys.shares[i].signing_share_blinding
    BY <2>2 DEF Tweaked
  <2>7. PICK y, x, omega :
           /\ y = keys.shares[i].signing_share /\ x = signing_keys.shares[i].signing_share
           /\ omega = keys.shares[i].signing_share_blinding
    OBVIOUS
  <2>8. VerifyWellformedProof(package, shares[i], msgs[i], pk)
           <=> PedersenCommit(x, omega) = PedersenCommit(y, omega)
    BY <1>5, <2>2, <2>4, <2>5, <2>6, <2>7
  <2>9. PedersenCommit(x, omega) = PedersenCommit(y, omega) <=> x = y
    BY DEF PedersenCommit
  <2> QED BY <2>7, <2>8, <2>9
<1>9. NamedByProof(package, pk, shares, msgs)
         = {i \in signer_ids :
               signing_keys.shares[i].signing_share # keys.shares[i].signing_share}
  BY <1>2, <1>8 DEF NamedByProof
<1>10. Named = Decide(package, pk, shares, msgs, decs)
  BY <1>1 DEF Named, Messages1, Decisions
<1> QED BY <1>6, <1>7, <1>9, <1>10 DEF Decide

\* Tweaking to a key of odd y makes decide name both signers of the demo (but
\* for a share of zero), although both have followed the code; otherwise it
\* names nobody.
THEOREM NegationNames == Spec => []NegationNamesSigners
<1>1. SpendInv => NegationNamesSigners
  <2> SUFFICES ASSUME SpendInv, phase = "check"
               PROVE  Named = IF HasOddY(q_raw)
                              THEN {i \in signer_ids : keys.shares[i].signing_share # 0} ELSE {}
    BY DEF NegationNamesSigners
  <2>1. KeysDealt /\ tweak \in Scalar /\ Tweaked /\ Committed /\ SharesSigned
        /\ DOMAIN shares = signer_ids
    BY DEF SpendInv, Preparing, Committing, Signing, Concluding
  <2>2. ASSUME NEW i \in signer_ids
        PROVE  /\ keys.shares[i].signing_share \in Scalar
               /\ signing_keys.shares[i].signing_share
                     = IF HasOddY(q_raw) THEN Neg(keys.shares[i].signing_share)
                                         ELSE keys.shares[i].signing_share
    <3>1. i \in Identifier
      BY TaprootAssumption, MaxSignersAssumption DEF signer_ids, Identifier
    <3> QED BY <2>1, <3>1, DealtEven DEF Dealt, Tweaked
  <2>3. \A a \in Scalar : Neg(a) # a <=> a # 0
    BY QAssumption, OddOrder DEF Neg, Scalar
  <2> QED BY <2>1, <2>2, <2>3, NamedOnes
<1> QED BY <1>1, Invariance, PTL

-----------------------------------------------------------------------------
(* A key dealt again: the session, and what the deals have in common.      *)

\* The package of the session is one, and its signers are those of the session.
LEMMA SessionPackage ==
  /\ session \in SigningPackages
  /\ Ids(session) = Signers /\ session.message = Message
  /\ \A i \in Signers : session.signing_commitments[i] = Commitment(SignerNonces[i])
<1> DEFINE comm == [i \in Signers |-> Commitment(SignerNonces[i])]
<1>1. Signers \in SUBSET Identifier /\ Message \in Messages
  BY SessionAssumption
<1>2. \A i \in Signers : comm[i] \in SigningCommitments
  BY SessionAssumption DEF Commitment, SigningCommitments
<1>3. comm \in [Signers -> SigningCommitments]
  BY <1>2
<1>4. session = [message |-> Message, signing_commitments |-> comm]
  BY DEF session
<1> HIDE DEF comm
<1>5. session \in SigningPackages
  BY <1>1, <1>3, <1>4 DEF SigningPackages
<1>6. Ids(session) = Signers
  BY <1>3, <1>4 DEF Ids
<1> QED BY <1>4, <1>5, <1>6 DEF comm

\* Whatever is drawn, the packages are dealt ones, and the verifying key is the
\* one of the stored secret.
LEMMA DealFacts ==
  ASSUME NEW n \in Deals
  PROVE  /\ Dealt(Keys(n))
         /\ Keys(n).pubkeys.verifying_key = NormalizeKeygen(SecretKey, SecretKey).vk
         /\ Keys(n).pubkeys.verifying_key \in Scalar
<1>1. SecretKey \in Scalar /\ Random[n] \in Randomness
  BY SessionAssumption
<1>2. Dealt(Keys(n))
  BY <1>1, DealtKeys DEF Keys
<1>3. Keys(n).pubkeys.verifying_key = NormalizeKeygen(SecretKey, SecretKey).vk
  BY DEF Keys, GenerateWithDealer
<1> QED BY <1>2, <1>3 DEF Dealt

\* So the public keys of all deals give the same challenges, and the same verdict
\* on a signature.
LEMMA SameVerifyingKey ==
  ASSUME NEW m \in Deals, NEW n \in Deals
  PROVE  /\ NonceChallenge(session, Keys(m).pubkeys) = NonceChallenge(session, Keys(n).pubkeys)
         /\ AggregateNonce(session, Keys(m).pubkeys) = AggregateNonce(session, Keys(n).pubkeys)
         /\ SigChallenge(session, Keys(m).pubkeys) = SigChallenge(session, Keys(n).pubkeys)
         /\ \A signature : Verify(signature, Message, Keys(m).pubkeys)
                              <=> Verify(signature, Message, Keys(n).pubkeys)
<1>1. Keys(m).pubkeys.verifying_key = Keys(n).pubkeys.verifying_key
  BY DealFacts
<1>2. NonceChallenge(session, Keys(m).pubkeys) = NonceChallenge(session, Keys(n).pubkeys)
  BY <1>1 DEF NonceChallenge
<1>3. AggregateNonce(session, Keys(m).pubkeys) = AggregateNonce(session, Keys(n).pubkeys)
  BY <1>2 DEF AggregateNonce
<1>4. SigChallenge(session, Keys(m).pubkeys) = SigChallenge(session, Keys(n).pubkeys)
  BY <1>1, <1>3 DEF SigChallenge
<1>5. \A signature : Verify(signature, Message, Keys(m).pubkeys)
                        <=> Verify(signature, Message, Keys(n).pubkeys)
  BY <1>1 DEF Verify
<1> QED BY <1>2, <1>3, <1>4, <1>5

\* The share of signer i with its packages of deal n.
SignedWith(n, i) == Sign(session, SignerNonces[i], Keys(n).shares[i], Keys(n).pubkeys)

\* ... has the same nonce whichever the deal.
LEMMA ShareOfDeal ==
  ASSUME NEW n \in Deals, NEW i \in Signers
  PROVE  /\ HasKeysFor(Keys(n).shares[i], session) /\ Keys(n).shares[i].identifier = i
         /\ SignedWith(n, i) \in SignatureShares
         /\ SignedWith(n, i).identifier = i
         /\ SignedWith(n, i).R = NormalizeShareR(AggregateNonce(session, Keys(1).pubkeys), 0).R
         /\ SignedWith(n, i).z = ShareOf(n, i)
         /\ ShareOf(n, i) = Add(Add(KeyTerm(session, Keys(n).shares[i], Keys(n).pubkeys),
                                    BlindingScalar(session, Keys(n).shares[i])),
                                NonceShare(session, Keys(n).pubkeys, i))
<1>1. HasKeysFor(Keys(n).shares[i], session) /\ Keys(n).shares[i].identifier = i
  BY DealFacts, SessionPackage, DealtHasKeysFor
<1>2. SignerNonces[i] \in [d : Scalar, e : Scalar]
  BY SessionAssumption
<1>3. SignedWith(n, i) \in SignatureShares
  BY <1>1, <1>2, DealFacts, SessionPackage, SignType DEF SignedWith
<1>4. SignedWith(n, i).identifier = i
  BY <1>1 DEF SignedWith, Sign
<1>5. AggregateNonce(session, Keys(n).pubkeys) = AggregateNonce(session, Keys(1).pubkeys)
  BY SameVerifyingKey, SessionAssumption
<1>6. SignedWith(n, i).R = NormalizeShareR(AggregateNonce(session, Keys(1).pubkeys), 0).R
  BY <1>5 DEF SignedWith, Sign, NormalizeShareR
<1>7. SignedWith(n, i).z = ShareOf(n, i)
  BY DEF SignedWith, ShareOf
<1>8. /\ session.signing_commitments[i].D = SignerNonces[i].d
      /\ session.signing_commitments[i].E = SignerNonces[i].e
  <2>1. PICK comm : comm = session.signing_commitments[i]
    OBVIOUS
  <2>2. comm = [D |-> SignerNonces[i].d, E |-> SignerNonces[i].e]
    BY <2>1, SessionPackage DEF Commitment
  <2>3. comm.D = SignerNonces[i].d /\ comm.E = SignerNonces[i].e
    BY <2>2
  <2> QED BY <2>1, <2>3
<1>9. ShareOf(n, i) = Add(Add(KeyTerm(session, Keys(n).shares[i], Keys(n).pubkeys),
                              BlindingScalar(session, Keys(n).shares[i])),
                          NonceShare(session, Keys(n).pubkeys, i))
  BY <1>1, <1>8 DEF ShareOf, Sign, KeyTerm, NonceShare
<1> QED BY <1>1, <1>3, <1>4, <1>6, <1>7, <1>9

-----------------------------------------------------------------------------
(* The invariant.                                                          *)

\* Every share is what `sign` made of the packages of the deal noted for it, ...
SharesInv ==
  \A i \in Signers :
     /\ i \in DOMAIN all_shares <=> signed[i] # 0
     /\ signed[i] # 0 => all_shares[i] = SignedWith(signed[i], i)

\* ... the outcome is that of all the shares, ...
OutcomeInv ==
  outcome # "none" =>
     /\ DOMAIN all_shares = Signers
     /\ outcome = "valid" <=> Verify(Aggregate(all_shares), Message, Keys(1).pubkeys)

\* ... every message is what ia1 made of the packages and of the shares, ...
MessagesInv ==
  \A i \in Signers :
     /\ i \in DOMAIN messages <=> proved[i] # 0
     /\ proved[i] # 0 =>
          /\ outcome # "none"
          /\ RanIA1(session, Keys(proved[i]), all_shares, messages, i)

\* ... and every decision what ia2 made of the packages and of the messages.
DecisionsInv ==
  \A i \in Signers :
     /\ i \in DOMAIN decisions <=> opened[i] # 0
     /\ opened[i] # 0 =>
          /\ DOMAIN messages = Signers
          /\ decisions[i] = IA2Decision(session, messages, Keys(opened[i]).shares[i])

\* What was decided follows from all of them.
DecidedInv ==
  judge # 0 =>
     /\ DOMAIN decisions = Signers
     /\ malicious = Decide(session, Keys(judge).pubkeys, all_shares, messages, decisions)

SessionInv ==
  SessionTypeOK /\ SharesInv /\ OutcomeInv /\ MessagesInv /\ DecisionsInv /\ DecidedInv

-----------------------------------------------------------------------------
(* What decide names.                                                      *)

\* Before a decision is made, every signer has gone through all of the calls.
LEMMA BeforeDecision ==
  ASSUME SessionTypeOK, SharesInv, OutcomeInv, MessagesInv, DecisionsInv,
         DOMAIN decisions = Signers
  PROVE  /\ DOMAIN messages = Signers /\ DOMAIN all_shares = Signers
         /\ \A i \in Signers :
               /\ signed[i] \in Deals /\ proved[i] \in Deals /\ opened[i] \in Deals
               /\ all_shares[i] = SignedWith(signed[i], i)
               /\ RanIA1(session, Keys(proved[i]), all_shares, messages, i)
               /\ decisions[i] = IA2Decision(session, messages, Keys(opened[i]).shares[i])
<1>1. Signers # {} /\ 0 \notin Deals
  BY SessionAssumption
<1>2. \A i \in Signers : opened[i] # 0
  BY DEF DecisionsInv
<1>3. DOMAIN messages = Signers
  BY <1>1, <1>2 DEF DecisionsInv
<1>4. \A i \in Signers : proved[i] # 0
  BY <1>3 DEF MessagesInv
<1>5. DOMAIN all_shares = Signers
  BY <1>1, <1>4 DEF MessagesInv, OutcomeInv
<1>6. \A i \in Signers : signed[i] # 0
  BY <1>5 DEF SharesInv
<1>7. \A i \in Signers : {signed[i], proved[i], opened[i]} \subseteq Deals \cup {0}
  BY DEF SessionTypeOK
<1>8. \A i \in Signers : signed[i] \in Deals /\ proved[i] \in Deals /\ opened[i] \in Deals
  BY <1>2, <1>4, <1>6, <1>7
<1> QED BY <1>2, <1>3, <1>4, <1>5, <1>6, <1>8 DEF SharesInv, MessagesInv, DecisionsInv

\* The commitments of a signer are to the values of the keys it ran ia1 with.
LEMMA CommitmentsOfDeal ==
  ASSUME NEW i \in Signers, NEW j \in Signers \ {i}, NEW n \in Deals,
         RanIA1(session, Keys(n), all_shares, messages, i)
  PROVE  /\ HasCommitment(messages, i, j)
         /\ C(messages, i, j)
               = BlindingCommitment(session, all_shares, Keys(n).shares[i].pairwise_keys[j])
  BY CommitmentsOfIA1, SessionPackage, DealFacts

\* Both signers of a pair have the same key of a deal, ...
LEMMA PairSharesKey ==
  ASSUME NEW n \in Deals, NEW i \in Signers, NEW j \in Signers \ {i}
  PROVE  /\ Keys(n).shares[i].pairwise_keys[j] = Keys(n).shares[j].pairwise_keys[i]
         /\ HashPairwiseKeyCommitment(Keys(n).shares[i].pairwise_keys[j])
               = Keys(n).pubkeys.partial_verification_keys[i].pairwise_key_commitments[j]
<1>1. i \in Identifier /\ j \in Identifier \ {i} /\ Dealt(Keys(n))
  BY SessionAssumption, DealFacts
<1> QED BY <1>1 DEF Dealt

\* ... and for the deal it is a valid opening, ...
LEMMA ValidOpening ==
  ASSUME NEW n \in Deals, NEW i \in Signers, NEW j \in Signers \ {i}
  PROVE  OpeningIsValid(Keys(n).pubkeys, i, j, Keys(n).shares[i].pairwise_keys[j])
<1>1. i \in Identifier /\ j \in Identifier \ {i} /\ Dealt(Keys(n))
  BY SessionAssumption, DealFacts
<1> QED BY <1>1 DEF Dealt, OpeningIsValid

\* ... and the only one, the commitments to the keys being collision free.
LEMMA OnlyValidOpening ==
  ASSUME NEW n \in Deals, NEW i \in Signers, NEW j \in Signers \ {i}, NEW key,
         OpeningIsValid(Keys(n).pubkeys, i, j, key)
  PROVE  key = Keys(n).shares[i].pairwise_keys[j]
<1>1. HashPairwiseKeyCommitment(key)
         = HashPairwiseKeyCommitment(Keys(n).shares[i].pairwise_keys[j])
  BY PairSharesKey DEF OpeningIsValid
<1> QED BY <1>1 DEF HashPairwiseKeyCommitment

\* No pair of signers leaves a disagreement without an opened key.
LEMMA NoPairNamed ==
  ASSUME SessionTypeOK, SharesInv, OutcomeInv, MessagesInv, DecisionsInv,
         DOMAIN decisions = Signers
  PROVE  NamedByPairs(session, messages, decisions) = {}
<1>1. ASSUME NEW i \in Signers, NEW j \in Signers \ {i}
      PROVE  NamedByPair(messages, decisions, i, j) = {}
  <2>1. HasCommitment(messages, i, j) /\ HasCommitment(messages, j, i)
    BY BeforeDecision, CommitmentsOfDeal
  <2>2. ASSUME C(messages, i, j) # C(messages, j, i)
        PROVE  HasOpened(decisions, i, j) /\ HasOpened(decisions, j, i)
    <3>1. ASSUME NEW a \in Signers, NEW b \in Signers \ {a},
                 C(messages, a, b) # C(messages, b, a)
          PROVE  HasOpened(decisions, a, b)
      <4>1. decisions[a] = IA2Decision(session, messages, Keys(opened[a]).shares[a])
            /\ opened[a] \in Deals
        BY BeforeDecision
      <4>2. Keys(opened[a]).shares[a].identifier = a
        BY <4>1, ShareOfDeal
      <4>3. b \in DOMAIN decisions[a].opened_pairwise_keys
        BY <3>1, <4>1, <4>2, SessionPackage DEF IA2Decision
      <4> QED BY <4>3 DEF HasOpened
    <3> QED BY <2>2, <3>1
  <2>3. i \in DOMAIN messages /\ j \in DOMAIN messages
    BY <2>1 DEF HasCommitment
  <2> QED BY <2>1, <2>2, <2>3 DEF NamedByPair
<1>2. ASSUME NEW ij \in {ij \in Signers \X Signers : ij[1] < ij[2]}
      PROVE  NamedByPair(messages, decisions, ij[1], ij[2]) = {}
  <2>1. ij[1] \in Signers /\ ij[2] \in Signers /\ ij[1] < ij[2]
    OBVIOUS
  <2>2. ij[1] \in Nat /\ ij[2] \in Nat
    BY <2>1, SessionAssumption, IdentifierFacts
  <2>3. ij[1] # ij[2]
    BY <2>1, <2>2
  <2> QED BY <1>1, <2>1, <2>3
<1> QED BY <1>2, SessionPackage DEF NamedByPairs

\* An opened key is one of the deal the accuser ran ia2 with, for a peer whose
\* commitment differs.
LEMMA OpenedKeys ==
  ASSUME SessionTypeOK, SharesInv, OutcomeInv, MessagesInv, DecisionsInv,
         DOMAIN decisions = Signers,
         NEW i \in Signers
  PROVE  /\ DOMAIN decisions[i].opened_pairwise_keys
               = {j \in Signers \ {i} : C(messages, i, j) # C(messages, j, i)}
         /\ \A j \in DOMAIN decisions[i].opened_pairwise_keys :
               decisions[i].opened_pairwise_keys[j]
                  = Keys(opened[i]).shares[i].pairwise_keys[j]
<1>1. decisions[i] = IA2Decision(session, messages, Keys(opened[i]).shares[i])
      /\ opened[i] \in Deals
  BY BeforeDecision
<1>2. Keys(opened[i]).shares[i].identifier = i
  BY <1>1, ShareOfDeal
<1>3. decisions[i].opened_pairwise_keys =
        [j \in {j \in Signers \ {i} : C(messages, i, j) # C(messages, j, i)} |->
            Keys(opened[i]).shares[i].pairwise_keys[j]]
  BY <1>1, <1>2, SessionPackage DEF IA2Decision
<1> QED BY <1>3

\* Whichever the deal n that decides: decide names nobody that has gone with n
\* throughout, whatever deals its peers have gone with.
LEMMA NamedHaveOtherDeals ==
  ASSUME SessionTypeOK, SharesInv, OutcomeInv, MessagesInv, DecisionsInv,
         DOMAIN decisions = Signers, NEW n \in Deals
  PROVE  Decide(session, Keys(n).pubkeys, all_shares, messages, decisions)
            \subseteq WithOtherDeals(n)
<1> DEFINE pubkeys == Keys(n).pubkeys
<1>1. ASSUME NEW i \in NamedByProof(session, pubkeys, all_shares, messages)
      PROVE  i \in WithOtherDeals(n)
  <2>1. i \in Signers
    BY SessionPackage DEF NamedByProof
  <2>2. CASE signed[i] = n /\ proved[i] = n
    <3>1. RanSign(session, Keys(n), SignerNonces[i], all_shares, i)
      BY <2>1, <2>2, BeforeDecision, SessionPackage, SessionAssumption DEF RanSign, SignedWith
    <3>2. RanIA1(session, Keys(n), all_shares, messages, i)
      BY <2>1, <2>2, BeforeDecision
    <3> QED BY <1>1, <3>1, <3>2, NotNamedByProof, SessionPackage, DealFacts
  <2> QED BY <2>1, <2>2 DEF WithOtherDeals
<1>2. ASSUME NEW a \in Signers, NEW p \in DOMAIN decisions[a].opened_pairwise_keys,
             NEW k, k = decisions[a].opened_pairwise_keys[p]
      PROVE  NamedByOpening(session, pubkeys, all_shares, messages, a, p, k)
                \subseteq WithOtherDeals(n)
  <2>1. /\ p \in Signers \ {a} /\ C(messages, a, p) # C(messages, p, a)
        /\ opened[a] \in Deals /\ k = Keys(opened[a]).shares[a].pairwise_keys[p]
    BY <1>2, OpenedKeys, BeforeDecision
  <2>2. CASE ~ OpeningIsValid(pubkeys, a, p, k)
    <3>1. opened[a] # n
      BY <2>1, <2>2, ValidOpening
    <3>2. a \in WithOtherDeals(n)
      BY <2>1, <3>1 DEF WithOtherDeals, Disputes
    <3> QED BY <2>2, <3>2 DEF NamedByOpening
  <2>3. CASE OpeningIsValid(pubkeys, a, p, k)
    <3>0. a \in Signers \ {p} /\ p \in Signers
      BY <2>1
    <3>1. k = Keys(n).shares[p].pairwise_keys[a]
      <4>1. k = Keys(n).shares[a].pairwise_keys[p]
        BY <2>1, <2>3, OnlyValidOpening
      <4>2. Keys(n).shares[a].pairwise_keys[p] = Keys(n).shares[p].pairwise_keys[a]
        BY <2>1, PairSharesKey
      <4> QED BY <4>1, <4>2
    <3>2. CASE proved[p] = n
      <4>1. /\ HasCommitment(messages, p, a)
            /\ C(messages, p, a) = BlindingCommitment(session, all_shares, k)
        BY <3>0, <3>1, <3>2, BeforeDecision, CommitmentsOfDeal
      <4> QED BY <2>3, <4>1 DEF NamedByOpening
    <3>3. CASE proved[p] # n
      <4>1. p \in WithOtherDeals(n)
        BY <2>1, <3>3 DEF WithOtherDeals
      <4> QED BY <2>3, <4>1 DEF NamedByOpening
    <3> QED BY <3>2, <3>3
  <2> QED BY <2>2, <2>3
<1>3. NamedByOpenings(session, pubkeys, all_shares, messages, decisions)
         \subseteq WithOtherDeals(n)
  BY <1>2 DEF NamedByOpenings
<1> QED BY <1>1, <1>3, NoPairNamed DEF Decide
\* A share that passes verify_wellformed_proof with the public keys of deal n, and
\* with a message made with the packages of n, is the one made with them.
LEMMA AcceptedIsOfDeal ==
  ASSUME NEW n \in Deals, NEW i \in Signers,
         all_shares[i] \in SignatureShares, all_shares[i].identifier = i,
         RanIA1(session, Keys(n), all_shares, messages, i),
         VerifyWellformedProof(session, all_shares[i], messages[i], Keys(n).pubkeys)
  PROVE  all_shares[i].z = ShareOf(n, i)
<1> DEFINE others == Ids(session) \ {i}
           kp     == Keys(n).shares[i]
<1>1. /\ session \in SigningPackages /\ Dealt(Keys(n)) /\ i \in Ids(session)
      /\ HasKeysFor(kp, session) /\ kp.identifier = i
  BY SessionPackage, DealFacts, ShareOfDeal
<1>2. ASSUME NEW j \in others
      PROVE  /\ messages[i].blinding_commitments[j].value = Hs(kp.pairwise_keys[j], session)
             /\ Hs(kp.pairwise_keys[j], session) \in Scalar
  <2>1. C(messages, i, j)
           = BlindingCommitment(session, all_shares, kp.pairwise_keys[j])
    BY <1>1, <1>2, SessionPackage, CommitmentsOfDeal
  <2>2. C(messages, i, j).value = Hs(kp.pairwise_keys[j], session)
    BY <2>1 DEF BlindingCommitment, PedersenCommit
  <2>3. kp.pairwise_keys[j] \in PairwiseKeys
    BY <1>1, <1>2 DEF HasKeysFor
  <2> QED BY <1>1, <2>2, <2>3, HashAssumption DEF C
<1>3. all_shares[i].z
         = Add(Add(KeyTerm(session, kp, Keys(n).pubkeys),
                   Sum([j \in others |->
                          Mul(messages[i].blinding_commitments[j].value, Delta(i, j))])),
               NonceShare(session, Keys(n).pubkeys, i))
  <2>1. PICK share \in SignatureShares : share = all_shares[i]
    OBVIOUS
  <2>2. PICK message : message = messages[i]
    OBVIOUS
  <2>3. /\ share.identifier = i
        /\ VerifyWellformedProof(session, share, message, Keys(n).pubkeys)
    BY <2>1, <2>2
  <2>4. \A j \in Ids(session) \ {i} : message.blinding_commitments[j].value \in Scalar
    BY <1>2, <2>2
  <2>5. share.z
           = Add(Add(KeyTerm(session, kp, Keys(n).pubkeys),
                     Sum([j \in Ids(session) \ {i} |->
                            Mul(message.blinding_commitments[j].value, Delta(i, j))])),
                 NonceShare(session, Keys(n).pubkeys, i))
    BY <1>1, <2>3, <2>4, AcceptedShare
  <2> QED BY <2>1, <2>2, <2>5
<1>4. [j \in others |-> Mul(messages[i].blinding_commitments[j].value, Delta(i, j))]
         = [j \in others |-> Mul(Hs(kp.pairwise_keys[j], session), Delta(i, j))]
  BY <1>2
<1>5. BlindingScalar(session, kp)
         = Sum([j \in others |-> Mul(Hs(kp.pairwise_keys[j], session), Delta(i, j))])
  BY <1>1, BlindingIsSumOfDeltas
<1>6. ShareOf(n, i) = Add(Add(KeyTerm(session, kp, Keys(n).pubkeys),
                              BlindingScalar(session, kp)),
                          NonceShare(session, Keys(n).pubkeys, i))
  BY ShareOfDeal
<1> QED BY <1>3, <1>4, <1>5, <1>6

\* The key a signer ran ia1 with is one the commitment of its deal is to.
LEMMA ProofIsOfDeal ==
  ASSUME NEW m \in Deals, NEW n \in Deals, NEW i \in Signers, NEW share,
         share.identifier = i,
         RanIA1(session, Keys(m), all_shares, messages, i),
         VerifyWellformedProof(session, share, messages[i], Keys(n).pubkeys)
  PROVE  Keys(m).pubkeys.partial_verification_keys[i].signing_share_commitment
            = Keys(n).pubkeys.partial_verification_keys[i].signing_share_commitment
<1> DEFINE kp == Keys(m).shares[i]
           vk(d) == Keys(d).pubkeys.partial_verification_keys[i]
<1>1. /\ messages[i].proof.z_sk = kp.signing_share
      /\ messages[i].proof.z_sk_blinding = kp.signing_share_blinding
  <2>1. messages[i] = IA1Message(session, all_shares[i], kp, Keys(m).pubkeys, all_shares)
    BY DEF RanIA1
  <2> QED BY <2>1 DEF IA1Message, ProveWellformed
<1>2. PedersenCommit(messages[i].proof.z_sk, messages[i].proof.z_sk_blinding)
         = vk(n).signing_share_commitment
  BY DEF VerifyWellformedProof
<1>3. PedersenCommit(kp.signing_share, kp.signing_share_blinding)
         = vk(m).signing_share_commitment
  BY DealFacts, SessionAssumption DEF Dealt
<1> QED BY <1>1, <1>2, <1>3

\* Whichever the deal n that decides: decide names every signer that has gone with
\* another one, by its proof or by what it has opened.
LEMMA OtherDealsNamed ==
  ASSUME DealsDiffer,
         SessionTypeOK, SharesInv, OutcomeInv, MessagesInv, DecisionsInv,
         DOMAIN decisions = Signers, NEW n \in Deals
  PROVE  WithOtherDeals(n)
            \subseteq Decide(session, Keys(n).pubkeys, all_shares, messages, decisions)
<1> SUFFICES ASSUME NEW i \in WithOtherDeals(n)
             PROVE  i \in Decide(session, Keys(n).pubkeys, all_shares, messages, decisions)
  OBVIOUS
<1> DEFINE proof_named == NamedByProof(session, Keys(n).pubkeys, all_shares, messages)
           vk(d) == Keys(d).pubkeys.partial_verification_keys[i]
<1>1. /\ i \in Signers /\ i \in Ids(session)
      /\ signed[i] \in Deals /\ proved[i] \in Deals /\ opened[i] \in Deals
      /\ all_shares[i] = SignedWith(signed[i], i)
      /\ RanIA1(session, Keys(proved[i]), all_shares, messages, i)
  BY BeforeDecision, SessionPackage DEF WithOtherDeals
<1>2. /\ all_shares[i] \in SignatureShares /\ all_shares[i].identifier = i
      /\ all_shares[i].z = ShareOf(signed[i], i)
  BY <1>1, ShareOfDeal
<1>3. ASSUME ~ VerifyWellformedProof(session, all_shares[i], messages[i], Keys(n).pubkeys)
      PROVE  i \in proof_named
  BY <1>1, <1>3 DEF NamedByProof
<1>4. CASE proved[i] # n
  <2>1. vk(proved[i]).signing_share_commitment # vk(n).signing_share_commitment
    BY <1>1, <1>4 DEF DealsDiffer
  <2>2. ~ VerifyWellformedProof(session, all_shares[i], messages[i], Keys(n).pubkeys)
    BY <1>1, <1>2, <2>1, ProofIsOfDeal
  <2> QED BY <1>3, <2>2 DEF Decide
<1>5. CASE proved[i] = n /\ signed[i] # n
  <2>1. all_shares[i].z # ShareOf(n, i)
    BY <1>1, <1>2, <1>5 DEF DealsDiffer
  <2>2. ~ VerifyWellformedProof(session, all_shares[i], messages[i], Keys(n).pubkeys)
    BY <1>1, <1>2, <1>5, <2>1, AcceptedIsOfDeal
  <2> QED BY <1>3, <2>2 DEF Decide
<1>6. CASE opened[i] # n /\ Disputes(i)
  <2>1. PICK j \in Signers \ {i} : C(messages, i, j) # C(messages, j, i)
    BY <1>6 DEF Disputes
  <2> DEFINE key == Keys(opened[i]).shares[i].pairwise_keys[j]
  <2>2. /\ j \in DOMAIN decisions[i].opened_pairwise_keys
        /\ decisions[i].opened_pairwise_keys[j] = key
    BY <1>1, <2>1, OpenedKeys
  <2>3. HashPairwiseKeyCommitment(key) = vk(opened[i]).pairwise_key_commitments[j]
    BY <1>1, <2>1, PairSharesKey
  <2>4. vk(opened[i]).pairwise_key_commitments[j] # vk(n).pairwise_key_commitments[j]
    BY <1>1, <1>6, <2>1 DEF DealsDiffer
  <2>5. ~ OpeningIsValid(Keys(n).pubkeys, i, j, key)
    BY <2>3, <2>4 DEF OpeningIsValid
  <2>6. i \in NamedByOpening(session, Keys(n).pubkeys, all_shares, messages, i, j, key)
    BY <2>5 DEF NamedByOpening
  <2>7. i \in DOMAIN decisions
    BY <1>1
  <2>8. i \in NamedByOpenings(session, Keys(n).pubkeys, all_shares, messages, decisions)
    BY <2>2, <2>6, <2>7 DEF NamedByOpenings
  <2> QED BY <2>8 DEF Decide
<1> QED BY <1>1, <1>4, <1>5, <1>6 DEF WithOtherDeals

-----------------------------------------------------------------------------
(* What the shares add up to.                                              *)

\* Shares of any deals have one nonce, and are added up.
LEMMA AggregateOfDeals ==
  ASSUME NEW deal \in [Signers -> Deals], NEW made, DOMAIN made = Signers,
         \A i \in Signers : made[i] = SignedWith(deal[i], i)
  PROVE  /\ Aggregate(made).R = NormalizeShareR(AggregateNonce(session, Keys(1).pubkeys), 0).R
         /\ Aggregate(made).z = Sum([i \in Signers |-> ShareOf(deal[i], i)])
<1> DEFINE R0 == NormalizeShareR(AggregateNonce(session, Keys(1).pubkeys), 0).R
<1>1. \A i \in Signers : made[i].R = R0 /\ made[i].z = ShareOf(deal[i], i)
  BY ShareOfDeal
<1>2. {made[i].R : i \in DOMAIN made} = {R0}
  BY <1>1, SessionAssumption
<1>3. (CHOOSE R \in {made[i].R : i \in DOMAIN made} : TRUE) = R0
  BY <1>2
<1>4. [i \in DOMAIN made |-> made[i].z] = [i \in Signers |-> ShareOf(deal[i], i)]
  BY <1>1
<1> QED BY <1>3, <1>4 DEF Aggregate

\* Shares of one deal sign, whichever it is.
LEMMA OneDealVerifies ==
  ASSUME NEW n \in Deals, NEW made, DOMAIN made = Signers,
         \A i \in Signers : made[i] = SignedWith(n, i)
  PROVE  Verify(Aggregate(made), Message, Keys(1).pubkeys)
<1> DEFINE dealt == Keys(n)
<1>1. /\ session \in SigningPackages /\ Ids(session) = Signers /\ Signers # {}
      /\ Cardinality(Ids(session)) >= MinSigners /\ Dealt(dealt) /\ session.message = Message
  BY SessionPackage, SessionAssumption, DealFacts
<1>2. Signed(session, dealt, made)
  <2>1. ASSUME NEW i \in Signers
        PROVE  /\ SignerNonces[i] \in [d : Scalar, e : Scalar]
               /\ session.signing_commitments[i] = Commitment(SignerNonces[i])
               /\ made[i] = Sign(session, SignerNonces[i], dealt.shares[i], dealt.pubkeys)
    BY SessionAssumption, SessionPackage DEF SignedWith
  <2> QED BY <1>1, <2>1 DEF Signed
<1>3. KeySum(session, dealt) = dealt.pubkeys.verifying_key
  BY <1>1, SessionAssumption, KeySumInterpolates DEF Keys
<1>4. Verify(Aggregate(made), session.message, dealt.pubkeys)
  BY <1>1, <1>2, <1>3, SignedVerifies
<1> QED BY <1>1, <1>4, SameVerifyingKey, SessionAssumption

\* Shares of any deals sign only if they add up to what those of one deal do.
LEMMA SigningSum ==
  ASSUME NEW deal \in [Signers -> Deals], NEW n \in Deals,
         NEW made, DOMAIN made = Signers,
         \A i \in Signers : made[i] = SignedWith(deal[i], i),
         Verify(Aggregate(made), Message, Keys(1).pubkeys)
  PROVE  Sum([i \in Signers |-> ShareOf(deal[i], i)]) = Sum([i \in Signers |-> ShareOf(n, i)])
<1> DEFINE one  == [i \in Signers |-> n]
           same == [i \in Signers |-> SignedWith(n, i)]
<1>1. /\ one \in [Signers -> Deals] /\ DOMAIN same = Signers
      /\ \A i \in Signers : same[i] = SignedWith(one[i], i) /\ same[i] = SignedWith(n, i)
  OBVIOUS
<1>2. [i \in Signers |-> ShareOf(one[i], i)] = [i \in Signers |-> ShareOf(n, i)]
  OBVIOUS
<1> HIDE DEF one, same
<1>3. Verify(Aggregate(same), Message, Keys(1).pubkeys)
  BY <1>1, OneDealVerifies
<1>4. Aggregate(same).R = Aggregate(made).R
  BY <1>1, AggregateOfDeals
<1>5. Aggregate(same).z = Aggregate(made).z
  BY <1>3, <1>4 DEF Verify
<1> QED BY <1>1, <1>2, <1>5, AggregateOfDeals

\* One signer that has used another deal than all the others changes the sum.
LEMMA OneOtherDeal ==
  ASSUME DealsDiffer, NEW m \in Deals, NEW n \in Deals, m # n, NEW i \in Signers,
         NEW deal, deal = [j \in Signers |-> IF j = i THEN m ELSE n]
  PROVE  Sum([j \in Signers |-> ShareOf(deal[j], j)]) # Sum([j \in Signers |-> ShareOf(n, j)])
<1>1. PICK f : f = [j \in Signers |-> ShareOf(deal[j], j)]
  OBVIOUS
<1>2. PICK g : g = [j \in Signers |-> ShareOf(n, j)]
  OBVIOUS
<1>3. PICK h : h = [j \in Signers \ {i} |-> ShareOf(n, j)]
  OBVIOUS
<1>4. \A d \in Deals, j \in Signers : ShareOf(d, j) \in Scalar
  BY ShareOfDeal DEF SignatureShares
<1>5. i \in Identifier \cap Signers
  BY SessionAssumption
<1>6. ScalarMap(f) /\ ScalarMap(g) /\ ScalarMap(h)
  BY <1>1, <1>2, <1>3, <1>4 DEF ScalarMap
<1>7. Sum(f) = Add(Sum(h), ShareOf(m, i))
  <2>1. DOMAIN f = Signers /\ DOMAIN h = Signers \ {i} /\ f[i] = ShareOf(m, i)
    BY <1>1, <1>3
  <2>2. \A j \in Identifier \cap DOMAIN h : h[j] = f[j]
    BY <1>1, <1>3
  <2> QED BY <1>5, <1>6, <2>1, <2>2, SumSplit
<1>8. Sum(g) = Add(Sum(h), ShareOf(n, i))
  <2>1. DOMAIN g = Signers /\ DOMAIN h = Signers \ {i} /\ g[i] = ShareOf(n, i)
    BY <1>2, <1>3
  <2>2. \A j \in Identifier \cap DOMAIN h : h[j] = g[j]
    BY <1>2, <1>3
  <2> QED BY <1>5, <1>6, <2>1, <2>2, SumSplit
<1>9. PICK s \in Scalar, a \in Scalar, b \in Scalar :
         s = Sum(h) /\ a = ShareOf(m, i) /\ b = ShareOf(n, i)
  BY <1>4, <1>6, SumType
<1>10. a # b
  BY <1>9 DEF DealsDiffer
<1>11. Add(s, a) # Add(s, b)
  BY <1>10, QAssumption DEF Add, Scalar
<1> QED BY <1>1, <1>2, <1>7, <1>8, <1>9, <1>11

-----------------------------------------------------------------------------
(* The invariant holds.                                                    *)

\* Nobody has done anything yet.
LEMMA SessionStart == SessionInit => SessionInv
<1> SUFFICES ASSUME SessionInit PROVE SessionInv
  OBVIOUS
<1>1. DOMAIN EmptyMap = {} /\ 1 \in Deals
  BY SessionAssumption DEF EmptyMap
<1>2. SessionTypeOK
  BY <1>1 DEF SessionInit, SessionTypeOK
<1> QED BY <1>1, <1>2 DEF SessionInit, SessionInv, SharesInv, OutcomeInv, MessagesInv,
              DecisionsInv, DecidedInv

\* What the calls leave as it was.
LEMMA RestartKeeps ==
  ASSUME SessionInv, NEW i \in Signers, Restart(i)
  PROVE  SessionInv'
<1>1. /\ holds' \in [Signers -> Deals]
      /\ UNCHANGED <<signed, proved, opened, all_shares, messages, decisions, outcome, judge,
                     malicious>>
  BY DEF SessionInv, SessionTypeOK, Restart
<1>2. SessionTypeOK'
  BY <1>1 DEF SessionInv, SessionTypeOK
<1> QED BY <1>1, <1>2 DEF SessionInv, SharesInv, OutcomeInv, MessagesInv, DecisionsInv,
              DecidedInv, RanIA1

\* A signer signs before there is an outcome, so before any message and decision.
LEMMA SignRoundKeeps ==
  ASSUME SessionInv, NEW i \in Signers, SignRound(i)
  PROVE  SessionInv'
<1>1. /\ signed[i] = 0 /\ signed' = [signed EXCEPT ![i] = holds[i]]
      /\ all_shares' = Insert(all_shares, i, SignedWith(holds[i], i))
      /\ UNCHANGED <<holds, proved, opened, messages, decisions, outcome, judge, malicious>>
  BY DEF SignRound, SignedWith, Package, Pubkeys
<1>2. holds[i] \in Deals /\ holds[i] # 0 /\ Signers # {}
  BY SessionAssumption DEF SessionInv, SessionTypeOK
<1>3. /\ outcome = "none" /\ judge = 0
      /\ \A j \in Signers : proved[j] = 0 /\ opened[j] = 0
  BY <1>1, <1>2 DEF SessionInv, SharesInv, OutcomeInv, MessagesInv, DecisionsInv, DecidedInv
<1>4. /\ DOMAIN all_shares' = DOMAIN all_shares \cup {i}
      /\ all_shares'[i] = SignedWith(holds[i], i)
      /\ \A j \in DOMAIN all_shares \ {i} : all_shares'[j] = all_shares[j]
  BY <1>1 DEF Insert
<1>5. SessionTypeOK'
  <2>1. signed' \in [Signers -> Deals \cup {0}]
    BY <1>1, <1>2 DEF SessionInv, SessionTypeOK
  <2>2. \A j \in DOMAIN all_shares' : j \in Signers /\ all_shares'[j] \in SignatureShares
    BY <1>2, <1>4, ShareOfDeal DEF SessionInv, SessionTypeOK
  <2> QED BY <1>1, <2>1, <2>2 DEF SessionInv, SessionTypeOK
<1>6. SharesInv'
  <2>1. signed \in [Signers -> Deals \cup {0}]
    BY DEF SessionInv, SessionTypeOK
  <2> SUFFICES ASSUME NEW j \in Signers
               PROVE  /\ j \in DOMAIN all_shares' <=> signed'[j] # 0
                      /\ signed'[j] # 0 => all_shares'[j] = SignedWith(signed'[j], j)
    BY DEF SharesInv, SignedWith
  <2>2. CASE j = i
    BY <1>1, <1>2, <1>4, <2>1, <2>2
  <2>3. CASE j # i
    BY <1>1, <1>4, <2>1, <2>3 DEF SessionInv, SharesInv
  <2> QED BY <2>2, <2>3
<1>7. OutcomeInv' /\ DecidedInv'
  BY <1>1, <1>3 DEF OutcomeInv, DecidedInv
<1>8. MessagesInv' /\ DecisionsInv'
  BY <1>1, <1>3 DEF SessionInv, MessagesInv, DecisionsInv
<1> QED BY <1>5, <1>6, <1>7, <1>8 DEF SessionInv

\* The signature is that of all the shares, which no later call changes.
LEMMA AggregateSharesKeeps ==
  ASSUME SessionInv, AggregateShares
  PROVE  SessionInv'
<1>1. /\ outcome = "none" /\ DOMAIN all_shares = Signers
      /\ outcome' = IF Verify(Aggregate(all_shares), Message, Keys(1).pubkeys)
                    THEN "valid" ELSE "invalid"
      /\ UNCHANGED <<holds, signed, proved, opened, all_shares, messages, decisions,
                     judge, malicious>>
  BY DEF AggregateShares
<1>2. \A i \in Signers : proved[i] = 0
  BY <1>1 DEF SessionInv, MessagesInv
<1>3. SessionTypeOK'
  BY <1>1 DEF SessionInv, SessionTypeOK
<1>4. OutcomeInv'
  BY <1>1 DEF OutcomeInv
<1>5. MessagesInv'
  BY <1>1, <1>2 DEF SessionInv, MessagesInv
<1> QED BY <1>1, <1>3, <1>4, <1>5 DEF SessionInv, SharesInv, DecisionsInv, DecidedInv

\* A signer runs ia1 before any signer can run ia2.
LEMMA IA1Keeps ==
  ASSUME SessionInv, NEW i \in Signers, IA1(i)
  PROVE  SessionInv'
<1>1. /\ outcome # "none" /\ proved[i] = 0 /\ proved' = [proved EXCEPT ![i] = holds[i]]
      /\ messages' = Insert(messages, i,
                            IA1Message(session, all_shares[i], Keys(holds[i]).shares[i],
                                       Keys(holds[i]).pubkeys, all_shares))
      /\ UNCHANGED <<holds, signed, opened, all_shares, decisions, outcome, judge, malicious>>
  BY DEF IA1, Package, Pubkeys
<1>2. holds[i] \in Deals /\ holds[i] # 0 /\ Signers # {}
  BY SessionAssumption DEF SessionInv, SessionTypeOK
<1>3. judge = 0 /\ \A j \in Signers : opened[j] = 0
  BY <1>1, <1>2 DEF SessionInv, MessagesInv, DecisionsInv, DecidedInv
<1>4. /\ DOMAIN messages' = DOMAIN messages \cup {i}
      /\ messages'[i] = IA1Message(session, all_shares[i], Keys(holds[i]).shares[i],
                                   Keys(holds[i]).pubkeys, all_shares)
      /\ \A j \in DOMAIN messages \ {i} : messages'[j] = messages[j]
  BY <1>1 DEF Insert
<1>5. SessionTypeOK'
  <2>1. proved' \in [Signers -> Deals \cup {0}] /\ DOMAIN messages' \subseteq Signers
    BY <1>1, <1>2, <1>4 DEF SessionInv, SessionTypeOK
  <2> QED BY <1>1, <2>1 DEF SessionInv, SessionTypeOK
<1>6. MessagesInv'
  <2>1. proved \in [Signers -> Deals \cup {0}]
    BY DEF SessionInv, SessionTypeOK
  <2> SUFFICES ASSUME NEW j \in Signers
               PROVE  /\ j \in DOMAIN messages' <=> proved'[j] # 0
                      /\ proved'[j] # 0 =>
                           RanIA1(session, Keys(proved'[j]), all_shares, messages', j)
    BY <1>1 DEF MessagesInv, RanIA1
  <2>2. CASE j = i
    BY <1>1, <1>2, <1>4, <2>1, <2>2 DEF RanIA1
  <2>3. CASE j # i
    BY <1>1, <1>4, <2>1, <2>3 DEF SessionInv, MessagesInv, RanIA1
  <2> QED BY <2>2, <2>3
<1>7. DecisionsInv' /\ DecidedInv'
  BY <1>1, <1>3 DEF SessionInv, DecisionsInv, DecidedInv
<1> QED BY <1>1, <1>5, <1>6, <1>7 DEF SessionInv, SharesInv, OutcomeInv

\* A signer runs ia2 before anybody decides.
LEMMA IA2Keeps ==
  ASSUME SessionInv, NEW i \in Signers, IA2(i)
  PROVE  SessionInv'
<1>1. /\ DOMAIN messages = Signers /\ opened[i] = 0
      /\ opened' = [opened EXCEPT ![i] = holds[i]]
      /\ decisions' = Insert(decisions, i,
                             IA2Decision(session, messages, Keys(holds[i]).shares[i]))
      /\ UNCHANGED <<holds, signed, proved, all_shares, messages, outcome, judge, malicious>>
  BY DEF IA2, Package
<1>2. holds[i] \in Deals /\ holds[i] # 0
  BY SessionAssumption DEF SessionInv, SessionTypeOK
<1>3. judge = 0
  BY <1>1 DEF SessionInv, DecisionsInv, DecidedInv
<1>4. /\ DOMAIN decisions' = DOMAIN decisions \cup {i}
      /\ decisions'[i] = IA2Decision(session, messages, Keys(holds[i]).shares[i])
      /\ \A j \in DOMAIN decisions \ {i} : decisions'[j] = decisions[j]
  BY <1>1 DEF Insert
<1>5. SessionTypeOK'
  <2>1. opened' \in [Signers -> Deals \cup {0}] /\ DOMAIN decisions' \subseteq Signers
    BY <1>1, <1>2, <1>4 DEF SessionInv, SessionTypeOK
  <2> QED BY <1>1, <2>1 DEF SessionInv, SessionTypeOK
<1>6. DecisionsInv'
  <2>1. opened \in [Signers -> Deals \cup {0}]
    BY DEF SessionInv, SessionTypeOK
  <2> SUFFICES ASSUME NEW j \in Signers
               PROVE  /\ j \in DOMAIN decisions' <=> opened'[j] # 0
                      /\ opened'[j] # 0 =>
                           decisions'[j] = IA2Decision(session, messages, Keys(opened'[j]).shares[j])
    BY <1>1 DEF DecisionsInv
  <2>2. CASE j = i
    BY <1>1, <1>2, <1>4, <2>1, <2>2
  <2>3. CASE j # i
    BY <1>1, <1>4, <2>1, <2>3 DEF SessionInv, DecisionsInv
  <2> QED BY <2>2, <2>3
<1>7. DecidedInv'
  BY <1>1, <1>3 DEF DecidedInv
<1> QED BY <1>1, <1>5, <1>6, <1>7 DEF SessionInv, SharesInv, OutcomeInv, MessagesInv, RanIA1

\* Whatever deal the public keys are of, only signers of the session are named.
LEMMA AdjudicateKeeps ==
  ASSUME SessionInv, Adjudicate
  PROVE  SessionInv'
<1>1. /\ DOMAIN decisions = Signers /\ judge' \in Deals
      /\ malicious' = Decide(session, Keys(judge').pubkeys, all_shares, messages, decisions)
      /\ UNCHANGED <<holds, signed, proved, opened, all_shares, messages, decisions, outcome>>
  BY DEF Adjudicate
<1>2. malicious' \subseteq WithOtherDeals(judge')
  BY <1>1, NamedHaveOtherDeals DEF SessionInv
<1>3. SessionTypeOK'
  BY <1>1, <1>2 DEF SessionInv, SessionTypeOK, WithOtherDeals
<1>4. DecidedInv'
  BY <1>1 DEF DecidedInv
<1> QED BY <1>1, <1>3, <1>4 DEF SessionInv, SharesInv, OutcomeInv, MessagesInv, DecisionsInv,
              RanIA1

\* Every step of the session keeps the invariant.
LEMMA SessionStep == SessionInv /\ [SessionNext]_sessionvars => SessionInv'
<1> SUFFICES ASSUME SessionInv, [SessionNext]_sessionvars
             PROVE  SessionInv'
  OBVIOUS
<1>1. CASE UNCHANGED sessionvars
  BY <1>1 DEF sessionvars, SessionInv, SessionTypeOK, SharesInv, OutcomeInv, MessagesInv,
     DecisionsInv, DecidedInv, RanIA1
<1>2. CASE \E i \in Signers : Restart(i) \/ SignRound(i) \/ IA1(i) \/ IA2(i)
  BY <1>2, RestartKeeps, SignRoundKeeps, IA1Keeps, IA2Keeps
<1> QED BY <1>1, <1>2, AggregateSharesKeeps, AdjudicateKeeps DEF SessionNext, Decided

\* The inductive invariant: what the signers have sent is what the code computes
\* of the packages of the deals they had at the time.
THEOREM SessionInvariance == SessionSpec => []SessionInv
  BY SessionStart, SessionStep, PTL DEF SessionSpec

-----------------------------------------------------------------------------
(* What follows for every reachable state.                                 *)

\* The variables keep their types.
THEOREM SessionTypeCorrect == SessionSpec => []SessionTypeOK
<1>1. SessionInv => SessionTypeOK
  BY DEF SessionInv
<1> QED BY <1>1, SessionInvariance, PTL

\* With an outcome, every share is one of a deal.
LEMMA SharesOfDeals ==
  ASSUME SessionInv, outcome # "none"
  PROVE  /\ DOMAIN all_shares = Signers /\ signed \in [Signers -> Deals]
         /\ \A i \in Signers : all_shares[i] = SignedWith(signed[i], i)
         /\ outcome = "valid" <=> Verify(Aggregate(all_shares), Message, Keys(1).pubkeys)
<1>1. signed \in [Signers -> Deals \cup {0}] /\ DOMAIN all_shares = Signers
  BY DEF SessionInv, SessionTypeOK, OutcomeInv
<1>2. \A i \in Signers : signed[i] # 0
  BY <1>1 DEF SessionInv, SharesInv
<1> QED BY <1>1, <1>2 DEF SessionInv, SharesInv, OutcomeInv

\* Signers that have used one deal, whichever, have signed.
LEMMA OneDealSigned ==
  ASSUME SessionInv, outcome # "none", \A i, j \in Signers : signed[i] = signed[j]
  PROVE  outcome = "valid"
<1>1. PICK i \in Signers : TRUE
  BY SessionAssumption
<1>2. signed[i] \in Deals /\ \A j \in Signers : all_shares[j] = SignedWith(signed[i], j)
  BY SharesOfDeals
<1>3. Verify(Aggregate(all_shares), Message, Keys(1).pubkeys)
  BY <1>2, SharesOfDeals, OneDealVerifies
<1> QED BY <1>3, SharesOfDeals

\* Shares of one deal sign, whatever was dealt before and after: no restart between
\* the other calls does any harm.
THEOREM OneDealSigns ==
  SessionSpec =>
    [](outcome # "none" /\ (\A i, j \in Signers : signed[i] = signed[j]) => outcome = "valid")
<1>1. SessionInv =>
        (outcome # "none" /\ (\A i, j \in Signers : signed[i] = signed[j]) => outcome = "valid")
  BY OneDealSigned
<1> QED BY <1>1, SessionInvariance, PTL

\* Only shares of one deal sign, when those of several do not happen to add up to
\* the same.
THEOREM OnlyOneDeal ==
  ASSUME MixturesDiffer
  PROVE  SessionSpec => []OnlyOneDealSigns
<1>1. SessionInv => OnlyOneDealSigns
  <2> SUFFICES ASSUME SessionInv, outcome = "valid"
               PROVE  \A i, j \in Signers : signed[i] = signed[j]
    BY OneDealSigned DEF OnlyOneDealSigns
  <2>1. 1 \in Deals
    BY SessionAssumption
  <2>2. Sum([i \in Signers |-> ShareOf(signed[i], i)]) = Sum([i \in Signers |-> ShareOf(1, i)])
    BY <2>1, SharesOfDeals, SigningSum
  <2> QED BY <2>2, SharesOfDeals DEF MixturesDiffer
<1> QED BY <1>1, SessionInvariance, PTL

\* One signer is enough to spoil the signature: when all but one have used the same
\* deal, it verifies only if that one did too.
THEOREM OneOtherDealSpoils ==
  ASSUME DealsDiffer
  PROVE  SessionSpec =>
           [](outcome = "valid" =>
                \A i \in Signers, n \in Deals :
                   (\A j \in Signers \ {i} : signed[j] = n) => signed[i] = n)
<1>1. SessionInv => (outcome = "valid" =>
                       \A i \in Signers, n \in Deals :
                          (\A j \in Signers \ {i} : signed[j] = n) => signed[i] = n)
  <2> SUFFICES ASSUME SessionInv, outcome = "valid", NEW i \in Signers, NEW n \in Deals,
                      \A j \in Signers \ {i} : signed[j] = n, signed[i] # n
               PROVE  FALSE
    OBVIOUS
  <2>1. signed \in [Signers -> Deals]
    BY SharesOfDeals
  <2>2. signed = [j \in Signers |-> IF j = i THEN signed[i] ELSE n]
    BY <2>1
  <2>3. Sum([j \in Signers |-> ShareOf(signed[j], j)]) = Sum([j \in Signers |-> ShareOf(n, j)])
    BY SharesOfDeals, SigningSum
  <2>4. PICK deal, m : deal = signed /\ m = signed[i]
    OBVIOUS
  <2>5. m \in Deals /\ m # n /\ deal = [j \in Signers |-> IF j = i THEN m ELSE n]
    BY <2>1, <2>2, <2>4
  <2>6. Sum([j \in Signers |-> ShareOf(deal[j], j)]) # Sum([j \in Signers |-> ShareOf(n, j)])
    BY <2>5, OneOtherDeal
  <2> QED BY <2>3, <2>4, <2>6
<1> QED BY <1>1, SessionInvariance, PTL

\* Without exception: a signer that has stayed with the deal of whoever decides, in
\* each of its calls, is not named, whatever deals its peers have gone with.
THEOREM StayersNotNamed ==
  SessionSpec => [](judge # 0 => malicious \subseteq WithOtherDeals(judge))
<1>1. SessionInv => (judge # 0 => malicious \subseteq WithOtherDeals(judge))
  <2> SUFFICES ASSUME SessionInv, judge # 0
               PROVE  malicious \subseteq WithOtherDeals(judge)
    OBVIOUS
  <2>1. judge \in Deals
    BY DEF SessionInv, SessionTypeOK
  <2> QED BY <2>1, NamedHaveOtherDeals DEF SessionInv, DecidedInv
<1> QED BY <1>1, SessionInvariance, PTL

\* decide names exactly those that have gone with another deal than its own.
THEOREM NamedAreOtherDeals ==
  ASSUME DealsDiffer
  PROVE  SessionSpec => []NamesOtherDeals
<1>1. SessionInv => NamesOtherDeals
  <2> SUFFICES ASSUME SessionInv, judge # 0
               PROVE  malicious = WithOtherDeals(judge)
    BY DEF NamesOtherDeals
  <2>1. judge \in Deals
    BY DEF SessionInv, SessionTypeOK
  <2>2. malicious \subseteq WithOtherDeals(judge)
    BY <2>1, NamedHaveOtherDeals DEF SessionInv, DecidedInv
  <2>3. WithOtherDeals(judge) \subseteq malicious
    BY <2>1, OtherDealsNamed DEF SessionInv, DecidedInv
  <2> QED BY <2>2, <2>3
<1> QED BY <1>1, SessionInvariance, PTL
=============================================================================
