----------------------------- MODULE Keygen_proofs -----------------------------
(***************************************************************************)
(* The key generation.  The loops of the dealer build what the functional  *)
(* description of the dealer, GenerateWithDealer, says: for every          *)
(* threshold, every number of signers, and both builds.  And the key file  *)
(* keeps what it promises, for every number of programs, all keys and      *)
(* every file found at the start: its properties speak of runs that have   *)
(* ended; the invariant says, for every point a run can be at, what it has *)
(* in memory, and how that and the length of the text are related to what  *)
(* is in the file.                                                         *)
(***************************************************************************)
EXTENDS KeyFile, DealerLoops, FaFrost_proofs

-----------------------------------------------------------------------------
(* What is built: the share of a signer, and its keys for the peers S.     *)

Coeffs(d) ==
  [m \in 1..NumCoeffs |-> IF m = 1 THEN NormalizeKeygen(d.secret_key, d.secret_key).sk
                                   ELSE d.random.coeffs[m]]

Terms(d, x) == [m \in 1..NumCoeffs |-> Mul(Coeffs(d)[m], Power(x, m - 1))]

Package(d, a, S) ==
  [identifier             |-> a,
   signing_share          |-> Evaluate(Coeffs(d), a),
   signing_share_blinding |-> d.random.omega[a],
   pairwise_keys          |-> [b \in S |-> PairKey(d.random, a, b)]]

PublicPart(d, a, S) ==
  [signing_share_commitment |-> PedersenCommit(Evaluate(Coeffs(d), a), d.random.omega[a]),
   pairwise_key_commitments |->
      [b \in S |-> HashPairwiseKeyCommitment(PairKey(d.random, a, b))]]

\* The peers a has a key for when the rows before r are through, and row r up to
\* the column c.
Met(a, r, c) ==
  {b \in Identifier \ {a} : a < r \/ b < r \/ (a = r /\ b < c) \/ (b = r /\ a < c)}

\* The coefficients are scalars, and so are the terms of the polynomial.
LEMMA TermsType ==
  ASSUME NEW d \in [secret_key : Scalar, random : Randomness], NEW x \in Scalar
  PROVE  /\ NumCoeffs \in Nat \ {0}
         /\ \A m \in 1..NumCoeffs : Coeffs(d)[m] \in Scalar
         /\ ScalarMap(Terms(d, x))
         /\ Evaluate(Coeffs(d), x) = Sum(Terms(d, x))
<1>1. NumCoeffs \in Nat \ {0}
  BY MinSignersAssumption, MaxSignersAssumption DEF NumCoeffs
<1>2. ASSUME NEW m \in 1..NumCoeffs PROVE Coeffs(d)[m] \in Scalar
  <2>1. NormalizeKeygen(d.secret_key, d.secret_key).sk \in Scalar
    BY NormalizeKeygenType
  <2>2. m # 1 => d.random.coeffs[m] \in Scalar
    BY <1>1 DEF Randomness
  <2> QED BY <2>1, <2>2 DEF Coeffs
<1>3. ScalarMap(Terms(d, x))
  BY <1>2, PowerType, MulScalars DEF ScalarMap, Terms
<1>4. Evaluate(Coeffs(d), x) = Sum(Terms(d, x))
  <2>1. DOMAIN Coeffs(d) = 1..NumCoeffs
    BY DEF Coeffs
  <2> QED BY <2>1 DEF Evaluate, Terms
<1> QED BY <1>1, <1>2, <1>3, <1>4

\* The inner loop adds the terms in their order, and raises the power.
LEMMA TermAdded ==
  ASSUME NEW d \in [secret_key : Scalar, random : Randomness], NEW x \in Identifier,
         NEW m \in 1..NumCoeffs
  PROVE  /\ PartialSums(Terms(d, x))[m]
               = Add(PartialSums(Terms(d, x))[m - 1], Mul(Coeffs(d)[m], Power(x, m - 1)))
         /\ Power(x, m) = Mul(Power(x, m - 1), x)
<1>1. x \in Scalar /\ m \in Identifier
  BY IdentifierFacts, MinSignersAssumption, MaxSignersAssumption DEF Identifier, NumCoeffs
<1>2. PICK f : f = Terms(d, x)
  OBVIOUS
<1>3. ScalarMap(f) /\ DOMAIN f = 1..NumCoeffs
      /\ f[m] = Mul(Coeffs(d)[m], Power(x, m - 1))
  BY <1>1, <1>2, TermsType DEF Terms
<1>4. PartialSums(f)[m] = Add(PartialSums(f)[m - 1], f[m])
  BY <1>1, <1>3, PartialSumsStep
<1>5. Power(x, m) = Mul(Power(x, m - 1), x)
  <2>1. PICK k \in 0..(MaxSigners - 1) : m = k + 1 /\ m - 1 = k
    BY <1>1, MaxSignersAssumption DEF Identifier
  <2> QED BY <1>1, <2>1, PowerStep
<1> QED BY <1>2, <1>3, <1>4, <1>5

\* After the last coefficient the sum is the share.
LEMMA ShareEvaluated ==
  ASSUME NEW d \in [secret_key : Scalar, random : Randomness], NEW x \in Identifier
  PROVE  PartialSums(Terms(d, x))[NumCoeffs] = Evaluate(Coeffs(d), x)
<1>1. PICK f : f = Terms(d, x)
  OBVIOUS
<1>2. /\ ScalarMap(f) /\ DOMAIN f = 1..NumCoeffs /\ NumCoeffs \in Identifier
      /\ Evaluate(Coeffs(d), x) = Sum(f)
  BY <1>1, IdentifierFacts, TermsType, MinSignersAssumption, MaxSignersAssumption
     DEF Terms, Identifier, NumCoeffs
<1> DEFINE T == {k \in 0..MaxSigners :
                    k >= NumCoeffs => PartialSums(f)[k] = PartialSums(f)[NumCoeffs]}
<1>3. 0 \in T
  BY <1>2, MaxSignersAssumption DEF Identifier
<1>4. ASSUME NEW k \in Identifier, k - 1 \in T PROVE k \in T
  <2>1. CASE k > NumCoeffs
    <3>1. k \notin DOMAIN f /\ k - 1 >= NumCoeffs
      BY <1>2, <2>1 DEF Identifier
    <3>2. PartialSums(f)[k] = PartialSums(f)[k - 1]
      BY <1>2, <3>1, PartialSumsStep
    <3> QED BY <1>4, <3>1, <3>2 DEF Identifier
  <2>2. CASE ~ (k > NumCoeffs)
    BY <1>2, <2>2 DEF Identifier
  <2> QED BY <2>1, <2>2
<1> HIDE DEF T
<1>5. MaxSigners \in T
  BY <1>3, <1>4, InductionOnIdentifiers, MaxSignersAssumption
<1>6. PartialSums(f)[MaxSigners] = PartialSums(f)[NumCoeffs]
  BY <1>2, <1>5 DEF T, Identifier
<1> QED BY <1>1, <1>2, <1>6 DEF Sum

\* The rows and columns of the pairs.
LEMMA Rows ==
  ASSUME NEW a \in Identifier, NEW r \in 1..(MaxSigners + 1)
  PROVE  /\ Met(a, 1, 0) = {}
         /\ Met(a, r, r + 1) = Met(a, r, 0)
         /\ Met(a, r, MaxSigners + 1) = Met(a, r + 1, 0)
         /\ Met(a, MaxSigners + 1, 0) = Identifier \ {a}
         /\ \A c \in (r + 1)..MaxSigners :
               Met(a, r, c + 1) = Met(a, r, c) \cup (IF a = r THEN {c} ELSE {})
                                               \cup (IF a = c THEN {r} ELSE {})
<1> Identifier = 1..MaxSigners /\ MaxSigners \in Nat
  BY MaxSignersAssumption DEF Identifier
<1>1. Met(a, 1, 0) = {}
  BY DEF Met
<1>2. Met(a, r, r + 1) = Met(a, r, 0)
  BY DEF Met
<1>3. Met(a, r, MaxSigners + 1) = Met(a, r + 1, 0)
  BY DEF Met
<1>4. Met(a, MaxSigners + 1, 0) = Identifier \ {a}
  BY DEF Met
<1>5. ASSUME NEW c \in (r + 1)..MaxSigners
      PROVE  Met(a, r, c + 1) = Met(a, r, c) \cup (IF a = r THEN {c} ELSE {})
                                             \cup (IF a = c THEN {r} ELSE {})
  BY DEF Met
<1> QED BY <1>1, <1>2, <1>3, <1>4, <1>5

-----------------------------------------------------------------------------
(* The inductive invariant.                                                *)

Column == IF loop = "pairs" THEN j ELSE 0

\* The first loops: the shares before i are made, and that of i is the sum of
\* the terms before n.
MakingShares ==
  /\ loop = "shares"
  /\ i \in 1..(MaxSigners + 1) /\ n \in 1..(NumCoeffs + 1)
  /\ i <= MaxSigners => /\ y = PartialSums(Terms(dealing, i))[n - 1]
                        /\ pow = Power(i, n - 1)
  /\ shares = [a \in 1..(i - 1) |-> Package(dealing, a, {})]
  /\ vks = [a \in 1..(i - 1) |-> PublicPart(dealing, a, {})]

\* The second: the pairs before (i, j) have their keys.  When i + 1 has wrapped,
\* j is zero.
MakingKeys ==
  /\ loop \in {"row", "pairs", "done"}
  /\ i \in 1..(MaxSigners + 1)
  /\ loop = "pairs" => /\ i <= MaxSigners
                     /\ \/ j \in (i + 1)..(MaxSigners + 1) /\ i # IdMax
                        \/ j = 0 /\ i = IdMax
  /\ loop = "done" => i = MaxSigners + 1
  /\ i = MaxSigners + 1 => MaxSigners # IdMax
  /\ shares = [a \in Identifier |-> Package(dealing, a, Met(a, i, Column))]
  /\ vks = [a \in Identifier |-> PublicPart(dealing, a, Met(a, i, Column))]

LoopsInv ==
  /\ dealing \in [secret_key : Scalar, random : Randomness]
  /\ IdMax \in Nat \ {0} /\ MaxSigners <= IdMax
  /\ \/ MakingShares
     \/ MakingKeys
     \/ loop = "panicked" /\ MaxSigners = IdMax

\* Before the first identifier nothing is made.
LEMMA LoopsInit == ASSUME DealInit PROVE LoopsInv
<1>1. /\ dealing \in [secret_key : Scalar, random : Randomness]
      /\ IdMax \in Nat \ {0} /\ MaxSigners <= IdMax
  BY LoopsAssumption DEF DealInit
<1>2. NumCoeffs \in Nat \ {0} /\ MaxSigners \in Nat
  BY MinSignersAssumption, MaxSignersAssumption DEF NumCoeffs
<1>3. i <= MaxSigners => /\ y = PartialSums(Terms(dealing, i))[n - 1]
                         /\ pow = Power(i, n - 1)
  <2> SUFFICES ASSUME i <= MaxSigners
               PROVE  y = PartialSums(Terms(dealing, i))[n - 1] /\ pow = Power(i, n - 1)
    OBVIOUS
  <2>1. i \in Scalar /\ i = 1 /\ n - 1 = 0 /\ y = 0 /\ pow = 1
    BY ScalarFacts DEF DealInit
  <2>2. PartialSums(Terms(dealing, i))[0] = 0
    BY <1>1, <2>1, TermsType, PartialSumsStep
  <2> QED BY <2>1, <2>2, PowerStep
<1>4. /\ shares = [a \in 1..(i - 1) |-> Package(dealing, a, {})]
      /\ vks = [a \in 1..(i - 1) |-> PublicPart(dealing, a, {})]
  <2>1. 1..(i - 1) = {}
    BY DEF DealInit
  <2> QED BY <2>1 DEF DealInit, EmptyMap
<1>5. MakingShares
  BY <1>2, <1>3, <1>4 DEF DealInit, MakingShares
<1> QED BY <1>1, <1>5 DEF LoopsInv

\* One more term in the sum, one more factor in the power.
LEMMA AddTermKeeps == ASSUME LoopsInv, AddTerm PROVE LoopsInv'
<1>1. /\ MakingShares /\ i \in Identifier /\ n \in 1..NumCoeffs
      /\ UNCHANGED <<input, loop, i, j, shares, vks>>
  BY MinSignersAssumption, MaxSignersAssumption
     DEF AddTerm, LoopsInv, MakingShares, MakingKeys, Identifier, NumCoeffs
<1>2. dealing \in [secret_key : Scalar, random : Randomness]
  BY DEF LoopsInv
<1>3. y' = PartialSums(Terms(dealing, i))[n] /\ pow' = Power(i, n)
  <2>1. Coeff(n) = Coeffs(dealing)[n]
    BY <1>1 DEF Coeff, Coeffs, keypair
  <2>2. y = PartialSums(Terms(dealing, i))[n - 1] /\ pow = Power(i, n - 1)
    BY <1>1 DEF MakingShares, Identifier
  <2> QED BY <1>1, <1>2, <2>1, <2>2, TermAdded DEF AddTerm
<1>4. n' = n + 1 /\ n' \in 1..(NumCoeffs + 1) /\ n' - 1 = n
  BY <1>1, MinSignersAssumption, MaxSignersAssumption DEF AddTerm, NumCoeffs
<1>5. MakingShares'
  BY <1>1, <1>3, <1>4 DEF MakingShares, input
<1> QED BY <1>1, <1>5 DEF LoopsInv, input

\* The sum is the share of i when its packages are made.
LEMMA InsertShareKeeps == ASSUME LoopsInv, InsertShare PROVE LoopsInv'
<1>1. /\ MakingShares /\ i \in Identifier /\ n = NumCoeffs + 1
      /\ UNCHANGED <<input, loop, j>>
      /\ i' = i + 1 /\ n' = 1 /\ y' = 0 /\ pow' = 1
  BY MinSignersAssumption, MaxSignersAssumption
     DEF InsertShare, LoopsInv, MakingShares, MakingKeys, Identifier, NumCoeffs
<1>2. dealing \in [secret_key : Scalar, random : Randomness]
  BY DEF LoopsInv
<1>3. NumCoeffs \in Nat \ {0} /\ i' \in 1..(MaxSigners + 1) /\ i' - 1 = i
  BY <1>1, MinSignersAssumption, MaxSignersAssumption DEF NumCoeffs, Identifier
<1>4. y = Evaluate(Coeffs(dealing), i)
  <2>1. y = PartialSums(Terms(dealing, i))[n - 1] /\ n - 1 = NumCoeffs
    BY <1>1, <1>3 DEF MakingShares, Identifier
  <2> QED BY <1>1, <1>2, <2>1, ShareEvaluated
<1>5. 1..i = (1..(i - 1)) \cup {i} /\ i \notin 1..(i - 1)
  BY <1>1 DEF Identifier
<1>6. shares' = [a \in 1..i |-> Package(dealing, a, {})]
  <2>1. [identifier |-> i, signing_share |-> y,
         signing_share_blinding |-> dealing.random.omega[i],
         pairwise_keys |-> EmptyMap] = Package(dealing, i, {})
    BY <1>4 DEF Package, EmptyMap
  <2>2. shares' = Insert(shares, i, Package(dealing, i, {}))
    BY <2>1 DEF InsertShare
  <2>3. shares = [a \in 1..(i - 1) |-> Package(dealing, a, {})]
    BY <1>1 DEF MakingShares
  <2> HIDE DEF InsertShare
  <2> QED BY <1>5, <2>2, <2>3 DEF Insert
<1>7. vks' = [a \in 1..i |-> PublicPart(dealing, a, {})]
  <2>1. [signing_share_commitment |-> PedersenCommit(y, dealing.random.omega[i]),
         pairwise_key_commitments |-> EmptyMap] = PublicPart(dealing, i, {})
    BY <1>4 DEF PublicPart, EmptyMap
  <2>2. vks' = Insert(vks, i, PublicPart(dealing, i, {}))
    BY <2>1 DEF InsertShare
  <2>3. vks = [a \in 1..(i - 1) |-> PublicPart(dealing, a, {})]
    BY <1>1 DEF MakingShares
  <2> QED BY <1>5, <2>2, <2>3 DEF Insert
<1>8. i' <= MaxSigners => /\ 0 = PartialSums(Terms(dealing, i'))[0]
                          /\ 1 = Power(i', 0)
  <2> SUFFICES ASSUME i' <= MaxSigners
               PROVE  0 = PartialSums(Terms(dealing, i'))[0] /\ 1 = Power(i', 0)
    OBVIOUS
  <2>1. i' \in Scalar
    BY <1>3, IdentifierFacts DEF Identifier
  <2> QED BY <1>2, <2>1, TermsType, PartialSumsStep, PowerStep
<1>9. MakingShares'
  BY <1>1, <1>3, <1>6, <1>7, <1>8 DEF MakingShares, input
<1> QED BY <1>1, <1>9 DEF LoopsInv, input

\* Nobody has a key when the pairs begin.
LEMMA StartPairsKeeps == ASSUME LoopsInv, StartPairs PROVE LoopsInv'
<1>1. /\ MakingShares /\ i = MaxSigners + 1 /\ loop' = "row" /\ i' = 1
      /\ UNCHANGED <<input, j, n, y, pow, shares, vks>>
  BY MaxSignersAssumption DEF StartPairs, LoopsInv, MakingShares, MakingKeys
<1>2. 1 \in 1..(MaxSigners + 1) /\ (1 = MaxSigners + 1 => MaxSigners # IdMax)
  BY MaxSignersAssumption DEF LoopsInv
<1>3. 1..(i - 1) = Identifier
  BY <1>1, MaxSignersAssumption DEF Identifier
<1>4. \A a \in Identifier : Met(a, 1, 0) = {}
  BY <1>2, Rows
<1>5. /\ shares' = [a \in Identifier |-> Package(dealing, a, Met(a, 1, 0))]
      /\ vks' = [a \in Identifier |-> PublicPart(dealing, a, Met(a, 1, 0))]
  BY <1>1, <1>3, <1>4 DEF MakingShares
<1>6. MakingKeys'
  BY <1>1, <1>2, <1>5 DEF MakingKeys, Column, input
<1> QED BY <1>1, <1>6 DEF LoopsInv, input

\* A row begins behind its diagonal; the sum i + 1 is too large only for the last of
\* as many signers as there are identifiers.
LEMMA StartRowKeeps == ASSUME LoopsInv, StartRow PROVE LoopsInv'
<1>1. /\ MakingKeys /\ loop = "row" /\ i \in 1..MaxSigners
      /\ UNCHANGED <<input, i, n, y, pow, shares, vks>>
  BY MaxSignersAssumption DEF StartRow, LoopsInv, MakingShares, MakingKeys
<1>2. CASE loop' = "panicked"
  <2>1. i = IdMax
    BY <1>2 DEF StartRow
  <2>2. MaxSigners = IdMax
    BY <1>1, <2>1, MaxSignersAssumption DEF LoopsInv
  <2> QED BY <1>1, <1>2, <2>2 DEF LoopsInv, input
<1>3. CASE loop' # "panicked"
  <2>1. loop' = "pairs" /\ j' = IF i = IdMax THEN 0 ELSE i + 1
    BY <1>3 DEF StartRow
  <2>2. i + 1 \in (i + 1)..(MaxSigners + 1)
    BY <1>1, MaxSignersAssumption
  <2>3. \A a \in Identifier : Met(a, i, j') = Met(a, i, 0)
    <3>1. i \in 1..(MaxSigners + 1)
      BY <1>1, MaxSignersAssumption
    <3> QED BY <2>1, <3>1, Rows
  <2>4. /\ shares' = [a \in Identifier |-> Package(dealing, a, Met(a, i, j'))]
        /\ vks' = [a \in Identifier |-> PublicPart(dealing, a, Met(a, i, j'))]
    BY <1>1, <2>3 DEF MakingKeys, Column
  <2>5. MakingKeys'
    BY <1>1, <2>1, <2>2, <2>4, MaxSignersAssumption DEF MakingKeys, Column, input
  <2> QED BY <1>1, <2>5 DEF LoopsInv, input
<1> QED BY <1>2, <1>3

\* One key more for i and for j, the same for both.
LEMMA InsertPairKeeps == ASSUME LoopsInv, InsertPair PROVE LoopsInv'
<1>1. /\ MakingKeys /\ loop = "pairs" /\ i \in Identifier /\ j <= MaxSigners
      /\ \/ j \in (i + 1)..(MaxSigners + 1) /\ i # IdMax
         \/ j = 0 /\ i = IdMax
      /\ UNCHANGED <<input, i, n, y, pow>>
  BY MaxSignersAssumption DEF InsertPair, LoopsInv, MakingShares, MakingKeys, Identifier
<1>2. DOMAIN shares = Identifier
  BY <1>1 DEF MakingKeys
<1>3. CASE j \notin DOMAIN shares
  <2>1. i = IdMax /\ loop' = "panicked"
    BY <1>1, <1>2, <1>3, MaxSignersAssumption DEF InsertPair, Identifier
  <2>2. MaxSigners = IdMax
    BY <1>1, <2>1, MaxSignersAssumption DEF LoopsInv, Identifier
  <2> QED BY <1>1, <2>1, <2>2 DEF LoopsInv, input
<1>4. CASE j \in DOMAIN shares
  <2>1. /\ j \in Identifier /\ i # j /\ j \in (i + 1)..MaxSigners /\ i # IdMax
        /\ i \in 1..(MaxSigners + 1) /\ j + 1 \in (i + 1)..(MaxSigners + 1)
    BY <1>1, <1>2, <1>4, MaxSignersAssumption DEF Identifier
  <2>2. PICK k, K : k = PairKey(dealing.random, i, j) /\ K = HashPairwiseKeyCommitment(k)
    OBVIOUS
  <2>3. /\ shares' = [shares EXCEPT ![i].pairwise_keys = Insert(@, j, k),
                                    ![j].pairwise_keys = Insert(@, i, k)]
        /\ vks' = [vks EXCEPT ![i].pairwise_key_commitments = Insert(@, j, K),
                              ![j].pairwise_key_commitments = Insert(@, i, K)]
        /\ j' = j + 1 /\ loop' = loop
    BY <1>4, <2>2 DEF InsertPair
  <2>4. k = PairKey(dealing.random, j, i)
    <3>1. {i, j} = {j, i}
      OBVIOUS
    <3> QED BY <2>2, <3>1 DEF PairKey
  <2>5. PICK S, T : /\ S = [a \in Identifier |-> Met(a, i, j)]
                    /\ T = [a \in Identifier |-> Met(a, i, j + 1)]
    OBVIOUS
  <2>6. \A a \in Identifier :
           T[a] = S[a] \cup (IF a = i THEN {j} ELSE {}) \cup (IF a = j THEN {i} ELSE {})
    BY <2>1, <2>5, Rows
  <2>11. /\ T[i] = S[i] \cup {j} /\ T[j] = S[j] \cup {i}
         /\ \A a \in Identifier \ {i, j} : T[a] = S[a]
    BY <1>1, <2>1, <2>6
  <2>7. /\ shares = [a \in Identifier |-> Package(dealing, a, S[a])]
        /\ vks = [a \in Identifier |-> PublicPart(dealing, a, S[a])]
    BY <1>1, <2>5 DEF MakingKeys, Column
  <2>8. shares' = [a \in Identifier |-> Package(dealing, a, T[a])]
    <3>1. /\ DOMAIN shares' = Identifier
          /\ \A a \in Identifier \ {i, j} : shares'[a] = shares[a]
          /\ shares'[i] = [shares[i] EXCEPT !.pairwise_keys = Insert(@, j, k)]
          /\ shares'[j] = [shares[j] EXCEPT !.pairwise_keys = Insert(@, i, k)]
          /\ shares' = [a \in Identifier |-> shares'[a]]
      BY <1>1, <2>1, <2>3, <2>7
    <3>2. shares[i] = Package(dealing, i, S[i]) /\ shares[j] = Package(dealing, j, S[j])
      BY <1>1, <2>1, <2>7
    <3>3. shares'[i] = Package(dealing, i, T[i])
      <4>1. PICK P : P = S[i]
        OBVIOUS
      <4>2. PICK p, q : p = Package(dealing, i, P) /\ q = Package(dealing, i, P \cup {j})
        OBVIOUS
      <4>3. PICK f, g :
               /\ f = [c \in P |-> PairKey(dealing.random, i, c)]
               /\ g = [c \in P \cup {j} |-> PairKey(dealing.random, i, c)]
        OBVIOUS
      <4>4. PICK u, w : u = Evaluate(Coeffs(dealing), i) /\ w = dealing.random.omega[i]
        OBVIOUS
      <4>5. /\ p = [identifier |-> i, signing_share |-> u, signing_share_blinding |-> w,
                   pairwise_keys |-> f]
            /\ q = [identifier |-> i, signing_share |-> u, signing_share_blinding |-> w,
                   pairwise_keys |-> g]
        BY ONLY <4>2, <4>3, <4>4 DEF Package
      <4>6. g = Insert(f, j, k)
        BY ONLY <2>2, <4>3 DEF Insert
      <4>7. q = [p EXCEPT !.pairwise_keys = Insert(@, j, k)]
        BY ONLY <4>5, <4>6
      <4> QED BY ONLY <2>11, <3>1, <3>2, <4>1, <4>2, <4>7
    <3>4. shares'[j] = Package(dealing, j, T[j])
      <4>1. PICK P : P = S[j]
        OBVIOUS
      <4>2. PICK p, q : p = Package(dealing, j, P) /\ q = Package(dealing, j, P \cup {i})
        OBVIOUS
      <4>3. PICK f, g :
               /\ f = [c \in P |-> PairKey(dealing.random, j, c)]
               /\ g = [c \in P \cup {i} |-> PairKey(dealing.random, j, c)]
        OBVIOUS
      <4>4. PICK u, w : u = Evaluate(Coeffs(dealing), j) /\ w = dealing.random.omega[j]
        OBVIOUS
      <4>5. /\ p = [identifier |-> j, signing_share |-> u, signing_share_blinding |-> w,
                   pairwise_keys |-> f]
            /\ q = [identifier |-> j, signing_share |-> u, signing_share_blinding |-> w,
                   pairwise_keys |-> g]
        BY ONLY <4>2, <4>3, <4>4 DEF Package
      <4>6. g = Insert(f, i, k)
        BY ONLY <2>4, <4>3 DEF Insert
      <4>7. q = [p EXCEPT !.pairwise_keys = Insert(@, i, k)]
        BY ONLY <4>5, <4>6
      <4> QED BY ONLY <2>11, <3>1, <3>2, <4>1, <4>2, <4>7
    <3>5. ASSUME NEW a \in Identifier PROVE shares'[a] = Package(dealing, a, T[a])
      <4>1. a \notin {i, j} => shares'[a] = Package(dealing, a, S[a])
        BY <2>7, <3>1
      <4> QED BY <2>11, <3>3, <3>4, <4>1
    <3> QED BY <3>1, <3>5
  <2>9. vks' = [a \in Identifier |-> PublicPart(dealing, a, T[a])]
    <3>1. /\ DOMAIN vks' = Identifier
          /\ \A a \in Identifier \ {i, j} : vks'[a] = vks[a]
          /\ vks'[i] = [vks[i] EXCEPT !.pairwise_key_commitments = Insert(@, j, K)]
          /\ vks'[j] = [vks[j] EXCEPT !.pairwise_key_commitments = Insert(@, i, K)]
          /\ vks' = [a \in Identifier |-> vks'[a]]
      BY <1>1, <2>1, <2>3, <2>7
    <3>2. vks[i] = PublicPart(dealing, i, S[i]) /\ vks[j] = PublicPart(dealing, j, S[j])
      BY <1>1, <2>1, <2>7
    <3>3. vks'[i] = PublicPart(dealing, i, T[i])
      <4>1. PICK P : P = S[i]
        OBVIOUS
      <4>2. PICK p, q : p = PublicPart(dealing, i, P) /\ q = PublicPart(dealing, i, P \cup {j})
        OBVIOUS
      <4>3. PICK f, g :
               /\ f = [c \in P |-> HashPairwiseKeyCommitment(PairKey(dealing.random, i, c))]
               /\ g = [c \in P \cup {j} |->
                         HashPairwiseKeyCommitment(PairKey(dealing.random, i, c))]
        OBVIOUS
      <4>4. PICK u : u = PedersenCommit(Evaluate(Coeffs(dealing), i), dealing.random.omega[i])
        OBVIOUS
      <4>5. /\ p = [signing_share_commitment |-> u, pairwise_key_commitments |-> f]
            /\ q = [signing_share_commitment |-> u, pairwise_key_commitments |-> g]
        BY ONLY <4>2, <4>3, <4>4 DEF PublicPart
      <4>6. g = Insert(f, j, K)
        BY ONLY <2>2, <4>3 DEF Insert
      <4>7. q = [p EXCEPT !.pairwise_key_commitments = Insert(@, j, K)]
        BY ONLY <4>5, <4>6
      <4> QED BY ONLY <2>11, <3>1, <3>2, <4>1, <4>2, <4>7
    <3>4. vks'[j] = PublicPart(dealing, j, T[j])
      <4>1. PICK P : P = S[j]
        OBVIOUS
      <4>2. PICK p, q : p = PublicPart(dealing, j, P) /\ q = PublicPart(dealing, j, P \cup {i})
        OBVIOUS
      <4>3. PICK f, g :
               /\ f = [c \in P |-> HashPairwiseKeyCommitment(PairKey(dealing.random, j, c))]
               /\ g = [c \in P \cup {i} |->
                         HashPairwiseKeyCommitment(PairKey(dealing.random, j, c))]
        OBVIOUS
      <4>4. PICK u : u = PedersenCommit(Evaluate(Coeffs(dealing), j), dealing.random.omega[j])
        OBVIOUS
      <4>5. /\ p = [signing_share_commitment |-> u, pairwise_key_commitments |-> f]
            /\ q = [signing_share_commitment |-> u, pairwise_key_commitments |-> g]
        BY ONLY <4>2, <4>3, <4>4 DEF PublicPart
      <4>6. g = Insert(f, i, K)
        BY ONLY <2>2, <2>4, <4>3 DEF Insert
      <4>7. q = [p EXCEPT !.pairwise_key_commitments = Insert(@, i, K)]
        BY ONLY <4>5, <4>6
      <4> QED BY ONLY <2>11, <3>1, <3>2, <4>1, <4>2, <4>7
    <3>5. ASSUME NEW a \in Identifier PROVE vks'[a] = PublicPart(dealing, a, T[a])
      <4>1. a \notin {i, j} => vks'[a] = PublicPart(dealing, a, S[a])
        BY <2>7, <3>1
      <4> QED BY <2>11, <3>3, <3>4, <4>1
    <3> QED BY <3>1, <3>5
  <2>10. MakingKeys'
    <3>1. Column' = j + 1 /\ i' = i /\ dealing' = dealing /\ IdMax' = IdMax
          /\ loop' = "pairs" /\ j' = j + 1
      BY <1>1, <2>3 DEF Column, input
    <3>2. \A a \in Identifier : T[a] = Met(a, i', Column')
      BY <2>5, <3>1
    <3>3. /\ shares' = [a \in Identifier |-> Package(dealing', a, Met(a, i', Column'))]
          /\ vks' = [a \in Identifier |-> PublicPart(dealing', a, Met(a, i', Column'))]
      BY <2>8, <2>9, <3>1, <3>2
    <3>4. i <= MaxSigners /\ i # MaxSigners + 1
      BY <1>1, MaxSignersAssumption DEF Identifier
    <3> QED BY <2>1, <3>1, <3>3, <3>4 DEF MakingKeys
  <2> QED BY <1>1, <2>10 DEF LoopsInv, input
<1> QED BY <1>3, <1>4

\* A row that is through leaves the next one to begin.
LEMMA EndRowKeeps == ASSUME LoopsInv, EndRow PROVE LoopsInv'
<1>1. /\ MakingKeys /\ loop = "pairs" /\ i \in 1..MaxSigners /\ i # IdMax
      /\ j = MaxSigners + 1
      /\ loop' = "row" /\ i' = i + 1
      /\ UNCHANGED <<input, j, n, y, pow, shares, vks>>
  BY MaxSignersAssumption DEF EndRow, LoopsInv, MakingShares, MakingKeys
<1>2. i + 1 \in 1..(MaxSigners + 1) /\ i \in 1..(MaxSigners + 1)
      /\ (i + 1 = MaxSigners + 1 => MaxSigners # IdMax)
  BY <1>1, MaxSignersAssumption
<1>3. \A a \in Identifier : Met(a, i, j) = Met(a, i + 1, 0)
  BY <1>1, <1>2, Rows
<1>4. /\ shares' = [a \in Identifier |-> Package(dealing, a, Met(a, i + 1, 0))]
      /\ vks' = [a \in Identifier |-> PublicPart(dealing, a, Met(a, i + 1, 0))]
  BY <1>1, <1>3 DEF MakingKeys, Column
<1>5. MakingKeys'
  BY <1>1, <1>2, <1>4 DEF MakingKeys, Column, input
<1> QED BY <1>1, <1>5 DEF LoopsInv, input

\* The packages returned are those the rows have left.
LEMMA ReturnKeeps == ASSUME LoopsInv, Return PROVE LoopsInv'
<1>1. /\ MakingKeys /\ loop = "row" /\ i = MaxSigners + 1 /\ loop' = "done"
      /\ UNCHANGED <<input, i, j, n, y, pow, shares, vks>>
  BY MaxSignersAssumption DEF Return, LoopsInv, MakingShares, MakingKeys
<1>2. MakingKeys'
  BY <1>1 DEF MakingKeys, Column, input
<1> QED BY <1>1, <1>2 DEF LoopsInv, input

\* A step that changes nothing keeps the invariant.
LEMMA LoopsUnchanged == ASSUME LoopsInv, UNCHANGED loopvars PROVE LoopsInv'
<1> USE DEF loopvars, input
<1>1. CASE MakingShares
  BY <1>1 DEF LoopsInv, MakingShares
<1>2. CASE MakingKeys
  BY <1>2 DEF LoopsInv, MakingKeys, Column
<1>3. CASE loop = "panicked" /\ MaxSigners = IdMax
  BY <1>3 DEF LoopsInv
<1> QED BY <1>1, <1>2, <1>3 DEF LoopsInv

\* The invariant holds in every state of every deal.
THEOREM Invariance == DealSpec => []LoopsInv
<1>1. DealInit => LoopsInv
  BY LoopsInit
<1>2. LoopsInv /\ [DealNext]_loopvars => LoopsInv'
  BY AddTermKeeps, InsertShareKeeps, StartPairsKeeps, StartRowKeeps, InsertPairKeeps,
     EndRowKeeps, ReturnKeeps, LoopsUnchanged DEF DealNext, DealTerminated
<1> QED BY <1>1, <1>2, PTL DEF DealSpec

-----------------------------------------------------------------------------

\* The packages returned are those of GenerateWithDealer.
THEOREM DealsAsSpecified == DealSpec => []LoopsDeal
<1>1. LoopsInv => LoopsDeal
  <2> SUFFICES ASSUME LoopsInv, loop = "done"
               PROVE  [shares |-> shares,
                       pubkeys |-> [verifying_key |-> keypair.vk,
                                   partial_verification_keys |-> vks]]
                         = GenerateWithDealer(dealing.secret_key, dealing.random)
    BY DEF LoopsDeal
  <2>1. /\ MakingKeys /\ i = MaxSigners + 1 /\ i \in 1..(MaxSigners + 1) /\ Column = 0
    BY DEF LoopsInv, MakingShares, MakingKeys, Column
  <2>2. \A a \in Identifier : Met(a, i, Column) = Identifier \ {a}
    BY <2>1, Rows
  <2>3. /\ shares = [a \in Identifier |-> Package(dealing, a, Identifier \ {a})]
        /\ vks = [a \in Identifier |-> PublicPart(dealing, a, Identifier \ {a})]
    BY <2>1, <2>2 DEF MakingKeys
  <2>4. \A a \in Identifier :
           /\ Package(dealing, a, Identifier \ {a})
                 = KeyPackage(a, Evaluate(Coeffs(dealing), a), dealing.random)
           /\ PublicPart(dealing, a, Identifier \ {a})
                 = PartialVerificationKey(a, Evaluate(Coeffs(dealing), a), dealing.random)
    BY DEF Package, KeyPackage, PublicPart, PartialVerificationKey
  <2>5. PICK P, V :
           /\ P = [a \in Identifier |-> KeyPackage(a, Evaluate(Coeffs(dealing), a), dealing.random)]
           /\ V = [a \in Identifier |->
                     PartialVerificationKey(a, Evaluate(Coeffs(dealing), a), dealing.random)]
    OBVIOUS
  <2>6. shares = P /\ vks = V
    BY <2>3, <2>4, <2>5
  <2>7. GenerateWithDealer(dealing.secret_key, dealing.random)
           = [shares |-> P,
              pubkeys |-> [verifying_key |-> keypair.vk, partial_verification_keys |-> V]]
    BY <2>5 DEF GenerateWithDealer, Coeffs, keypair
  <2> QED BY <2>6, <2>7
<1> QED BY <1>1, Invariance, PTL

\* A deal panics only if there are as many signers as there are identifiers, and
\* then it never returns packages.
THEOREM PanicsAtLimit ==
  DealSpec => []((loop = "panicked" => MaxSigners = IdMax)
                 /\ (loop = "done" => MaxSigners # IdMax))
<1>1. LoopsInv => (loop = "panicked" => MaxSigners = IdMax)
                  /\ (loop = "done" => MaxSigners # IdMax)
  BY DEF LoopsInv, MakingShares, MakingKeys
<1> QED BY <1>1, Invariance, PTL

-----------------------------------------------------------------------------
(* Keys.                                                                   *)

\* A normalised key is a key, and stays what it is when it is normalised again:
\* the negation of an odd logarithm is even, the order being odd.
LEMMA NormalizeTwice ==
  ASSUME NEW sk \in Scalar
  PROVE  LET norm == NormalizeKeygen(sk, sk)
         IN  /\ norm.sk \in Scalar /\ norm.vk = norm.sk
             /\ NormalizeKeygen(norm.sk, norm.sk) = norm
<1>1. CASE Suite = "bip340" /\ HasOddY(sk)
  <2>1. NormalizeKeygen(sk, sk) = [sk |-> Neg(sk), vk |-> Neg(sk)]
    BY <1>1 DEF NormalizeKeygen
  <2>2. sk # 0 /\ Neg(sk) = Q - sk
    BY <1>1 DEF HasOddY, Neg
  <2>3. (Q - sk) % 2 = 0
    BY <1>1, OddOrder, QAssumption DEF HasOddY, Scalar
  <2>4. ~ HasOddY(Neg(sk))
    BY <2>2, <2>3 DEF HasOddY
  <2>5. NormalizeKeygen(Neg(sk), Neg(sk)) = [sk |-> Neg(sk), vk |-> Neg(sk)]
    BY <2>4 DEF NormalizeKeygen
  <2> QED BY <2>1, <2>5, NegType
<1>2. CASE ~ (Suite = "bip340" /\ HasOddY(sk))
  BY <1>2 DEF NormalizeKeygen
<1> QED BY <1>1, <1>2

\* A number of signers is a natural number, and has at least one digit.
LEMMA DigitsType == U16 \subseteq Nat /\ \A m \in U16 : Digits(m) \in 1..5
<1>1. U16 \subseteq Nat
  BY DEF U16, MaxU16
<1>2. ASSUME NEW m \in Nat PROVE Digits(m) \in 1..5
  BY DEF Digits
<1> QED BY <1>1, <1>2

\* The text of a key has more than one character.
LEMMA TextLengthType == \A k \in StoredKeys : TextLength(k) \in Nat \ {0, 1}
<1> SUFFICES ASSUME NEW k \in StoredKeys PROVE TextLength(k) \in Nat \ {0, 1}
  OBVIOUS
<1>1. k.max_signers \in U16 /\ k.min_signers \in U16
  BY DEF StoredKeys
<1>2. Digits(k.max_signers) \in 1..5 /\ Digits(k.min_signers) \in 1..5
  BY <1>1, DigitsType
<1> QED BY <1>2, ArgumentsAssumption DEF TextLength

\* What write_key_yaml writes is a StoredKey, and the key dealt from it is the one
\* that is in it.
LEMMA StoredKeyType ==
  ASSUME NEW sk \in Scalar, NEW max \in U16, NEW min \in U16
  PROVE  LET k == StoredKey(sk, max, min)
         IN  /\ k \in StoredKeys
             /\ k.max_signers = max /\ k.min_signers = min /\ k.scheme = SCHEME_ID
             /\ k.secret_key \in Scalar
             /\ NormalizeKeygen(k.secret_key, k.secret_key)
                  = [sk |-> k.secret_key, vk |-> k.verifying_key]
<1>1. PICK norm : norm = NormalizeKeygen(sk, sk)
  OBVIOUS
<1>2. norm.sk \in Scalar /\ norm.vk = norm.sk /\ NormalizeKeygen(norm.sk, norm.sk) = norm
  BY <1>1, NormalizeTwice
<1>3. norm = [sk |-> norm.sk, vk |-> norm.vk]
  BY <1>1 DEF NormalizeKeygen
<1>4. StoredKey(sk, max, min) = [scheme |-> SCHEME_ID, max_signers |-> max,
           min_signers |-> min, secret_key |-> norm.sk, verifying_key |-> norm.vk]
  BY <1>1 DEF StoredKey
<1> QED BY <1>2, <1>3, <1>4, FilesAssumption DEF StoredKeys

\* A key that can be read is dealt as a valid key.
LEMMA ReadableDeals ==
  ASSUME NEW text \in StoredKeys, ValidateStoredKey(text), ~ DealerPanics(text)
  PROVE  DealtKey(text) \in ValidKeys
<1>1. PICK norm : norm = NormalizeKeygen(text.secret_key, text.secret_key)
  OBVIOUS
<1>2. text.secret_key \in Scalar
  BY DEF ValidateStoredKey
<1>3. norm.sk \in Scalar /\ norm.vk = norm.sk /\ NormalizeKeygen(norm.sk, norm.sk) = norm
  BY <1>1, <1>2, NormalizeTwice
<1>4. DealtKey(text) = [max_signers |-> text.max_signers, min_signers |-> text.min_signers,
                        secret_key |-> norm.sk, verifying_key |-> norm.vk]
  BY <1>1 DEF DealtKey
<1>5. text.max_signers \in U16 /\ text.min_signers \in U16
  BY DEF StoredKeys
<1>6. text.min_signers \in 1..text.max_signers
  <2>1. text.min_signers \in Nat /\ text.max_signers \in Nat
    BY <1>5, DigitsType
  <2>2. text.min_signers # 0 /\ text.min_signers <= text.max_signers
    BY DEF ValidateStoredKey
  <2> QED BY <2>1, <2>2
<1>7. text.max_signers # MaxU16
  BY DEF DealerPanics
<1> QED BY <1>3, <1>4, <1>5, <1>6, <1>7 DEF ValidKeys, DealerKeys

-----------------------------------------------------------------------------
(* The invariant.                                                          *)

\* p has in memory what write_key_yaml writes for some key and thresholds.
InHand(p) ==
  \E sk \in Secrets, a \in Arguments :
     /\ a.min_signers <= a.max_signers
     /\ key[p] = StoredKey(sk, a.max_signers, a.min_signers)

\* A keygen has its key in memory from the start on, and has not changed the
\* file before it opens it.
KeysInHand ==
  \A p \in Keygens :
     /\ pc[p] \in {"start", "refused"} => key[p] = NoFile
     /\ pc[p] \in {"open", "write", "deal", "killed", "torn", "panicked", "done"} => InHand(p)
     /\ pc[p] \in {"start", "refused", "open"} => last # p
     /\ pc[p] = "write" => last # NoFile

\* Once a keygen has truncated the file, it is not longer than the longest text
\* that one of them has come to write.
LengthFits ==
  last # NoFile /\ length > 0 =>
     \E q \in Keygens :
        /\ pc[q] \in {"torn", "deal", "killed", "panicked", "done"}
        /\ key[q] # NoFile
        /\ length <= TextLength(key[q])

\* What the last keygen that has written has left.
FileIsLast ==
  \A p \in Keygens :
     last = p /\ pc[p] \in {"deal", "killed", "panicked", "done"} =>
        file = key[p] \/ OverwritesLonger(p)

\* A keygen deals the key it has in memory, unless the dealer panics.
DealtInHand ==
  \A p \in Keygens :
     pc[p] = "done" => dealt[p] = DealtKey(key[p]) /\ ~ DealerPanics(key[p])

\* The other programs deal at the end only.
NotDealtYet ==
  \A p \in Addresses \cup Spends : pc[p] \in {"start", "deal"} => dealt[p] = NoFile

KeyFileInv ==
  /\ TypeOK
  /\ KeysInHand
  /\ LengthFits
  /\ FileIsLast
  /\ LostOnlyInWrite
  /\ DealtInHand
  /\ NotDealtYet

-----------------------------------------------------------------------------
(* What is in memory.                                                      *)

\* What a keygen has in memory is a StoredKey it can read back, unless its
\* threshold is zero.
LEMMA InHandFacts ==
  ASSUME NEW p, InHand(p)
  PROVE  /\ key[p] \in StoredKeys /\ key[p] # NoFile /\ key[p] # Garbled
         /\ TextLength(key[p]) \in Nat \ {0, 1}
         /\ key[p].min_signers # 0 => ValidateStoredKey(key[p])
         /\ DealtKey(key[p]) \in DealerKeys
         /\ DealtKey(key[p]).verifying_key = key[p].verifying_key
<1>1. PICK sk \in Scalar, max \in U16, min \in U16 :
         min <= max /\ key[p] = StoredKey(sk, max, min)
  BY ArgumentsAssumption DEF InHand
<1>2. PICK k : k = key[p]
  OBVIOUS
<1>3. /\ k \in StoredKeys
      /\ k.max_signers = max /\ k.min_signers = min /\ k.scheme = SCHEME_ID
      /\ k.secret_key \in Scalar
      /\ NormalizeKeygen(k.secret_key, k.secret_key)
           = [sk |-> k.secret_key, vk |-> k.verifying_key]
  BY <1>1, <1>2, StoredKeyType
<1>4. k # NoFile /\ k # Garbled /\ TextLength(k) \in Nat \ {0, 1}
  BY <1>3, FilesAssumption, TextLengthType
<1>5. k.min_signers # 0 => ValidateStoredKey(k)
  <2>1. k.min_signers # 0 => k.max_signers # 0
    BY <1>1, <1>3, DigitsType
  <2> QED BY <1>1, <1>3, <2>1 DEF ValidateStoredKey
<1>6. DealtKey(k) = [max_signers |-> max, min_signers |-> min,
                     secret_key |-> k.secret_key, verifying_key |-> k.verifying_key]
  BY <1>3 DEF DealtKey
<1>7. k.verifying_key \in Scalar
  BY <1>3 DEF StoredKeys
<1>8. DealtKey(k) \in DealerKeys /\ DealtKey(k).verifying_key = k.verifying_key
  BY <1>3, <1>6, <1>7 DEF DealerKeys
<1> QED BY <1>2, <1>3, <1>4, <1>5, <1>8

\* A text that can be read is a StoredKey of which a valid key is dealt.
LEMMA ReadableFacts ==
  ASSUME TypeOK
  PROVE  /\ Readable(file) => file \in StoredKeys
         /\ Deals(file) => DealtKey(file) \in ValidKeys
  BY ReadableDeals DEF TypeOK, Readable, Deals

\* The invariant holds at the start.
LEMMA KeyFileInit == Init => KeyFileInv
<1> SUFFICES ASSUME Init PROVE KeyFileInv
  OBVIOUS
<1>1. TypeOK
  <2>1. length \in Nat /\ newlines \in 0..length
    <3>1. CASE file = NoFile
      BY <3>1 DEF Init
    <3>2. CASE file # NoFile
      BY <3>2, FilesAssumption, TextLengthType DEF Init
    <3> QED BY <3>1, <3>2
  <2> QED BY <2>1, FilesAssumption DEF Init, TypeOK, Programs
<1>2. file # Garbled
  BY FilesAssumption DEF Init
<1>3. \A p \in Programs : pc[p] = "start" /\ key[p] = NoFile /\ dealt[p] = NoFile
  BY DEF Init
<1>4. last = NoFile /\ NoFile \notin Keygens
  BY FilesAssumption DEF Init
<1>5. KeysInHand
  BY <1>3, <1>4 DEF KeysInHand, Programs
<1>6. LengthFits /\ FileIsLast
  BY <1>4 DEF LengthFits, FileIsLast
<1>7. LostOnlyInWrite
  BY <1>2 DEF LostOnlyInWrite
<1>8. DealtInHand /\ NotDealtYet
  BY <1>3 DEF DealtInHand, NotDealtYet, Programs
<1> QED BY <1>1, <1>5, <1>6, <1>7, <1>8 DEF KeyFileInv

-----------------------------------------------------------------------------
(* The steps.                                                              *)

\* A keygen that starts has its key in memory, or is refused.
LEMMA StartKeygenStep ==
  ASSUME KeyFileInv, NEW p \in Keygens, StartKeygen(p)
  PROVE  KeyFileInv'
<1> PICK sk \in Secrets, a \in Arguments :
       /\ Goto(p, "start", IF a.min_signers <= a.max_signers THEN "open" ELSE "refused")
       /\ key' = IF a.min_signers <= a.max_signers
                 THEN [key EXCEPT ![p] = StoredKey(sk, a.max_signers, a.min_signers)]
                 ELSE key
       /\ UNCHANGED <<filevars, dealt>>
  BY DEF StartKeygen
<1> PICK max, min : max = a.max_signers /\ min = a.min_signers
  OBVIOUS
<1>1. /\ Goto(p, "start", IF min <= max THEN "open" ELSE "refused")
      /\ key' = IF min <= max THEN [key EXCEPT ![p] = StoredKey(sk, max, min)] ELSE key
      /\ UNCHANGED <<file, length, newlines, last, dealt>>
  BY DEF filevars
<1>2. p \in Programs /\ Keygens \subseteq Programs
  BY DEF Programs
<1>3. StoredKey(sk, max, min) \in StoredKeys
  BY StoredKeyType, ArgumentsAssumption
<1>4. TypeOK'
  BY <1>1, <1>2, <1>3 DEF KeyFileInv, TypeOK, Goto, Ended
<1>5. \A q \in Programs \ {p} : key'[q] = key[q] /\ pc'[q] = pc[q]
  BY <1>1, <1>2 DEF KeyFileInv, TypeOK, Goto
<1>6. key[p] = NoFile /\ last # p /\ pc[p] = "start"
  BY <1>1 DEF KeyFileInv, KeysInHand, Goto
<1>7. \/ pc'[p] = "refused" /\ key'[p] = NoFile
      \/ pc'[p] = "open" /\ min <= max /\ key'[p] = StoredKey(sk, max, min)
  <2>1. pc \in [Programs -> Ended \cup {"start", "open", "write", "deal"}]
    BY DEF KeyFileInv, TypeOK
  <2>2. key \in [Programs -> StoredKeys \cup {NoFile}]
    BY DEF KeyFileInv, TypeOK
  <2>3. CASE min <= max
    BY <1>1, <1>2, <2>1, <2>2, <2>3 DEF Goto
  <2>4. CASE ~ (min <= max)
    BY <1>1, <1>2, <1>6, <2>1, <2>4 DEF Goto
  <2> QED BY <2>3, <2>4
<1>8. KeysInHand'
  BY <1>1, <1>2, <1>5, <1>6, <1>7 DEF KeyFileInv, KeysInHand, InHand
<1>9. \A q \in Keygens : OverwritesLonger(q) /\ q # p => OverwritesLonger(q)'
  BY <1>1, <1>2, <1>5, <1>6 DEF OverwritesLonger
<1>10. LengthFits'
  BY <1>1, <1>2, <1>5, <1>6 DEF KeyFileInv, LengthFits
<1>11. FileIsLast'
  BY <1>1, <1>2, <1>5, <1>6, <1>7, <1>9 DEF KeyFileInv, FileIsLast
<1>12. LostOnlyInWrite'
  BY <1>1, <1>2, <1>5, <1>6, <1>9 DEF KeyFileInv, LostOnlyInWrite
<1>13. DealtInHand' /\ NotDealtYet'
  BY <1>1, <1>2, <1>5, <1>7, RunsAssumption
  DEF KeyFileInv, DealtInHand, NotDealtYet, Programs
<1> QED BY <1>4, <1>8, <1>10, <1>11, <1>12, <1>13 DEF KeyFileInv

\* A keygen that opens the file truncates it.
LEMMA OpenFileStep ==
  ASSUME KeyFileInv, NEW p \in Keygens, OpenFile(p)
  PROVE  KeyFileInv'
<1>1. p \in Programs /\ Keygens \subseteq Programs
  BY DEF Programs
<1>2. TypeOK'
  BY <1>1 DEF KeyFileInv, TypeOK, OpenFile, Goto, Ended
<1>3. /\ \A q \in Programs \ {p} : pc'[q] = pc[q]
      /\ pc[p] = "open" /\ pc'[p] = "write" /\ last' = p /\ length' = 0
      /\ UNCHANGED <<key, dealt>>
  BY <1>1 DEF KeyFileInv, TypeOK, OpenFile, Goto
<1>4. last' # NoFile
  BY <1>3, FilesAssumption
<1>5. InHand(p)
  BY <1>3 DEF KeyFileInv, KeysInHand
<1>6. KeysInHand'
  BY <1>1, <1>3, <1>4, <1>5 DEF KeyFileInv, KeysInHand, InHand
<1>7. LengthFits'
  BY <1>3 DEF LengthFits
<1>8. FileIsLast'
  BY <1>3 DEF FileIsLast
<1>9. LostOnlyInWrite'
  BY <1>3 DEF LostOnlyInWrite
<1>10. DealtInHand' /\ NotDealtYet'
  BY <1>1, <1>3, RunsAssumption DEF KeyFileInv, DealtInHand, NotDealtYet, Programs
<1> QED BY <1>2, <1>6, <1>7, <1>8, <1>9, <1>10 DEF KeyFileInv

\* A keygen that writes leaves its key, or the end of a longer text, which is
\* another keygen's.
LEMMA WriteTextStep ==
  ASSUME KeyFileInv, NEW p \in Keygens, WriteText(p)
  PROVE  KeyFileInv'
<1>1. p \in Programs /\ Keygens \subseteq Programs
  BY DEF Programs
<1> PICK size : size = TextLength(key[p])
  OBVIOUS
<1>2. /\ \A q \in Programs \ {p} : pc'[q] = pc[q]
      /\ pc[p] = "write" /\ pc'[p] = "deal" /\ last' = p
      /\ file' = IF length <= size + newlines THEN key[p] ELSE Garbled
      /\ length' = Longer(length, size)
      /\ newlines' = IF length <= size + newlines THEN Longer(length, size) - size + 1
                     ELSE newlines
      /\ UNCHANGED <<key, dealt>>
  BY <1>1 DEF KeyFileInv, TypeOK, WriteText, Goto
<1>3. InHand(p) /\ last # NoFile
  BY <1>2 DEF KeyFileInv, KeysInHand
<1>4. /\ key[p] \in StoredKeys /\ key[p] # NoFile /\ key[p] # Garbled
      /\ size \in Nat \ {0, 1} /\ length \in Nat /\ newlines \in 0..length
  BY <1>3, InHandFacts DEF KeyFileInv, TypeOK
<1>5. length' \in Nat /\ newlines' \in 0..length' /\ length <= length' /\ size <= length'
  BY <1>2, <1>4 DEF Longer
<1>6. TypeOK'
  BY <1>1, <1>2, <1>4, <1>5 DEF KeyFileInv, TypeOK, WriteText, Goto, Ended
<1>7. last' # NoFile
  BY <1>2, FilesAssumption
<1>8. KeysInHand'
  BY <1>1, <1>2, <1>3, <1>7 DEF KeyFileInv, KeysInHand, InHand
<1>9. ASSUME length <= size + newlines
      PROVE  LengthFits' /\ FileIsLast' /\ LostOnlyInWrite'
  <2>1. file' = key'[p] /\ file' # Garbled
    BY <1>2, <1>4, <1>9
  <2>2. FileIsLast' /\ LostOnlyInWrite'
    BY <1>2, <2>1 DEF FileIsLast, LostOnlyInWrite
  <2>3. LengthFits'
    <3>1. CASE length <= size
      <4>1. length' = size
        BY <1>2, <1>4, <3>1 DEF Longer
      <4> QED BY <1>2, <1>4, <4>1 DEF LengthFits
    <3>2. CASE length > size
      <4>1. length' = length /\ length > 0
        BY <1>2, <1>4, <3>2 DEF Longer
      <4>2. PICK q \in Keygens :
               /\ pc[q] \in {"torn", "deal", "killed", "panicked", "done"}
               /\ key[q] # NoFile /\ length <= TextLength(key[q])
        BY <1>3, <4>1 DEF KeyFileInv, LengthFits
      <4>3. q # p /\ pc'[q] = pc[q] /\ key'[q] = key[q]
        BY <1>1, <1>2, <4>2
      <4> QED BY <4>1, <4>2, <4>3 DEF LengthFits
    <3> QED BY <1>4, <3>1, <3>2
  <2> QED BY <2>2, <2>3
<1>10. ASSUME ~ (length <= size + newlines)
       PROVE  LengthFits' /\ FileIsLast' /\ LostOnlyInWrite'
  <2>1. length' = length /\ newlines' = newlines /\ length > size + newlines /\ length > 0
    BY <1>2, <1>4, <1>10 DEF Longer
  <2>2. PICK q \in Keygens :
           /\ pc[q] \in {"torn", "deal", "killed", "panicked", "done"}
           /\ key[q] # NoFile /\ length <= TextLength(key[q])
    BY <1>3, <2>1 DEF KeyFileInv, LengthFits
  <2>3. q # p /\ pc'[q] = pc[q] /\ key'[q] = key[q]
    BY <1>1, <1>2, <2>2
  <2>4. OverwritesLonger(p)'
    <3>1. TextLength(key'[p]) + newlines' < length'
      BY <1>2, <1>4, <2>1
    <3> QED BY <2>1, <2>2, <2>3, <3>1 DEF OverwritesLonger
  <2>5. FileIsLast' /\ LostOnlyInWrite'
    BY <1>2, <2>4 DEF FileIsLast, LostOnlyInWrite
  <2>6. LengthFits'
    BY <2>1, <2>2, <2>3 DEF LengthFits
  <2> QED BY <2>5, <2>6
<1>11. DealtInHand' /\ NotDealtYet'
  BY <1>1, <1>2, RunsAssumption DEF KeyFileInv, DealtInHand, NotDealtYet, Programs
<1> QED BY <1>6, <1>8, <1>9, <1>10, <1>11 DEF KeyFileInv

\* A keygen deals the key it has written.
LEMMA DealWrittenStep ==
  ASSUME KeyFileInv, NEW p \in Keygens, DealWritten(p)
  PROVE  KeyFileInv'
<1>1. p \in Programs /\ Keygens \subseteq Programs
  BY DEF Programs
<1>2. /\ \A q \in Programs \ {p} : pc'[q] = pc[q] /\ dealt'[q] = dealt[q]
      /\ pc[p] = "deal" /\ pc'[p] \in {"panicked", "done"}
      /\ pc'[p] = "done" => dealt'[p] = DealtKey(key[p]) /\ ~ DealerPanics(key[p])
      /\ UNCHANGED <<file, length, newlines, last, key>>
  BY <1>1 DEF KeyFileInv, TypeOK, DealWritten, Goto, filevars
<1>3. InHand(p)
  BY <1>2 DEF KeyFileInv, KeysInHand
<1>4. DealtKey(key[p]) \in DealerKeys
  BY <1>3, InHandFacts
<1>5. TypeOK'
  BY <1>1, <1>2, <1>4 DEF KeyFileInv, TypeOK, DealWritten, Goto, Ended, filevars
<1>6. \A q : OverwritesLonger(q) => OverwritesLonger(q)'
  BY <1>1, <1>2 DEF OverwritesLonger
<1>7. KeysInHand'
  BY <1>1, <1>2, <1>3 DEF KeyFileInv, KeysInHand, InHand
<1>8. LengthFits'
  BY <1>1, <1>2 DEF KeyFileInv, LengthFits
<1>9. FileIsLast'
  BY <1>1, <1>2, <1>6 DEF KeyFileInv, FileIsLast
<1>10. LostOnlyInWrite'
  BY <1>1, <1>2, <1>6 DEF KeyFileInv, LostOnlyInWrite
<1>11. DealtInHand' /\ NotDealtYet'
  BY <1>1, <1>2, RunsAssumption DEF KeyFileInv, DealtInHand, NotDealtYet, Programs
<1> QED BY <1>5, <1>7, <1>8, <1>9, <1>10, <1>11 DEF KeyFileInv

\* A keygen that is killed leaves the file as it is.
LEMMA KillStep ==
  ASSUME KeyFileInv, NEW p \in Keygens, Kill(p)
  PROVE  KeyFileInv'
<1>1. p \in Programs /\ Keygens \subseteq Programs
  BY DEF Programs
<1>2. /\ \A q \in Programs \ {p} : pc'[q] = pc[q]
      /\ pc[p] \in {"open", "deal"} /\ pc'[p] = "killed"
      /\ UNCHANGED <<file, length, newlines, last, key, dealt>>
  BY <1>1 DEF KeyFileInv, TypeOK, Kill, Goto, filevars
<1>3. TypeOK'
  BY <1>1, <1>2 DEF KeyFileInv, TypeOK, Kill, Goto, Ended
<1>4. \A q : OverwritesLonger(q) => OverwritesLonger(q)'
  BY <1>1, <1>2 DEF OverwritesLonger
<1>5. KeysInHand'
  BY <1>1, <1>2 DEF KeyFileInv, KeysInHand, InHand
<1>6. LengthFits'
  BY <1>1, <1>2 DEF KeyFileInv, LengthFits
<1>7. pc[p] = "open" => last # p
  BY DEF KeyFileInv, KeysInHand
<1>8. FileIsLast'
  BY <1>1, <1>2, <1>4, <1>7 DEF KeyFileInv, FileIsLast
<1>9. LostOnlyInWrite'
  BY <1>1, <1>2, <1>4 DEF KeyFileInv, LostOnlyInWrite
<1>10. DealtInHand' /\ NotDealtYet'
  BY <1>1, <1>2, RunsAssumption DEF KeyFileInv, DealtInHand, NotDealtYet, Programs
<1> QED BY <1>3, <1>5, <1>6, <1>8, <1>9, <1>10 DEF KeyFileInv

\* What a torn write leaves is a key of the declared type, or none that is read.
LEMMA TornFilesType ==
  ASSUME KeyFileInv, NEW p \in Keygens, InHand(p), NEW m \in Nat
  PROVE  TornFiles(p, m) \subseteq StoredKeys \cup {NoFile, Garbled}
<1>1. key[p] \in StoredKeys /\ file \in StoredKeys \cup {NoFile, Garbled}
  BY InHandFacts DEF KeyFileInv, TypeOK
<1>2. Hybrids \subseteq StoredKeys
  <2> SUFFICES ASSUME NEW k \in Hybrids PROVE k \in StoredKeys
    OBVIOUS
  <2>1. PICK q \in {r \in Keygens : key[r] # NoFile /\ pc[r] # "open"},
             max \in Mixed, min \in Mixed : k = WithThresholds(key[q], max, min)
    BY DEF Hybrids
  <2>2. key[q] \in StoredKeys
    BY <2>1 DEF KeyFileInv, TypeOK, Programs
  <2>3. max \in U16 /\ min \in U16
    BY ArgumentsAssumption
  <2> QED BY <2>1, <2>2, <2>3 DEF StoredKeys, WithThresholds
<1>3. CASE m = 0
  BY <1>1, <1>3 DEF TornFiles
<1>4. CASE m # 0 /\ m = TextLength(key[p]) - 1
  BY <1>1, <1>4 DEF TornFiles
<1>5. CASE m # 0 /\ m # TextLength(key[p]) - 1
  BY <1>2, <1>5 DEF TornFiles
<1> QED BY <1>3, <1>4, <1>5

\* A write that is torn leaves the file to the keygen it has torn, or as it was.
LEMMA TearStep ==
  ASSUME KeyFileInv, NEW p \in Keygens, Tear(p)
  PROVE  KeyFileInv'
<1>1. p \in Programs /\ Keygens \subseteq Programs
  BY DEF Programs
<1>2. /\ \A q \in Programs \ {p} : pc'[q] = pc[q]
      /\ pc[p] = "write" /\ pc'[p] = "torn"
      /\ UNCHANGED <<key, dealt>>
  BY <1>1 DEF KeyFileInv, TypeOK, Tear, Goto
<1>3. InHand(p) /\ length \in Nat /\ newlines \in 0..length /\ last # NoFile
  BY <1>2 DEF KeyFileInv, KeysInHand, TypeOK
<1> PICK size : size = TextLength(key[p])
  OBVIOUS
<1>4. size \in Nat \ {0, 1} /\ key[p] # NoFile
  BY <1>3, InHandFacts
<1>5. PICK m \in 0..(size - 1) :
         /\ file' \in TornFiles(p, m)
         /\ length' = Longer(length, m)
         /\ newlines' = IF length <= m + newlines THEN Longer(length, m) - m ELSE newlines
         /\ last' = IF m = 0 THEN last ELSE p
  BY DEF Tear
<1>6. length' \in Nat /\ newlines' \in 0..length'
  BY <1>3, <1>4, <1>5 DEF Longer
<1>7. file' \in StoredKeys \cup {NoFile, Garbled}
  <2>1. m \in Nat
    BY <1>4
  <2> QED BY <1>3, <1>5, <2>1, TornFilesType
<1>8. TypeOK'
  BY <1>1, <1>2, <1>5, <1>6, <1>7 DEF KeyFileInv, TypeOK, Tear, Goto, Ended
<1>9. KeysInHand'
  <2>1. last' # NoFile /\ (last' = last \/ last' = p)
    BY <1>3, <1>5, FilesAssumption
  <2> QED BY <1>1, <1>2, <1>3, <2>1 DEF KeyFileInv, KeysInHand, InHand
<1>10. LengthFits'
  <2>1. CASE length' = length /\ length > 0
    <3>1. PICK q \in Keygens :
             /\ pc[q] \in {"torn", "deal", "killed", "panicked", "done"}
             /\ key[q] # NoFile /\ length <= TextLength(key[q])
      BY <1>3, <2>1 DEF KeyFileInv, LengthFits
    <3>2. q # p /\ pc'[q] = pc[q] /\ key'[q] = key[q]
      BY <1>1, <1>2, <3>1
    <3> QED BY <2>1, <3>1, <3>2 DEF LengthFits
  <2>2. CASE length' = m
    <3>1. length' <= size
      BY <1>4, <2>2
    <3> QED BY <1>2, <1>4, <3>1 DEF LengthFits
  <2>3. CASE length' = length /\ length = 0
    BY <2>3 DEF LengthFits
  <2> QED BY <1>3, <1>5, <2>1, <2>2, <2>3 DEF Longer
<1>11. FileIsLast'
  <2>1. CASE m = 0
    <3>1. length' = length /\ newlines' = newlines /\ last' = last
      BY <1>3, <1>5, <2>1 DEF Longer
    <3>2. file' = file
      BY <1>4, <1>5, <2>1 DEF TornFiles
    <3>3. \A q \in Keygens \ {p} : OverwritesLonger(q) => OverwritesLonger(q)'
      BY <1>1, <1>2, <3>1 DEF OverwritesLonger
    <3> QED BY <1>1, <1>2, <3>1, <3>2, <3>3 DEF KeyFileInv, FileIsLast
  <2>2. CASE m # 0
    BY <1>2, <1>5, <2>2 DEF FileIsLast
  <2> QED BY <2>1, <2>2
<1>12. LostOnlyInWrite'
  BY <1>2 DEF LostOnlyInWrite
<1>13. DealtInHand' /\ NotDealtYet'
  BY <1>1, <1>2, RunsAssumption DEF KeyFileInv, DealtInHand, NotDealtYet, Programs
<1> QED BY <1>8, <1>9, <1>10, <1>11, <1>12, <1>13 DEF KeyFileInv

\* A program that reads or deals changes nothing but what it has itself.
LEMMA ReaderStep ==
  ASSUME KeyFileInv, NEW p \in Addresses \cup Spends,
         ReadKey(p) \/ DealFromFile(p, "deal") \/ DealFromFile(p, "start")
  PROVE  KeyFileInv'
<1>1. p \in Programs /\ p \notin Keygens /\ Keygens \subseteq Programs
  BY RunsAssumption DEF Programs
<1>2. /\ \A q \in Programs \ {p} :
             pc'[q] = pc[q] /\ key'[q] = key[q] /\ dealt'[q] = dealt[q]
      /\ UNCHANGED <<file, length, newlines, last>>
  BY <1>1 DEF KeyFileInv, TypeOK, ReadKey, DealFromFile, Goto, filevars
<1>3. \/ dealt' = dealt
      \/ pc'[p] = "done"
  <2>1. Deals(file) => DealOutcome(file) = "done"
    BY DEF DealOutcome, Deals
  <2>2. CASE ReadKey(p)
    BY <2>2 DEF ReadKey
  <2>3. ASSUME NEW from, DealFromFile(p, from), dealt' # dealt PROVE pc'[p] = "done"
    <3>1. DealOutcome(file) = "done"
      BY <2>1, <2>3 DEF DealFromFile
    <3> QED BY <1>1, <2>3, <3>1 DEF KeyFileInv, TypeOK, DealFromFile, Goto
  <2> QED BY <2>2, <2>3
<1>4. pc[p] \in {"start", "deal"} /\ dealt[p] = NoFile
  BY DEF KeyFileInv, NotDealtYet, ReadKey, DealFromFile, Goto
<1>5. (Deals(file) => DealtKey(file) \in DealerKeys) /\ (Readable(file) => file \in StoredKeys)
  BY ReadableFacts DEF KeyFileInv, ValidKeys
<1>6. TypeOK'
  BY <1>1, <1>5 DEF KeyFileInv, TypeOK, ReadKey, DealFromFile, DealOutcome, Goto, Ended, filevars
<1>7. KeysInHand'
  BY <1>1, <1>2 DEF KeyFileInv, KeysInHand, InHand
<1>8. \A q \in Keygens : OverwritesLonger(q) <=> OverwritesLonger(q)'
  BY <1>1, <1>2 DEF OverwritesLonger
<1>9. LengthFits'
  BY <1>1, <1>2 DEF KeyFileInv, LengthFits
<1>10. FileIsLast'
  BY <1>1, <1>2, <1>8 DEF KeyFileInv, FileIsLast
<1>11. LostOnlyInWrite'
  BY <1>1, <1>2, <1>8 DEF KeyFileInv, LostOnlyInWrite
<1>12. DealtInHand'
  BY <1>1, <1>2 DEF KeyFileInv, DealtInHand
<1>13. NotDealtYet'
  BY <1>1, <1>2, <1>3, <1>4 DEF KeyFileInv, NotDealtYet, Programs
<1> QED BY <1>6, <1>7, <1>9, <1>10, <1>11, <1>12, <1>13 DEF KeyFileInv

\* Nothing changes in a stuttering step.
LEMMA KeyFileStutters == KeyFileInv /\ UNCHANGED vars => KeyFileInv'
  BY DEF KeyFileInv, TypeOK, KeysInHand, InHand, LengthFits, FileIsLast, OverwritesLonger,
         LostOnlyInWrite, DealtInHand, NotDealtYet, vars

\* Every step keeps the invariant.
LEMMA KeyFileStep == KeyFileInv /\ [Next]_vars => KeyFileInv'
<1> SUFFICES ASSUME KeyFileInv, [Next]_vars PROVE KeyFileInv'
  OBVIOUS
<1>1. CASE \E p \in Keygens : \/ StartKeygen(p) \/ OpenFile(p) \/ WriteText(p)
                              \/ DealWritten(p) \/ Kill(p) \/ Tear(p)
  BY <1>1, StartKeygenStep, OpenFileStep, WriteTextStep, DealWrittenStep, KillStep, TearStep
<1>2. CASE \E p \in Addresses : ReadKey(p) \/ DealFromFile(p, "deal")
  BY <1>2, ReaderStep
<1>3. CASE \E p \in Spends : DealFromFile(p, "start")
  BY <1>3, ReaderStep
<1>4. CASE Terminated \/ UNCHANGED vars
  BY <1>4, KeyFileStutters DEF Terminated
<1> QED BY <1>1, <1>2, <1>3, <1>4 DEF Next

-----------------------------------------------------------------------------
(* The properties.                                                         *)

\* Every state of every execution satisfies the invariant.
THEOREM KeyFileInvariance == Spec => []KeyFileInv
  BY KeyFileInit, KeyFileStep, PTL DEF Spec

\* Whatever keygen writes, and whatever the file held at first, the file and the
\* memory of the programs hold keys of the types the code declares.
THEOREM KeyFileTypeCorrect == Spec => []TypeOK
<1>1. KeyFileInv => TypeOK
  BY DEF KeyFileInv
<1> QED BY <1>1, KeyFileInvariance, PTL

\* A keygen run that is interrupted before write_key_yaml opens the file, or is
\* refused its thresholds, loses no key: a text that does not parse is the work of
\* a write that was interrupted or of two writes at a time.
THEOREM KeyLostOnlyInWrite == Spec => []LostOnlyInWrite
<1>1. KeyFileInv => LostOnlyInWrite
  BY DEF KeyFileInv
<1> QED BY <1>1, KeyFileInvariance, PTL

\* A keygen that reports success, and has changed the file last, has left the key
\* it printed, to be dealt again by generate_with_dealer_from_key_yaml, unless its
\* threshold is zero or the text of another keygen reaches past its own.
THEOREM WrittenKeyReadable == Spec => []WrittenKeyIsReadable
<1>1. ASSUME KeyFileInv PROVE WrittenKeyIsReadable
  <2> SUFFICES ASSUME NEW p \in Keygens, pc[p] = "done", last = p, ~ OverwritesLonger(p)
               PROVE  IF key[p].min_signers = 0 THEN ~ Readable(file) ELSE ReadsBack(p)
    BY DEF WrittenKeyIsReadable
  <2>1. /\ file = key[p] /\ dealt[p] = DealtKey(key[p]) /\ InHand(p)
        /\ ~ DealerPanics(key[p])
    BY <1>1 DEF KeyFileInv, FileIsLast, DealtInHand, KeysInHand
  <2>2. CASE key[p].min_signers = 0
    BY <2>1, <2>2 DEF Readable, ValidateStoredKey
  <2>3. CASE key[p].min_signers # 0
    BY <2>1, <2>3, InHandFacts DEF ReadsBack, Deals, Readable
  <2> QED BY <2>2, <2>3
<1> QED BY <1>1, KeyFileInvariance, PTL

-----------------------------------------------------------------------------
(* The register.                                                           *)

\* The store is a valid key or none, whatever text the file holds.
LEMMA StoreType ==
  ASSUME NEW text \in StoredKeys \cup {NoFile, Garbled}
  PROVE  (IF Deals(text) THEN DealtKey(text) ELSE NoFile) \in ValidKeys \cup {NoFile}
  BY ReadableDeals DEF Deals, Readable

\* The programs start with a register that holds what is dealt from the file.
LEMMA StoreInit == Init => Store!Init
<1> SUFFICES ASSUME Init PROVE Store!Init
  OBVIOUS
<1>1. file \in StoredKeys \cup {NoFile, Garbled}
  BY FilesAssumption DEF Init
<1>2. \A p \in Addresses \cup Spends : dealt[p] = NoFile
  BY DEF Init, Programs
<1> QED BY <1>1, <1>2, StoreType DEF Store!Init

\* A step that deals nothing from the file is a change of the store, or none.
LEMMA StoreChanges ==
  ASSUME KeyFileInv', \A p \in Addresses \cup Spends : dealt'[p] = dealt[p]
  PROVE  Store!Change
<1>1. file' \in StoredKeys \cup {NoFile, Garbled}
  BY DEF KeyFileInv, TypeOK
<1>2. (IF Deals(file') THEN DealtKey(file') ELSE NoFile) \in ValidKeys \cup {NoFile}
  BY <1>1, StoreType
<1> QED BY <1>2 DEF Store!Change, Deals, Readable

\* A program that deals from the file deals the key of the store.
LEMMA StoreDeals ==
  ASSUME KeyFileInv, NEW p \in Addresses \cup Spends, NEW from \in {"start", "deal"},
         DealFromFile(p, from), Deals(file)
  PROVE  Store!Deal(p)
<1>1. dealt[p] = NoFile
  BY DEF DealFromFile, Goto, KeyFileInv, NotDealtYet
<1>2. DealtKey(file) \in ValidKeys /\ DealtKey(file) # NoFile
  BY ReadableFacts, FilesAssumption DEF KeyFileInv, ValidKeys
<1>3. file' = file /\ dealt' = [dealt EXCEPT ![p] = DealtKey(file)]
  BY DEF DealFromFile, filevars
<1>4. \A q \in Addresses \cup Spends :
         dealt'[q] = IF q = p THEN DealtKey(file) ELSE dealt[q]
  BY <1>3 DEF KeyFileInv, TypeOK, Programs
<1> QED BY <1>1, <1>2, <1>3, <1>4 DEF Store!Deal, Deals, Readable

\* Every step is one of the register or leaves it.
LEMMA StoreStep == KeyFileInv /\ KeyFileInv' /\ [Next]_vars => [Store!Next]_(Store!vars)
<1> SUFFICES ASSUME KeyFileInv, KeyFileInv', [Next]_vars PROVE Store!Next
  OBVIOUS
<1>1. ASSUME NEW p \in Keygens,
             \/ StartKeygen(p) \/ OpenFile(p) \/ WriteText(p)
             \/ DealWritten(p) \/ Kill(p) \/ Tear(p)
      PROVE  \A q \in Addresses \cup Spends : dealt'[q] = dealt[q]
  <2>1. \A q \in Addresses \cup Spends : q # p /\ q \in Programs
    BY RunsAssumption DEF Programs
  <2>2. dealt' = dealt \/ dealt' = [dealt EXCEPT ![p] = DealtKey(key[p])]
    BY <1>1 DEF StartKeygen, OpenFile, WriteText, DealWritten, Kill, Tear
  <2> QED BY <2>1, <2>2 DEF KeyFileInv, TypeOK
<1>2. ASSUME NEW p \in Addresses \cup Spends, NEW from \in {"start", "deal"},
             DealFromFile(p, from)
      PROVE  Store!Next
  <2>1. CASE Deals(file)
    BY <1>2, <2>1, StoreDeals DEF Store!Next
  <2>2. CASE ~ Deals(file)
    BY <1>2, <2>2, StoreChanges DEF DealFromFile, Store!Next
  <2> QED BY <2>1, <2>2
<1>3. CASE \E p \in Keygens : \/ StartKeygen(p) \/ OpenFile(p) \/ WriteText(p)
                              \/ DealWritten(p) \/ Kill(p) \/ Tear(p)
  BY <1>1, <1>3, StoreChanges DEF Store!Next
<1>4. CASE \E p \in Addresses : ReadKey(p) \/ DealFromFile(p, "deal")
  BY <1>2, <1>4, StoreChanges DEF ReadKey, Store!Next
<1>5. CASE \E p \in Spends : DealFromFile(p, "start")
  BY <1>2, <1>5
<1>6. CASE Terminated \/ UNCHANGED vars
  BY <1>6, StoreChanges DEF Terminated, vars, Store!Next
<1> QED BY <1>3, <1>4, <1>5, <1>6 DEF Next

\* Programs that share a key file, however keygen runs interleave with them and
\* wherever these are interrupted, see a register of whole keys: what
\* generate_with_dealer_from_key_yaml deals is the key the file holds then.
THEOREM KeyFileImplementsKeyStore == Spec => ImplementsKeyStore
<1>1. Spec => Store!Init
  BY StoreInit DEF Spec
<1>2. Spec => [][Store!Next]_(Store!vars)
  BY KeyFileInvariance, StoreStep, PTL DEF Spec
<1> QED BY <1>1, <1>2 DEF ImplementsKeyStore, Store!Spec
=============================================================================
