-------------------------- MODULE ScalarField_proofs --------------------------
(***************************************************************************)
(* Facts about the field and about sums and products over maps of          *)
(* identifiers, for every order Q and every number of signers.  A          *)
(* recursive function is a CHOOSE to the provers: that one exists is shown *)
(* by extending it one argument at a time, and both this and what it       *)
(* computes by induction, stated over sets so that it can be instantiated. *)
(***************************************************************************)
EXTENDS ScalarField, WellFoundedInduction, TLAPS

Less == {ss \in Nat \X Nat : ss[1] < ss[2]}

\* The naturals are well founded: induction without an operator parameter.
LEMMA LessWellFounded == IsWellFoundedOn(Less, Nat)
  BY NatLessThanWellFounded DEF OpToRel, Less

\* Every nonempty set of naturals has a least element.
LEMMA LeastNat ==
  ASSUME NEW T \in SUBSET Nat, T # {}
  PROVE  \E m \in T : \A k \in T : m <= k
<1>1. PICK m \in T : \A k \in T : ~ (<<k, m>> \in Less)
  BY LessWellFounded, WFMin
<1>2. \A k \in T : ~ (k < m)
  BY <1>1 DEF Less
<1> QED BY <1>1, <1>2

\* Induction up to n: a set that holds 0 and, with k < n, also k + 1, holds
\* every number up to n.
LEMMA InductionUpTo ==
  ASSUME NEW n \in Nat, NEW T,
         0 \in T,
         \A k \in 0..(n - 1) : k \in T => k + 1 \in T
  PROVE  0..n \subseteq T
<1> DEFINE Bad == {k \in 0..n : k \notin T}
<1>1. SUFFICES ASSUME Bad # {} PROVE FALSE
  OBVIOUS
<1>2. Bad \in SUBSET Nat
  OBVIOUS
<1>3. PICK m \in Bad : \A k \in Bad : m <= k
  <2> HIDE DEF Bad
  <2> QED BY <1>1, <1>2, LeastNat
<1>4. m \in 1..n /\ m - 1 \in 0..(n - 1)
  BY <1>3
<1>5. m - 1 \in T
  BY <1>3, <1>4
<1> QED BY <1>3, <1>4, <1>5

-----------------------------------------------------------------------------
(* Field arithmetic.                                                       *)

\* Zero and one are scalars, and scalars are naturals.
LEMMA ScalarFacts == 0 \in Scalar /\ 1 \in Scalar /\ Scalar \subseteq Nat
  BY QAssumption DEF Scalar

\* The sum of two scalars is a scalar.
LEMMA AddType == \A a, b \in Scalar : Add(a, b) \in Scalar
  BY QAssumption DEF Scalar, Add

\* The negation of a scalar is a scalar.
LEMMA NegType == \A a \in Scalar : Neg(a) \in Scalar
  BY QAssumption DEF Scalar, Neg

\* The difference of two scalars is a scalar.
LEMMA SubType == \A a, b \in Scalar : Sub(a, b) \in Scalar
  BY AddType, NegType DEF Sub

\* The product of any two integers is reduced to a scalar.
LEMMA MulType == \A a, b \in Int : Mul(a, b) \in Scalar
  BY QAssumption DEF Scalar, Mul

\* The product of two scalars is a scalar.
LEMMA MulScalars == \A a, b \in Scalar : Mul(a, b) \in Scalar
  BY MulType, ScalarFacts

\* Zero is neutral.
LEMMA AddZero == \A a \in Scalar : Add(a, 0) = a /\ Add(0, a) = a
  BY QAssumption DEF Scalar, Add

\* Addition commutes.
LEMMA AddCommutative == \A a, b \in Scalar : Add(a, b) = Add(b, a)
  BY QAssumption DEF Scalar, Add

\* Addition is associative.
LEMMA AddAssociative ==
  \A a, b, c \in Scalar : Add(Add(a, b), c) = Add(a, Add(b, c))
  BY QAssumption DEF Scalar, Add

\* Subtracting what was added leaves what was there.
LEMMA SubAdd == \A a, b \in Scalar : Sub(Add(a, b), b) = a
  BY QAssumption DEF Scalar, Add, Neg, Sub

\* A scalar and its negation cancel.
LEMMA AddNeg == \A a \in Scalar : Add(a, Neg(a)) = 0 /\ Add(Neg(a), a) = 0
  BY QAssumption DEF Scalar, Add, Neg

\* One is neutral.
LEMMA MulOne == \A a \in Scalar : Mul(a, 1) = a
  BY QAssumption DEF Scalar, Mul

\* Multiplying by minus one, delta of a larger peer, negates.
LEMMA MulMinusOne == \A a \in Scalar : Mul(a, Neg(1)) = Neg(a)
  BY QAssumption DEF Scalar, Mul, Neg

\* Multiplication commutes.
LEMMA MulCommutative == \A a, b \in Int : Mul(a, b) = Mul(b, a)
  BY DEF Mul

\* Every scalar has a value for its inverse (any value, for zero).
LEMMA InvType == \A a \in Scalar : Inv(a) \in Scalar
<1> SUFFICES ASSUME NEW a \in Scalar PROVE Inv(a) \in Scalar
  OBVIOUS
<1>1. \E b \in Scalar : a = 0 \/ Mul(a, b) = 1
  <2>1. CASE a = 0
    BY <2>1, ScalarFacts
  <2>2. CASE a # 0
    <3>1. a \in 1..(Q - 1)
      BY <2>2, QAssumption DEF Scalar
    <3>2. PICK b \in 1..(Q - 1) : (a * b) % Q = 1
      BY <3>1, InverseAssumption
    <3> QED BY <3>2, QAssumption DEF Scalar, Mul
  <2> QED BY <2>1, <2>2
<1> QED BY <1>1 DEF Inv

-----------------------------------------------------------------------------
(* Sums.                                                                   *)

ScalarMap(f) == \A n \in Identifier \cap DOMAIN f : f[n] \in Scalar

\* The recursion equation of PartialSums up to n.
SumsUpTo(f, p, n) ==
  p = [k \in 0..n |->
         IF k = 0 THEN 0
         ELSE IF k \in DOMAIN f THEN Add(p[k - 1], f[k]) ELSE p[k - 1]]

\* The recursion behind PartialSums has a solution.
LEMMA SumsExist ==
  ASSUME NEW f, ScalarMap(f)
  PROVE  \E p \in [0..MaxSigners -> Scalar] : SumsUpTo(f, p, MaxSigners)
<1> DEFINE T == {n \in 0..MaxSigners : \E p \in [0..n -> Scalar] : SumsUpTo(f, p, n)}
<1>1. 0 \in T
  <2> DEFINE p == [k \in 0..0 |-> 0]
  <2>1. p \in [0..0 -> Scalar]
    BY ScalarFacts
  <2>2. SumsUpTo(f, p, 0)
    BY DEF SumsUpTo
  <2>3. \E q \in [0..0 -> Scalar] : SumsUpTo(f, q, 0)
    BY <2>1, <2>2
  <2> QED BY <2>3, MaxSignersAssumption
<1>2. ASSUME NEW n \in 0..(MaxSigners - 1), n \in T
      PROVE  n + 1 \in T
  <2>1. PICK p \in [0..n -> Scalar] : SumsUpTo(f, p, n)
    BY <1>2
  <2> DEFINE q == [k \in 0..(n + 1) |->
                     IF k \in 0..n THEN p[k]
                     ELSE IF n + 1 \in DOMAIN f THEN Add(p[n], f[n + 1]) ELSE p[n]]
  <2>2. n + 1 \in Identifier /\ n \in 0..n
    BY MaxSignersAssumption DEF Identifier
  <2>3. q \in [0..(n + 1) -> Scalar]
    BY <2>1, <2>2, AddType DEF ScalarMap
  <2>4. ASSUME NEW k \in 0..(n + 1)
        PROVE  q[k] = IF k = 0 THEN 0
                      ELSE IF k \in DOMAIN f THEN Add(q[k - 1], f[k]) ELSE q[k - 1]
    <3>1. CASE k \in 0..n
      BY <3>1, <2>1 DEF SumsUpTo
    <3>2. CASE k = n + 1
      BY <3>2
    <3> QED BY <3>1, <3>2
  <2>5. SumsUpTo(f, q, n + 1)
    BY <2>4 DEF SumsUpTo
  <2> HIDE DEF q
  <2>6. \E r \in [0..(n + 1) -> Scalar] : SumsUpTo(f, r, n + 1)
    BY <2>3, <2>5
  <2> QED BY <2>6, MaxSignersAssumption
<1> HIDE DEF T
<1>3. 0..MaxSigners \subseteq T
  BY <1>1, <1>2, InductionUpTo, MaxSignersAssumption
<1>4. MaxSigners \in T
  BY <1>3, MaxSignersAssumption
<1> QED BY <1>4 DEF T

\* PartialSums satisfies its recursion equation and is made of scalars.
LEMMA PartialSumsDef ==
  ASSUME NEW f, ScalarMap(f)
  PROVE  /\ SumsUpTo(f, PartialSums(f), MaxSigners)
         /\ PartialSums(f) \in [0..MaxSigners -> Scalar]
<1> DEFINE s == PartialSums(f)
<1>1. PICK p \in [0..MaxSigners -> Scalar] : SumsUpTo(f, p, MaxSigners)
  BY SumsExist
<1>2. SumsUpTo(f, s, MaxSigners)
  BY <1>1 DEF PartialSums, SumsUpTo
<1> DEFINE T == {n \in 0..MaxSigners : s[n] = p[n]}
<1> HIDE DEF s
<1>3. 0 \in T
  BY <1>1, <1>2, MaxSignersAssumption DEF SumsUpTo
<1>4. ASSUME NEW n \in 0..(MaxSigners - 1), n \in T
      PROVE  n + 1 \in T
  BY <1>1, <1>2, <1>4, MaxSignersAssumption DEF SumsUpTo
<1> HIDE DEF T
<1>5. 0..MaxSigners \subseteq T
  BY <1>3, <1>4, InductionUpTo, MaxSignersAssumption
<1>6. \A n \in 0..MaxSigners : s[n] = p[n]
  BY <1>5 DEF T
<1>7. s = p
  BY <1>1, <1>2, <1>6 DEF SumsUpTo
<1> QED BY <1>1, <1>2, <1>7 DEF s

\* The sum of a map of scalars is a scalar.
LEMMA SumType ==
  ASSUME NEW f, ScalarMap(f)
  PROVE  Sum(f) \in Scalar
  BY PartialSumsDef, MaxSignersAssumption DEF Sum

-----------------------------------------------------------------------------
(* Products, by the same argument.                                         *)

\* The recursion equation of PartialProducts up to n.
ProductsUpTo(f, p, n) ==
  p = [k \in 0..n |->
         IF k = 0 THEN 1
         ELSE IF k \in DOMAIN f THEN Mul(p[k - 1], f[k]) ELSE p[k - 1]]

\* The recursion behind PartialProducts has a solution.
LEMMA ProductsExist ==
  ASSUME NEW f, ScalarMap(f)
  PROVE  \E p \in [0..MaxSigners -> Scalar] : ProductsUpTo(f, p, MaxSigners)
<1> DEFINE T == {n \in 0..MaxSigners : \E p \in [0..n -> Scalar] : ProductsUpTo(f, p, n)}
<1>1. 0 \in T
  <2> DEFINE p == [k \in 0..0 |-> 1]
  <2>1. p \in [0..0 -> Scalar]
    BY ScalarFacts
  <2>2. ProductsUpTo(f, p, 0)
    BY DEF ProductsUpTo
  <2>3. \E q \in [0..0 -> Scalar] : ProductsUpTo(f, q, 0)
    BY <2>1, <2>2
  <2> QED BY <2>3, MaxSignersAssumption
<1>2. ASSUME NEW n \in 0..(MaxSigners - 1), n \in T
      PROVE  n + 1 \in T
  <2>1. PICK p \in [0..n -> Scalar] : ProductsUpTo(f, p, n)
    BY <1>2
  <2> DEFINE q == [k \in 0..(n + 1) |->
                     IF k \in 0..n THEN p[k]
                     ELSE IF n + 1 \in DOMAIN f THEN Mul(p[n], f[n + 1]) ELSE p[n]]
  <2>2. n + 1 \in Identifier /\ n \in 0..n
    BY MaxSignersAssumption DEF Identifier
  <2>3. q \in [0..(n + 1) -> Scalar]
    BY <2>1, <2>2, MulScalars DEF ScalarMap
  <2>4. ASSUME NEW k \in 0..(n + 1)
        PROVE  q[k] = IF k = 0 THEN 1
                      ELSE IF k \in DOMAIN f THEN Mul(q[k - 1], f[k]) ELSE q[k - 1]
    <3>1. CASE k \in 0..n
      BY <3>1, <2>1 DEF ProductsUpTo
    <3>2. CASE k = n + 1
      BY <3>2
    <3> QED BY <3>1, <3>2
  <2>5. ProductsUpTo(f, q, n + 1)
    BY <2>4 DEF ProductsUpTo
  <2> HIDE DEF q
  <2>6. \E r \in [0..(n + 1) -> Scalar] : ProductsUpTo(f, r, n + 1)
    BY <2>3, <2>5
  <2> QED BY <2>6, MaxSignersAssumption
<1> HIDE DEF T
<1>3. 0..MaxSigners \subseteq T
  BY <1>1, <1>2, InductionUpTo, MaxSignersAssumption
<1>4. MaxSigners \in T
  BY <1>3, MaxSignersAssumption
<1> QED BY <1>4 DEF T

\* PartialProducts satisfies its recursion equation and is made of scalars.
LEMMA PartialProductsDef ==
  ASSUME NEW f, ScalarMap(f)
  PROVE  /\ ProductsUpTo(f, PartialProducts(f), MaxSigners)
         /\ PartialProducts(f) \in [0..MaxSigners -> Scalar]
<1> DEFINE s == PartialProducts(f)
<1>1. PICK p \in [0..MaxSigners -> Scalar] : ProductsUpTo(f, p, MaxSigners)
  BY ProductsExist
<1>2. ProductsUpTo(f, s, MaxSigners)
  BY <1>1 DEF PartialProducts, ProductsUpTo
<1> DEFINE T == {n \in 0..MaxSigners : s[n] = p[n]}
<1> HIDE DEF s
<1>3. 0 \in T
  BY <1>1, <1>2, MaxSignersAssumption DEF ProductsUpTo
<1>4. ASSUME NEW n \in 0..(MaxSigners - 1), n \in T
      PROVE  n + 1 \in T
  BY <1>1, <1>2, <1>4, MaxSignersAssumption DEF ProductsUpTo
<1> HIDE DEF T
<1>5. 0..MaxSigners \subseteq T
  BY <1>3, <1>4, InductionUpTo, MaxSignersAssumption
<1>6. \A n \in 0..MaxSigners : s[n] = p[n]
  BY <1>5 DEF T
<1>7. s = p
  BY <1>1, <1>2, <1>6 DEF ProductsUpTo
<1> QED BY <1>1, <1>2, <1>7 DEF s

\* The product of a map of scalars is a scalar.
LEMMA ProductType ==
  ASSUME NEW f, ScalarMap(f)
  PROVE  Product(f) \in Scalar
  BY PartialProductsDef, MaxSignersAssumption DEF Product

-----------------------------------------------------------------------------
(* The field: it is a ring in which nonzero factors cancel.                *)

\* A multiple of Q that is smaller than Q in size is zero.
LEMMA SmallMultiple ==
  ASSUME NEW k \in Int, - Q < Q * k, Q * k < Q
  PROVE  k = 0
<1> Q \in Int /\ Q > 0
  BY QAssumption
<1>1. CASE k >= 1
  <2>1. Q * (k - 1) >= 0
    BY <1>1
  <2>2. Q * (k - 1) = Q * k - Q
    OBVIOUS
  <2> QED BY <2>1, <2>2
<1>2. CASE k <= -1
  <2>1. Q * (0 - 1 - k) >= 0
    BY <1>2
  <2>2. Q * (0 - 1 - k) = 0 - Q - Q * k
    OBVIOUS
  <2> QED BY <2>1, <2>2
<1> QED BY <1>1, <1>2

\* Division by Q with remainder.
LEMMA Remainder ==
  ASSUME NEW x \in Int
  PROVE  x % Q \in Scalar /\ \E d \in Int : x = Q * d + (x % Q)
<1> Q \in Int /\ Q > 0
  BY QAssumption
<1>1. x = Q * (x \div Q) + (x % Q) /\ x \div Q \in Int
  OBVIOUS
<1> QED BY <1>1, QAssumption DEF Scalar

\* The remainder is unique.
LEMMA RemainderUnique ==
  ASSUME NEW x \in Int, NEW d \in Int, NEW r \in Scalar, x = Q * d + r
  PROVE  x % Q = r
<1> Q \in Int /\ Q > 0 /\ r \in Int
  BY QAssumption, ScalarFacts
<1>1. PICK q \in Int : x = Q * q + (x % Q)
  BY Remainder
<1>2. x % Q \in Scalar
  BY Remainder
<1>3. PICK s \in Scalar : s = x % Q
  BY <1>2
<1>4. Q * (q - d) = r - s
  BY <1>1, <1>3, ScalarFacts
<1>5. q - d = 0
  BY <1>3, <1>4, SmallMultiple DEF Scalar
<1> QED BY <1>3, <1>4, <1>5, ScalarFacts

\* Multiplication of scalars commutes.
LEMMA ScalarsCommute == \A a, b \in Scalar : Mul(a, b) = Mul(b, a)
  BY MulCommutative, ScalarFacts

\* A product of scalars, before it is reduced.
LEMMA MulExpands ==
  ASSUME NEW a \in Scalar, NEW b \in Scalar
  PROVE  \E d \in Int, u \in Scalar : a * b = Q * d + u /\ Mul(a, b) = u
<1>1. PICK x \in Int : x = a * b
  BY ScalarFacts
<1>2. PICK d \in Int : x = Q * d + (x % Q)
  BY Remainder
<1>3. PICK u \in Scalar : u = x % Q
  BY Remainder
<1>4. a * b = Q * d + u /\ Mul(a, b) = u
  BY <1>1, <1>2, <1>3 DEF Mul
<1> QED BY <1>4

\* ... and a sum.
LEMMA AddExpands ==
  ASSUME NEW a \in Scalar, NEW b \in Scalar
  PROVE  \E d \in Int, u \in Scalar : a + b = Q * d + u /\ Add(a, b) = u
<1> a \in Int /\ b \in Int /\ Q \in Int
  BY ScalarFacts, QAssumption
<1>1. PICK u \in Scalar : u = Add(a, b)
  BY AddType
<1> u \in Int
  BY ScalarFacts
<1>2. CASE a + b < Q
  <2>1. a + b = Q * 0 + u
    BY <1>1, <1>2 DEF Add
  <2> QED BY <1>1, <2>1
<1>3. CASE ~ (a + b < Q)
  <2>1. PICK d \in Int : d = 1
    OBVIOUS
  <2>2. a + b = Q * d + u
    BY <1>1, <1>3, <2>1 DEF Add
  <2> QED BY <1>1, <2>2
<1> QED BY <1>2, <1>3

\* Multiplication is associative.
LEMMA MulAssociative ==
  \A a, b, c \in Scalar : Mul(Mul(a, b), c) = Mul(a, Mul(b, c))
<1> SUFFICES ASSUME NEW a \in Scalar, NEW b \in Scalar, NEW c \in Scalar
             PROVE  Mul(Mul(a, b), c) = Mul(a, Mul(b, c))
  OBVIOUS
<1> a \in Int /\ b \in Int /\ c \in Int /\ Q \in Int
  BY ScalarFacts, QAssumption
<1>1. PICK d \in Int, u \in Scalar : a * b = Q * d + u /\ Mul(a, b) = u
  BY MulExpands
<1>2. PICK e \in Int, v \in Scalar : b * c = Q * e + v /\ Mul(b, c) = v
  BY MulExpands
<1> u \in Int /\ v \in Int
  BY ScalarFacts
<1>3. PICK f \in Int, w \in Scalar : u * c = Q * f + w /\ Mul(u, c) = w
  BY MulExpands
<1> w \in Int
  BY ScalarFacts
<1>4. (a * b) * c = (Q * d + u) * c
  BY <1>1
<1>5. a * (b * c) = a * (Q * e + v)
  BY <1>2
<1>6. a * v = Q * (d * c + f - a * e) + w
  <2>1. (a * b) * c = a * (b * c)
    OBVIOUS
  <2>2. (Q * d + u) * c = Q * (d * c) + u * c
    OBVIOUS
  <2>3. a * (Q * e + v) = Q * (a * e) + a * v
    OBVIOUS
  <2>4. a * v = Q * (d * c) + (Q * f + w) - Q * (a * e)
    BY <1>3, <1>4, <1>5, <2>1, <2>2, <2>3
  <2>5. PICK dc \in Int, ae \in Int : dc = d * c /\ ae = a * e
    OBVIOUS
  <2>6. a * v = Q * dc + (Q * f + w) - Q * ae
    BY <2>4, <2>5
  <2>7. Q * dc + (Q * f + w) - Q * ae = Q * (dc + f - ae) + w
    OBVIOUS
  <2> QED BY <2>5, <2>6, <2>7
<1>7. Mul(a, v) = w
  <2>1. PICK g \in Int, y \in Int : g = d * c + f - a * e /\ y = a * v
    OBVIOUS
  <2>2. y = Q * g + w
    BY <1>6, <2>1
  <2>3. y % Q = w
    BY <2>2, RemainderUnique
  <2> QED BY <2>1, <2>3 DEF Mul
<1> QED BY <1>1, <1>2, <1>3, <1>7

\* Multiplication distributes over addition.
LEMMA MulDistributes ==
  \A a, b, c \in Scalar : Mul(a, Add(b, c)) = Add(Mul(a, b), Mul(a, c))
<1> SUFFICES ASSUME NEW a \in Scalar, NEW b \in Scalar, NEW c \in Scalar
             PROVE  Mul(a, Add(b, c)) = Add(Mul(a, b), Mul(a, c))
  OBVIOUS
<1> a \in Int /\ b \in Int /\ c \in Int /\ Q \in Int
  BY ScalarFacts, QAssumption
<1>1. PICK d \in Int, u \in Scalar : a * b = Q * d + u /\ Mul(a, b) = u
  BY MulExpands
<1>2. PICK e \in Int, v \in Scalar : a * c = Q * e + v /\ Mul(a, c) = v
  BY MulExpands
<1> u \in Int /\ v \in Int
  BY ScalarFacts
<1>3. PICK k \in Int, x \in Scalar : b + c = Q * k + x /\ Add(b, c) = x
  BY AddExpands
<1>4. PICK l \in Int, w \in Scalar : u + v = Q * l + w /\ Add(u, v) = w
  BY AddExpands
<1> w \in Int
  BY ScalarFacts
<1> x \in Int
  BY ScalarFacts
<1>5. PICK ak \in Int : ak = a * k
  OBVIOUS
<1>6. a * x = Q * (d + e + l - ak) + w
  <2>1. a * (b + c - Q * k) = a * b + a * c - Q * (a * k)
    OBVIOUS
  <2>2. b + c - Q * k = x
    <3>1. PICK qk \in Int : qk = Q * k
      OBVIOUS
    <3> QED BY <1>3, <3>1
  <2>3. a * x = Q * d + u + (Q * e + v) - Q * ak
    BY <1>1, <1>2, <1>5, <2>1, <2>2
  <2>4. Q * d + u + (Q * e + v) - Q * ak = Q * (d + e - ak) + (u + v)
    OBVIOUS
  <2>5. Q * (d + e - ak) + (Q * l + w) = Q * (d + e + l - ak) + w
    OBVIOUS
  <2> QED BY <1>4, <2>3, <2>4, <2>5
<1>7. Mul(a, x) = w
  <2>1. PICK g \in Int, y \in Int : g = d + e + l - ak /\ y = a * x
    OBVIOUS
  <2>2. y = Q * g + w
    BY <1>6, <2>1
  <2>3. y % Q = w
    BY <2>2, RemainderUnique
  <2> QED BY <2>1, <2>3 DEF Mul
<1> QED BY <1>1, <1>2, <1>3, <1>4, <1>7

\* Zero annihilates.
LEMMA MulZero == \A a \in Scalar : Mul(a, 0) = 0 /\ Mul(0, a) = 0
<1> SUFFICES ASSUME NEW a \in Scalar PROVE Mul(a, 0) = 0 /\ Mul(0, a) = 0
  OBVIOUS
<1>1. a \in Int /\ a * 0 = 0 /\ 0 * a = 0
  BY ScalarFacts
<1>2. 0 % Q = 0
  BY QAssumption
<1> QED BY <1>1, <1>2 DEF Mul

\* A factor may be negated before or after.
LEMMA MulNeg ==
  \A a, b \in Scalar : Mul(a, Neg(b)) = Neg(Mul(a, b)) /\ Mul(Neg(a), b) = Neg(Mul(a, b))
<1>1. ASSUME NEW a \in Scalar, NEW b \in Scalar PROVE Mul(a, Neg(b)) = Neg(Mul(a, b))
  <2>1. Add(Mul(a, b), Mul(a, Neg(b))) = 0
    BY MulDistributes, NegType, AddNeg, MulZero
  <2>2. PICK u \in Scalar, v \in Scalar : u = Mul(a, b) /\ v = Mul(a, Neg(b))
    BY MulScalars, NegType
  <2>3. v = Neg(u)
    BY <2>1, <2>2, QAssumption DEF Add, Neg, Scalar
  <2> QED BY <2>2, <2>3
<1>2. \A a, b \in Scalar : Mul(a, b) = Mul(b, a)
  BY MulCommutative, ScalarFacts
<1> QED BY <1>1, <1>2, NegType

\* The inverse of a nonzero scalar is one.
LEMMA InvFacts ==
  \A a \in Scalar \ {0} : Mul(a, Inv(a)) = 1 /\ Inv(a) # 0
<1> SUFFICES ASSUME NEW a \in Scalar \ {0} PROVE Mul(a, Inv(a)) = 1 /\ Inv(a) # 0
  OBVIOUS
<1>1. a \in 1..(Q - 1)
  BY QAssumption DEF Scalar
<1>2. PICK b \in 1..(Q - 1) : (a * b) % Q = 1
  BY <1>1, InverseAssumption
<1>3. \E c \in Scalar : a = 0 \/ Mul(a, c) = 1
  <2>1. b \in Scalar /\ Mul(a, b) = 1
    BY <1>2, QAssumption DEF Scalar, Mul
  <2> QED BY <2>1
<1>4. Mul(a, Inv(a)) = 1
  BY <1>3 DEF Inv
<1>5. Mul(a, 0) # 1
  BY MulZero
<1> QED BY <1>4, <1>5

\* A nonzero factor can be cancelled.
LEMMA MulCancel ==
  ASSUME NEW a \in Scalar \ {0}, NEW b \in Scalar, NEW c \in Scalar,
         Mul(a, b) = Mul(a, c)
  PROVE  b = c
<1>1. PICK i \in Scalar : Mul(a, i) = 1
  BY InvFacts, InvType
<1>2. \A x \in Scalar : x = Mul(i, Mul(a, x))
  <2> SUFFICES ASSUME NEW x \in Scalar PROVE x = Mul(i, Mul(a, x))
    OBVIOUS
  <2>1. Mul(i, Mul(a, x)) = Mul(Mul(i, a), x)
    BY MulAssociative
  <2>2. Mul(i, a) = 1 /\ Mul(1, x) = Mul(x, 1)
    BY <1>1, MulCommutative, ScalarFacts
  <2> QED BY <2>1, <2>2, MulOne
<1> QED BY <1>2

\* The product of nonzero scalars is nonzero.
LEMMA NoZeroDivisors ==
  \A a, b \in Scalar \ {0} : Mul(a, b) # 0
  BY MulCancel, MulZero, ScalarFacts

-----------------------------------------------------------------------------
(* Sums over maps, by induction on the largest identifier.                 *)

\* One step of the recursion of PartialSums.
LEMMA PartialSumsStep ==
  ASSUME NEW f, ScalarMap(f)
  PROVE  /\ PartialSums(f)[0] = 0
         /\ \A n \in Identifier :
               PartialSums(f)[n] = IF n \in DOMAIN f THEN Add(PartialSums(f)[n - 1], f[n])
                                                     ELSE PartialSums(f)[n - 1]
         /\ \A n \in 0..MaxSigners : PartialSums(f)[n] \in Scalar
         /\ Sum(f) = PartialSums(f)[MaxSigners]
<1>1. PICK p : p = PartialSums(f)
  OBVIOUS
<1>2. SumsUpTo(f, p, MaxSigners) /\ p \in [0..MaxSigners -> Scalar]
  BY <1>1, PartialSumsDef
<1>3. ASSUME NEW n \in Identifier
      PROVE  p[n] = IF n \in DOMAIN f THEN Add(p[n - 1], f[n]) ELSE p[n - 1]
  <2>1. n \in 0..MaxSigners /\ n # 0
    BY MaxSignersAssumption DEF Identifier
  <2> QED BY <1>2, <2>1 DEF SumsUpTo
<1>4. p[0] = 0
  BY <1>2, MaxSignersAssumption DEF SumsUpTo
<1> QED BY <1>1, <1>2, <1>3, <1>4 DEF Sum

\* Induction on the identifiers added so far.
LEMMA InductionOnIdentifiers ==
  ASSUME NEW T, 0 \in T,
         \A n \in Identifier : n - 1 \in T => n \in T
  PROVE  0..MaxSigners \subseteq T
<1>1. ASSUME NEW k \in 0..(MaxSigners - 1), k \in T PROVE k + 1 \in T
  <2>1. k + 1 \in Identifier /\ (k + 1) - 1 = k
    BY MaxSignersAssumption DEF Identifier
  <2> QED BY <1>1, <2>1
<1> QED BY <1>1, InductionUpTo, MaxSignersAssumption

\* Four scalars can be added in any order.
LEMMA AddFour ==
  \A a, b, c, d \in Scalar : Add(Add(a, b), Add(c, d)) = Add(Add(a, c), Add(b, d))
  BY QAssumption DEF Scalar, Add

\* Sums are added value by value.
LEMMA SumPlus ==
  ASSUME NEW f, NEW g, NEW h, ScalarMap(f), ScalarMap(g),
         DOMAIN g = DOMAIN f, DOMAIN h = DOMAIN f,
         \A n \in Identifier \cap DOMAIN f : h[n] = Add(f[n], g[n])
  PROVE  Sum(h) = Add(Sum(f), Sum(g))
<1>1. ScalarMap(h)
  BY AddType DEF ScalarMap
<1>2. PICK F, G, H : F = PartialSums(f) /\ G = PartialSums(g) /\ H = PartialSums(h)
  OBVIOUS
<1> DEFINE T == {n \in 0..MaxSigners : H[n] = Add(F[n], G[n])}
<1>3. 0 \in T
  BY <1>1, <1>2, PartialSumsStep, AddZero, ScalarFacts, MaxSignersAssumption
<1>4. ASSUME NEW n \in Identifier, n - 1 \in T PROVE n \in T
  <2>1. n \in 0..MaxSigners /\ n - 1 \in 0..MaxSigners
    BY MaxSignersAssumption DEF Identifier
  <2>2. /\ F[n - 1] \in Scalar /\ G[n - 1] \in Scalar
        /\ F[n] = IF n \in DOMAIN f THEN Add(F[n - 1], f[n]) ELSE F[n - 1]
        /\ G[n] = IF n \in DOMAIN f THEN Add(G[n - 1], g[n]) ELSE G[n - 1]
        /\ H[n] = IF n \in DOMAIN f THEN Add(H[n - 1], h[n]) ELSE H[n - 1]
    BY <1>1, <1>2, <2>1, PartialSumsStep
  <2>3. n \in DOMAIN f => f[n] \in Scalar /\ g[n] \in Scalar
    BY DEF ScalarMap
  <2> QED BY <1>4, <2>1, <2>2, <2>3, AddFour
<1> HIDE DEF T
<1>5. MaxSigners \in T
  BY <1>3, <1>4, InductionOnIdentifiers, MaxSignersAssumption
<1> QED BY <1>1, <1>2, <1>5, PartialSumsStep DEF T

\* A common factor can be taken out of a sum.
LEMMA SumTimes ==
  ASSUME NEW f, NEW h, NEW c \in Scalar, ScalarMap(f), DOMAIN h = DOMAIN f,
         \A n \in Identifier \cap DOMAIN f : h[n] = Mul(c, f[n])
  PROVE  Sum(h) = Mul(c, Sum(f))
<1>1. ScalarMap(h)
  BY MulScalars DEF ScalarMap
<1>2. PICK F, H : F = PartialSums(f) /\ H = PartialSums(h)
  OBVIOUS
<1> DEFINE T == {n \in 0..MaxSigners : H[n] = Mul(c, F[n])}
<1>3. 0 \in T
  BY <1>1, <1>2, PartialSumsStep, MulZero, ScalarFacts, MaxSignersAssumption
<1>4. ASSUME NEW n \in Identifier, n - 1 \in T PROVE n \in T
  <2>1. n \in 0..MaxSigners /\ n - 1 \in 0..MaxSigners
    BY MaxSignersAssumption DEF Identifier
  <2>2. /\ F[n - 1] \in Scalar
        /\ F[n] = IF n \in DOMAIN f THEN Add(F[n - 1], f[n]) ELSE F[n - 1]
        /\ H[n] = IF n \in DOMAIN f THEN Add(H[n - 1], h[n]) ELSE H[n - 1]
    BY <1>1, <1>2, <2>1, PartialSumsStep
  <2>3. n \in DOMAIN f => f[n] \in Scalar
    BY DEF ScalarMap
  <2> QED BY <1>4, <2>1, <2>2, <2>3, MulDistributes
<1> HIDE DEF T
<1>5. MaxSigners \in T
  BY <1>3, <1>4, InductionOnIdentifiers, MaxSignersAssumption
<1> QED BY <1>1, <1>2, <1>5, PartialSumsStep DEF T

\* Negating every value negates the sum.
LEMMA SumNeg ==
  ASSUME NEW f, NEW h, ScalarMap(f), DOMAIN h = DOMAIN f,
         \A n \in Identifier \cap DOMAIN f : h[n] = Neg(f[n])
  PROVE  Sum(h) = Neg(Sum(f))
<1>1. Neg(1) \in Scalar
  BY NegType, ScalarFacts
<1>2. \A a \in Scalar : Mul(Neg(1), a) = Neg(a)
  BY <1>1, MulCommutative, MulMinusOne, ScalarFacts
<1>3. \A n \in Identifier \cap DOMAIN f : h[n] = Mul(Neg(1), f[n])
  BY <1>2 DEF ScalarMap
<1> QED BY <1>1, <1>2, <1>3, SumTimes, SumType

\* A sum whose values are all zero is zero.
LEMMA SumZero ==
  ASSUME NEW f, \A n \in Identifier \cap DOMAIN f : f[n] = 0
  PROVE  Sum(f) = 0
<1>1. ScalarMap(f)
  BY ScalarFacts DEF ScalarMap
<1>2. \A n \in Identifier \cap DOMAIN f : f[n] = Mul(0, f[n])
  BY MulZero, ScalarFacts
<1>3. Sum(f) = Mul(0, Sum(f))
  BY <1>1, <1>2, SumTimes, ScalarFacts
<1> QED BY <1>1, <1>3, SumType, MulZero

\* The sum over a map is the sum without t, and the value of t.
LEMMA SumSplit ==
  ASSUME NEW f, NEW g, NEW t \in Identifier \cap DOMAIN f, ScalarMap(f),
         DOMAIN g = DOMAIN f \ {t},
         \A n \in Identifier \cap DOMAIN g : g[n] = f[n]
  PROVE  Sum(f) = Add(Sum(g), f[t])
<1>1. ScalarMap(g) /\ f[t] \in Scalar
  BY DEF ScalarMap
<1>2. PICK F, G : F = PartialSums(f) /\ G = PartialSums(g)
  OBVIOUS
<1> DEFINE T == {n \in 0..MaxSigners : F[n] = IF n < t THEN G[n] ELSE Add(G[n], f[t])}
<1>3. 0 \in T
  BY <1>1, <1>2, PartialSumsStep, MaxSignersAssumption DEF Identifier
<1>4. ASSUME NEW n \in Identifier, n - 1 \in T PROVE n \in T
  <2>1. n \in 0..MaxSigners /\ n - 1 \in 0..MaxSigners /\ n \in Nat /\ t \in Nat
    BY MaxSignersAssumption DEF Identifier
  <2>2. /\ G[n - 1] \in Scalar
        /\ F[n] = IF n \in DOMAIN f THEN Add(F[n - 1], f[n]) ELSE F[n - 1]
        /\ G[n] = IF n \in DOMAIN g THEN Add(G[n - 1], g[n]) ELSE G[n - 1]
    BY <1>1, <1>2, <2>1, PartialSumsStep
  <2>3. CASE n = t
    <3>1. F[n] = Add(G[n - 1], f[t]) /\ G[n] = G[n - 1]
      BY <1>4, <2>1, <2>2, <2>3
    <3> QED BY <2>1, <2>3, <3>1
  <2>4. CASE n < t
    BY <1>4, <2>1, <2>2, <2>4
  <2>5. CASE n > t
    <3>1. F[n - 1] = Add(G[n - 1], f[t])
      BY <1>4, <2>1, <2>5
    <3>2. CASE n \in DOMAIN f
      <4>1. n \in DOMAIN g /\ f[n] = g[n] /\ f[n] \in Scalar
        BY <2>1, <2>5, <3>2 DEF ScalarMap
      <4>2. Add(Add(G[n - 1], f[t]), f[n]) = Add(Add(G[n - 1], f[n]), f[t])
        <5>1. \A a, b, c \in Scalar : Add(Add(a, b), c) = Add(Add(a, c), b)
          BY QAssumption DEF Scalar, Add
        <5> QED BY <1>1, <2>2, <4>1, <5>1
      <4> QED BY <2>1, <2>2, <2>5, <3>1, <3>2, <4>1, <4>2
    <3>3. CASE n \notin DOMAIN f
      BY <2>1, <2>2, <2>5, <3>1, <3>3
    <3> QED BY <3>2, <3>3
  <2> QED BY <2>1, <2>3, <2>4, <2>5
<1> HIDE DEF T
<1>5. MaxSigners \in T
  BY <1>3, <1>4, InductionOnIdentifiers, MaxSignersAssumption
<1>6. ~ (MaxSigners < t)
  BY MaxSignersAssumption DEF Identifier
<1> QED BY <1>1, <1>2, <1>5, <1>6, PartialSumsStep DEF T

-----------------------------------------------------------------------------
(* Products, powers, and sums over pairs.                                  *)

\* One step of the recursion of PartialProducts.
LEMMA PartialProductsStep ==
  ASSUME NEW f, ScalarMap(f)
  PROVE  /\ PartialProducts(f)[0] = 1
         /\ \A n \in Identifier :
               PartialProducts(f)[n] =
                  IF n \in DOMAIN f THEN Mul(PartialProducts(f)[n - 1], f[n])
                                    ELSE PartialProducts(f)[n - 1]
         /\ \A n \in 0..MaxSigners : PartialProducts(f)[n] \in Scalar
         /\ Product(f) = PartialProducts(f)[MaxSigners]
<1>1. PICK p : p = PartialProducts(f)
  OBVIOUS
<1>2. ProductsUpTo(f, p, MaxSigners) /\ p \in [0..MaxSigners -> Scalar]
  BY <1>1, PartialProductsDef
<1>3. ASSUME NEW n \in Identifier
      PROVE  p[n] = IF n \in DOMAIN f THEN Mul(p[n - 1], f[n]) ELSE p[n - 1]
  <2>1. n \in 0..MaxSigners /\ n # 0
    BY MaxSignersAssumption DEF Identifier
  <2> QED BY <1>2, <2>1 DEF ProductsUpTo
<1>4. p[0] = 1
  BY <1>2, MaxSignersAssumption DEF ProductsUpTo
<1> QED BY <1>1, <1>2, <1>3, <1>4 DEF Product

\* The product over a map is the product without t, times the value of t.
LEMMA ProductSplit ==
  ASSUME NEW f, NEW g, NEW t \in Identifier \cap DOMAIN f, ScalarMap(f),
         DOMAIN g = DOMAIN f \ {t},
         \A n \in Identifier \cap DOMAIN g : g[n] = f[n]
  PROVE  Product(f) = Mul(Product(g), f[t])
<1>1. ScalarMap(g) /\ f[t] \in Scalar
  BY DEF ScalarMap
<1>2. PICK F, G : F = PartialProducts(f) /\ G = PartialProducts(g)
  OBVIOUS
<1> DEFINE T == {n \in 0..MaxSigners : F[n] = IF n < t THEN G[n] ELSE Mul(G[n], f[t])}
<1>3. 0 \in T
  BY <1>1, <1>2, PartialProductsStep, MaxSignersAssumption DEF Identifier
<1>4. ASSUME NEW n \in Identifier, n - 1 \in T PROVE n \in T
  <2>1. n \in 0..MaxSigners /\ n - 1 \in 0..MaxSigners /\ n \in Nat /\ t \in Nat
    BY MaxSignersAssumption DEF Identifier
  <2>2. /\ G[n - 1] \in Scalar
        /\ F[n] = IF n \in DOMAIN f THEN Mul(F[n - 1], f[n]) ELSE F[n - 1]
        /\ G[n] = IF n \in DOMAIN g THEN Mul(G[n - 1], g[n]) ELSE G[n - 1]
    BY <1>1, <1>2, <2>1, PartialProductsStep
  <2>3. CASE n = t
    <3>1. F[n] = Mul(G[n - 1], f[t]) /\ G[n] = G[n - 1]
      BY <1>4, <2>1, <2>2, <2>3
    <3> QED BY <2>1, <2>3, <3>1
  <2>4. CASE n < t
    BY <1>4, <2>1, <2>2, <2>4
  <2>5. CASE n > t
    <3>1. F[n - 1] = Mul(G[n - 1], f[t])
      BY <1>4, <2>1, <2>5
    <3>2. CASE n \in DOMAIN f
      <4>1. n \in DOMAIN g /\ f[n] = g[n] /\ f[n] \in Scalar
        BY <2>1, <2>5, <3>2 DEF ScalarMap
      <4>2. Mul(Mul(G[n - 1], f[t]), f[n]) = Mul(Mul(G[n - 1], f[n]), f[t])
        <5>1. Mul(f[t], f[n]) = Mul(f[n], f[t])
          BY <1>1, <4>1, ScalarsCommute
        <5> QED BY <1>1, <2>2, <4>1, <5>1, MulAssociative
      <4> QED BY <2>1, <2>2, <2>5, <3>1, <3>2, <4>1, <4>2
    <3>3. CASE n \notin DOMAIN f
      BY <2>1, <2>2, <2>5, <3>1, <3>3
    <3> QED BY <3>2, <3>3
  <2> QED BY <2>1, <2>3, <2>4, <2>5
<1> HIDE DEF T
<1>5. MaxSigners \in T
  BY <1>3, <1>4, InductionOnIdentifiers, MaxSignersAssumption
<1>6. ~ (MaxSigners < t)
  BY MaxSignersAssumption DEF Identifier
<1> QED BY <1>1, <1>2, <1>5, <1>6, PartialProductsStep DEF T

\* The product of no values is one.
LEMMA ProductEmpty ==
  ASSUME NEW f, Identifier \cap DOMAIN f = {}
  PROVE  Product(f) = 1
<1>1. ScalarMap(f)
  BY DEF ScalarMap
<1>2. PICK F : F = PartialProducts(f)
  OBVIOUS
<1> DEFINE T == {n \in 0..MaxSigners : F[n] = 1}
<1>3. 0 \in T
  BY <1>1, <1>2, PartialProductsStep, MaxSignersAssumption
<1>4. ASSUME NEW n \in Identifier, n - 1 \in T PROVE n \in T
  <2>1. n \in 0..MaxSigners
    BY MaxSignersAssumption DEF Identifier
  <2> QED BY <1>1, <1>2, <1>4, <2>1, PartialProductsStep
<1> HIDE DEF T
<1>5. MaxSigners \in T
  BY <1>3, <1>4, InductionOnIdentifiers, MaxSignersAssumption
<1> QED BY <1>1, <1>2, <1>5, PartialProductsStep DEF T

\* A product of nonzero values is nonzero.
LEMMA ProductNonzero ==
  ASSUME NEW f, ScalarMap(f), \A n \in Identifier \cap DOMAIN f : f[n] # 0
  PROVE  Product(f) # 0
<1>1. PICK F : F = PartialProducts(f)
  OBVIOUS
<1> DEFINE T == {n \in 0..MaxSigners : F[n] # 0}
<1>3. 0 \in T
  BY <1>1, PartialProductsStep, MaxSignersAssumption
<1>4. ASSUME NEW n \in Identifier, n - 1 \in T PROVE n \in T
  <2>1. n \in 0..MaxSigners /\ n - 1 \in 0..MaxSigners
    BY MaxSignersAssumption DEF Identifier
  <2>2. F[n - 1] \in Scalar \ {0}
    BY <1>1, <1>4, <2>1, PartialProductsStep
  <2>3. n \in DOMAIN f => f[n] \in Scalar \ {0}
    BY DEF ScalarMap
  <2> QED BY <1>1, <2>1, <2>2, <2>3, PartialProductsStep, NoZeroDivisors
<1> HIDE DEF T
<1>5. MaxSigners \in T
  BY <1>3, <1>4, InductionOnIdentifiers, MaxSignersAssumption
<1> QED BY <1>1, <1>5, PartialProductsStep DEF T

\* The power of a scalar: no factor for zero, one more factor for n + 1.
LEMMA PowerStep ==
  ASSUME NEW x \in Scalar
  PROVE  /\ Power(x, 0) = 1
         /\ \A n \in 0..(MaxSigners - 1) : Power(x, n + 1) = Mul(Power(x, n), x)
<1>1. Power(x, 0) = 1
  BY ProductEmpty DEF Power
<1>2. ASSUME NEW n \in 0..(MaxSigners - 1)
      PROVE  Power(x, n + 1) = Mul(Power(x, n), x)
  <2>1. PICK f, g : f = [k \in 1..(n + 1) |-> x] /\ g = [k \in 1..n |-> x]
    OBVIOUS
  <2>2. n + 1 \in Identifier /\ n + 1 \in 1..(n + 1) /\ 1..n = (1..(n + 1)) \ {n + 1}
    BY MaxSignersAssumption DEF Identifier
  <2>3. /\ DOMAIN f = 1..(n + 1) /\ DOMAIN g = DOMAIN f \ {n + 1}
        /\ f[n + 1] = x
        /\ \A k \in DOMAIN f : f[k] = x
        /\ \A k \in DOMAIN g : g[k] = x
    BY <2>1, <2>2
  <2>4. ScalarMap(f)
    BY <2>3 DEF ScalarMap
  <2>5. Product(f) = Mul(Product(g), f[n + 1])
    BY <2>2, <2>3, <2>4, ProductSplit
  <2> QED BY <2>1, <2>3, <2>5 DEF Power
<1> QED BY <1>1, <1>2

\* A double sum over the pairs of distinct elements whose values cancel is zero.
Antisymmetric(F, S) ==
  /\ F \in [Identifier \X Identifier -> Scalar]
  /\ \A i, j \in S : i # j => Add(F[<<i, j>>], F[<<j, i>>]) = 0

RowSums(F, S) == [i \in S |-> Sum([j \in S \ {i} |-> F[<<i, j>>]])]

\* Adding an element t adds its row and its column, which cancel.
LEMMA AntisymmetricStep ==
  ASSUME NEW S \in SUBSET Identifier, NEW t \in S, NEW F, Antisymmetric(F, S)
  PROVE  Sum(RowSums(F, S)) = Sum(RowSums(F, S \ {t}))
<1>1. PICK U : U = S \ {t}
  OBVIOUS
<1>2. PICK f, g, row, col :
         /\ f = [i \in U |-> Sum([j \in S \ {i} |-> F[<<i, j>>]])]
         /\ g = RowSums(F, U)
         /\ row = [j \in U |-> F[<<t, j>>]]
         /\ col = [i \in U |-> F[<<i, t>>]]
  OBVIOUS
<1>3. \A i \in Identifier : \A V \in SUBSET Identifier :
         ScalarMap([j \in V |-> F[<<i, j>>]])
  BY DEF Antisymmetric, ScalarMap
<1>4. ScalarMap(RowSums(F, S)) /\ ScalarMap(g) /\ ScalarMap(f)
  BY <1>1, <1>2, <1>3, SumType DEF ScalarMap, RowSums
<1>5. ScalarMap(row) /\ ScalarMap(col)
  BY <1>1, <1>2 DEF ScalarMap, Antisymmetric
<1>6. Sum(RowSums(F, S)) = Add(Sum(f), Sum(row))
  <2>1. RowSums(F, S)[t] = Sum(row)
    BY <1>1, <1>2 DEF RowSums
  <2>2. \A i \in U : RowSums(F, S)[i] = f[i]
    BY <1>1, <1>2 DEF RowSums
  <2>3. DOMAIN RowSums(F, S) = S /\ DOMAIN f = S \ {t}
    BY <1>1, <1>2 DEF RowSums
  <2>4. t \in Identifier \cap DOMAIN RowSums(F, S)
    BY <2>3
  <2>5. \A i \in Identifier \cap DOMAIN f : f[i] = RowSums(F, S)[i]
    BY <1>1, <2>2, <2>3
  <2> QED BY <1>4, <2>1, <2>3, <2>4, <2>5, SumSplit
<1>7. \A i \in U : f[i] = Add(g[i], col[i])
  <2> SUFFICES ASSUME NEW i \in U PROVE f[i] = Add(g[i], col[i])
    OBVIOUS
  <2>1. PICK r, s : r = [j \in S \ {i} |-> F[<<i, j>>]] /\ s = [j \in U \ {i} |-> F[<<i, j>>]]
    OBVIOUS
  <2>2. f[i] = Sum(r) /\ g[i] = Sum(s) /\ col[i] = F[<<i, t>>]
    BY <1>2, <2>1 DEF RowSums
  <2>3. /\ t \in Identifier \cap DOMAIN r /\ DOMAIN s = DOMAIN r \ {t}
        /\ \A n \in Identifier \cap DOMAIN s : s[n] = r[n]
        /\ r[t] = F[<<i, t>>]
    BY <1>1, <2>1
  <2>4. ScalarMap(r)
    BY <1>1, <1>3, <2>1
  <2> QED BY <2>2, <2>3, <2>4, SumSplit
<1>8. Sum(f) = Add(Sum(g), Sum(col))
  <2>1. DOMAIN f = U /\ DOMAIN g = U /\ DOMAIN col = U
    BY <1>2 DEF RowSums
  <2> QED BY <1>4, <1>5, <1>7, <2>1, SumPlus
<1>9. Add(Sum(col), Sum(row)) = 0
  <2>1. PICK h : h = [i \in U |-> 0]
    OBVIOUS
  <2>2. \A i \in U : h[i] = Add(col[i], row[i])
    BY <1>1, <1>2, <2>1 DEF Antisymmetric
  <2>3. DOMAIN h = U /\ DOMAIN row = U /\ DOMAIN col = U /\ \A i \in U : h[i] = 0
    BY <1>2, <2>1
  <2>4. Sum(h) = Add(Sum(col), Sum(row))
    BY <1>5, <2>2, <2>3, SumPlus
  <2> QED BY <2>3, <2>4, SumZero
<1>10. Add(Add(Sum(g), Sum(col)), Sum(row)) = Sum(g)
  <2>1. Sum(g) \in Scalar /\ Sum(row) \in Scalar /\ Sum(col) \in Scalar
    BY <1>4, <1>5, SumType
  <2> QED BY <1>9, <2>1, AddAssociative, AddZero
<1> QED BY <1>1, <1>2, <1>6, <1>8, <1>10

\* The rows of an antisymmetric table sum to zero.
LEMMA AntisymmetricSum ==
  ASSUME NEW S \in SUBSET Identifier, NEW F, Antisymmetric(F, S)
  PROVE  Sum(RowSums(F, S)) = 0
<1> DEFINE T == {n \in 0..MaxSigners : Sum(RowSums(F, S \cap (1..n))) = 0}
<1>1. 0 \in T
  <2>1. S \cap (1..0) = {}
    OBVIOUS
  <2>2. Sum(RowSums(F, {})) = 0
    BY SumZero DEF RowSums
  <2> QED BY <2>1, <2>2, MaxSignersAssumption
<1>2. ASSUME NEW n \in Identifier, n - 1 \in T PROVE n \in T
  <2>1. n \in 0..MaxSigners /\ n \in Nat \ {0}
    BY MaxSignersAssumption DEF Identifier
  <2>2. CASE n \notin S
    <3>1. S \cap (1..n) = S \cap (1..(n - 1))
      BY <2>1, <2>2 DEF Identifier
    <3> QED BY <1>2, <2>1, <3>1
  <2>3. CASE n \in S
    <3>1. PICK V : V = S \cap (1..n)
      OBVIOUS
    <3>2. V \in SUBSET Identifier /\ n \in V /\ V \ {n} = S \cap (1..(n - 1))
      BY <2>1, <2>3, <3>1 DEF Identifier
    <3>3. Antisymmetric(F, V)
      BY <3>1 DEF Antisymmetric
    <3>4. Sum(RowSums(F, V)) = Sum(RowSums(F, V \ {n}))
      BY <3>2, <3>3, AntisymmetricStep
    <3> QED BY <1>2, <2>1, <3>1, <3>2, <3>4
  <2> QED BY <2>2, <2>3
<1> HIDE DEF T
<1>3. MaxSigners \in T
  BY <1>1, <1>2, InductionOnIdentifiers, MaxSignersAssumption
<1>4. S \cap (1..MaxSigners) = S
  BY DEF Identifier
<1> QED BY <1>3, <1>4 DEF T
=============================================================================
