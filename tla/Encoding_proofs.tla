---------------------------- MODULE Encoding_proofs ----------------------------
(***************************************************************************)
(* The bytes, for every ciphersuite, length of a point and of a scalar,    *)
(* and encoding of the curve library that tells its values apart: what     *)
(* from_bytes makes of any bytes, what the two verifiers of Ed25519 make   *)
(* of them, and which inputs are hashed as the same bytes.                 *)
(***************************************************************************)
EXTENDS Wire, HashInputs, ScalarField_proofs, FiniteSetTheorems

-----------------------------------------------------------------------------
(* Numbers of two digits.                                                  *)

\* Multiplication by a natural is monotonic.
LEMMA MultipleMonotonic ==
  ASSUME NEW B \in Nat, NEW a \in Nat, NEW b \in Nat, a < b
  PROVE  a * B + B <= b * B
<1>1. PICK c \in Nat : b = a + 1 + c
  <2>1. b - a - 1 \in Nat /\ b = a + 1 + (b - a - 1)
    OBVIOUS
  <2> QED BY <2>1
<1>2. b * B = a * B + B + c * B
  BY <1>1
<1>3. c * B \in Nat /\ a * B \in Nat
  OBVIOUS
<1> QED BY <1>2, <1>3

\* A quotient and a remainder are determined by their number.
LEMMA DigitsUnique ==
  ASSUME NEW B \in Nat, NEW a \in Nat, NEW b \in Nat,
         NEW r \in 0..(B - 1), NEW s \in 0..(B - 1), a * B + r = b * B + s
  PROVE  a = b /\ r = s
<1>1. ~ (a < b)
  <2> SUFFICES ASSUME a < b PROVE FALSE
    OBVIOUS
  <2>1. a * B + B <= b * B
    BY MultipleMonotonic
  <2>2. PICK x \in Nat, y \in Nat : x = a * B /\ y = b * B
    OBVIOUS
  <2> QED BY <2>1, <2>2
<1>2. ~ (b < a)
  <2> SUFFICES ASSUME b < a PROVE FALSE
    OBVIOUS
  <2>1. b * B + B <= a * B
    BY MultipleMonotonic
  <2>2. PICK x \in Nat, y \in Nat : x = a * B /\ y = b * B
    OBVIOUS
  <2> QED BY <2>1, <2>2
<1>3. a = b
  BY <1>1, <1>2
<1>4. PICK x \in Nat : x = a * B
  OBVIOUS
<1> QED BY <1>3, <1>4

\* Division splits off the last digit.
LEMMA DivMod ==
  ASSUME NEW B \in Nat \ {0}, NEW x \in Nat
  PROVE  /\ x \div B \in Nat /\ x % B \in 0..(B - 1)
         /\ x = (x \div B) * B + (x % B)
<1>1. x \div B \in Nat /\ x % B \in 0..(B - 1) /\ x = B * (x \div B) + (x % B)
  OBVIOUS
<1>2. \A y, z \in Nat : y * z = z * y
  OBVIOUS
<1> QED BY <1>1, <1>2

-----------------------------------------------------------------------------
(* Sequences.                                                              *)

\* The elements of a sequence.
LEMMA SeqElement ==
  ASSUME NEW T, NEW s \in Seq(T), NEW n \in 1..Len(s)
  PROVE  s[n] \in T
  OBVIOUS

\* A function on 1..n is a sequence.
LEMMA FunctionIsSeq ==
  ASSUME NEW T, NEW n \in Nat, NEW b \in [1..n -> T]
  PROVE  b \in Seq(T) /\ Len(b) = n
  OBVIOUS

\* The elements and the length of a concatenation.
LEMMA ConcatFacts ==
  ASSUME NEW T, NEW s \in Seq(T), NEW t \in Seq(T)
  PROVE  /\ s \o t \in Seq(T)
         /\ Len(s \o t) = Len(s) + Len(t)
         /\ \A n \in 1..Len(s) : (s \o t)[n] = s[n]
         /\ \A n \in 1..Len(t) : (s \o t)[Len(s) + n] = t[n]
  OBVIOUS

\* The same, for one element of either part.
LEMMA ConcatFirst ==
  ASSUME NEW T, NEW s \in Seq(T), NEW t \in Seq(T), NEW n \in 1..Len(s)
  PROVE  (s \o t)[n] = s[n]
  OBVIOUS

LEMMA ConcatSecond ==
  ASSUME NEW T, NEW s \in Seq(T), NEW t \in Seq(T), NEW n \in 1..Len(t)
  PROVE  (s \o t)[Len(s) + n] = t[n]
  OBVIOUS

\* Sequences are equal when their lengths and elements are.
LEMMA SeqsEqual ==
  ASSUME NEW T, NEW s \in Seq(T), NEW t \in Seq(T), Len(s) = Len(t),
         \A n \in 1..Len(s) : s[n] = t[n]
  PROVE  s = t
  OBVIOUS

\* A product of natural numbers,
LEMMA TimesNat == ASSUME NEW m \in Nat, NEW L \in Nat PROVE m * L \in Nat
  OBVIOUS

\* and of the next one.
LEMMA TimesSuccessor == ASSUME NEW m \in Nat, NEW L \in Nat PROVE (m + 1) * L = m * L + L
  OBVIOUS

\* The elements and the length of a slice.
LEMMA SliceFacts ==
  ASSUME NEW T, NEW s \in Seq(T), NEW m \in Nat, NEW n \in m..Len(s)
  PROVE  /\ SubSeq(s, m + 1, n) \in Seq(T)
         /\ Len(SubSeq(s, m + 1, n)) = n - m
         /\ \A k \in 1..(n - m) : SubSeq(s, m + 1, n)[k] = s[m + k]
  OBVIOUS

\* A concatenation determines its parts when the length of the first is known.
LEMMA ConcatSplit ==
  ASSUME NEW T, NEW s \in Seq(T), NEW t \in Seq(T), NEW u \in Seq(T), NEW v \in Seq(T),
         Len(s) = Len(u), s \o t = u \o v
  PROVE  s = u /\ t = v
<1>1. Len(t) = Len(v)
  BY ConcatFacts
<1>2. \A n \in 1..Len(s) : s[n] = u[n]
  BY ConcatFacts
<1>3. ASSUME NEW n \in 1..Len(t) PROVE t[n] = v[n]
  <2>1. (s \o t)[Len(s) + n] = t[n]
    BY ConcatSecond
  <2>2. (u \o v)[Len(u) + n] = v[n]
    BY <1>1, ConcatSecond
  <2> QED BY <2>1, <2>2
<1> QED BY <1>1, <1>2, <1>3, SeqsEqual

\* A sequence is the concatenation of its two slices, or three.
LEMMA TwoSlices ==
  ASSUME NEW T, NEW b \in Seq(T), NEW m \in 0..Len(b)
  PROVE  b = SubSeq(b, 0 + 1, m) \o SubSeq(b, m + 1, Len(b))
<1>1. PICK s, t : s = SubSeq(b, 0 + 1, m) /\ t = SubSeq(b, m + 1, Len(b))
  OBVIOUS
<1>2. Len(b) \in Nat
  OBVIOUS
<1>3. s \in Seq(T) /\ Len(s) = m /\ \A k \in 1..m : s[k] = b[k]
  <2>1. m \in 0..Len(b) /\ 0 \in Nat
    OBVIOUS
  <2>2. /\ s \in Seq(T) /\ Len(s) = m - 0
        /\ \A k \in 1..(m - 0) : s[k] = b[0 + k]
    BY <1>1, <2>1, SliceFacts
  <2> QED BY <1>2, <2>2
<1>4. t \in Seq(T) /\ Len(t) = Len(b) - m /\ \A k \in 1..(Len(b) - m) : t[k] = b[m + k]
  BY <1>1, <1>2, SliceFacts
<1>5. s \o t \in Seq(T) /\ Len(s \o t) = Len(b)
  <2>1. s \in Seq(T) /\ t \in Seq(T)
    BY <1>3, <1>4
  <2>2. s \o t \in Seq(T) /\ Len(s \o t) = Len(s) + Len(t)
    BY <2>1, ConcatFacts
  <2>3. Len(s) + Len(t) = Len(b)
    BY <1>2, <1>3, <1>4
  <2> QED BY <2>2, <2>3
<1>6. ASSUME NEW k \in 1..Len(b) PROVE (s \o t)[k] = b[k]
  <2>1. CASE k <= m
    <3>1. k \in 1..Len(s) /\ s[k] = b[k]
      BY <1>2, <1>3, <2>1
    <3>2. s \in Seq(T) /\ t \in Seq(T)
      BY <1>3, <1>4
    <3>3. (s \o t)[k] = s[k]
      BY <3>1, <3>2, ConcatFirst
    <3> QED BY <3>1, <3>3
  <2>2. CASE k > m
    <3>1. PICK j \in 1..Len(t) : k = Len(s) + j /\ k = m + j /\ j \in 1..(Len(b) - m)
      <4>1. k - m \in 1..Len(t) /\ k = Len(s) + (k - m) /\ k = m + (k - m)
            /\ k - m \in 1..(Len(b) - m)
        BY <1>2, <1>3, <1>4, <2>2
      <4> QED BY <4>1
    <3>2. (s \o t)[Len(s) + j] = t[j]
      BY <1>3, <1>4, <3>1, ConcatSecond
    <3>3. t[j] = b[m + j]
      BY <1>4, <3>1
    <3> QED BY <3>1, <3>2, <3>3
  <2>3. k <= m \/ k > m
    BY <1>2
  <2> QED BY <2>1, <2>2, <2>3
<1>7. s \o t = b
  BY <1>5, <1>6, SeqsEqual
<1> QED BY <1>1, <1>7

LEMMA ThreeSlices ==
  ASSUME NEW T, NEW b \in Seq(T), NEW n \in 0..Len(b), NEW m \in 0..n
  PROVE  b = (SubSeq(b, 0 + 1, m) \o SubSeq(b, m + 1, n)) \o SubSeq(b, n + 1, Len(b))
<1>1. PICK a, s, t, u : /\ a = SubSeq(b, 0 + 1, n) /\ u = SubSeq(b, n + 1, Len(b))
                        /\ s = SubSeq(b, 0 + 1, m) /\ t = SubSeq(b, m + 1, n)
  OBVIOUS
<1>2. b = a \o u
  BY <1>1, TwoSlices
<1>3. Len(b) \in Nat /\ m \in Nat /\ n \in Nat
  OBVIOUS
<1>4. a \in Seq(T) /\ Len(a) = n /\ \A k \in 1..n : a[k] = b[k]
  <2>1. /\ a \in Seq(T) /\ Len(a) = n - 0
        /\ \A k \in 1..(n - 0) : a[k] = b[0 + k]
    BY <1>1, <1>3, SliceFacts
  <2> QED BY <1>3, <2>1
<1>5. s = SubSeq(a, 0 + 1, m)
  <2>1. /\ s \in Seq(T) /\ Len(s) = m - 0
        /\ \A k \in 1..(m - 0) : s[k] = b[0 + k]
    BY <1>1, <1>3, SliceFacts
  <2>2. PICK s2 : s2 = SubSeq(a, 0 + 1, m)
    OBVIOUS
  <2>3. /\ s2 \in Seq(T) /\ Len(s2) = m - 0
        /\ \A k \in 1..(m - 0) : s2[k] = a[0 + k]
    BY <1>3, <1>4, <2>2, SliceFacts
  <2>4. s = s2
    BY <1>3, <1>4, <2>1, <2>3, SeqsEqual
  <2> QED BY <2>2, <2>4
<1>6. t = SubSeq(a, m + 1, Len(a))
  <2>1. /\ t \in Seq(T) /\ Len(t) = n - m
        /\ \A k \in 1..(n - m) : t[k] = b[m + k]
    BY <1>1, <1>3, SliceFacts
  <2>2. PICK t2 : t2 = SubSeq(a, m + 1, Len(a))
    OBVIOUS
  <2>3. /\ t2 \in Seq(T) /\ Len(t2) = n - m
        /\ \A k \in 1..(n - m) : t2[k] = a[m + k]
    BY <1>3, <1>4, <2>2, SliceFacts
  <2>4. \A k \in 1..(n - m) : m + k \in 1..n
    BY <1>3
  <2>5. Len(t) = Len(t2) /\ \A k \in 1..Len(t) : t[k] = t2[k]
    <3>1. \A k \in 1..(n - m) : a[m + k] = b[m + k]
      BY <1>4, <2>4
    <3> QED BY <2>1, <2>3, <3>1
  <2>6. t = t2
    BY <2>1, <2>3, <2>5, SeqsEqual
  <2> QED BY <2>2, <2>6
<1>7. a = s \o t
  BY <1>4, <1>5, <1>6, TwoSlices
<1> QED BY <1>1, <1>2, <1>7

\* Two sequences, or three, make up a third exactly if they are its slices.
LEMMA CutInTwo ==
  ASSUME NEW T, NEW x \in Seq(T), NEW y \in Seq(T), NEW b \in Seq(T),
         Len(b) = Len(x) + Len(y)
  PROVE  /\ x \o y = b => /\ x = SubSeq(b, 0 + 1, Len(x))
                          /\ y = SubSeq(b, Len(x) + 1, Len(b))
         /\ b = SubSeq(b, 0 + 1, Len(x)) \o SubSeq(b, Len(x) + 1, Len(b))
<1>1. Len(x) \in Nat /\ Len(y) \in Nat
  OBVIOUS
<1>2. PICK m \in 0..Len(b) : m = Len(x)
  BY <1>1
<1>3. PICK s, t : s = SubSeq(b, 0 + 1, m) /\ t = SubSeq(b, m + 1, Len(b))
  OBVIOUS
<1>4. b = s \o t
  BY <1>3, TwoSlices
<1>5. s \in Seq(T) /\ Len(s) = m - 0 /\ t \in Seq(T)
  <2>1. 0 \in Nat /\ m \in 0..Len(b) /\ m \in Nat /\ Len(b) \in m..Len(b)
    BY <1>1, <1>2
  <2>2. s \in Seq(T) /\ Len(s) = m - 0
    BY <1>3, <2>1, SliceFacts
  <2>3. t \in Seq(T)
    BY <1>3, <2>1, SliceFacts
  <2> QED BY <2>2, <2>3
<1>6. Len(s) = Len(x)
  BY <1>1, <1>2, <1>5
<1>7. ASSUME x \o y = b PROVE x = s /\ y = t
  <2>1. x \o y = s \o t
    BY <1>4, <1>7
  <2> QED BY <1>5, <1>6, <2>1, ConcatSplit
<1> QED BY <1>2, <1>3, <1>4, <1>7

LEMMA CutInThree ==
  ASSUME NEW T, NEW x \in Seq(T), NEW y \in Seq(T), NEW z \in Seq(T), NEW b \in Seq(T),
         Len(b) = Len(x) + Len(y) + Len(z)
  PROVE  /\ (x \o y) \o z = b =>
               /\ x = SubSeq(b, 0 + 1, Len(x))
               /\ y = SubSeq(b, Len(x) + 1, Len(x) + Len(y))
               /\ z = SubSeq(b, Len(x) + Len(y) + 1, Len(b))
         /\ b = (SubSeq(b, 0 + 1, Len(x)) \o SubSeq(b, Len(x) + 1, Len(x) + Len(y)))
                  \o SubSeq(b, Len(x) + Len(y) + 1, Len(b))
<1>1. Len(x) \in Nat /\ Len(y) \in Nat /\ Len(z) \in Nat
  OBVIOUS
<1>2. PICK n \in 0..Len(b) : n = Len(x) + Len(y)
  BY <1>1
<1>3. PICK m \in 0..n : m = Len(x)
  BY <1>1, <1>2
<1>4. PICK s, t, u : /\ s = SubSeq(b, 0 + 1, m) /\ t = SubSeq(b, m + 1, n)
                     /\ u = SubSeq(b, n + 1, Len(b))
  OBVIOUS
<1>5. b = (s \o t) \o u
  BY <1>4, ThreeSlices
<1>6. /\ s \in Seq(T) /\ Len(s) = m - 0
      /\ t \in Seq(T) /\ Len(t) = n - m
      /\ u \in Seq(T)
  <2>1. /\ 0 \in Nat /\ m \in 0..Len(b) /\ m \in Nat /\ n \in m..Len(b)
        /\ n \in Nat /\ Len(b) \in n..Len(b)
    BY <1>1, <1>2, <1>3
  <2>2. s \in Seq(T) /\ Len(s) = m - 0
    BY <1>4, <2>1, SliceFacts
  <2>3. t \in Seq(T) /\ Len(t) = n - m
    BY <1>4, <2>1, SliceFacts
  <2>4. u \in Seq(T)
    BY <1>4, <2>1, SliceFacts
  <2> QED BY <2>2, <2>3, <2>4
<1>7. /\ x \o y \in Seq(T) /\ s \o t \in Seq(T) /\ Len(x \o y) = Len(s \o t)
      /\ Len(x) = Len(s)
  <2>1. x \o y \in Seq(T) /\ Len(x \o y) = Len(x) + Len(y)
    BY ConcatFacts
  <2>2. s \o t \in Seq(T) /\ Len(s \o t) = Len(s) + Len(t)
    BY <1>6, ConcatFacts
  <2> QED BY <1>1, <1>2, <1>3, <1>6, <2>1, <2>2
<1>8. ASSUME (x \o y) \o z = b PROVE x = s /\ y = t /\ z = u
  <2>1. PICK v, w : v = x \o y /\ w = s \o t
    OBVIOUS
  <2>2. v \in Seq(T) /\ w \in Seq(T) /\ Len(v) = Len(w) /\ v \o z = w \o u
    BY <1>5, <1>7, <1>8, <2>1
  <2>3. v = w /\ z = u
    BY <1>6, <2>2, ConcatSplit
  <2>4. x \o y = s \o t
    BY <2>1, <2>3
  <2> QED BY <1>6, <1>7, <2>3, <2>4, ConcatSplit
<1> QED BY <1>2, <1>3, <1>4, <1>5, <1>8

\* The first k of the blocks that flatten concatenates.
Flattened(f, q, k) ==
    /\ DOMAIN f = 1..k
    /\ \A i \in 1..k : f[i] = IF i = 1 THEN q[i] ELSE f[i - 1] \o q[i]

\* The function by which FlattenSeq is defined exists.
LEMMA FlattenedExists ==
  ASSUME NEW T, NEW q \in Seq(Seq(T)), NEW n \in 1..Len(q)
  PROVE  \E f : Flattened(f, q, n)
<1> DEFINE S == {k \in Nat : k = 0 \/ \E f : Flattened(f, q, k)}
<1>1. 0 \in S
  OBVIOUS
<1>2. ASSUME NEW k \in 0..(n - 1), k \in S PROVE k + 1 \in S
  <2>1. CASE k = 0
    <3>1. Flattened([i \in 1..1 |-> q[i]], q, 1)
      BY DEF Flattened
    <3> QED BY <2>1, <3>1
  <2>2. CASE k # 0
    <3>1. PICK f : Flattened(f, q, k)
      BY <1>2, <2>2
    <3>2. PICK g : g = [i \in 1..(k + 1) |-> IF i <= k THEN f[i] ELSE f[k] \o q[k + 1]]
      OBVIOUS
    <3>3. ASSUME NEW i \in 1..(k + 1)
          PROVE  g[i] = IF i = 1 THEN q[i] ELSE g[i - 1] \o q[i]
      <4>1. CASE i <= k
        <5>1. i \in 1..k /\ (i # 1 => i - 1 \in 1..(k + 1) /\ i - 1 <= k)
          BY <4>1
        <5> QED BY <3>1, <3>2, <4>1, <5>1 DEF Flattened
      <4>2. CASE i = k + 1
        <5>1. i # 1 /\ ~ (i <= k) /\ i - 1 = k /\ k \in 1..(k + 1) /\ k <= k
          BY <2>2, <4>2
        <5>2. g[i] = f[k] \o q[k + 1] /\ g[k] = f[k]
          BY <3>2, <5>1
        <5> QED BY <4>2, <5>1, <5>2
      <4> QED BY <4>1, <4>2
    <3>4. Flattened(g, q, k + 1)
      BY <3>2, <3>3 DEF Flattened
    <3> QED BY <3>4
  <2> QED BY <2>1, <2>2
<1>3. n \in Nat /\ n # 0 /\ n \in 0..n
  OBVIOUS
<1> HIDE DEF S
<1>4. n \in S
  BY <1>1, <1>2, <1>3, InductionUpTo
<1> QED BY <1>3, <1>4 DEF S

\* So FlattenSeq is its last value.
LEMMA FlattenSeqIs ==
  ASSUME NEW T, NEW q \in Seq(Seq(T)), Len(q) # 0
  PROVE  \E f : Flattened(f, q, Len(q)) /\ FlattenSeq(q) = f[Len(q)]
<1> DEFINE P(f) == f = [i \in 1..Len(q) |-> IF i = 1 THEN q[i] ELSE f[i - 1] \o q[i]]
<1>1. Len(q) \in 1..Len(q)
  OBVIOUS
<1>2. PICK g : Flattened(g, q, Len(q))
  BY <1>1, FlattenedExists
<1>3. PICK h : h = [i \in 1..Len(q) |-> g[i]]
  OBVIOUS
<1>4. P(h)
  <2>1. ASSUME NEW i \in 1..Len(q)
        PROVE  h[i] = IF i = 1 THEN q[i] ELSE h[i - 1] \o q[i]
    <3>1. i # 1 => i - 1 \in 1..Len(q)
      OBVIOUS
    <3> QED BY <1>2, <1>3, <3>1 DEF Flattened
  <2>2. PICK h2 : h2 = [i \in 1..Len(q) |-> IF i = 1 THEN q[i] ELSE h[i - 1] \o q[i]]
    OBVIOUS
  <2>3. h = h2
    BY <1>3, <2>1, <2>2
  <2> QED BY <2>2, <2>3
<1>5. PICK f : f = CHOOSE k : P(k)
  BY Zenon
<1>6. P(f)
  BY <1>4, <1>5, Zenon
<1>7. Flattened(f, q, Len(q))
  <2>1. PICK f2 : f2 = [i \in 1..Len(q) |-> IF i = 1 THEN q[i] ELSE f[i - 1] \o q[i]]
    OBVIOUS
  <2>2. DOMAIN f2 = 1..Len(q)
        /\ \A i \in 1..Len(q) : f2[i] = IF i = 1 THEN q[i] ELSE f[i - 1] \o q[i]
    BY <2>1
  <2>3. f = f2
    BY <1>6, <2>1
  <2> QED BY <2>2, <2>3 DEF Flattened
<1>8. FlattenSeq(q) = f[Len(q)]
  BY <1>5 DEF FlattenSeq
<1> QED BY <1>7, <1>8

\* Flattening two sequences, or three, concatenates them.
LEMMA FlattenTwo ==
  ASSUME NEW T, NEW q \in Seq(Seq(T)), Len(q) = 2
  PROVE  FlattenSeq(q) = q[1] \o q[2]
<1>1. PICK f : Flattened(f, q, 2) /\ FlattenSeq(q) = f[2]
  <2>1. Len(q) # 0
    OBVIOUS
  <2>2. PICK f : Flattened(f, q, Len(q)) /\ FlattenSeq(q) = f[Len(q)]
    BY <2>1, FlattenSeqIs
  <2> QED BY <2>2, Zenon
<1>2. \A i \in 1..2 : f[i] = IF i = 1 THEN q[i] ELSE f[i - 1] \o q[i]
  BY <1>1 DEF Flattened
<1>3. 1 \in 1..2 /\ 2 \in 1..2 /\ 2 # 1 /\ 2 - 1 = 1
  OBVIOUS
<1>4. f[1] = q[1] /\ f[2] = f[1] \o q[2]
  BY <1>2, <1>3
<1> QED BY <1>1, <1>4

LEMMA FlattenThree ==
  ASSUME NEW T, NEW q \in Seq(Seq(T)), Len(q) = 3
  PROVE  FlattenSeq(q) = (q[1] \o q[2]) \o q[3]
<1>1. PICK f : Flattened(f, q, 3) /\ FlattenSeq(q) = f[3]
  <2>1. Len(q) # 0
    OBVIOUS
  <2>2. PICK f : Flattened(f, q, Len(q)) /\ FlattenSeq(q) = f[Len(q)]
    BY <2>1, FlattenSeqIs
  <2> QED BY <2>2, Zenon
<1>2. \A i \in 1..3 : f[i] = IF i = 1 THEN q[i] ELSE f[i - 1] \o q[i]
  BY <1>1 DEF Flattened
<1>3. /\ 1 \in 1..3 /\ 2 \in 1..3 /\ 3 \in 1..3 /\ 2 # 1 /\ 3 # 1
      /\ 2 - 1 = 1 /\ 3 - 1 = 2
  OBVIOUS
<1>4. f[1] = q[1] /\ f[2] = f[1] \o q[2] /\ f[3] = f[2] \o q[3]
  BY <1>2, <1>3
<1> QED BY <1>1, <1>4

-----------------------------------------------------------------------------
(* Fields.                                                                 *)

\* The fields of the messages.
LEMMA LayoutFacts ==
  ASSUME NEW k \in DOMAIN Layout
  PROVE  /\ Len(Layout[k]) \in 2..3
         /\ DOMAIN Layout[k] = 1..Len(Layout[k])
         /\ \A n \in 1..Len(Layout[k]) : Layout[k][n] \in {"id", "point", "scalar"}
<1>1. CASE k = "SigningCommitments"
  BY <1>1 DEF Layout
<1>2. CASE k = "SignatureShare"
  BY <1>2 DEF Layout
<1>3. CASE k = "Signature"
  BY <1>3 DEF Layout
<1> QED BY <1>1, <1>2, <1>3 DEF Layout

\* The bytes of a field are as many as its type has.
LEMMA FieldBytesType ==
  ASSUME CanonicalReprs, NEW field \in {"id", "point", "scalar"}
  PROVE  /\ FieldLen(field) \in Nat
         /\ \A value \in FieldValues(field) :
               /\ FieldBytes(field, value) \in Seq(Byte)
               /\ Len(FieldBytes(field, value)) = FieldLen(field)
<1>1. ASSUME NEW id \in U16
      PROVE  id \div Base \in Byte /\ id % Base \in Byte
  <2>1. Base \in Nat \ {0} /\ id \in Nat /\ id < Base * Base
    BY DEF CanonicalReprs, U16
  <2>2. PICK d \in Nat, r \in 0..(Base - 1) :
           d = id \div Base /\ r = id % Base /\ id = d * Base + r
    BY <2>1, DivMod
  <2>3. d < Base
    <3> SUFFICES ASSUME Base <= d PROVE FALSE
      BY <2>1
    <3>1. Base * Base <= d * Base
      <4>1. CASE Base = d
        BY <4>1, <2>1
      <4>2. CASE Base < d
        <5>1. Base * Base + Base <= d * Base
          BY <4>2, <2>1, MultipleMonotonic
        <5>2. PICK x \in Nat, y \in Nat : x = Base * Base /\ y = d * Base
          BY <2>1
        <5> QED BY <2>1, <5>1, <5>2
      <4> QED BY <2>1, <4>1, <4>2
    <3>2. PICK x \in Nat, y \in Nat : x = Base * Base /\ y = d * Base
      BY <2>1
    <3> QED BY <2>1, <2>2, <3>1, <3>2
  <2> QED BY <2>1, <2>2, <2>3 DEF Byte
<1>2. CASE field = "id"
  BY <1>1, <1>2 DEF FieldLen, FieldValues, FieldBytes, IdBytes
<1>3. CASE field = "point"
  BY <1>3 DEF FieldLen, FieldValues, FieldBytes, point_bytes, CanonicalReprs, Byte
<1>4. CASE field = "scalar"
  BY <1>4 DEF FieldLen, FieldValues, FieldBytes, scalar_bytes, CanonicalReprs, Byte
<1> QED BY <1>2, <1>3, <1>4

\* Bytes of the right length are decoded as the value they are an encoding of,
\* if there is one, and as no other.
LEMMA DecodeField ==
  ASSUME CanonicalReprs, OtherReprsCondition, NEW field \in {"id", "point", "scalar"},
         NEW b \in Seq(Byte), Len(b) = FieldLen(field)
  PROVE  /\ Decode(field, b) = {value \in FieldValues(field) : b \in FieldEncodings(field, value)}
         /\ \A x, y \in Decode(field, b) : x = y
<1>1. CASE field = "id"
  <2>1. Len(b) = 2 /\ Base \in Nat \ {0} /\ Byte \subseteq Nat
    BY <1>1 DEF FieldLen, CanonicalReprs, Byte
  <2>2. PICK m \in Byte, n \in Byte : m = b[1] /\ n = b[2]
    <3>1. b[1] \in Byte /\ b[2] \in Byte
      BY <2>1, SeqElement
    <3> QED BY <3>1
  <2>3. m * Base + n \in U16
    <3>1. m * Base + Base <= Base * Base
      BY <2>1, MultipleMonotonic DEF Byte
    <3>2. PICK x \in Nat, y \in Nat : x = m * Base /\ y = Base * Base
      BY <2>1, TimesNat DEF Byte
    <3>3. n \in 0..(Base - 1) /\ Base \in Nat
      BY <2>1 DEF Byte
    <3>4. x + Base <= y
      BY <3>1, <3>2
    <3>5. x + n \in 0..(y - 1)
      BY <3>3, <3>4
    <3> QED BY <3>2, <3>5 DEF U16
  <2>4. ASSUME NEW id \in U16
        PROVE  IdBytes(id) = b <=> id = m * Base + n
    <3>1. PICK d \in Nat, r \in Byte : d = id \div Base /\ r = id % Base /\ id = d * Base + r
      <4>1. id \in Nat
        BY <2>1 DEF U16
      <4>2. /\ id \div Base \in Nat /\ id % Base \in Byte
            /\ id = (id \div Base) * Base + (id % Base)
        BY <2>1, <4>1, DivMod DEF Byte
      <4> QED BY <4>2
    <3>2. IdBytes(id) = b <=> d = m /\ r = n
      <4>1. IdBytes(id) = <<d, r>>
        BY <3>1 DEF IdBytes
      <4>2. b = <<m, n>>
        BY <2>1, <2>2
      <4> QED BY <4>1, <4>2
    <3>3. id = m * Base + n => d = m /\ r = n
      BY <2>1, <3>1, DigitsUnique DEF Byte
    <3> QED BY <3>1, <3>2, <3>3
  <2>5. Decode(field, b) = {m * Base + n}
    BY <1>1, <2>1, <2>2 DEF Decode, FieldLen
  <2>6. \A value : FieldEncodings(field, value) = {IdBytes(value)}
    BY <1>1 DEF FieldEncodings, FieldBytes
  <2> QED BY <1>1, <2>3, <2>4, <2>5, <2>6 DEF FieldValues
<1>2. CASE field = "point"
  <2>1. /\ Decode(field, b) = {P \in Scalar : PointRepr[P] = b}
                                 \cup {OtherReprs[r] : r \in DOMAIN OtherReprs \cap {b}}
        /\ FieldValues(field) = Scalar
        /\ \A P : FieldEncodings(field, P)
                     = {PointRepr[P]} \cup {r \in DOMAIN OtherReprs : OtherReprs[r] = P}
    BY <1>2 DEF Decode, FieldLen, FieldValues, FieldEncodings, FieldBytes, point_bytes
  <2>2. CASE b \in DOMAIN OtherReprs
    <3>1. OtherReprs[b] \in Scalar /\ \A P \in Scalar : PointRepr[P] # b
      BY <2>2 DEF OtherReprsCondition
    <3>2. Decode(field, b) = {OtherReprs[b]}
      BY <2>1, <2>2, <3>1
    <3> QED BY <2>1, <2>2, <3>1, <3>2
  <2>3. CASE b \notin DOMAIN OtherReprs
    <3>1. Decode(field, b) = {P \in Scalar : PointRepr[P] = b}
      BY <2>1, <2>3
    <3> QED BY <2>1, <2>3, <3>1 DEF CanonicalReprs
  <2> QED BY <2>2, <2>3
<1>3. CASE field = "scalar"
  BY <1>3 DEF Decode, FieldLen, FieldValues, FieldEncodings, FieldBytes, scalar_bytes, CanonicalReprs
<1> QED BY <1>1, <1>2, <1>3

-----------------------------------------------------------------------------
(* Messages.                                                               *)

\* What a message is cut into: where its fields start.
LEMMA StartFacts ==
  ASSUME CanonicalReprs, NEW k \in DOMAIN Layout
  PROVE  LET L(n) == FieldLen(Layout[k][n])
         IN  /\ Start(k, 1) = 0
             /\ Start(k, 2) = L(1)
             /\ Start(k, 3) = L(1) + L(2)
             /\ Len(Layout[k]) = 3 => Start(k, 4) = L(1) + L(2) + L(3)
<1> DEFINE L(n) == FieldLen(Layout[k][n])
           P(f, n) == f = [m \in 1..n |-> IF m = 1 THEN 0 ELSE f[m - 1] + L(m - 1)]
<1>1. L(1) \in Nat /\ L(2) \in Nat /\ (Len(Layout[k]) = 3 => L(3) \in Nat)
  BY LayoutFacts, FieldBytesType
<1>2. ASSUME NEW n \in 1..4, n = 4 => Len(Layout[k]) = 3
      PROVE  Start(k, n) = IF n = 1 THEN 0 ELSE IF n = 2 THEN L(1)
                           ELSE IF n = 3 THEN L(1) + L(2) ELSE L(1) + L(2) + L(3)
  <2>1. P([m \in 1..n |-> IF m = 1 THEN 0 ELSE IF m = 2 THEN L(1)
                          ELSE IF m = 3 THEN L(1) + L(2) ELSE L(1) + L(2) + L(3)], n)
    <3> HIDE DEF L
    <3> QED BY <1>1, <1>2
  <2>2. PICK f : f = CHOOSE g : P(g, n)
    OBVIOUS
  <2>3. P(f, n)
    <3> HIDE DEF P
    <3> QED BY <2>1, <2>2
  <2>4. Start(k, n) = f[n]
    BY <2>2 DEF Start
  <2>5. PICK F : F = [m \in 1..n |-> IF m = 1 THEN 0 ELSE f[m - 1] + L(m - 1)]
    OBVIOUS
  <2>6. f = F
    BY <2>3, <2>5
  <2>7. \A m \in 1..n : F[m] = IF m = 1 THEN 0 ELSE f[m - 1] + L(m - 1)
    BY <2>5
  <2> HIDE DEF L, P
  <2>8. f[1] = 0 /\ (n >= 2 => f[2] = L(1)) /\ (n >= 3 => f[3] = L(1) + L(2))
        /\ (n >= 4 => f[4] = L(1) + L(2) + L(3))
    <3>1. f[1] = 0
      BY <2>6, <2>7
    <3>2. ASSUME n >= 2 PROVE f[2] = L(1)
      <4>1. F[2] = f[2 - 1] + L(2 - 1)
        BY <2>7, <3>2
      <4> QED BY <1>1, <2>6, <3>1, <4>1
    <3>3. ASSUME n >= 3 PROVE f[3] = L(1) + L(2)
      <4>1. F[3] = f[3 - 1] + L(3 - 1)
        BY <2>7, <3>3
      <4> QED BY <2>6, <3>2, <3>3, <4>1
    <3>4. ASSUME n >= 4 PROVE f[4] = L(1) + L(2) + L(3)
      <4>1. F[4] = f[4 - 1] + L(4 - 1)
        BY <2>7, <3>4
      <4> QED BY <2>6, <3>3, <3>4, <4>1
    <3> QED BY <3>1, <3>2, <3>3, <3>4
  <2> QED BY <2>4, <2>8
<1> HIDE DEF L
<1>3. Start(k, 1) = 0 /\ Start(k, 2) = L(1) /\ Start(k, 3) = L(1) + L(2)
  BY <1>2
<1>4. Len(Layout[k]) = 3 => Start(k, 4) = L(1) + L(2) + L(3)
  BY <1>2
<1> QED BY <1>3, <1>4 DEF L

\* The lengths of the fields, and where they start in a message.
LEMMA FieldStarts ==
  ASSUME CanonicalReprs, NEW k \in DOMAIN Layout
  PROVE  /\ Len(Layout[k]) \in 2..3 /\ DOMAIN Layout[k] = 1..Len(Layout[k])
         /\ \E a, b, c \in Nat :
               /\ FieldLen(Layout[k][1]) = a /\ FieldLen(Layout[k][2]) = b
               /\ Len(Layout[k]) = 3 => FieldLen(Layout[k][3]) = c
               /\ Start(k, 1) = 0 /\ Start(k, 2) = a /\ Start(k, 3) = a + b
               /\ Len(Layout[k]) = 3 => Start(k, 4) = a + b + c
               /\ MessageLen(k) = IF Len(Layout[k]) = 2 THEN a + b ELSE a + b + c
<1>1. Len(Layout[k]) \in 2..3 /\ DOMAIN Layout[k] = 1..Len(Layout[k])
  BY LayoutFacts
<1>2. PICK a, b, c : /\ FieldLen(Layout[k][1]) = a /\ FieldLen(Layout[k][2]) = b
                     /\ Len(Layout[k]) = 3 => FieldLen(Layout[k][3]) = c
                     /\ a \in Nat /\ b \in Nat /\ c \in Nat
  <2>1. \A n \in 1..Len(Layout[k]) : FieldLen(Layout[k][n]) \in Nat
    BY LayoutFacts, FieldBytesType
  <2>2. 1 \in 1..Len(Layout[k]) /\ 2 \in 1..Len(Layout[k])
    BY <1>1
  <2>3. CASE Len(Layout[k]) = 3
    BY <2>1, <2>2, <2>3
  <2>4. CASE Len(Layout[k]) = 2
    <3>1. 2 # 3 /\ 0 \in Nat
      OBVIOUS
    <3> QED BY <2>1, <2>2, <2>4, <3>1
  <2> QED BY <1>1, <2>3, <2>4
<1>3. /\ Start(k, 1) = 0 /\ Start(k, 2) = a /\ Start(k, 3) = a + b
      /\ Len(Layout[k]) = 3 => Start(k, 4) = a + b + c
  BY <1>2, StartFacts
<1>4. MessageLen(k) = IF Len(Layout[k]) = 2 THEN a + b ELSE a + b + c
  <2>1. CASE Len(Layout[k]) = 2
    BY <1>3, <2>1 DEF MessageLen
  <2>2. CASE Len(Layout[k]) = 3
    BY <1>3, <2>2 DEF MessageLen
  <2> QED BY <1>1, <2>1, <2>2
<1> QED BY <1>1, <1>2, <1>3, <1>4

\* The fields of a message of the right length are where their lengths put them.
LEMMA FieldSlices ==
  ASSUME CanonicalReprs, NEW k \in DOMAIN Layout,
         NEW b \in Seq(Byte), Len(b) = MessageLen(k), NEW n \in 1..Len(Layout[k])
  PROVE  /\ FieldSlice(k, b, n) = SubSeq(b, Start(k, n) + 1, Start(k, n + 1))
         /\ FieldSlice(k, b, n) \in Seq(Byte)
         /\ Len(FieldSlice(k, b, n)) = FieldLen(Layout[k][n])
         /\ Start(k, n) \in Nat /\ Start(k, n) <= Len(b) /\ Start(k, n + 1) <= Len(b)
<1>1. PICK d, e, f \in Nat :
         /\ FieldLen(Layout[k][1]) = d /\ FieldLen(Layout[k][2]) = e
         /\ Len(Layout[k]) = 3 => FieldLen(Layout[k][3]) = f
         /\ Start(k, 1) = 0 /\ Start(k, 2) = d /\ Start(k, 3) = d + e
         /\ Len(Layout[k]) = 3 => Start(k, 4) = d + e + f
         /\ MessageLen(k) = IF Len(Layout[k]) = 2 THEN d + e ELSE d + e + f
  BY FieldStarts
<1>2. Len(Layout[k]) \in 2..3
  BY FieldStarts
<1>3. PICK s, x, y, l : /\ s = FieldSlice(k, b, n) /\ l = FieldLen(Layout[k][n])
                        /\ x = Start(k, n) /\ y = Start(k, n + 1)
  OBVIOUS
<1>4. x \in Nat /\ y \in x..Len(b) /\ y - x = l /\ (n = Len(Layout[k]) => y = Len(b))
  <2>1. CASE n = 1
    <3>1. 1 + 1 = 2
      OBVIOUS
    <3> QED BY <1>1, <1>2, <1>3, <2>1, <3>1
  <2>2. CASE n = 2
    <3>1. 2 + 1 = 3
      OBVIOUS
    <3> QED BY <1>1, <1>2, <1>3, <2>2, <3>1
  <2>3. CASE n = 3
    <3>1. Len(Layout[k]) = 3
      <4>1. PICK N \in 2..3 : N = Len(Layout[k])
        BY <1>2
      <4>2. n <= N
        BY <4>1
      <4> QED BY <2>3, <4>1, <4>2
    <3>2. 3 + 1 = 4
      OBVIOUS
    <3>3. /\ x = d + e /\ y = d + e + f /\ l = f /\ Len(b) = d + e + f
      BY <1>1, <1>3, <2>3, <3>1, <3>2
    <3>4. d \in Nat /\ e \in Nat /\ f \in Nat
      BY <1>1
    <3> QED BY <2>3, <3>1, <3>3, <3>4
  <2>4. n = 1 \/ n = 2 \/ n = 3
    <3>1. PICK N \in 2..3 : N = Len(Layout[k])
      BY <1>2
    <3>2. n \in 1..N
      BY <3>1
    <3> QED BY <3>2
  <2> QED BY <2>1, <2>2, <2>3, <2>4
<1>5. s = SubSeq(b, x + 1, y)
  <2>1. CASE n = Len(Layout[k])
    BY <1>3, <1>4, <2>1 DEF FieldSlice
  <2>2. CASE n # Len(Layout[k])
    BY <1>3, <2>2 DEF FieldSlice
  <2> QED BY <2>1, <2>2
<1>6. s \in Seq(Byte) /\ Len(s) = y - x
  BY <1>4, <1>5, SliceFacts
<1>7. x <= Len(b) /\ y <= Len(b)
  BY <1>4
<1> QED BY <1>3, <1>4, <1>5, <1>6, <1>7

\* Strings of bytes with the lengths of the fields.
FieldStrings(k) ==
    {q \in [DOMAIN Layout[k] -> Seq(Byte)] :
        \A n \in DOMAIN Layout[k] : Len(q[n]) = FieldLen(Layout[k][n])}

\* Put one after the other they are the bytes that are cut into them.
LEMMA JoinedFields ==
  ASSUME CanonicalReprs, NEW k \in DOMAIN Layout, NEW q \in FieldStrings(k)
  PROVE  /\ FlattenSeq(q) \in Seq(Byte)
         /\ Len(FlattenSeq(q)) = MessageLen(k)
         /\ \A b \in Seq(Byte) : Len(b) = MessageLen(k) =>
               (FlattenSeq(q) = b <=>
                  \A n \in 1..Len(Layout[k]) : q[n] = FieldSlice(k, b, n))
<1>1. PICK d, e, f \in Nat :
         /\ FieldLen(Layout[k][1]) = d /\ FieldLen(Layout[k][2]) = e
         /\ Len(Layout[k]) = 3 => FieldLen(Layout[k][3]) = f
         /\ Start(k, 1) = 0 /\ Start(k, 2) = d /\ Start(k, 3) = d + e
         /\ Len(Layout[k]) = 3 => Start(k, 4) = d + e + f
         /\ MessageLen(k) = IF Len(Layout[k]) = 2 THEN d + e ELSE d + e + f
  BY FieldStarts
<1>2. Len(Layout[k]) \in 2..3 /\ DOMAIN Layout[k] = 1..Len(Layout[k])
  BY FieldStarts
<1>3. \A n \in 1..Len(Layout[k]) :
         q[n] \in Seq(Byte) /\ Len(q[n]) = FieldLen(Layout[k][n])
  BY <1>2 DEF FieldStrings
<1>4. q \in [DOMAIN Layout[k] -> Seq(Byte)]
  BY DEF FieldStrings
<1>5. PICK x, y, z : x = q[1] /\ y = q[2] /\ z = q[3]
  OBVIOUS
<1>6. CASE Len(Layout[k]) = 2
  <2>1. DOMAIN q = 1..2 /\ Len(q) = 2
    BY <1>2, <1>4, <1>5, <1>6
  <2>2. x \in Seq(Byte) /\ Len(x) = d /\ y \in Seq(Byte) /\ Len(y) = e
    BY <1>1, <1>3, <1>5, <1>6, <2>1
  <2>3. FlattenSeq(q) = x \o y
    <3>1. q \in Seq(Seq(Byte)) /\ Len(q) = 2
      <4>1. q \in [1..2 -> Seq(Byte)]
        BY <1>4, <2>1
      <4> QED BY <2>1, <4>1, FunctionIsSeq
    <3>2. FlattenSeq(q) = q[1] \o q[2]
      BY <3>1, FlattenTwo
    <3> QED BY <1>5, <3>2
  <2>4. FlattenSeq(q) \in Seq(Byte) /\ Len(FlattenSeq(q)) = MessageLen(k)
    <3>1. x \o y \in Seq(Byte) /\ Len(x \o y) = Len(x) + Len(y)
      BY <2>2, ConcatFacts
    <3> QED BY <1>1, <1>6, <2>2, <2>3, <3>1
  <2>5. ASSUME NEW b \in Seq(Byte), Len(b) = MessageLen(k)
        PROVE  FlattenSeq(q) = b <=> x = FieldSlice(k, b, 1) /\ y = FieldSlice(k, b, 2)
    <3>1. Len(b) = Len(x) + Len(y)
      BY <1>1, <1>6, <2>2, <2>5
    <3>2. /\ x \o y = b => /\ x = SubSeq(b, 0 + 1, Len(x))
                            /\ y = SubSeq(b, Len(x) + 1, Len(b))
          /\ b = SubSeq(b, 0 + 1, Len(x)) \o SubSeq(b, Len(x) + 1, Len(b))
      <4>1. x \in Seq(Byte) /\ y \in Seq(Byte) /\ b \in Seq(Byte)
        BY <2>2
      <4>2. b = SubSeq(b, 0 + 1, Len(x)) \o SubSeq(b, Len(x) + 1, Len(b))
        <5>1. PICK m \in 0..Len(b) : m = Len(x)
          BY <3>1, <4>1
        <5> QED BY <5>1, TwoSlices
      <4>3. ASSUME x \o y = b
            PROVE  x = SubSeq(b, 0 + 1, Len(x)) /\ y = SubSeq(b, Len(x) + 1, Len(b))
        BY <3>1, <4>1, <4>3, CutInTwo
      <4> QED BY <4>2, <4>3
    <3>3. /\ FieldSlice(k, b, 1) = SubSeq(b, 0 + 1, d)
          /\ FieldSlice(k, b, 2) = SubSeq(b, d + 1, Len(b))
      BY <1>1, <1>6 DEF FieldSlice
    <3> QED BY <2>2, <2>3, <3>2, <3>3
  <2>6. \A n \in 1..Len(Layout[k]) : n = 1 \/ n = 2
    BY <1>6
  <2> QED BY <1>5, <1>6, <2>1, <2>4, <2>5, <2>6
<1>7. CASE Len(Layout[k]) = 3
  <2>1. DOMAIN q = 1..3 /\ Len(q) = 3
    BY <1>2, <1>4, <1>5, <1>7
  <2>2. /\ x \in Seq(Byte) /\ Len(x) = d /\ y \in Seq(Byte) /\ Len(y) = e
        /\ z \in Seq(Byte) /\ Len(z) = f
    BY <1>1, <1>3, <1>5, <1>7, <2>1
  <2>3. FlattenSeq(q) = (x \o y) \o z
    <3>1. q \in Seq(Seq(Byte)) /\ Len(q) = 3
      <4>1. q \in [1..3 -> Seq(Byte)]
        BY <1>4, <2>1
      <4> QED BY <2>1, <4>1, FunctionIsSeq
    <3>2. FlattenSeq(q) = (q[1] \o q[2]) \o q[3]
      BY <3>1, FlattenThree
    <3> QED BY <1>5, <3>2
  <2>4. FlattenSeq(q) \in Seq(Byte) /\ Len(FlattenSeq(q)) = MessageLen(k)
    <3>1. x \o y \in Seq(Byte) /\ Len(x \o y) = d + e
      BY <2>2, ConcatFacts
    <3>2. /\ (x \o y) \o z \in Seq(Byte)
          /\ Len((x \o y) \o z) = Len(x \o y) + Len(z)
      BY <2>2, <3>1, ConcatFacts
    <3> QED BY <1>1, <1>7, <2>2, <2>3, <3>1, <3>2
  <2>5. ASSUME NEW b \in Seq(Byte), Len(b) = MessageLen(k)
        PROVE  FlattenSeq(q) = b <=> /\ x = FieldSlice(k, b, 1)
                                      /\ y = FieldSlice(k, b, 2)
                                      /\ z = FieldSlice(k, b, 3)
    <3>1. Len(b) = Len(x) + Len(y) + Len(z)
      BY <1>1, <1>7, <2>2, <2>5
    <3>2. /\ (x \o y) \o z = b => /\ x = SubSeq(b, 0 + 1, Len(x))
                                   /\ y = SubSeq(b, Len(x) + 1, Len(x) + Len(y))
                                   /\ z = SubSeq(b, Len(x) + Len(y) + 1, Len(b))
          /\ b = (SubSeq(b, 0 + 1, Len(x)) \o SubSeq(b, Len(x) + 1, Len(x) + Len(y)))
                   \o SubSeq(b, Len(x) + Len(y) + 1, Len(b))
      <4>1. x \in Seq(Byte) /\ y \in Seq(Byte) /\ z \in Seq(Byte)
        BY <2>2
      <4>2. ASSUME (x \o y) \o z = b
            PROVE  /\ x = SubSeq(b, 0 + 1, Len(x))
                   /\ y = SubSeq(b, Len(x) + 1, Len(x) + Len(y))
                   /\ z = SubSeq(b, Len(x) + Len(y) + 1, Len(b))
        BY <3>1, <4>1, <4>2, CutInThree
      <4>3. b = (SubSeq(b, 0 + 1, Len(x)) \o SubSeq(b, Len(x) + 1, Len(x) + Len(y)))
                   \o SubSeq(b, Len(x) + Len(y) + 1, Len(b))
        <5>1. PICK N \in 0..Len(b) : N = Len(x) + Len(y)
          BY <3>1, <4>1
        <5>2. PICK m \in 0..N : m = Len(x)
          BY <4>1, <5>1
        <5> QED BY <5>1, <5>2, ThreeSlices
      <4> QED BY <4>2, <4>3
    <3>3. /\ FieldSlice(k, b, 1) = SubSeq(b, 0 + 1, d)
          /\ FieldSlice(k, b, 2) = SubSeq(b, d + 1, d + e)
          /\ FieldSlice(k, b, 3) = SubSeq(b, d + e + 1, Len(b))
      <4>1. 1 + 1 = 2 /\ 2 + 1 = 3
        OBVIOUS
      <4>2. /\ FieldSlice(k, b, 1) = SubSeq(b, Start(k, 1) + 1, Start(k, 1 + 1))
            /\ FieldSlice(k, b, 2) = SubSeq(b, Start(k, 2) + 1, Start(k, 2 + 1))
            /\ FieldSlice(k, b, 3) = SubSeq(b, Start(k, 3) + 1, Len(b))
        BY <1>7 DEF FieldSlice
      <4> QED BY <1>1, <4>1, <4>2
    <3> QED BY <2>2, <2>3, <3>2, <3>3
  <2>6. \A n \in 1..Len(Layout[k]) : n = 1 \/ n = 2 \/ n = 3
    BY <1>7
  <2> QED BY <1>5, <1>7, <2>1, <2>4, <2>5, <2>6
<1> QED BY <1>2, <1>6, <1>7

\* The values that a field of a message can be read as, at most one.
FieldReadings(k, b, n) == Decode(Layout[k][n], FieldSlice(k, b, n))

\* The encodings of a value are put together from those of its fields.
LEMMA EncodingsOfFields ==
  ASSUME CanonicalReprs, OtherReprsCondition, NEW k \in DOMAIN Layout, NEW v \in Values(k)
  PROVE  /\ to_bytes(k, v) \in Encodings(k, v)
         /\ \A b \in Encodings(k, v) : b \in Seq(Byte) /\ Len(b) = MessageLen(k)
         /\ \A b \in Seq(Byte) : Len(b) = MessageLen(k) =>
               (b \in Encodings(k, v) <=>
                  \A n \in DOMAIN Layout[k] :
                     FieldSlice(k, b, n) \in FieldEncodings(Layout[k][n], v[n]))
<1> DEFINE of(n) == FieldEncodings(Layout[k][n], v[n])
           F == {f \in [DOMAIN Layout[k] -> UNION {of(n) : n \in DOMAIN Layout[k]}] :
                    \A n \in DOMAIN Layout[k] : f[n] \in of(n)}
<1>1. Encodings(k, v) = {FlattenSeq(q) : q \in F}
  BY DEF Encodings
<1>2. /\ DOMAIN Layout[k] = 1..Len(Layout[k])
      /\ \A n \in DOMAIN Layout[k] : Layout[k][n] \in {"id", "point", "scalar"}
  BY LayoutFacts
<1>3. ASSUME NEW n \in DOMAIN Layout[k], NEW e \in of(n)
      PROVE  e \in Seq(Byte) /\ Len(e) = FieldLen(Layout[k][n])
  <2>1. PICK field, value : field = Layout[k][n] /\ value = v[n]
    OBVIOUS
  <2>2. field \in {"id", "point", "scalar"} /\ value \in FieldValues(field)
    BY <1>2, <2>1 DEF Values
  <2>3. CASE e = FieldBytes(field, value)
    BY <2>1, <2>2, <2>3, FieldBytesType
  <2>4. CASE field = "point" /\ e \in DOMAIN OtherReprs
    <3>1. e \in [1..PLen -> Byte] /\ PLen \in Nat
      BY <2>4 DEF OtherReprsCondition, CanonicalReprs
    <3>2. e \in Seq(Byte) /\ Len(e) = PLen
      BY <3>1
    <3> QED BY <2>1, <2>4, <3>2 DEF FieldLen
  <2> QED BY <2>1, <2>3, <2>4 DEF FieldEncodings
<1>4. F \subseteq FieldStrings(k)
  <2> SUFFICES ASSUME NEW q \in F PROVE q \in FieldStrings(k)
    OBVIOUS
  <2>1. \A n \in DOMAIN Layout[k] : q[n] \in of(n)
    OBVIOUS
  <2>2. \A n \in DOMAIN Layout[k] : q[n] \in Seq(Byte) /\ Len(q[n]) = FieldLen(Layout[k][n])
    BY <1>3, <2>1
  <2>3. q = [n \in DOMAIN Layout[k] |-> q[n]]
    OBVIOUS
  <2> QED BY <2>2, <2>3 DEF FieldStrings
<1>5. ASSUME NEW q, q = [n \in DOMAIN Layout[k] |-> q[n]],
             \A n \in DOMAIN Layout[k] : q[n] \in of(n)
      PROVE  q \in F
  BY <1>5
<1>6. to_bytes(k, v) \in Encodings(k, v)
  <2>1. PICK q : q = [n \in DOMAIN Layout[k] |-> FieldBytes(Layout[k][n], v[n])]
    OBVIOUS
  <2>2. \A n \in DOMAIN Layout[k] : q[n] \in of(n)
    BY <2>1 DEF FieldEncodings
  <2>3. q \in F
    BY <1>5, <2>1, <2>2
  <2> QED BY <1>1, <2>1, <2>3 DEF to_bytes
<1> HIDE DEF F, of
<1>7. ASSUME NEW b \in Seq(Byte), Len(b) = MessageLen(k)
      PROVE  b \in Encodings(k, v) <=>
                \A n \in DOMAIN Layout[k] : FieldSlice(k, b, n) \in of(n)
  <2>1. ASSUME NEW q \in F, b = FlattenSeq(q)
        PROVE  \A n \in DOMAIN Layout[k] : FieldSlice(k, b, n) \in of(n)
    <3>1. \A n \in DOMAIN Layout[k] : q[n] = FieldSlice(k, b, n)
      BY <1>2, <1>4, <1>7, <2>1, JoinedFields
    <3>2. \A n \in DOMAIN Layout[k] : q[n] \in of(n)
      BY DEF F
    <3> QED BY <3>1, <3>2
  <2>2. ASSUME \A n \in DOMAIN Layout[k] : FieldSlice(k, b, n) \in of(n)
        PROVE  \E q \in F : b = FlattenSeq(q)
    <3>1. PICK q : q = [n \in DOMAIN Layout[k] |-> FieldSlice(k, b, n)]
      OBVIOUS
    <3>2. q \in F
      BY <1>5, <2>2, <3>1
    <3>3. FlattenSeq(q) = b
      BY <1>2, <1>4, <1>7, <3>1, <3>2, JoinedFields
    <3> QED BY <3>2, <3>3
  <2> QED BY <1>1, <2>1, <2>2
<1>8. \A b \in Encodings(k, v) : b \in Seq(Byte) /\ Len(b) = MessageLen(k)
  BY <1>1, <1>4, JoinedFields
<1> QED BY <1>6, <1>7, <1>8 DEF of

\* Bytes are an encoding of a value exactly if each of its fields is read from
\* theirs.
LEMMA SourcesAreReadings ==
  ASSUME CanonicalReprs, OtherReprsCondition, NEW k \in DOMAIN Layout,
         NEW b \in Seq(Byte), Len(b) = MessageLen(k)
  PROVE  /\ \A n \in DOMAIN Layout[k] :
               /\ FieldReadings(k, b, n) \subseteq FieldValues(Layout[k][n])
               /\ \A x, y \in FieldReadings(k, b, n) : x = y
         /\ \A v \in Values(k) : b \in Encodings(k, v) <=>
               \A n \in DOMAIN Layout[k] : v[n] \in FieldReadings(k, b, n)
<1>1. DOMAIN Layout[k] = 1..Len(Layout[k])
  BY FieldStarts
<1>2. ASSUME NEW n \in DOMAIN Layout[k]
      PROVE  /\ FieldReadings(k, b, n)
                   = {x \in FieldValues(Layout[k][n]) :
                         FieldSlice(k, b, n) \in FieldEncodings(Layout[k][n], x)}
             /\ \A x, y \in FieldReadings(k, b, n) : x = y
  <2>1. PICK s, field : s = FieldSlice(k, b, n) /\ field = Layout[k][n]
    OBVIOUS
  <2>2. /\ field \in {"id", "point", "scalar"}
        /\ s \in Seq(Byte) /\ Len(s) = FieldLen(field)
    BY <1>1, <2>1, LayoutFacts, FieldSlices
  <2>3. /\ Decode(field, s) = {x \in FieldValues(field) : s \in FieldEncodings(field, x)}
        /\ \A x, y \in Decode(field, s) : x = y
    BY <2>2, DecodeField
  <2> QED BY <2>1, <2>3 DEF FieldReadings
<1>3. ASSUME NEW v \in Values(k)
      PROVE  b \in Encodings(k, v) <=>
                \A n \in DOMAIN Layout[k] : v[n] \in FieldReadings(k, b, n)
  <2>1. b \in Encodings(k, v) <=>
           \A n \in DOMAIN Layout[k] :
              FieldSlice(k, b, n) \in FieldEncodings(Layout[k][n], v[n])
    BY EncodingsOfFields
  <2>2. \A n \in DOMAIN Layout[k] : v[n] \in FieldValues(Layout[k][n])
    BY DEF Values
  <2> QED BY <1>2, <2>1, <2>2
<1> QED BY <1>2, <1>3

\* No field of a message of the right length is sliced past its end, so that
\* a message is malformed exactly if one of its fields is.
LEMMA FieldsDecoded ==
  ASSUME CanonicalReprs, NEW k \in DOMAIN Layout,
         NEW b \in Seq(Byte), Len(b) = MessageLen(k)
  PROVE  from_bytes(k, b) =
            IF \E n \in DOMAIN Layout[k] : FieldReadings(k, b, n) = {} THEN Malformed
            ELSE [n \in DOMAIN Layout[k] |-> CHOOSE v \in FieldReadings(k, b, n) : TRUE]
<1> DEFINE out(n)    == (IF n = Len(Layout[k]) THEN Start(k, n) ELSE Start(k, n + 1)) > Len(b)
           failed(n) == out(n) \/ Decode(Layout[k][n], FieldSlice(k, b, n)) = {}
           first     == {n \in DOMAIN Layout[k] :
                            failed(n) /\ \A m \in 1..(n - 1) : ~ failed(m)}
<1>1. DOMAIN Layout[k] = 1..Len(Layout[k]) /\ Len(Layout[k]) \in 2..3 /\ Len(b) \in Nat
  BY FieldStarts
<1>2. \A n \in DOMAIN Layout[k] : ~ out(n)
  <2> SUFFICES ASSUME NEW n \in 1..Len(Layout[k])
               PROVE  ~ out(n)
    BY <1>1
  <2>1. PICK d, e, f \in Nat :
           /\ Start(k, 1) = 0 /\ Start(k, 2) = d /\ Start(k, 3) = d + e
           /\ Len(Layout[k]) = 3 => Start(k, 4) = d + e + f
    BY FieldStarts
  <2>2. PICK N \in 2..3 : N = Len(Layout[k])
    BY <1>1
  <2>3. PICK x, y : x = Start(k, n) /\ y = Start(k, n + 1)
    OBVIOUS
  <2>4. x <= Len(b) /\ y <= Len(b)
    BY <2>3, FieldSlices
  <2>5. x \in Nat /\ y \in Nat
    <3>1. CASE n = 1
      <4>1. 1 + 1 = 2
        OBVIOUS
      <4> QED BY <2>1, <2>3, <3>1, <4>1
    <3>2. CASE n = 2
      <4>1. 2 + 1 = 3
        OBVIOUS
      <4> QED BY <2>1, <2>3, <3>2, <4>1
    <3>3. CASE n = 3
      <4>1. 3 + 1 = 4
        OBVIOUS
      <4>2. N = 3
        BY <2>2, <3>3
      <4>3. x = d + e /\ y = d + e + f
        BY <2>1, <2>2, <2>3, <3>3, <4>1, <4>2
      <4>4. d \in Nat /\ e \in Nat /\ f \in Nat
        BY <2>1
      <4> QED BY <4>3, <4>4
    <3>4. n = 1 \/ n = 2 \/ n = 3
      BY <2>2
    <3> QED BY <3>1, <3>2, <3>3, <3>4
  <2>6. ~ (x > Len(b)) /\ ~ (y > Len(b))
    BY <1>1, <2>4, <2>5
  <2> QED BY <2>3, <2>6
<1>3. DecodeFields(k, b) =
         IF first = {}
         THEN [n \in DOMAIN Layout[k] |->
                  CHOOSE v \in Decode(Layout[k][n], FieldSlice(k, b, n)) : TRUE]
         ELSE IF \E n \in first : out(n) THEN Panic ELSE Malformed
  BY DEF DecodeFields
<1>4. \A n \in DOMAIN Layout[k] : failed(n) <=> FieldReadings(k, b, n) = {}
  BY <1>2 DEF FieldReadings
<1> HIDE DEF out, failed
<1>5. first = {} <=> \A n \in DOMAIN Layout[k] : ~ failed(n)
  <2>1. ASSUME NEW n \in DOMAIN Layout[k], failed(n)
        PROVE  first # {}
    <3> DEFINE T == {m \in DOMAIN Layout[k] : failed(m)}
    <3>1. T \in SUBSET Nat /\ T # {}
      BY <1>1, <2>1
    <3> HIDE DEF T
    <3>2. PICK m \in T : \A j \in T : m <= j
      BY <3>1, LeastNat
    <3>3. m \in 1..Len(Layout[k]) /\ failed(m)
      BY <1>1, <3>2 DEF T
    <3>4. \A j \in 1..(m - 1) : ~ failed(j)
      <4> SUFFICES ASSUME NEW j \in 1..(m - 1), failed(j) PROVE FALSE
        OBVIOUS
      <4>1. j \in 1..Len(Layout[k]) /\ ~ (m <= j)
        BY <1>1, <3>3
      <4> QED BY <1>1, <3>2, <4>1 DEF T
    <3> QED BY <1>1, <3>3, <3>4
  <2> QED BY <2>1
<1>6. \A n \in first : ~ out(n)
  BY <1>2
<1>7. DecodeFields(k, b) =
         IF \E n \in DOMAIN Layout[k] : FieldReadings(k, b, n) = {} THEN Malformed
         ELSE [n \in DOMAIN Layout[k] |-> CHOOSE v \in FieldReadings(k, b, n) : TRUE]
  <2> HIDE DEF first
  <2> QED BY <1>3, <1>4, <1>5, <1>6 DEF FieldReadings
<1> QED BY <1>7 DEF from_bytes

\* Whatever the bytes, from_bytes returns the value they are an encoding of, or
\* MalformedEncoding if there is none.
LEMMA FromBytesInverts ==
  ASSUME CanonicalReprs, OtherReprsCondition, NEW k \in DOMAIN Layout, NEW b \in Seq(Byte)
  PROVE  LET sources == {v \in Values(k) : b \in Encodings(k, v)}
         IN  IF sources = {} THEN from_bytes(k, b) = Malformed
             ELSE sources = {from_bytes(k, b)}
<1> DEFINE sources == {v \in Values(k) : b \in Encodings(k, v)}
<1>1. CASE Len(b) # MessageLen(k)
  <2>1. sources = {}
    BY <1>1, EncodingsOfFields
  <2>2. from_bytes(k, b) = Malformed
    BY <1>1 DEF from_bytes
  <2> QED BY <2>1, <2>2
<1>2. CASE Len(b) = MessageLen(k) /\ \E n \in DOMAIN Layout[k] : FieldReadings(k, b, n) = {}
  <2>1. sources = {}
    BY <1>2, SourcesAreReadings
  <2>2. from_bytes(k, b) = Malformed
    BY <1>2, FieldsDecoded
  <2> QED BY <2>1, <2>2
<1>3. CASE Len(b) = MessageLen(k) /\ \A n \in DOMAIN Layout[k] : FieldReadings(k, b, n) # {}
  <2>1. PICK r : /\ r = [n \in DOMAIN Layout[k] |-> CHOOSE v \in FieldReadings(k, b, n) : TRUE]
                 /\ r = from_bytes(k, b)
    BY <1>3, FieldsDecoded
  <2>2. \A n \in DOMAIN Layout[k] : r[n] \in FieldReadings(k, b, n)
    BY <1>3, <2>1
  <2>3. r \in Values(k)
    <3>1. \A n \in DOMAIN Layout[k] : r[n] \in FieldValues(Layout[k][n])
      BY <1>3, <2>2, SourcesAreReadings
    <3>2. \A field : FieldValues(field) \subseteq U16 \cup Scalar
      BY DEF FieldValues
    <3>3. r \in [DOMAIN Layout[k] -> U16 \cup Scalar]
      BY <2>1, <3>1, <3>2
    <3> QED BY <3>1, <3>3 DEF Values
  <2>4. r \in sources
    BY <1>3, <2>2, <2>3, SourcesAreReadings
  <2>5. ASSUME NEW v \in sources PROVE v = r
    <3>1. \A n \in DOMAIN Layout[k] : v[n] \in FieldReadings(k, b, n)
      BY <1>3, SourcesAreReadings
    <3>2. \A n \in DOMAIN Layout[k] : v[n] = r[n]
      BY <1>3, <2>2, <3>1, SourcesAreReadings
    <3>3. /\ v \in [DOMAIN Layout[k] -> U16 \cup Scalar]
          /\ r \in [DOMAIN Layout[k] -> U16 \cup Scalar]
      BY <2>3 DEF Values
    <3> QED BY <3>2, <3>3
  <2>6. sources = {r}
    BY <2>4, <2>5
  <2> QED BY <2>1, <2>6
<1> QED BY <1>1, <1>2, <1>3

-----------------------------------------------------------------------------
(* Messages under way.                                                     *)

\* The invariant: a message is a string of bytes, and what it has been received
\* as is what from_bytes makes of it.
WireInv ==
  /\ kind \in DOMAIN Layout
  /\ bytes \in Seq(Byte)
  /\ result = Pending \/ result = from_bytes(kind, bytes)

\* The invariant holds in every state that can be reached.
LEMMA WireInvariance ==
  ASSUME CanonicalReprs, OtherReprsCondition
  PROVE  Spec => []WireInv
<1>1. Init => WireInv
  BY EncodingsOfFields DEF Init, WireInv
<1>2. WireInv /\ [Next]_vars => WireInv'
  <2> SUFFICES ASSUME WireInv, [Next]_vars PROVE WireInv'
    OBVIOUS
  <2>1. CASE Damage
    <3>1. PICK n \in 0..MaxLen : bytes' \in [1..n -> Byte]
      BY <2>1 DEF Damage
    <3>2. MaxLen \in Nat
      <4>1. "SignatureShare" \in DOMAIN Layout
        BY DEF Layout
      <4>2. PICK d, e, f \in Nat :
               MessageLen("SignatureShare")
                  = IF Len(Layout["SignatureShare"]) = 2 THEN d + e ELSE d + e + f
        BY <4>1, FieldStarts
      <4> QED BY <4>2 DEF MaxLen
    <3>3. n \in Nat
      BY <3>1, <3>2
    <3>4. bytes' \in Seq(Byte)
      BY <3>1, <3>3
    <3> QED BY <2>1, <3>4 DEF Damage, WireInv
  <2>2. CASE Receive
    BY <2>2 DEF Receive, WireInv
  <2>3. CASE UNCHANGED vars
    BY <2>3 DEF vars, WireInv
  <2> QED BY <2>1, <2>2, <2>3 DEF Next
<1> QED BY <1>1, <1>2, PTL DEF Spec

\* from_bytes inverts to_bytes, whatever happens to a message on its way.
THEOREM FromBytesInvertsToBytes ==
  ASSUME CanonicalReprs, OtherReprsCondition
  PROVE  Spec => []DecodeInvertsEncode
<1>1. WireInv => DecodeInvertsEncode
  <2> SUFFICES ASSUME WireInv, result # Pending
               PROVE  LET sources == {v \in Values(kind) : bytes \in Encodings(kind, v)}
                      IN  IF sources = {} THEN result = Malformed ELSE sources = {result}
    BY DEF DecodeInvertsEncode
  <2>1. PICK k \in DOMAIN Layout, b \in Seq(Byte) :
           k = kind /\ b = bytes /\ result = from_bytes(k, b)
    BY DEF WireInv
  <2> QED BY <2>1, FromBytesInverts
<1> QED BY <1>1, WireInvariance, PTL

-----------------------------------------------------------------------------
(* Ed25519.                                                                *)

\* The encoding of a point is read as that point, and that of a scalar as it.
LEMMA ReadBack ==
  ASSUME CanonicalReprs, OtherReprsCondition, NEW x \in Scalar
  PROVE  /\ Decode("point", point_bytes(x)) = {x}
         /\ Decode("scalar", scalar_bytes(x)) = {x}
<1>1. /\ Len(PointRepr[x]) = PLen /\ point_bytes(x) = PointRepr[x]
      /\ Len(ScalarRepr[x]) = SLen /\ scalar_bytes(x) = ScalarRepr[x]
  BY DEF CanonicalReprs, point_bytes, scalar_bytes
<1>2. DOMAIN OtherReprs \cap {PointRepr[x]} = {}
  BY DEF OtherReprsCondition
<1>3. /\ Decode("point", point_bytes(x)) = {P \in Scalar : PointRepr[P] = PointRepr[x]}
      /\ Decode("scalar", scalar_bytes(x)) = {z \in Scalar : ScalarRepr[z] = ScalarRepr[x]}
  BY <1>1, <1>2 DEF Decode, FieldLen
<1> QED BY <1>3 DEF CanonicalReprs

\* The two fields of a signature.
LEMMA SignatureFields ==
  ASSUME CanonicalReprs, OtherReprsCondition, NEW b \in Seq(Byte), Len(b) = MessageLen("Signature")
  PROVE  /\ DOMAIN Layout["Signature"] = {1, 2}
         /\ FieldReadings("Signature", b, 1) = Decode("point", SubSeq(b, 1, PLen))
         /\ FieldReadings("Signature", b, 2) = Decode("scalar", SubSeq(b, PLen + 1, PLen + SLen))
         /\ FieldReadings("Signature", b, 1) \subseteq Scalar
         /\ FieldReadings("Signature", b, 2) \subseteq Scalar
<1>1. /\ "Signature" \in DOMAIN Layout
      /\ Len(Layout["Signature"]) = 2 /\ DOMAIN Layout["Signature"] = 1..2
      /\ Layout["Signature"][1] = "point" /\ Layout["Signature"][2] = "scalar"
  BY DEF Layout
<1>2. FieldLen("point") = PLen /\ FieldLen("scalar") = SLen
  BY DEF FieldLen
<1>3. /\ Start("Signature", 1) = 0 /\ Start("Signature", 2) = PLen
      /\ Start("Signature", 3) = PLen + SLen
  BY <1>1, <1>2, StartFacts
<1>4. 1 + 1 = 2 /\ 2 + 1 = 3 /\ 0 + 1 = 1
  OBVIOUS
<1>5. Len(b) = PLen + SLen
  BY <1>1, <1>3, <1>4 DEF MessageLen
<1>6. /\ FieldSlice("Signature", b, 1) = SubSeq(b, 1, PLen)
      /\ FieldSlice("Signature", b, 2) = SubSeq(b, PLen + 1, PLen + SLen)
  <2>1. /\ FieldSlice("Signature", b, 1)
              = SubSeq(b, Start("Signature", 1) + 1, Start("Signature", 1 + 1))
        /\ FieldSlice("Signature", b, 2)
              = SubSeq(b, Start("Signature", 2) + 1, Len(b))
    BY <1>1 DEF FieldSlice
  <2> QED BY <1>3, <1>4, <1>5, <2>1
<1>7. /\ FieldReadings("Signature", b, 1) = Decode("point", SubSeq(b, 1, PLen))
      /\ FieldReadings("Signature", b, 2) = Decode("scalar", SubSeq(b, PLen + 1, PLen + SLen))
  BY <1>1, <1>6 DEF FieldReadings
<1>8. /\ FieldReadings("Signature", b, 1) \subseteq Scalar
      /\ FieldReadings("Signature", b, 2) \subseteq Scalar
  <2>1. FieldValues("point") = Scalar /\ FieldValues("scalar") = Scalar
    BY DEF FieldValues
  <2>2. /\ FieldReadings("Signature", b, 1) \subseteq FieldValues(Layout["Signature"][1])
        /\ FieldReadings("Signature", b, 2) \subseteq FieldValues(Layout["Signature"][2])
    BY <1>1, SourcesAreReadings
  <2> QED BY <1>1, <2>1, <2>2
<1> QED BY <1>1, <1>7, <1>8

\* What ed25519_verify_bytes compares if the bytes are read as R and s, with the
\* challenge hashed from the encoding of R that compress makes.
LEMMA BytesVerified ==
  ASSUME CanonicalReprs, OtherReprsCondition, ChallengeCondition, Suite = "plain",
         NEW vk \in Scalar, NEW m \in Messages, NEW R \in Scalar, NEW s \in Scalar,
         NEW b, SubSeq(b, 1, PLen) = point_bytes(R),
         Decode("scalar", SubSeq(b, PLen + 1, PLen + SLen)) = {s}
  PROVE  Ed25519VerifyBytes(b, m, point_bytes(vk)) <=>
            Verify([R |-> R, z |-> s], m, [verifying_key |-> vk])
<1>1. /\ Decode("point", point_bytes(vk)) = {vk}
      /\ Decode("point", SubSeq(b, 1, PLen)) = {R}
  BY ReadBack
<1>2. Rfc8032(SubSeq(b, 1, PLen), point_bytes(vk), m) = Hsig(vk, R, m)
  BY DEF ChallengeCondition
<1>3. Ed25519VerifyBytes(b, m, point_bytes(vk)) <=> s = Add(R, Mul(vk, Hsig(vk, R, m)))
  BY <1>1, <1>2 DEF Ed25519VerifyBytes
<1>4. Verify([R |-> R, z |-> s], m, [verifying_key |-> vk])
         <=> s = Add(R, Mul(vk, Hsig(vk, R, m)))
  BY DEF Verify, AcceptR, Challenge
<1> QED BY <1>3, <1>4

\* The bytes of signature_to_bytes are those of R and of z.
LEMMA SignatureBytes ==
  ASSUME CanonicalReprs, NEW R \in Scalar, NEW z \in Scalar,
         NEW b, b = signature_to_bytes([R |-> R, z |-> z])
  PROVE  /\ SubSeq(b, 1, PLen) = point_bytes(R)
         /\ SubSeq(b, PLen + 1, PLen + SLen) = scalar_bytes(z)
<1>1. /\ point_bytes(R) \in Seq(Byte) /\ Len(point_bytes(R)) = PLen
      /\ scalar_bytes(z) \in Seq(Byte) /\ Len(scalar_bytes(z)) = SLen
      /\ PLen \in Nat /\ SLen \in Nat
  BY DEF CanonicalReprs, point_bytes, scalar_bytes, Byte
<1>2. PICK x, y \in Seq(Byte) : x = point_bytes(R) /\ y = scalar_bytes(z)
  BY <1>1
<1>3. b = x \o y
  BY <1>2 DEF signature_to_bytes
<1>4. b \in Seq(Byte) /\ Len(b) = Len(x) + Len(y)
  BY <1>2, <1>3, ConcatFacts
<1>5. x = SubSeq(b, 0 + 1, Len(x)) /\ y = SubSeq(b, Len(x) + 1, Len(b))
  BY <1>3, <1>4, CutInTwo
<1>6. 0 + 1 = 1
  OBVIOUS
<1> QED BY <1>1, <1>2, <1>4, <1>5, <1>6

\* With the default hooks, which Ed25519 keeps, ed25519_verify_bytes accepts the
\* signatures that from_bytes and verify accept, as they arrive unless they hold
\* another encoding of R, and always as signature_to_bytes encodes them.
THEOREM VerifiersOfBytesAgree ==
  ASSUME CanonicalReprs, OtherReprsCondition, ChallengeCondition, Suite = "plain"
  PROVE  Spec => []Ed25519VerifiersAgree
<1>1. WireInv => Ed25519VerifiersAgree
  <2> SUFFICES ASSUME WireInv, result # Pending, kind = "Signature",
                      Len(bytes) = MessageLen(kind),
                      NEW vk \in Scalar, NEW m \in Messages,
                      NEW sig, sig = [R |-> result[1], z |-> result[2]],
                      NEW accepted \in BOOLEAN,
                      accepted <=> /\ result # Malformed
                                   /\ Verify(sig, m, [verifying_key |-> vk])
               PROVE  /\ SubSeq(bytes, 1, PLen) \notin DOMAIN OtherReprs
                            => (Ed25519VerifyBytes(bytes, m, point_bytes(vk)) <=> accepted)
                      /\ result # Malformed
                            => (Ed25519VerifyBytes(signature_to_bytes(sig), m, point_bytes(vk))
                                  <=> accepted)
    BY DEF Ed25519VerifiersAgree
  <2>1. PICK b \in Seq(Byte) :
           b = bytes /\ Len(b) = MessageLen("Signature") /\ result = from_bytes("Signature", b)
    BY DEF WireInv
  <2>2. PICK Rs, ss : /\ Rs = FieldReadings("Signature", b, 1)
                      /\ ss = FieldReadings("Signature", b, 2)
    OBVIOUS
  <2>3. /\ Rs = Decode("point", SubSeq(b, 1, PLen)) /\ Rs \subseteq Scalar
        /\ ss = Decode("scalar", SubSeq(b, PLen + 1, PLen + SLen)) /\ ss \subseteq Scalar
        /\ DOMAIN Layout["Signature"] = {1, 2} /\ "Signature" \in DOMAIN Layout
    BY <2>1, <2>2, SignatureFields DEF Layout
  <2>4. (\A x, y \in Rs : x = y) /\ (\A x, y \in ss : x = y)
    BY <2>1, <2>2, <2>3, SourcesAreReadings
  <2>5. CASE Rs = {} \/ ss = {}
    <3>1. \E n \in DOMAIN Layout["Signature"] : FieldReadings("Signature", b, n) = {}
      BY <2>2, <2>3, <2>5
    <3>2. result = Malformed
      BY <2>1, <2>3, <3>1, FieldsDecoded
    <3>3. ~ Ed25519VerifyBytes(b, m, point_bytes(vk))
      BY <2>3, <2>5 DEF Ed25519VerifyBytes
    <3> QED BY <2>1, <3>2, <3>3
  <2>6. CASE Rs # {} /\ ss # {}
    <3>1. ~ \E n \in DOMAIN Layout["Signature"] : FieldReadings("Signature", b, n) = {}
      BY <2>2, <2>3, <2>6
    <3>2. result = [n \in {1, 2} |-> CHOOSE v \in FieldReadings("Signature", b, n) : TRUE]
      <4>1. from_bytes("Signature", b) =
               IF \E n \in DOMAIN Layout["Signature"] : FieldReadings("Signature", b, n) = {}
               THEN Malformed
               ELSE [n \in DOMAIN Layout["Signature"] |->
                        CHOOSE v \in FieldReadings("Signature", b, n) : TRUE]
        BY <2>1, <2>3, FieldsDecoded
      <4>2. DOMAIN Layout["Signature"] = {1, 2}
        BY <2>3
      <4> QED BY <2>1, <3>1, <4>1, <4>2
    <3>3. PICK R, s : R = result[1] /\ s = result[2]
      OBVIOUS
    <3>4. R \in Rs /\ s \in ss
      BY <2>2, <2>6, <3>2, <3>3
    <3>5. R \in Scalar /\ s \in Scalar /\ ss = {s}
      BY <2>3, <2>4, <3>4
    <3>6. result # Malformed
      <4>1. DOMAIN result = {1, 2}
        BY <3>2
      <4>2. DOMAIN Malformed = 1..1
        BY DEF Malformed
      <4>3. 2 \in {1, 2} /\ 2 \notin 1..1
        OBVIOUS
      <4>4. {1, 2} # 1..1
        BY <4>3
      <4> QED BY <4>1, <4>2, <4>4
    <3>7. accepted <=> Verify([R |-> R, z |-> s], m, [verifying_key |-> vk])
      BY <3>3, <3>6
    <3>8. ASSUME SubSeq(b, 1, PLen) \notin DOMAIN OtherReprs
          PROVE  Ed25519VerifyBytes(b, m, point_bytes(vk)) <=> accepted
      <4>1. SubSeq(b, 1, PLen) = point_bytes(R)
        BY <2>3, <3>4, <3>8 DEF Decode, point_bytes
      <4> QED BY <2>3, <3>5, <3>7, <4>1, BytesVerified
    <3>9. Ed25519VerifyBytes(signature_to_bytes(sig), m, point_bytes(vk)) <=> accepted
      <4>1. PICK c : c = signature_to_bytes([R |-> R, z |-> s])
        OBVIOUS
      <4>2. /\ SubSeq(c, 1, PLen) = point_bytes(R)
            /\ SubSeq(c, PLen + 1, PLen + SLen) = scalar_bytes(s)
        BY <3>5, <4>1, SignatureBytes
      <4>3. Decode("scalar", scalar_bytes(s)) = {s}
        BY <3>5, ReadBack
      <4> QED BY <3>3, <3>5, <3>7, <4>1, <4>2, <4>3, BytesVerified
    <3> QED BY <2>1, <3>8, <3>9
  <2> QED BY <2>5, <2>6
<1> QED BY <1>1, WireInvariance, PTL
-----------------------------------------------------------------------------
(* What is hashed: blocks of bytes one after the other.                    *)

\* N blocks of the length L.
Blocks(T, L, N) ==
    {q \in Seq(Seq(T)) : Len(q) = N /\ \A i \in 1..N : Len(q[i]) = L}

\* They flatten to as many bytes.
LEMMA FlattenedLength ==
  ASSUME NEW T, NEW L \in Nat, NEW N \in Nat, NEW q \in Blocks(T, L, N),
         NEW n \in 1..N, NEW f, Flattened(f, q, N)
  PROVE  f[n] \in Seq(T) /\ Len(f[n]) = n * L
<1> DEFINE S == {k \in Nat : k = 0 \/ (f[k] \in Seq(T) /\ Len(f[k]) = k * L)}
<1>1. 0 \in S
  OBVIOUS
<1>2. ASSUME NEW k \in 0..(n - 1), k \in S PROVE k + 1 \in S
  <2>1. k + 1 \in 1..N /\ k \in Nat /\ (k + 1) - 1 = k
    OBVIOUS
  <2>2. q[k + 1] \in Seq(T) /\ Len(q[k + 1]) = L
    BY <2>1 DEF Blocks
  <2>3. CASE k = 0
    <3>1. 1 \in 1..N
      OBVIOUS
    <3>2. f[1] = q[1]
      BY <3>1 DEF Flattened
    <3>3. 1 * L = L
      OBVIOUS
    <3>4. k + 1 = 1
      BY <2>3
    <3> QED BY <2>2, <3>2, <3>3, <3>4
  <2>4. CASE k # 0
    <3>1. f[k + 1] = f[k] \o q[k + 1]
      <4>1. k + 1 # 1
        BY <2>4
      <4> QED BY <2>1, <4>1 DEF Flattened
    <3>2. f[k] \in Seq(T) /\ Len(f[k]) = k * L
      BY <1>2, <2>4
    <3>3. f[k + 1] \in Seq(T) /\ Len(f[k + 1]) = k * L + L
      <4>1. PICK s, t : s = f[k] /\ t = q[k + 1]
        OBVIOUS
      <4>2. s \o t \in Seq(T) /\ Len(s \o t) = Len(s) + Len(t)
        BY <2>2, <3>2, <4>1, ConcatFacts
      <4> QED BY <2>2, <3>1, <3>2, <4>1, <4>2
    <3>4. (k + 1) * L = k * L + L
      BY <2>1
    <3> QED BY <2>1, <3>3, <3>4
  <2> QED BY <2>3, <2>4
<1>3. n \in Nat /\ n # 0 /\ n \in 0..n
  OBVIOUS
<1> HIDE DEF S
<1>4. n \in S
  BY <1>1, <1>2, <1>3, InductionUpTo
<1> QED BY <1>3, <1>4 DEF S

\* Their bytes determine them.
LEMMA FlattenedDetermines ==
  ASSUME NEW T, NEW L \in Nat, NEW N \in Nat,
         NEW q \in Blocks(T, L, N), NEW r \in Blocks(T, L, N),
         NEW f, Flattened(f, q, N), NEW g, Flattened(g, r, N),
         NEW n \in 1..N, f[n] = g[n]
  PROVE  \A i \in 1..n : q[i] = r[i]
<1> DEFINE S == {k \in Nat : k > n \/ k = 0 \/ (f[k] = g[k] => \A i \in 1..k : q[i] = r[i])}
<1>1. 0 \in S
  OBVIOUS
<1>2. ASSUME NEW k \in 0..(n - 1), k \in S PROVE k + 1 \in S
  <2>1. k + 1 \in 1..N /\ k \in Nat /\ (k + 1) - 1 = k /\ k <= n /\ k + 1 <= n
    OBVIOUS
  <2>2. q[k + 1] \in Seq(T) /\ r[k + 1] \in Seq(T)
    BY <2>1 DEF Blocks
  <2>3. SUFFICES ASSUME f[k + 1] = g[k + 1] PROVE \A i \in 1..(k + 1) : q[i] = r[i]
    BY <2>1
  <2>4. CASE k = 0
    <3>1. f[1] = q[1] /\ g[1] = r[1]
      <4>1. 1 \in 1..N
        OBVIOUS
      <4> QED BY <4>1 DEF Flattened
    <3>2. q[1] = r[1] /\ 1..(k + 1) = {1}
      BY <2>3, <2>4, <3>1
    <3> QED BY <3>2
  <2>5. CASE k # 0
    <3>1. f[k + 1] = f[k] \o q[k + 1] /\ g[k + 1] = g[k] \o r[k + 1]
      <4>1. k + 1 # 1
        BY <2>5
      <4> QED BY <2>1, <4>1 DEF Flattened
    <3>2. f[k] \in Seq(T) /\ Len(f[k]) = k * L /\ g[k] \in Seq(T) /\ Len(g[k]) = k * L
      <4>1. k \in 1..N
        BY <2>1, <2>5
      <4>2. f[k] \in Seq(T) /\ Len(f[k]) = k * L
        BY <4>1, FlattenedLength
      <4>3. g[k] \in Seq(T) /\ Len(g[k]) = k * L
        BY <4>1, FlattenedLength
      <4> QED BY <4>2, <4>3
    <3>3. f[k] = g[k] /\ q[k + 1] = r[k + 1]
      <4>1. Len(f[k]) = Len(g[k]) /\ f[k] \o q[k + 1] = g[k] \o r[k + 1]
        BY <2>3, <3>1, <3>2
      <4>2. PICK s, t, u, v : s = f[k] /\ t = q[k + 1] /\ u = g[k] /\ v = r[k + 1]
        OBVIOUS
      <4>3. /\ s \in Seq(T) /\ t \in Seq(T) /\ u \in Seq(T) /\ v \in Seq(T)
            /\ Len(s) = Len(u) /\ s \o t = u \o v
        BY <2>2, <3>2, <4>1, <4>2
      <4>4. s = u /\ t = v
        BY <4>3, ConcatSplit
      <4> QED BY <4>2, <4>4
    <3>4. \A i \in 1..k : q[i] = r[i]
      BY <1>2, <2>1, <2>5, <3>3
    <3> QED BY <2>1, <3>3, <3>4
  <2> QED BY <2>4, <2>5
<1>3. n \in Nat /\ n # 0 /\ n \in 0..n /\ ~ (n > n)
  OBVIOUS
<1> HIDE DEF S
<1>4. n \in S
  BY <1>1, <1>2, <1>3, InductionUpTo
<1> QED BY <1>3, <1>4 DEF S

\* The same of FlattenSeq.
LEMMA FlattenBlocks ==
  ASSUME NEW T, NEW L \in Nat, NEW N \in Nat, NEW q \in Blocks(T, L, N)
  PROVE  FlattenSeq(q) \in Seq(T) /\ Len(FlattenSeq(q)) = N * L
<1>1. q \in Seq(Seq(T)) /\ Len(q) = N
  BY DEF Blocks
<1>2. CASE N = 0
  <2>1. FlattenSeq(q) = q
    BY <1>1, <1>2 DEF FlattenSeq
  <2>2. q = << >>
    BY <1>1, <1>2
  <2>3. << >> \in Seq(T) /\ Len(<< >>) = 0 /\ 0 * L = 0
    OBVIOUS
  <2> QED BY <1>2, <2>1, <2>2, <2>3
<1>3. CASE N # 0
  <2>1. PICK f : Flattened(f, q, N) /\ FlattenSeq(q) = f[N]
    BY <1>1, <1>3, FlattenSeqIs
  <2>2. PICK n \in 1..N : n = N
    BY <1>3
  <2>3. f[n] \in Seq(T) /\ Len(f[n]) = n * L
    BY <2>1, FlattenedLength
  <2> QED BY <2>1, <2>2, <2>3
<1> QED BY <1>2, <1>3

\* Blocks of one length are determined by what they make up.
LEMMA BlocksDetermined ==
  ASSUME NEW T, NEW L \in Nat, NEW N \in Nat,
         NEW q \in Blocks(T, L, N), NEW r \in Blocks(T, L, N),
         FlattenSeq(q) = FlattenSeq(r)
  PROVE  \A i \in 1..N : q[i] = r[i]
<1>1. CASE N = 0
  BY <1>1
<1>2. CASE N # 0
  <2>1. PICK f : Flattened(f, q, N) /\ FlattenSeq(q) = f[N]
    BY <1>2, FlattenSeqIs DEF Blocks
  <2>2. PICK g : Flattened(g, r, N) /\ FlattenSeq(r) = g[N]
    BY <1>2, FlattenSeqIs DEF Blocks
  <2>3. PICK n \in 1..N : n = N
    BY <1>2
  <2>4. f[n] = g[n]
    BY <2>1, <2>2, <2>3
  <2>5. \A i \in 1..n : q[i] = r[i]
    BY <2>1, <2>2, <2>4, FlattenedDetermines
  <2> QED BY <2>3, <2>5
<1> QED BY <1>1, <1>2

-----------------------------------------------------------------------------
(* Identifiers in their order.                                             *)

\* ids enumerates S in ascending order.
Ascending(ids, S) ==
    /\ ids \in [1..Cardinality(S) -> S]
    /\ \A m, n \in 1..Cardinality(S) : m < n => ids[m] < ids[n]

\* A finite set of naturals has a greatest element.
LEMMA GreatestNat ==
  ASSUME NEW S \in SUBSET Nat, NEW B \in Nat, \A x \in S : x <= B, S # {}
  PROVE  \E m \in S : \A x \in S : x <= m
<1>1. PICK T : T = {B - x : x \in S}
  OBVIOUS
<1>2. T \in SUBSET Nat /\ T # {}
  <2>1. \A x \in S : B - x \in Nat
    OBVIOUS
  <2>2. PICK x : x \in S
    OBVIOUS
  <2>3. B - x \in T
    BY <1>1, <2>2
  <2> QED BY <1>1, <2>1, <2>3
<1>3. PICK t \in T : \A u \in T : t <= u
  BY <1>2, LeastNat
<1>4. PICK m \in S : t = B - m
  BY <1>1, <1>3
<1>5. ASSUME NEW x \in S PROVE x <= m
  <2>1. B - x \in T
    BY <1>1
  <2>2. B - m <= B - x
    BY <1>3, <1>4, <2>1
  <2> QED BY <1>4, <2>2
<1> QED BY <1>4, <1>5

\* It can be enumerated in ascending order.
LEMMA AscendingExists ==
  ASSUME NEW B \in Nat, NEW n \in Nat, NEW S \in SUBSET (0..B), Cardinality(S) = n
  PROVE  \E ids : Ascending(ids, S)
<1> DEFINE P == {k \in Nat : \A R \in SUBSET (0..B) :
                    Cardinality(R) = k => \E ids : Ascending(ids, R)}
<1>1. \A R \in SUBSET (0..B) : IsFiniteSet(R)
  <2>1. IsFiniteSet(0..B)
    BY FS_Interval
  <2> QED BY <2>1, FS_Subset
<1>2. 0 \in P
  <2> SUFFICES ASSUME NEW R \in SUBSET (0..B), Cardinality(R) = 0
               PROVE  \E ids : Ascending(ids, R)
    OBVIOUS
  <2>1. Ascending([i \in 1..0 |-> i], R)
    <3>1. 1..0 = {} /\ [i \in 1..0 |-> i] \in [1..0 -> R]
      OBVIOUS
    <3> QED BY <3>1 DEF Ascending
  <2> QED BY <2>1
<1>3. ASSUME NEW k \in 0..(n - 1), k \in P PROVE k + 1 \in P
  <2> SUFFICES ASSUME NEW R \in SUBSET (0..B), Cardinality(R) = k + 1
               PROVE  \E ids : Ascending(ids, R)
    OBVIOUS
  <2>1. IsFiniteSet(R) /\ R # {}
    <3>1. IsFiniteSet(R)
      BY <1>1
    <3>2. R # {}
      BY FS_EmptySet
    <3> QED BY <3>1, <3>2
  <2>2. PICK m \in R : \A x \in R : x <= m
    <3>1. R \in SUBSET Nat /\ \A x \in R : x <= B
      OBVIOUS
    <3> QED BY <2>1, <3>1, GreatestNat
  <2>3. PICK U : U = R \ {m}
    OBVIOUS
  <2>4. Cardinality(U) = k /\ U \in SUBSET (0..B)
    <3>1. Cardinality(R \ {m}) = Cardinality(R) - 1
      BY <2>1, FS_RemoveElement
    <3> QED BY <2>3, <3>1
  <2>5. PICK ids : Ascending(ids, U)
    BY <1>3, <2>4
  <2>6. PICK js : js = [i \in 1..(k + 1) |-> IF i <= k THEN ids[i] ELSE m]
    OBVIOUS
  <2>7. \A i \in 1..k : ids[i] \in U /\ ids[i] < m
    <3>1. ids \in [1..k -> U]
      BY <2>4, <2>5 DEF Ascending
    <3>2. ASSUME NEW x \in U PROVE x < m
      <4>1. x \in R /\ x # m /\ x <= m
        BY <2>2, <2>3
      <4>2. x \in Nat /\ m \in Nat
        BY <4>1
      <4> QED BY <4>1, <4>2
    <3> QED BY <3>1, <3>2
  <2>8. js \in [1..(k + 1) -> R]
    <3>1. \A i \in 1..(k + 1) : i <= k => i \in 1..k
      OBVIOUS
    <3> QED BY <2>3, <2>6, <2>7, <3>1
  <2>9. ASSUME NEW i \in 1..(k + 1), NEW j \in 1..(k + 1), i < j PROVE js[i] < js[j]
    <3>1. i \in 1..k /\ js[i] = ids[i]
      BY <2>6, <2>9
    <3>2. CASE j <= k
      <4>1. j \in 1..k /\ js[j] = ids[j]
        BY <2>6, <3>2
      <4> QED BY <2>4, <2>5, <2>9, <3>1, <4>1 DEF Ascending
    <3>3. CASE ~ (j <= k)
      BY <2>6, <2>7, <3>1, <3>3
    <3> QED BY <3>2, <3>3
  <2>10. Ascending(js, R)
    BY <2>8, <2>9 DEF Ascending
  <2> QED BY <2>10
<1>4. n \in 0..n
  OBVIOUS
<1> HIDE DEF P
<1>5. n \in P
  BY <1>2, <1>3, <1>4, InductionUpTo
<1> QED BY <1>5 DEF P

\* So InOrder enumerates it in that order, and all of it.
LEMMA InOrderEnumerates ==
  ASSUME NEW B \in Nat, NEW S \in SUBSET (0..B)
  PROVE  /\ Cardinality(S) \in Nat
         /\ InOrder(S) \in [1..Cardinality(S) -> S]
         /\ \A x \in S : \E n \in 1..Cardinality(S) : InOrder(S)[n] = x
<1>1. IsFiniteSet(S) /\ Cardinality(S) \in Nat
  <2>1. IsFiniteSet(0..B)
    BY FS_Interval
  <2> QED BY <2>1, FS_Subset, FS_CardinalityType
<1>2. PICK n \in Nat : n = Cardinality(S)
  BY <1>1
<1>3. PICK ids : Ascending(ids, S)
  BY <1>2, AscendingExists
<1>4. ids \in [1..Cardinality(S) -> S] /\ \A k, l \in DOMAIN ids : k < l => ids[k] < ids[l]
  BY <1>3 DEF Ascending
<1>5. PICK js : js = InOrder(S)
  OBVIOUS
<1>6. js \in [1..Cardinality(S) -> S] /\ \A k, l \in DOMAIN js : k < l => js[k] < js[l]
  BY <1>4, <1>5 DEF InOrder
<1>7. js \in Injection(1..n, S)
  <2>1. ASSUME NEW k \in 1..n, NEW l \in 1..n, js[k] = js[l] PROVE k = l
    <3>1. js[k] \in Int /\ ~ (js[k] < js[k])
      <4>1. js[k] \in S
        BY <1>2, <1>6
      <4>2. \A x \in S : x \in Int
        OBVIOUS
      <4>3. js[k] \in Int
        BY <4>1, <4>2
      <4> QED BY <4>3
    <3>2. ~ (k < l) /\ ~ (l < k)
      BY <1>2, <1>6, <2>1, <3>1
    <3> QED BY <3>2
  <2> QED BY <1>2, <1>6, <2>1 DEF Injection, IsInjective
<1>8. js \in Surjection(1..n, S)
  <2>1. Cardinality(1..n) = n
    BY FS_Interval
  <2> QED BY <1>1, <1>2, <1>7, <2>1, FS_Injection
<1> QED BY <1>1, <1>2, <1>5, <1>6, <1>8 DEF Surjection

\* Sets of as many elements that are enumerated alike are the same.
LEMMA SameEnumeration ==
  ASSUME NEW B \in Nat, NEW S \in SUBSET (0..B), NEW R \in SUBSET (0..B),
         Cardinality(S) = Cardinality(R),
         \A n \in 1..Cardinality(S) : InOrder(S)[n] = InOrder(R)[n]
  PROVE  S = R
<1>1. PICK ids, js : ids = InOrder(S) /\ js = InOrder(R)
  OBVIOUS
<1>2. PICK N : N = Cardinality(S) /\ N = Cardinality(R)
  OBVIOUS
<1>3. /\ ids \in [1..N -> S] /\ \A x \in S : \E n \in 1..N : ids[n] = x
      /\ js \in [1..N -> R] /\ \A x \in R : \E n \in 1..N : js[n] = x
  BY <1>1, <1>2, InOrderEnumerates
<1>4. \A n \in 1..N : ids[n] = js[n]
  BY <1>1, <1>2
<1>5. \A x : x \in S => x \in R
  BY <1>3, <1>4
<1>6. \A x : x \in R => x \in S
  BY <1>3, <1>4
<1> QED BY <1>5, <1>6

\* Both of sets of identifiers.
LEMMA IdentifierInterval ==
  ASSUME CanonicalReprs
  PROVE  \E B \in Nat : U16 = 0..B
<1>1. Base \in Nat /\ 0 < Base
  BY DEF CanonicalReprs
<1>2. 0 * Base + Base <= Base * Base
  BY <1>1, MultipleMonotonic
<1>3. PICK x \in Nat : x = Base * Base
  BY <1>1
<1>4. 0 * Base = 0
  BY <1>1
<1>5. x - 1 \in Nat
  BY <1>1, <1>2, <1>3, <1>4
<1>6. U16 = 0..(x - 1)
  BY <1>3 DEF U16
<1> QED BY <1>5, <1>6

\* What InOrder is of identifiers,
LEMMA IdentifiersInOrder ==
  ASSUME CanonicalReprs, NEW S \in SUBSET U16
  PROVE  /\ Cardinality(S) \in Nat
         /\ InOrder(S) \in [1..Cardinality(S) -> S]
         /\ \A x \in S : \E n \in 1..Cardinality(S) : InOrder(S)[n] = x
<1>1. PICK B \in Nat : U16 = 0..B
  BY IdentifierInterval
<1> QED BY <1>1, InOrderEnumerates

\* and that it tells their set.
LEMMA SameIdentifiers ==
  ASSUME CanonicalReprs, NEW S \in SUBSET U16, NEW R \in SUBSET U16,
         Cardinality(S) = Cardinality(R),
         \A n \in 1..Cardinality(S) : InOrder(S)[n] = InOrder(R)[n]
  PROVE  S = R
<1>1. PICK B \in Nat : U16 = 0..B
  BY IdentifierInterval
<1> QED BY <1>1, SameEnumeration

-----------------------------------------------------------------------------
(* Parts of a string.                                                      *)

\* Tuples that are sequences.
LEMMA TupleOfThree ==
  ASSUME NEW T, NEW a \in T, NEW b \in T, NEW c \in T
  PROVE  << a, b, c >> \in Seq(T) /\ Len(<< a, b, c >>) = 3 /\ << a, b, c >>[3] = c
  OBVIOUS

LEMMA TupleOfFour ==
  ASSUME NEW T, NEW a \in T, NEW b \in T, NEW c \in T, NEW d \in T
  PROVE  << a, b, c, d >> \in Seq(T) /\ Len(<< a, b, c, d >>) = 4 /\ << a, b, c, d >>[3] = c
  OBVIOUS

LEMMA TupleOfFive ==
  ASSUME NEW T, NEW a \in T, NEW b \in T, NEW c \in T, NEW d \in T, NEW e \in T
  PROVE  /\ << a, b, c, d, e >> \in Seq(T) /\ Len(<< a, b, c, d, e >>) = 5
         /\ << a, b, c, d, e >>[3] = c
  OBVIOUS

\* The third byte of a string is that of its first part.
LEMMA ThirdByte ==
  ASSUME NEW T, NEW s \in Seq(T), NEW t \in Seq(T), Len(s) >= 3
  PROVE  (s \o t)[3] = s[3] /\ Len(s \o t) >= 3
<1>1. 3 \in 1..Len(s)
  OBVIOUS
<1>2. Len(s \o t) = Len(s) + Len(t) /\ Len(t) \in Nat /\ Len(s) \in Nat
  BY ConcatFacts
<1> QED BY <1>1, <1>2, ConcatFirst

\* The length of three parts.
LEMMA LengthOfThree ==
  ASSUME NEW T, NEW a \in Seq(T), NEW b \in Seq(T), NEW c \in Seq(T)
  PROVE  /\ (a \o b) \o c \in Seq(T)
         /\ Len((a \o b) \o c) = Len(a) + Len(b) + Len(c)
<1>1. PICK s : s = a \o b
  OBVIOUS
<1>2. s \in Seq(T) /\ Len(s) = Len(a) + Len(b)
  BY <1>1, ConcatFacts
<1>3. s \o c \in Seq(T) /\ Len(s \o c) = Len(s) + Len(c)
  BY <1>2, ConcatFacts
<1> QED BY <1>1, <1>2, <1>3

\* Parts of known lengths are determined by the string they make up.
ThreeParts(T, a, b, c) == a \in Seq(T) /\ b \in Seq(T) /\ c \in Seq(T)

LEMMA SplitThree ==
  ASSUME NEW T, NEW a, NEW b, NEW c, NEW x, NEW y, NEW z,
         ThreeParts(T, a, b, c), ThreeParts(T, x, y, z),
         Len(a) = Len(x), Len(b) = Len(y), (a \o b) \o c = (x \o y) \o z
  PROVE  a = x /\ b = y /\ c = z
<1>1. PICK s, t : s = a \o b /\ t = x \o y
  OBVIOUS
<1>2. a \in Seq(T) /\ b \in Seq(T) /\ c \in Seq(T)
  BY DEF ThreeParts
<1>3. x \in Seq(T) /\ y \in Seq(T) /\ z \in Seq(T)
  BY DEF ThreeParts
<1>4. s \in Seq(T) /\ Len(s) = Len(a) + Len(b)
  BY <1>1, <1>2, ConcatFacts
<1>5. t \in Seq(T) /\ Len(t) = Len(x) + Len(y)
  BY <1>1, <1>3, ConcatFacts
<1>6. s = t /\ c = z
  <2>1. s \o c = t \o z
    BY <1>1
  <2> QED BY <1>2, <1>3, <1>4, <1>5, <2>1, ConcatSplit
<1>7. a \o b = x \o y
  BY <1>1, <1>6
<1>8. a = x /\ b = y
  BY <1>2, <1>3, <1>7, ConcatSplit
<1> QED BY <1>6, <1>8

FiveJoined(h, a, b, c, d, e) ==
    /\ a \in Seq(Nat) /\ b \in Seq(Nat) /\ c \in Seq(Nat) /\ d \in Seq(Nat) /\ e \in Seq(Nat)
    /\ h = (((a \o b) \o c) \o d) \o e

LEMMA FiveDetermined ==
  ASSUME NEW h, NEW a, NEW b, NEW c, NEW d, NEW e, NEW x, NEW y, NEW z, NEW w, NEW v,
         FiveJoined(h, a, b, c, d, e), FiveJoined(h, x, y, z, w, v),
         Len(a) = Len(x), Len(b) = Len(y), Len(c) = Len(z), Len(d) = Len(w)
  PROVE  a = x /\ b = y /\ c = z /\ d = w /\ e = v
<1>1. PICK p, q : p = a \o b /\ q = x \o y
  OBVIOUS
<1>2. p \in Seq(Nat) /\ q \in Seq(Nat) /\ Len(p) = Len(q)
  <2>1. a \in Seq(Nat) /\ b \in Seq(Nat)
    BY DEF FiveJoined
  <2>2. x \in Seq(Nat) /\ y \in Seq(Nat)
    BY DEF FiveJoined
  <2>3. p \in Seq(Nat) /\ Len(p) = Len(a) + Len(b)
    BY <1>1, <2>1, ConcatFacts
  <2>4. q \in Seq(Nat) /\ Len(q) = Len(x) + Len(y)
    BY <1>1, <2>2, ConcatFacts
  <2> QED BY <2>3, <2>4
<1>3. PICK s, t : s = p \o c /\ t = q \o z
  OBVIOUS
<1>4. c \in Seq(Nat) /\ z \in Seq(Nat)
  BY DEF FiveJoined
<1>5. s \in Seq(Nat) /\ t \in Seq(Nat) /\ Len(s) = Len(t)
  <2>1. s \in Seq(Nat) /\ Len(s) = Len(p) + Len(c)
    BY <1>2, <1>3, <1>4, ConcatFacts
  <2>2. t \in Seq(Nat) /\ Len(t) = Len(q) + Len(z)
    BY <1>2, <1>3, <1>4, ConcatFacts
  <2> QED BY <1>2, <2>1, <2>2
<1>6. PICK g, k : g = s \o d /\ k = t \o w
  OBVIOUS
<1>7. d \in Seq(Nat) /\ w \in Seq(Nat)
  BY DEF FiveJoined
<1>8. g \in Seq(Nat) /\ k \in Seq(Nat) /\ Len(g) = Len(k)
  <2>1. g \in Seq(Nat) /\ Len(g) = Len(s) + Len(d)
    BY <1>5, <1>6, <1>7, ConcatFacts
  <2>2. k \in Seq(Nat) /\ Len(k) = Len(t) + Len(w)
    BY <1>5, <1>6, <1>7, ConcatFacts
  <2> QED BY <1>5, <2>1, <2>2
<1>9. g = k /\ e = v
  <2>1. e \in Seq(Nat) /\ v \in Seq(Nat)
    BY DEF FiveJoined
  <2>2. g \o e = k \o v
    BY <1>1, <1>3, <1>6 DEF FiveJoined
  <2> QED BY <1>8, <2>1, <2>2, ConcatSplit
<1>10. s = t /\ d = w
  <2>1. s \o d = t \o w
    BY <1>6, <1>9
  <2> QED BY <1>5, <1>7, <2>1, ConcatSplit
<1>11. p = q /\ c = z
  <2>1. p \o c = q \o z
    BY <1>3, <1>10
  <2> QED BY <1>2, <1>4, <2>1, ConcatSplit
<1>12. a = x /\ b = y
  <2>1. a \o b = x \o y
    BY <1>1, <1>11
  <2>2. a \in Seq(Nat) /\ b \in Seq(Nat) /\ x \in Seq(Nat) /\ y \in Seq(Nat)
    BY DEF FiveJoined
  <2> QED BY <2>1, <2>2, ConcatSplit
<1> QED BY <1>9, <1>10, <1>11, <1>12

FourJoined(h, a, b, c, d) ==
    /\ a \in Seq(Nat) /\ b \in Seq(Nat) /\ c \in Seq(Nat) /\ d \in Seq(Nat)
    /\ h = ((a \o b) \o c) \o d

\* The same of four parts.
LEMMA FourDetermined ==
  ASSUME NEW h, NEW a, NEW b, NEW c, NEW d, NEW x, NEW y, NEW z, NEW w,
         FourJoined(h, a, b, c, d), FourJoined(h, x, y, z, w),
         Len(a) = Len(x), Len(b) = Len(y), Len(c) = Len(z)
  PROVE  a = x /\ b = y /\ c = z /\ d = w
<1>1. PICK p, q : p = a \o b /\ q = x \o y
  OBVIOUS
<1>2. p \in Seq(Nat) /\ q \in Seq(Nat) /\ Len(p) = Len(q)
  <2>1. a \in Seq(Nat) /\ b \in Seq(Nat)
    BY DEF FourJoined
  <2>2. x \in Seq(Nat) /\ y \in Seq(Nat)
    BY DEF FourJoined
  <2>3. p \in Seq(Nat) /\ Len(p) = Len(a) + Len(b)
    BY <1>1, <2>1, ConcatFacts
  <2>4. q \in Seq(Nat) /\ Len(q) = Len(x) + Len(y)
    BY <1>1, <2>2, ConcatFacts
  <2> QED BY <2>3, <2>4
<1>3. PICK s, t : s = p \o c /\ t = q \o z
  OBVIOUS
<1>4. p = q /\ c = z /\ d = w
  <2>1. c \in Seq(Nat) /\ z \in Seq(Nat)
    BY DEF FourJoined
  <2>2. s \in Seq(Nat) /\ Len(s) = Len(p) + Len(c)
    BY <1>2, <1>3, <2>1, ConcatFacts
  <2>3. t \in Seq(Nat) /\ Len(t) = Len(q) + Len(z)
    BY <1>2, <1>3, <2>1, ConcatFacts
  <2>4. s = t /\ d = w
    <3>1. d \in Seq(Nat) /\ w \in Seq(Nat)
      BY DEF FourJoined
    <3>2. s \o d = t \o w
      BY <1>1, <1>3 DEF FourJoined
    <3>3. Len(s) = Len(t)
      BY <1>2, <2>2, <2>3
    <3> QED BY <2>2, <2>3, <3>1, <3>2, <3>3, ConcatSplit
  <2>5. p \o c = q \o z
    BY <1>3, <2>4
  <2>6. p = q /\ c = z
    BY <1>2, <2>1, <2>5, ConcatSplit
  <2> QED BY <2>4, <2>6
<1>5. a = x /\ b = y
  <2>1. a \o b = x \o y
    BY <1>1, <1>4
  <2>2. a \in Seq(Nat) /\ b \in Seq(Nat) /\ x \in Seq(Nat) /\ y \in Seq(Nat)
    BY DEF FourJoined
  <2> QED BY <2>1, <2>2, ConcatSplit
<1> QED BY <1>4, <1>5

\* Their length and their third byte.
LEMMA FiveFacts ==
  ASSUME NEW h, NEW a, NEW b, NEW c, NEW d, NEW e, FiveJoined(h, a, b, c, d, e), Len(a) >= 3
  PROVE  Len(h) = Len(a) + Len(b) + Len(c) + Len(d) + Len(e) /\ h[3] = a[3]
<1>1. PICK p : p = a \o b
  OBVIOUS
<1>2. p \in Seq(Nat) /\ Len(p) = Len(a) + Len(b) /\ Len(p) >= 3 /\ p[3] = a[3]
  <2>1. a \in Seq(Nat) /\ b \in Seq(Nat)
    BY DEF FiveJoined
  <2> QED BY <1>1, <2>1, ConcatFacts, ThirdByte
<1>3. PICK q : q = p \o c
  OBVIOUS
<1>4. q \in Seq(Nat) /\ Len(q) = Len(p) + Len(c) /\ Len(q) >= 3 /\ q[3] = a[3]
  <2>1. c \in Seq(Nat)
    BY DEF FiveJoined
  <2> QED BY <1>2, <1>3, <2>1, ConcatFacts, ThirdByte
<1>5. PICK r : r = q \o d
  OBVIOUS
<1>6. r \in Seq(Nat) /\ Len(r) = Len(q) + Len(d) /\ Len(r) >= 3 /\ r[3] = a[3]
  <2>1. d \in Seq(Nat)
    BY DEF FiveJoined
  <2> QED BY <1>4, <1>5, <2>1, ConcatFacts, ThirdByte
<1>7. h = r \o e /\ e \in Seq(Nat)
  BY <1>1, <1>3, <1>5 DEF FiveJoined
<1>8. Len(r \o e) = Len(r) + Len(e)
  BY <1>6, <1>7, ConcatFacts
<1>9. (r \o e)[3] = r[3]
  BY <1>6, <1>7, ThirdByte
<1> QED BY <1>2, <1>4, <1>6, <1>7, <1>8, <1>9

LEMMA FourFacts ==
  ASSUME NEW h, NEW a, NEW b, NEW c, NEW d, FourJoined(h, a, b, c, d), Len(a) >= 3
  PROVE  Len(h) = Len(a) + Len(b) + Len(c) + Len(d) /\ h[3] = a[3]
<1>1. PICK p : p = a \o b
  OBVIOUS
<1>2. p \in Seq(Nat) /\ Len(p) = Len(a) + Len(b) /\ Len(p) >= 3 /\ p[3] = a[3]
  <2>1. a \in Seq(Nat) /\ b \in Seq(Nat)
    BY DEF FourJoined
  <2> QED BY <1>1, <2>1, ConcatFacts, ThirdByte
<1>3. PICK q : q = p \o c
  OBVIOUS
<1>4. q \in Seq(Nat) /\ Len(q) = Len(p) + Len(c) /\ Len(q) >= 3 /\ q[3] = a[3]
  <2>1. c \in Seq(Nat)
    BY DEF FourJoined
  <2> QED BY <1>2, <1>3, <2>1, ConcatFacts, ThirdByte
<1>5. h = q \o d /\ d \in Seq(Nat)
  BY <1>1, <1>3 DEF FourJoined
<1>6. Len(q \o d) = Len(q) + Len(d)
  BY <1>4, <1>5, ConcatFacts
<1>7. (q \o d)[3] = q[3]
  BY <1>4, <1>5, ThirdByte
<1> QED BY <1>2, <1>4, <1>5, <1>6, <1>7

-----------------------------------------------------------------------------
(* What encode_commitments, encode_signer_set and the view are made of.    *)

\* The bytes of points, scalars and identifiers have their lengths and are
\* different for different values.
LEMMA PointBytes ==
  ASSUME CanonicalReprs, NEW P \in Scalar
  PROVE  point_bytes(P) \in Seq(Nat) /\ Len(point_bytes(P)) = PLen
<1>1. PICK b : b = PointRepr[P]
  OBVIOUS
<1>2. b \in [1..PLen -> 0..(Base - 1)] /\ PLen \in Nat /\ Base \in Nat
  BY <1>1 DEF CanonicalReprs
<1>3. b \in [1..PLen -> Nat]
  BY <1>2
<1>4. b \in Seq(Nat) /\ Len(b) = PLen
  BY <1>2, <1>3
<1> QED BY <1>1, <1>4 DEF point_bytes

LEMMA ScalarBytes ==
  ASSUME CanonicalReprs, NEW z \in Scalar
  PROVE  scalar_bytes(z) \in Seq(Nat) /\ Len(scalar_bytes(z)) = SLen
<1>1. PICK b : b = ScalarRepr[z]
  OBVIOUS
<1>2. b \in [1..SLen -> 0..(Base - 1)] /\ SLen \in Nat /\ Base \in Nat
  BY <1>1 DEF CanonicalReprs
<1>3. b \in [1..SLen -> Nat]
  BY <1>2
<1>4. b \in Seq(Nat) /\ Len(b) = SLen
  BY <1>2, <1>3
<1> QED BY <1>1, <1>4 DEF scalar_bytes

LEMMA BytesDiffer ==
  ASSUME CanonicalReprs, NEW x \in Scalar, NEW y \in Scalar
  PROVE  /\ point_bytes(x) = point_bytes(y) => x = y
         /\ scalar_bytes(x) = scalar_bytes(y) => x = y
  BY DEF CanonicalReprs, point_bytes, scalar_bytes

\* The two bytes of an identifier are its digits.
LEMMA IdBytesFacts ==
  ASSUME CanonicalReprs, NEW i \in U16
  PROVE  /\ IdBytes(i) \in Seq(Nat) /\ Len(IdBytes(i)) = 2
         /\ \A j \in U16 : IdBytes(i) = IdBytes(j) => i = j
<1>1. Base \in Nat \ {0} /\ U16 \subseteq Nat
  BY DEF CanonicalReprs, U16
<1>2. ASSUME NEW j \in U16
      PROVE  /\ j \div Base \in Nat /\ j % Base \in Nat
             /\ j = (j \div Base) * Base + (j % Base)
  <2>1. j \in Nat
    BY <1>1
  <2>2. /\ j \div Base \in Nat /\ j % Base \in 0..(Base - 1)
        /\ j = (j \div Base) * Base + (j % Base)
    BY <1>1, <2>1, DivMod
  <2> QED BY <1>1, <2>2
<1>3. \A j \in U16 : IdBytes(i) = IdBytes(j)
                         => i \div Base = j \div Base /\ i % Base = j % Base
  BY DEF IdBytes
<1>4. \A j \in U16 : IdBytes(i) = IdBytes(j) => i = j
  BY <1>2, <1>3
<1>5. IdBytes(i) \in Seq(Nat) /\ Len(IdBytes(i)) = 2
  BY <1>2 DEF IdBytes
<1> QED BY <1>4, <1>5

\* The blocks of encode_commitments, one for each signer.
CommitmentBlock(c, i) ==
    (IdBytes(i) \o point_bytes(c[i].D)) \o point_bytes(c[i].E)

LEMMA CommitmentBlocks ==
  ASSUME CanonicalReprs, NEW S \in SUBSET U16, NEW c \in [S -> SigningCommitments],
         NEW N \in Nat, N = Cardinality(S), NEW L \in Nat, L = 2 + PLen + PLen,
         NEW ids, ids = InOrder(S)
  PROVE  \E q \in Blocks(Nat, L, N) :
            /\ encode_commitments(c) = FlattenSeq(q)
            /\ \A n \in 1..N : q[n] = CommitmentBlock(c, ids[n])
<1>1. PLen \in Nat
  BY DEF CanonicalReprs
<1>2. ids \in [1..N -> S]
  BY IdentifiersInOrder
<1>3. PICK q : q = [n \in 1..N |-> CommitmentBlock(c, ids[n])]
  OBVIOUS
<1>4. ASSUME NEW n \in 1..N
      PROVE  q[n] \in Seq(Nat) /\ Len(q[n]) = L
  <2>1. PICK i \in S : i = ids[n]
    BY <1>2
  <2>2. PICK x, y, z : /\ x = IdBytes(i)
                       /\ y = point_bytes(c[i].D) /\ z = point_bytes(c[i].E)
    OBVIOUS
  <2>3. x \in Seq(Nat) /\ Len(x) = 2
    BY <2>2, IdBytesFacts
  <2>4. c[i].D \in Scalar /\ c[i].E \in Scalar
    BY DEF SigningCommitments
  <2>5. y \in Seq(Nat) /\ Len(y) = PLen /\ z \in Seq(Nat) /\ Len(z) = PLen
    BY <2>2, <2>4, PointBytes
  <2>6. (x \o y) \o z \in Seq(Nat) /\ Len((x \o y) \o z) = Len(x) + Len(y) + Len(z)
    <3>1. x \in Seq(Nat) /\ y \in Seq(Nat) /\ z \in Seq(Nat)
      BY <2>3, <2>5
    <3> QED BY <3>1, LengthOfThree
  <2>7. q[n] = (x \o y) \o z
    BY <1>3, <2>1, <2>2 DEF CommitmentBlock
  <2> QED BY <2>3, <2>5, <2>6, <2>7
<1>5. q \in Blocks(Nat, L, N)
  <2>1. q \in [1..N -> Seq(Nat)]
    BY <1>3, <1>4
  <2>2. q \in Seq(Seq(Nat)) /\ Len(q) = N
    BY <2>1
  <2> QED BY <1>4, <2>2 DEF Blocks
<1>6. encode_commitments(c) = FlattenSeq(q)
  <2>1. DOMAIN c = S /\ DOMAIN ids = 1..N
    BY <1>2
  <2> QED BY <1>3, <2>1 DEF encode_commitments, CommitmentBlock
<1>7. \A n \in 1..N : q[n] = CommitmentBlock(c, ids[n])
  BY <1>3
<1> QED BY <1>5, <1>6, <1>7

\* So the number of signers gives its length,
LEMMA CommitmentsLength ==
  ASSUME CanonicalReprs, NEW S \in SUBSET U16, NEW c \in [S -> SigningCommitments]
  PROVE  /\ encode_commitments(c) \in Seq(Nat)
         /\ Len(encode_commitments(c)) = Cardinality(S) * (2 + PLen + PLen)
<1>1. PICK N \in Nat : N = Cardinality(S)
  BY IdentifiersInOrder
<1>2. PICK L \in Nat : L = 2 + PLen + PLen
  BY DEF CanonicalReprs
<1>3. PICK q \in Blocks(Nat, L, N) : encode_commitments(c) = FlattenSeq(q)
  BY <1>1, <1>2, CommitmentBlocks
<1>4. FlattenSeq(q) \in Seq(Nat) /\ Len(FlattenSeq(q)) = N * L
  BY FlattenBlocks
<1> QED BY <1>1, <1>2, <1>3, <1>4, Zenon

\* and its bytes the commitments.
LEMMA CommitmentsDetermined ==
  ASSUME CanonicalReprs,
         NEW S \in SUBSET U16, NEW c \in [S -> SigningCommitments],
         NEW R \in SUBSET U16, NEW d \in [R -> SigningCommitments],
         Cardinality(S) = Cardinality(R), encode_commitments(c) = encode_commitments(d)
  PROVE  c = d
<1>1. PICK ids, js : ids = InOrder(S) /\ js = InOrder(R)
  OBVIOUS
<1>2. PICK N \in Nat : N = Cardinality(S) /\ N = Cardinality(R)
  BY IdentifiersInOrder
<1>3. ids = InOrder(S)
  BY <1>1
<1>4. js = InOrder(R)
  BY <1>1
<1>5. N = Cardinality(S)
  BY <1>2
<1>6. N = Cardinality(R)
  BY <1>2
<1>7. PICK L \in Nat : L = 2 + PLen + PLen
  BY DEF CanonicalReprs
<1>8. /\ ids \in [1..N -> S] /\ \A x \in S : \E n \in 1..N : ids[n] = x
      /\ js \in [1..N -> R]
  BY <1>1, <1>2, IdentifiersInOrder
<1>9. PICK q \in Blocks(Nat, L, N) :
         /\ encode_commitments(c) = FlattenSeq(q)
         /\ \A n \in 1..N : q[n] = CommitmentBlock(c, ids[n])
  BY <1>3, <1>5, <1>7, CommitmentBlocks
<1>10. PICK r \in Blocks(Nat, L, N) :
         /\ encode_commitments(d) = FlattenSeq(r)
         /\ \A n \in 1..N : r[n] = CommitmentBlock(d, js[n])
  BY <1>4, <1>6, <1>7, CommitmentBlocks
<1>11. FlattenSeq(q) = FlattenSeq(r)
  BY <1>9, <1>10
<1>12. \A n \in 1..N : q[n] = r[n]
  BY <1>11, BlocksDetermined
<1>13. ASSUME NEW n \in 1..N
      PROVE  ids[n] = js[n] /\ c[ids[n]] = d[js[n]]
  <2>1. PICK i \in S, j \in R : i = ids[n] /\ j = js[n]
    BY <1>8
  <2>2. PICK x, y, z : x = IdBytes(i) /\ y = point_bytes(c[i].D) /\ z = point_bytes(c[i].E)
    OBVIOUS
  <2>3. PICK u, v, w : u = IdBytes(j) /\ v = point_bytes(d[j].D) /\ w = point_bytes(d[j].E)
    OBVIOUS
  <2>4. /\ c[i].D \in Scalar /\ c[i].E \in Scalar
        /\ d[j].D \in Scalar /\ d[j].E \in Scalar
    BY DEF SigningCommitments
  <2>5. /\ x \in Seq(Nat) /\ u \in Seq(Nat) /\ Len(x) = Len(u)
        /\ x = u => i = j
    BY <2>2, <2>3, IdBytesFacts
  <2>6. /\ y \in Seq(Nat) /\ v \in Seq(Nat) /\ Len(y) = Len(v)
        /\ z \in Seq(Nat) /\ w \in Seq(Nat)
    <3>1. y \in Seq(Nat) /\ Len(y) = PLen /\ z \in Seq(Nat)
      BY <2>2, <2>4, PointBytes
    <3>2. v \in Seq(Nat) /\ Len(v) = PLen /\ w \in Seq(Nat)
      BY <2>3, <2>4, PointBytes, SMTT(20)
    <3> QED BY <3>1, <3>2
  <2>7. (x \o y) \o z = (u \o v) \o w
    BY <1>9, <1>10, <1>12, <2>1, <2>2, <2>3 DEF CommitmentBlock
  <2>8. x = u /\ y = v /\ z = w
    <3>1. ThreeParts(Nat, x, y, z) /\ ThreeParts(Nat, u, v, w)
      BY <2>5, <2>6 DEF ThreeParts
    <3> QED BY <2>5, <2>6, <2>7, <3>1, SplitThree
  <2>9. c[i].D = d[j].D /\ c[i].E = d[j].E
    BY <2>2, <2>3, <2>4, <2>8, BytesDiffer
  <2>10. /\ c[i] = [D |-> c[i].D, E |-> c[i].E]
         /\ d[j] = [D |-> d[j].D, E |-> d[j].E]
    BY DEF SigningCommitments
  <2> QED BY <2>1, <2>5, <2>8, <2>9, <2>10
<1>14. S = R
  BY <1>1, <1>2, <1>13, SameIdentifiers
<1>15. \A i \in S : c[i] = d[i]
  BY <1>8, <1>13
<1> QED BY <1>14, <1>15

\* The same of the shares in a view.
ViewShares == [R : Scalar, z : Scalar]

view_shares(shares) ==
    LET ids == InOrder(DOMAIN shares)
    IN  FlattenSeq([n \in DOMAIN ids |->
            IdBytes(ids[n]) \o point_bytes(shares[ids[n]].R)
                            \o scalar_bytes(shares[ids[n]].z)])

ShareBlock(c, i) ==
    (IdBytes(i) \o point_bytes(c[i].R)) \o scalar_bytes(c[i].z)

LEMMA ShareBlocks ==
  ASSUME CanonicalReprs, NEW S \in SUBSET U16, NEW c \in [S -> ViewShares],
         NEW N \in Nat, N = Cardinality(S), NEW L \in Nat, L = 2 + PLen + SLen,
         NEW ids, ids = InOrder(S)
  PROVE  \E q \in Blocks(Nat, L, N) :
            /\ view_shares(c) = FlattenSeq(q)
            /\ \A n \in 1..N : q[n] = ShareBlock(c, ids[n])
<1>1. PLen \in Nat /\ SLen \in Nat
  BY DEF CanonicalReprs
<1>2. ids \in [1..N -> S]
  BY IdentifiersInOrder
<1>3. PICK q : q = [n \in 1..N |-> ShareBlock(c, ids[n])]
  OBVIOUS
<1>4. ASSUME NEW n \in 1..N
      PROVE  q[n] \in Seq(Nat) /\ Len(q[n]) = L
  <2>1. PICK i \in S : i = ids[n]
    BY <1>2
  <2>2. PICK x, y, z : /\ x = IdBytes(i)
                       /\ y = point_bytes(c[i].R) /\ z = scalar_bytes(c[i].z)
    OBVIOUS
  <2>3. x \in Seq(Nat) /\ Len(x) = 2
    BY <2>2, IdBytesFacts
  <2>4. c[i].R \in Scalar /\ c[i].z \in Scalar
    BY DEF ViewShares
  <2>5. y \in Seq(Nat) /\ Len(y) = PLen /\ z \in Seq(Nat) /\ Len(z) = SLen
    BY <2>2, <2>4, PointBytes, ScalarBytes
  <2>6. (x \o y) \o z \in Seq(Nat) /\ Len((x \o y) \o z) = Len(x) + Len(y) + Len(z)
    <3>1. x \in Seq(Nat) /\ y \in Seq(Nat) /\ z \in Seq(Nat)
      BY <2>3, <2>5
    <3> QED BY <3>1, LengthOfThree
  <2>7. q[n] = (x \o y) \o z
    BY <1>3, <2>1, <2>2 DEF ShareBlock
  <2> QED BY <2>3, <2>5, <2>6, <2>7
<1>5. q \in Blocks(Nat, L, N)
  <2>1. q \in [1..N -> Seq(Nat)]
    BY <1>3, <1>4
  <2>2. q \in Seq(Seq(Nat)) /\ Len(q) = N
    BY <2>1
  <2> QED BY <1>4, <2>2 DEF Blocks
<1>6. view_shares(c) = FlattenSeq(q)
  <2>1. DOMAIN c = S /\ DOMAIN ids = 1..N
    BY <1>2
  <2> QED BY <1>3, <2>1 DEF view_shares, ShareBlock
<1>7. \A n \in 1..N : q[n] = ShareBlock(c, ids[n])
  BY <1>3
<1> QED BY <1>5, <1>6, <1>7

\* The length of the shares,
LEMMA SharesLength ==
  ASSUME CanonicalReprs, NEW S \in SUBSET U16, NEW c \in [S -> ViewShares]
  PROVE  /\ view_shares(c) \in Seq(Nat)
         /\ Len(view_shares(c)) = Cardinality(S) * (2 + PLen + SLen)
<1>1. PICK N \in Nat : N = Cardinality(S)
  BY IdentifiersInOrder
<1>2. PICK L \in Nat : L = 2 + PLen + SLen
  BY DEF CanonicalReprs
<1>3. PICK q \in Blocks(Nat, L, N) : view_shares(c) = FlattenSeq(q)
  BY <1>1, <1>2, ShareBlocks
<1>4. FlattenSeq(q) \in Seq(Nat) /\ Len(FlattenSeq(q)) = N * L
  BY FlattenBlocks
<1> QED BY <1>1, <1>2, <1>3, <1>4, Zenon

\* and that their bytes determine them.
LEMMA SharesDetermined ==
  ASSUME CanonicalReprs,
         NEW S \in SUBSET U16, NEW c \in [S -> ViewShares],
         NEW R \in SUBSET U16, NEW d \in [R -> ViewShares],
         Cardinality(S) = Cardinality(R), view_shares(c) = view_shares(d)
  PROVE  c = d
<1>1. PICK ids, js : ids = InOrder(S) /\ js = InOrder(R)
  OBVIOUS
<1>2. PICK N \in Nat : N = Cardinality(S) /\ N = Cardinality(R)
  BY IdentifiersInOrder
<1>3. ids = InOrder(S)
  BY <1>1
<1>4. js = InOrder(R)
  BY <1>1
<1>5. N = Cardinality(S)
  BY <1>2
<1>6. N = Cardinality(R)
  BY <1>2
<1>7. PICK L \in Nat : L = 2 + PLen + SLen
  BY DEF CanonicalReprs
<1>8. /\ ids \in [1..N -> S] /\ \A x \in S : \E n \in 1..N : ids[n] = x
      /\ js \in [1..N -> R]
  BY <1>1, <1>2, IdentifiersInOrder
<1>9. PICK q \in Blocks(Nat, L, N) :
         /\ view_shares(c) = FlattenSeq(q)
         /\ \A n \in 1..N : q[n] = ShareBlock(c, ids[n])
  BY <1>3, <1>5, <1>7, ShareBlocks
<1>10. PICK r \in Blocks(Nat, L, N) :
         /\ view_shares(d) = FlattenSeq(r)
         /\ \A n \in 1..N : r[n] = ShareBlock(d, js[n])
  BY <1>4, <1>6, <1>7, ShareBlocks
<1>11. FlattenSeq(q) = FlattenSeq(r)
  BY <1>9, <1>10
<1>12. \A n \in 1..N : q[n] = r[n]
  BY <1>11, BlocksDetermined
<1>13. ASSUME NEW n \in 1..N
      PROVE  ids[n] = js[n] /\ c[ids[n]] = d[js[n]]
  <2>1. PICK i \in S, j \in R : i = ids[n] /\ j = js[n]
    BY <1>8
  <2>2. PICK x, y, z : x = IdBytes(i) /\ y = point_bytes(c[i].R) /\ z = scalar_bytes(c[i].z)
    OBVIOUS
  <2>3. PICK u, v, w : u = IdBytes(j) /\ v = point_bytes(d[j].R) /\ w = scalar_bytes(d[j].z)
    OBVIOUS
  <2>4. /\ c[i].R \in Scalar /\ c[i].z \in Scalar
        /\ d[j].R \in Scalar /\ d[j].z \in Scalar
    BY DEF ViewShares
  <2>5. /\ x \in Seq(Nat) /\ u \in Seq(Nat) /\ Len(x) = Len(u)
        /\ x = u => i = j
    BY <2>2, <2>3, IdBytesFacts
  <2>6. /\ y \in Seq(Nat) /\ v \in Seq(Nat) /\ Len(y) = Len(v)
        /\ z \in Seq(Nat) /\ w \in Seq(Nat)
    <3>1. y \in Seq(Nat) /\ Len(y) = PLen /\ z \in Seq(Nat)
      BY <2>2, <2>4, PointBytes, ScalarBytes
    <3>2. v \in Seq(Nat) /\ Len(v) = PLen /\ w \in Seq(Nat)
      BY <2>3, <2>4, PointBytes, ScalarBytes, SMTT(20)
    <3> QED BY <3>1, <3>2
  <2>7. (x \o y) \o z = (u \o v) \o w
    BY <1>9, <1>10, <1>12, <2>1, <2>2, <2>3 DEF ShareBlock
  <2>8. x = u /\ y = v /\ z = w
    <3>1. ThreeParts(Nat, x, y, z) /\ ThreeParts(Nat, u, v, w)
      BY <2>5, <2>6 DEF ThreeParts
    <3> QED BY <2>5, <2>6, <2>7, <3>1, SplitThree
  <2>9. c[i].R = d[j].R /\ c[i].z = d[j].z
    BY <2>2, <2>3, <2>4, <2>8, BytesDiffer
  <2>10. /\ c[i] = [R |-> c[i].R, z |-> c[i].z]
         /\ d[j] = [R |-> d[j].R, z |-> d[j].z]
    BY DEF ViewShares
  <2> QED BY <2>1, <2>5, <2>8, <2>9, <2>10
<1>14. S = R
  BY <1>1, <1>2, <1>13, SameIdentifiers
<1>15. \A i \in S : c[i] = d[i]
  BY <1>8, <1>13
<1> QED BY <1>14, <1>15

\* The length of encode_signer_set.
LEMMA SignerSetLength ==
  ASSUME CanonicalReprs, NEW S \in SUBSET U16
  PROVE  /\ encode_signer_set(S) \in Seq(Nat)
         /\ Len(encode_signer_set(S)) = Cardinality(S) * 2
<1>1. PICK ids : ids = InOrder(S)
  OBVIOUS
<1>2. PICK N \in Nat : N = Cardinality(S) /\ ids \in [1..N -> S]
  BY <1>1, IdentifiersInOrder
<1>3. PICK q : q = [n \in 1..N |-> IdBytes(ids[n])]
  OBVIOUS
<1>4. ASSUME NEW n \in 1..N PROVE q[n] \in Seq(Nat) /\ Len(q[n]) = 2
  <2>1. PICK i \in S : i = ids[n]
    BY <1>2
  <2>2. IdBytes(i) \in Seq(Nat) /\ Len(IdBytes(i)) = 2
    BY IdBytesFacts
  <2> QED BY <1>3, <2>1, <2>2
<1>5. q \in Blocks(Nat, 2, N)
  <2>1. q \in [1..N -> Seq(Nat)]
    BY <1>3, <1>4
  <2>2. q \in Seq(Seq(Nat)) /\ Len(q) = N
    BY <2>1
  <2> QED BY <1>4, <2>2 DEF Blocks
<1>6. encode_signer_set(S) = FlattenSeq(q)
  <2>1. DOMAIN ids = 1..N
    BY <1>2
  <2> QED BY <1>1, <1>3, <2>1 DEF encode_signer_set
<1>7. 2 \in Nat
  OBVIOUS
<1>8. FlattenSeq(q) \in Seq(Nat) /\ Len(FlattenSeq(q)) = N * 2
  BY <1>5, <1>7, FlattenBlocks
<1> QED BY <1>2, <1>6, <1>8

-----------------------------------------------------------------------------
(* The strings that are hashed.                                            *)

\* Lengths that agree are of as many signers.
LEMMA SameMultiple ==
  ASSUME NEW n \in Nat, NEW m \in Nat, NEW L \in Nat \ {0}, n * L = m * L
  PROVE  n = m
<1>1. 0 \in 0..(L - 1) /\ n * L + 0 = m * L + 0
  OBVIOUS
<1> QED BY <1>1, DigitsUnique

\* A message and a pairwise key are 32 bytes, different for different ones.
LEMMA ByteArrays ==
  ASSUME CanonicalReprs, HashableInputs
  PROVE  /\ \A m \in Messages : ByteArray(m) \in Seq(Nat) /\ Len(ByteArray(m)) = 32
         /\ \A k \in KeysSeen : ByteArray(k) \in Seq(Nat) /\ Len(ByteArray(k)) = 32
         /\ \A m, n \in Messages : ByteArray(m) = ByteArray(n) => m = n
         /\ \A k, l \in KeysSeen : ByteArray(k) = ByteArray(l) => k = l
<1>1. Byte \subseteq Nat
  BY DEF Byte, CanonicalReprs
<1>2. ASSUME NEW b \in [1..32 -> Byte] PROVE b \in Seq(Nat) /\ Len(b) = 32
  <2>1. b \in [1..32 -> Nat] /\ 32 \in Nat
    BY <1>1
  <2> QED BY <2>1, FunctionIsSeq
<1>3. ASSUME NEW m \in Messages PROVE ByteArray(m) \in [1..32 -> Byte]
  BY DEF HashableInputs
<1>4. ASSUME NEW k \in KeysSeen PROVE ByteArray(k) \in [1..32 -> Byte]
  BY DEF HashableInputs
<1>5. \A m, n \in Messages : ByteArray(m) = ByteArray(n) => m = n
  BY DEF HashableInputs
<1>6. \A k, l \in KeysSeen : ByteArray(k) = ByteArray(l) => k = l
  BY DEF HashableInputs
<1> QED BY <1>2, <1>3, <1>4, <1>5, <1>6

\* The parts of a package: the encodings of its commitments and of its signers.
LEMMA PackageBytes ==
  ASSUME CanonicalReprs, HashableInputs, NEW p \in SigningPackagesSeen
  PROVE  /\ Ids(p) \in SUBSET U16 /\ Cardinality(Ids(p)) \in Nat
         /\ p.signing_commitments \in [Ids(p) -> SigningCommitments]
         /\ encode_commitments(p.signing_commitments) \in Seq(Nat)
         /\ Len(encode_commitments(p.signing_commitments))
               = Cardinality(Ids(p)) * (2 + PLen + PLen)
         /\ encode_signer_set(Ids(p)) \in Seq(Nat)
         /\ Len(encode_signer_set(Ids(p))) = Cardinality(Ids(p)) * 2
         /\ p.message \in Messages
<1>1. /\ Ids(p) \in SUBSET U16 /\ p.message \in Messages
      /\ p.signing_commitments \in [Ids(p) -> SigningCommitments]
  BY DEF HashableInputs
<1> QED BY <1>1, IdentifiersInOrder, CommitmentsLength, SignerSetLength

\* A package is its message and its commitments.
LEMMA PackageDetermined ==
  ASSUME CanonicalReprs, HashableInputs,
         NEW p \in SigningPackagesSeen, NEW r \in SigningPackagesSeen,
         p.message = r.message, Cardinality(Ids(p)) = Cardinality(Ids(r)),
         encode_commitments(p.signing_commitments) = encode_commitments(r.signing_commitments)
  PROVE  p = r
<1>1. p.signing_commitments = r.signing_commitments
  BY PackageBytes, CommitmentsDetermined
<1>2. /\ p = [message |-> p.message, signing_commitments |-> p.signing_commitments]
      /\ r = [message |-> r.message, signing_commitments |-> r.signing_commitments]
  BY DEF HashableInputs
<1> QED BY <1>1, <1>2

\* The number of signers of two packages whose strings are as long.
LEMMA SameSigners ==
  ASSUME NEW n \in Nat, NEW m \in Nat, NEW L \in Nat, n * L + n * 2 = m * L + m * 2
  PROVE  n = m
<1>1. n * (L + 2) = n * L + n * 2 /\ m * (L + 2) = m * L + m * 2
  OBVIOUS
<1>2. L + 2 \in Nat \ {0}
  OBVIOUS
<1> QED BY <1>1, <1>2, SameMultiple

\* The tags have different third bytes, but those of /Hs and /Hsig.
LEMMA Tags ==
  /\ Tag("Hsig") \in Seq(Nat) /\ Len(Tag("Hsig")) = 5 /\ Tag("Hsig")[3] = 115
  /\ Tag("Hnon") \in Seq(Nat) /\ Len(Tag("Hnon")) = 5 /\ Tag("Hnon")[3] = 110
  /\ Tag("Hs") \in Seq(Nat) /\ Len(Tag("Hs")) = 3 /\ Tag("Hs")[3] = 115
  /\ Tag("HIA") \in Seq(Nat) /\ Len(Tag("HIA")) = 4 /\ Tag("HIA")[3] = 73
  /\ Tag("Hvk") \in Seq(Nat) /\ Len(Tag("Hvk")) = 4 /\ Tag("Hvk")[3] = 118
<1>1. Tag("Hsig") \in Seq(Nat) /\ Len(Tag("Hsig")) = 5 /\ Tag("Hsig")[3] = 115
  <2>1. PICK a \in Nat, b \in Nat, c \in Nat, d \in Nat, e \in Nat :
           a = 47 /\ b = 72 /\ c = 115 /\ d = 105 /\ e = 103
    OBVIOUS
  <2>2. Tag("Hsig") = << a, b, c, d, e >>
    BY <2>1 DEF Tag
  <2>3. << a, b, c, d, e >> \in Seq(Nat) /\ Len(<< a, b, c, d, e >>) = 5 /\ << a, b, c, d, e >>[3] = c
    BY TupleOfFive
  <2> QED BY <2>1, <2>2, <2>3
<1>2. Tag("Hnon") \in Seq(Nat) /\ Len(Tag("Hnon")) = 5 /\ Tag("Hnon")[3] = 110
  <2>1. PICK a \in Nat, b \in Nat, c \in Nat, d \in Nat, e \in Nat :
           a = 47 /\ b = 72 /\ c = 110 /\ d = 111 /\ e = 110
    OBVIOUS
  <2>2. Tag("Hnon") = << a, b, c, d, e >>
    BY <2>1 DEF Tag
  <2>3. << a, b, c, d, e >> \in Seq(Nat) /\ Len(<< a, b, c, d, e >>) = 5 /\ << a, b, c, d, e >>[3] = c
    BY TupleOfFive
  <2> QED BY <2>1, <2>2, <2>3
<1>3. Tag("Hs") \in Seq(Nat) /\ Len(Tag("Hs")) = 3 /\ Tag("Hs")[3] = 115
  <2>1. PICK a \in Nat, b \in Nat, c \in Nat :
           a = 47 /\ b = 72 /\ c = 115
    OBVIOUS
  <2>2. Tag("Hs") = << a, b, c >>
    BY <2>1 DEF Tag
  <2>3. << a, b, c >> \in Seq(Nat) /\ Len(<< a, b, c >>) = 3 /\ << a, b, c >>[3] = c
    BY TupleOfThree
  <2> QED BY <2>1, <2>2, <2>3
<1>4. Tag("HIA") \in Seq(Nat) /\ Len(Tag("HIA")) = 4 /\ Tag("HIA")[3] = 73
  <2>1. PICK a \in Nat, b \in Nat, c \in Nat, d \in Nat :
           a = 47 /\ b = 72 /\ c = 73 /\ d = 65
    OBVIOUS
  <2>2. Tag("HIA") = << a, b, c, d >>
    BY <2>1 DEF Tag
  <2>3. << a, b, c, d >> \in Seq(Nat) /\ Len(<< a, b, c, d >>) = 4 /\ << a, b, c, d >>[3] = c
    BY TupleOfFour
  <2> QED BY <2>1, <2>2, <2>3
<1>5. Tag("Hvk") \in Seq(Nat) /\ Len(Tag("Hvk")) = 4 /\ Tag("Hvk")[3] = 118
  <2>1. PICK a \in Nat, b \in Nat, c \in Nat, d \in Nat :
           a = 47 /\ b = 72 /\ c = 118 /\ d = 107
    OBVIOUS
  <2>2. Tag("Hvk") = << a, b, c, d >>
    BY <2>1 DEF Tag
  <2>3. << a, b, c, d >> \in Seq(Nat) /\ Len(<< a, b, c, d >>) = 4 /\ << a, b, c, d >>[3] = c
    BY TupleOfFour
  <2> QED BY <2>1, <2>2, <2>3
<1> QED BY <1>1, <1>2, <1>3, <1>4, <1>5

\* Its length for n signers.
BlindingLen(n) == 3 + n * (2 + PLen + PLen) + 32 + n * 2 + 32

\* What is hashed for a blinding value: five parts, of known length.
BlindingInput(b, p, k) ==
    /\ FiveJoined(b, Tag("Hs"), encode_commitments(p.signing_commitments),
                  ByteArray(p.message), encode_signer_set(Ids(p)), ByteArray(k))
    /\ Len(ByteArray(p.message)) = 32
    /\ Len(b) = BlindingLen(Cardinality(Ids(p)))
    /\ b[3] = 115

LEMMA BlindingBytes ==
  ASSUME CanonicalReprs, HashableInputs, NEW p \in SigningPackagesSeen, NEW k \in KeysSeen
  PROVE  BlindingInput(BlindingBase(p) \o ByteArray(k), p, k)
<1>1. PICK t, e, m, s, y, b :
         /\ t = Tag("Hs") /\ e = encode_commitments(p.signing_commitments)
         /\ m = ByteArray(p.message) /\ s = encode_signer_set(Ids(p)) /\ y = ByteArray(k)
         /\ b = BlindingBase(p) \o ByteArray(k)
  OBVIOUS
<1>2. t \in Seq(Nat) /\ Len(t) = 3 /\ t[3] = 115
  BY <1>1, Tags
<1>3. /\ e \in Seq(Nat) /\ Len(e) = Cardinality(Ids(p)) * (2 + PLen + PLen)
      /\ s \in Seq(Nat) /\ Len(s) = Cardinality(Ids(p)) * 2
  BY <1>1, PackageBytes
<1>4. m \in Seq(Nat) /\ Len(m) = 32 /\ y \in Seq(Nat) /\ Len(y) = 32
  <2>1. p.message \in Messages
    BY PackageBytes
  <2> QED BY <1>1, <2>1, ByteArrays
<1>5. b = (((t \o e) \o m) \o s) \o y
  BY <1>1 DEF BlindingBase
<1>6. FiveJoined(b, t, e, m, s, y)
  BY <1>2, <1>3, <1>4, <1>5 DEF FiveJoined
<1>7. Len(t) >= 3
  BY <1>2
<1>8. Len(b) = Len(t) + Len(e) + Len(m) + Len(s) + Len(y) /\ b[3] = t[3]
  BY <1>6, <1>7, FiveFacts
<1>9. Len(b) = BlindingLen(Cardinality(Ids(p))) /\ b[3] = 115
  <2>1. Len(b) = 3 + Len(e) + 32 + Len(s) + 32 /\ b[3] = 115
    BY <1>2, <1>4, <1>8
  <2> QED BY <1>3, <2>1, Zenon DEF BlindingLen
<1> QED BY <1>1, <1>4, <1>6, <1>9, Zenon DEF BlindingInput

\* It determines the package and the key.
LEMMA BlindingDetermined ==
  ASSUME CanonicalReprs, HashableInputs,
         NEW p \in SigningPackagesSeen, NEW k \in KeysSeen,
         NEW r \in SigningPackagesSeen, NEW l \in KeysSeen,
         BlindingBase(p) \o ByteArray(k) = BlindingBase(r) \o ByteArray(l)
  PROVE  p = r /\ k = l
<1>1. PICK b : b = BlindingBase(p) \o ByteArray(k)
  OBVIOUS
<1>2. PICK P \in Nat, R \in Nat, L \in Nat :
         P = Cardinality(Ids(p)) /\ R = Cardinality(Ids(r)) /\ L = 2 + PLen + PLen
  <2>1. PICK L \in Nat : L = 2 + PLen + PLen
    BY DEF CanonicalReprs
  <2>2. Cardinality(Ids(p)) \in Nat /\ Cardinality(Ids(r)) \in Nat
    BY PackageBytes
  <2> QED BY <2>1, <2>2
<1>3. /\ FiveJoined(b, Tag("Hs"), encode_commitments(p.signing_commitments),
                    ByteArray(p.message), encode_signer_set(Ids(p)), ByteArray(k))
      /\ Len(ByteArray(p.message)) = 32 /\ Len(b) = 3 + P * L + 32 + P * 2 + 32
  <2>1. BlindingInput(b, p, k)
    BY <1>1, BlindingBytes
  <2>2. BlindingLen(Cardinality(Ids(p))) = 3 + P * L + 32 + P * 2 + 32
    BY <1>2, Zenon DEF BlindingLen
  <2> QED BY <2>1, <2>2, Zenon DEF BlindingInput
<1>4. b = BlindingBase(r) \o ByteArray(l)
  BY <1>1
<1>5. /\ FiveJoined(b, Tag("Hs"), encode_commitments(r.signing_commitments),
                    ByteArray(r.message), encode_signer_set(Ids(r)), ByteArray(l))
      /\ Len(ByteArray(r.message)) = 32 /\ Len(b) = 3 + R * L + 32 + R * 2 + 32
  <2>1. BlindingInput(b, r, l)
    BY <1>4, BlindingBytes
  <2>2. BlindingLen(Cardinality(Ids(r))) = 3 + R * L + 32 + R * 2 + 32
    BY <1>2, Zenon DEF BlindingLen
  <2> QED BY <2>1, <2>2, Zenon DEF BlindingInput
<1>6. P = R
  <2>1. PICK v \in Nat, w \in Nat : v = P * L /\ w = R * L
    OBVIOUS
  <2>2. v + P * 2 = w + R * 2
    BY <1>3, <1>5, <2>1
  <2>3. P * L + P * 2 = R * L + R * 2
    BY <2>1, <2>2
  <2> QED BY <2>3, SameSigners
<1>7. /\ Len(encode_commitments(p.signing_commitments))
            = Len(encode_commitments(r.signing_commitments))
      /\ Len(encode_signer_set(Ids(p))) = Len(encode_signer_set(Ids(r)))
  <2>1. /\ Len(encode_commitments(p.signing_commitments)) = P * (2 + PLen + PLen)
        /\ Len(encode_signer_set(Ids(p))) = P * 2
    BY <1>2, PackageBytes
  <2>2. /\ Len(encode_commitments(r.signing_commitments)) = R * (2 + PLen + PLen)
        /\ Len(encode_signer_set(Ids(r))) = R * 2
    BY <1>2, PackageBytes
  <2> QED BY <1>6, <2>1, <2>2
<1>8. /\ encode_commitments(p.signing_commitments) = encode_commitments(r.signing_commitments)
      /\ ByteArray(p.message) = ByteArray(r.message) /\ ByteArray(k) = ByteArray(l)
  <2>1. Len(Tag("Hs")) = Len(Tag("Hs")) /\ Len(ByteArray(p.message)) = Len(ByteArray(r.message))
    BY <1>3, <1>5
  <2> QED BY <1>3, <1>5, <1>7, <2>1, FiveDetermined, SMTT(20)
<1>9. k = l
  BY <1>8, ByteArrays
<1>10. p.message = r.message
  BY <1>8, ByteArrays, PackageBytes
<1> QED BY <1>2, <1>6, <1>8, <1>9, <1>10, PackageDetermined

\* The binding factor, likewise.
LEMMA BindingFactorParts ==
  ASSUME CanonicalReprs, HashableInputs, NEW p \in SigningPackagesSeen, NEW vk \in Scalar
  PROVE  /\ FiveJoined(BindingFactorBytes(vk, p), Tag("Hnon"), point_bytes(vk),
                       encode_signer_set(Ids(p)), ByteArray(p.message),
                       encode_commitments(p.signing_commitments))
         /\ Len(ByteArray(p.message)) = 32 /\ Len(point_bytes(vk)) = PLen
         /\ Len(BindingFactorBytes(vk, p))
               = 5 + PLen + Cardinality(Ids(p)) * 2 + 32
                   + Cardinality(Ids(p)) * (2 + PLen + PLen)
         /\ BindingFactorBytes(vk, p)[3] = 110
<1>1. PICK t, e, m, s, y, b :
         /\ t = Tag("Hnon") /\ e = encode_commitments(p.signing_commitments)
         /\ m = ByteArray(p.message) /\ s = encode_signer_set(Ids(p)) /\ y = point_bytes(vk)
         /\ b = BindingFactorBytes(vk, p)
  OBVIOUS
<1>2. t \in Seq(Nat) /\ Len(t) = 5 /\ t[3] = 110
  BY <1>1, Tags
<1>3. /\ e \in Seq(Nat) /\ Len(e) = Cardinality(Ids(p)) * (2 + PLen + PLen)
      /\ s \in Seq(Nat) /\ Len(s) = Cardinality(Ids(p)) * 2
  BY <1>1, PackageBytes
<1>4. m \in Seq(Nat) /\ Len(m) = 32 /\ y \in Seq(Nat) /\ Len(y) = PLen
  <2>1. p.message \in Messages
    BY PackageBytes
  <2> QED BY <1>1, <2>1, ByteArrays, PointBytes
<1>5. b = (((t \o y) \o s) \o m) \o e
  BY <1>1 DEF BindingFactorBytes
<1>6. FiveJoined(b, t, y, s, m, e)
  BY <1>2, <1>3, <1>4, <1>5 DEF FiveJoined
<1>7. Len(t) >= 3
  BY <1>2
<1>8. Len(b) = Len(t) + Len(y) + Len(s) + Len(m) + Len(e) /\ b[3] = t[3]
  BY <1>6, <1>7, FiveFacts
<1>9. /\ Len(b) = 5 + PLen + Cardinality(Ids(p)) * 2 + 32
                    + Cardinality(Ids(p)) * (2 + PLen + PLen)
      /\ b[3] = 110
  BY <1>2, <1>3, <1>4, <1>8
<1> QED BY <1>1, <1>4, <1>6, <1>9

\* It determines the package and the verifying key.
LEMMA BindingFactorDetermined ==
  ASSUME CanonicalReprs, HashableInputs,
         NEW p \in SigningPackagesSeen, NEW vk \in Scalar,
         NEW r \in SigningPackagesSeen, NEW wk \in Scalar,
         BindingFactorBytes(vk, p) = BindingFactorBytes(wk, r)
  PROVE  p = r /\ vk = wk
<1>1. PICK b : b = BindingFactorBytes(vk, p)
  OBVIOUS
<1>2. PICK P \in Nat, R \in Nat, L \in Nat :
         P = Cardinality(Ids(p)) /\ R = Cardinality(Ids(r)) /\ L = 2 + PLen + PLen
  <2>1. PICK L \in Nat : L = 2 + PLen + PLen
    BY DEF CanonicalReprs
  <2> QED BY <2>1, PackageBytes
<1>3. /\ FiveJoined(b, Tag("Hnon"), point_bytes(vk), encode_signer_set(Ids(p)),
                    ByteArray(p.message), encode_commitments(p.signing_commitments))
      /\ Len(ByteArray(p.message)) = 32 /\ Len(point_bytes(vk)) = PLen
      /\ Len(b) = 5 + PLen + P * 2 + 32 + P * L
  BY <1>1, <1>2, BindingFactorParts
<1>4. b = BindingFactorBytes(wk, r)
  BY <1>1
<1>5. /\ FiveJoined(b, Tag("Hnon"), point_bytes(wk), encode_signer_set(Ids(r)),
                    ByteArray(r.message), encode_commitments(r.signing_commitments))
      /\ Len(ByteArray(r.message)) = 32 /\ Len(point_bytes(wk)) = PLen
      /\ Len(b) = 5 + PLen + R * 2 + 32 + R * L
  BY <1>2, <1>4, BindingFactorParts
<1>6. P = R
  <2>1. PICK v \in Nat, w \in Nat : v = P * L /\ w = R * L
    OBVIOUS
  <2>2. PLen \in Nat
    BY DEF CanonicalReprs
  <2>3. v + P * 2 = w + R * 2
    BY <1>3, <1>5, <2>1, <2>2
  <2>4. P * L + P * 2 = R * L + R * 2
    BY <2>1, <2>3
  <2> QED BY <2>4, SameSigners
<1>7. /\ Len(encode_signer_set(Ids(p))) = Len(encode_signer_set(Ids(r)))
      /\ Len(point_bytes(vk)) = Len(point_bytes(wk))
      /\ Len(ByteArray(p.message)) = Len(ByteArray(r.message))
      /\ Len(Tag("Hnon")) = Len(Tag("Hnon"))
  <2>1. Len(encode_signer_set(Ids(p))) = P * 2
    BY <1>2, PackageBytes
  <2>2. Len(encode_signer_set(Ids(r))) = R * 2
    BY <1>2, PackageBytes
  <2> QED BY <1>3, <1>5, <1>6, <2>1, <2>2
<1>8. /\ encode_commitments(p.signing_commitments) = encode_commitments(r.signing_commitments)
      /\ ByteArray(p.message) = ByteArray(r.message) /\ point_bytes(vk) = point_bytes(wk)
  <2>1. FiveJoined(b, Tag("Hnon"), point_bytes(vk), encode_signer_set(Ids(p)),
                   ByteArray(p.message), encode_commitments(p.signing_commitments))
    BY <1>3
  <2>2. FiveJoined(b, Tag("Hnon"), point_bytes(wk), encode_signer_set(Ids(r)),
                   ByteArray(r.message), encode_commitments(r.signing_commitments))
    BY <1>5
  <2> QED BY <1>7, <2>1, <2>2, FiveDetermined
<1>9. vk = wk
  BY <1>8, BytesDiffer
<1>10. p.message = r.message
  BY <1>8, ByteArrays, PackageBytes
<1> QED BY <1>2, <1>6, <1>8, <1>9, <1>10, PackageDetermined

\* The challenge, likewise.
LEMMA ChallengeParts ==
  ASSUME CanonicalReprs, HashableInputs,
         NEW vk \in Scalar, NEW R \in Scalar, NEW m \in Messages
  PROVE  /\ FourJoined(ChallengeBytes(vk, R, m), Tag("Hsig"), point_bytes(vk),
                       point_bytes(R), ByteArray(m))
         /\ Len(point_bytes(vk)) = PLen /\ Len(point_bytes(R)) = PLen
         /\ Len(ChallengeBytes(vk, R, m)) = 5 + PLen + PLen + 32
         /\ ChallengeBytes(vk, R, m)[3] = 115
<1>1. PICK t, x, y, a, b :
         /\ t = Tag("Hsig") /\ x = point_bytes(vk) /\ y = point_bytes(R)
         /\ a = ByteArray(m) /\ b = ChallengeBytes(vk, R, m)
  OBVIOUS
<1>2. t \in Seq(Nat) /\ Len(t) = 5 /\ t[3] = 115
  BY <1>1, Tags
<1>3. /\ x \in Seq(Nat) /\ Len(x) = PLen /\ y \in Seq(Nat) /\ Len(y) = PLen
      /\ a \in Seq(Nat) /\ Len(a) = 32
  BY <1>1, PointBytes, ByteArrays
<1>4. FourJoined(b, t, x, y, a)
  BY <1>1, <1>2, <1>3 DEF FourJoined, ChallengeBytes
<1>5. Len(t) >= 3
  BY <1>2
<1>6. Len(b) = Len(t) + Len(x) + Len(y) + Len(a) /\ b[3] = t[3]
  BY <1>4, <1>5, FourFacts
<1>7. Len(b) = 5 + PLen + PLen + 32 /\ b[3] = 115
  BY <1>2, <1>3, <1>6
<1> QED BY <1>1, <1>3, <1>4, <1>7

\* It determines the key, the nonce and the message.
LEMMA ChallengeDetermined ==
  ASSUME CanonicalReprs, HashableInputs,
         NEW vk \in Scalar, NEW R \in Scalar, NEW m \in Messages,
         NEW wk \in Scalar, NEW S \in Scalar, NEW n \in Messages,
         ChallengeBytes(vk, R, m) = ChallengeBytes(wk, S, n)
  PROVE  vk = wk /\ R = S /\ m = n
<1>1. PICK b : b = ChallengeBytes(vk, R, m)
  OBVIOUS
<1>2. /\ FourJoined(b, Tag("Hsig"), point_bytes(vk), point_bytes(R), ByteArray(m))
      /\ Len(point_bytes(vk)) = PLen /\ Len(point_bytes(R)) = PLen
  BY <1>1, ChallengeParts
<1>3. b = ChallengeBytes(wk, S, n)
  BY <1>1
<1>4. /\ FourJoined(b, Tag("Hsig"), point_bytes(wk), point_bytes(S), ByteArray(n))
      /\ Len(point_bytes(wk)) = PLen /\ Len(point_bytes(S)) = PLen
  BY <1>3, ChallengeParts
<1>5. /\ Len(point_bytes(vk)) = Len(point_bytes(wk)) /\ Len(point_bytes(R)) = Len(point_bytes(S))
      /\ Len(Tag("Hsig")) = Len(Tag("Hsig"))
  BY <1>2, <1>4
<1>6. /\ point_bytes(vk) = point_bytes(wk) /\ point_bytes(R) = point_bytes(S)
      /\ ByteArray(m) = ByteArray(n)
  BY <1>2, <1>4, <1>5, FourDetermined
<1> QED BY <1>6, BytesDiffer, ByteArrays

\* The randomizer: the view of a map of shares, which is seen next to a package.
LEMMA ViewBytes ==
  ASSUME CanonicalReprs, HashableInputs, NEW p \in SigningPackagesSeen,
         NEW shares \in ViewsSeen(p)
  PROVE  /\ DOMAIN shares \in SUBSET U16 /\ shares \in [DOMAIN shares -> ViewShares]
         /\ view_shares(shares) \in Seq(Nat)
         /\ Len(view_shares(shares)) = Cardinality(DOMAIN shares) * (2 + PLen + SLen)
         /\ ia_view_bytes(p, shares)
               = encode_commitments(p.signing_commitments) \o view_shares(shares)
         /\ ia_view_bytes(p, shares) \in Seq(Nat)
<1>1. DOMAIN shares \in SUBSET U16 /\ shares \in [DOMAIN shares -> ViewShares]
  BY DEF HashableInputs, ViewShares
<1>2. /\ view_shares(shares) \in Seq(Nat)
      /\ Len(view_shares(shares)) = Cardinality(DOMAIN shares) * (2 + PLen + SLen)
  BY <1>1, SharesLength
<1>3. ia_view_bytes(p, shares)
         = encode_commitments(p.signing_commitments) \o view_shares(shares)
  BY DEF ia_view_bytes, view_shares
<1>4. encode_commitments(p.signing_commitments) \in Seq(Nat)
  BY PackageBytes
<1>5. encode_commitments(p.signing_commitments) \o view_shares(shares) \in Seq(Nat)
  BY <1>2, <1>4, ConcatFacts
<1> QED BY <1>1, <1>2, <1>3, <1>5

\* What is hashed for it: the tag, the key and the view.
LEMMA RandomizerParts ==
  ASSUME CanonicalReprs, HashableInputs, NEW p \in SigningPackagesSeen,
         NEW shares \in ViewsSeen(p), NEW k \in KeysSeen
  PROVE  /\ ThreeParts(Nat, Tag("HIA"), ByteArray(k), ia_view_bytes(p, shares))
         /\ RandomizerBytes(k, p, shares)
               = (Tag("HIA") \o ByteArray(k)) \o ia_view_bytes(p, shares)
         /\ RandomizerBytes(k, p, shares)[3] = 73
<1>1. PICK t, a, v, b :
         /\ t = Tag("HIA") /\ a = ByteArray(k) /\ v = ia_view_bytes(p, shares)
         /\ b = RandomizerBytes(k, p, shares)
  OBVIOUS
<1>2. t \in Seq(Nat) /\ Len(t) >= 3 /\ t[3] = 73
  BY <1>1, Tags
<1>3. a \in Seq(Nat) /\ v \in Seq(Nat)
  BY <1>1, ByteArrays, ViewBytes
<1>4. PICK u : u = t \o a
  OBVIOUS
<1>5. u \in Seq(Nat) /\ Len(u) >= 3 /\ u[3] = 73
  BY <1>2, <1>3, <1>4, ConcatFacts, ThirdByte
<1>6. (u \o v)[3] = 73
  BY <1>3, <1>5, ThirdByte
<1>7. b = u \o v
  BY <1>1, <1>4 DEF RandomizerBytes
<1>8. ThreeParts(Nat, t, a, v)
  BY <1>2, <1>3 DEF ThreeParts
<1> QED BY <1>1, <1>4, <1>6, <1>7, <1>8

\* Among the randomizers of sessions with the same signers it determines the
\* key, the commitments and the shares.
LEMMA RandomizerDetermined ==
  ASSUME CanonicalReprs, HashableInputs,
         NEW p \in SigningPackagesSeen, NEW f \in ViewsSeen(p), NEW k \in KeysSeen,
         NEW r \in SigningPackagesSeen, NEW g \in ViewsSeen(r), NEW l \in KeysSeen,
         Ids(p) = Ids(r), RandomizerBytes(k, p, f) = RandomizerBytes(l, r, g)
  PROVE  k = l /\ p.signing_commitments = r.signing_commitments /\ f = g
<1>1. /\ ThreeParts(Nat, Tag("HIA"), ByteArray(k), ia_view_bytes(p, f))
      /\ RandomizerBytes(k, p, f) = (Tag("HIA") \o ByteArray(k)) \o ia_view_bytes(p, f)
  BY RandomizerParts
<1>2. /\ ThreeParts(Nat, Tag("HIA"), ByteArray(l), ia_view_bytes(r, g))
      /\ RandomizerBytes(l, r, g) = (Tag("HIA") \o ByteArray(l)) \o ia_view_bytes(r, g)
  BY RandomizerParts
<1>3. Len(Tag("HIA")) = Len(Tag("HIA")) /\ Len(ByteArray(k)) = Len(ByteArray(l))
  BY ByteArrays
<1>4. ByteArray(k) = ByteArray(l) /\ ia_view_bytes(p, f) = ia_view_bytes(r, g)
  <2>1. PICK t, a, v : t = Tag("HIA") /\ a = ByteArray(k) /\ v = ia_view_bytes(p, f)
    OBVIOUS
  <2>2. PICK b, w : b = ByteArray(l) /\ w = ia_view_bytes(r, g)
    OBVIOUS
  <2>3. (t \o a) \o v = (t \o b) \o w
    BY <1>1, <1>2, <2>1, <2>2
  <2>4. ThreeParts(Nat, t, a, v) /\ ThreeParts(Nat, t, b, w)
    BY <1>1, <1>2, <2>1, <2>2
  <2>5. Len(t) = Len(t) /\ Len(a) = Len(b)
    BY <1>3, <2>1, <2>2
  <2>6. a = b /\ v = w
    BY <2>3, <2>4, <2>5, SplitThree
  <2> QED BY <2>1, <2>2, <2>6
<1>5. k = l
  BY <1>4, ByteArrays
<1>6. PICK e, x : e = encode_commitments(p.signing_commitments) /\ x = view_shares(f)
  OBVIOUS
<1>7. PICK d, y : d = encode_commitments(r.signing_commitments) /\ y = view_shares(g)
  OBVIOUS
<1>8. /\ e \in Seq(Nat) /\ x \in Seq(Nat) /\ d \in Seq(Nat) /\ y \in Seq(Nat)
      /\ Len(e) = Len(d)
  <2>1. e \in Seq(Nat) /\ Len(e) = Cardinality(Ids(p)) * (2 + PLen + PLen)
    BY <1>6, PackageBytes
  <2>2. d \in Seq(Nat) /\ Len(d) = Cardinality(Ids(p)) * (2 + PLen + PLen)
    BY <1>7, PackageBytes
  <2>3. x \in Seq(Nat)
    BY <1>6, ViewBytes
  <2>4. y \in Seq(Nat)
    BY <1>7, ViewBytes
  <2> QED BY <2>1, <2>2, <2>3, <2>4
<1>9. e \o x = d \o y
  <2>1. ia_view_bytes(p, f) = e \o x
    BY <1>6, ViewBytes
  <2>2. ia_view_bytes(r, g) = d \o y
    BY <1>7, ViewBytes
  <2> QED BY <1>4, <2>1, <2>2
<1>10. e = d /\ x = y
  BY <1>8, <1>9, ConcatSplit
<1>11. p.signing_commitments = r.signing_commitments
  BY <1>6, <1>7, <1>10, PackageBytes, CommitmentsDetermined
<1>12. PICK S, T : S = DOMAIN f /\ T = DOMAIN g
  OBVIOUS
<1>13. /\ S \in SUBSET U16 /\ f \in [S -> ViewShares]
       /\ Len(x) = Cardinality(S) * (2 + PLen + SLen)
  BY <1>6, <1>12, ViewBytes
<1>14. /\ T \in SUBSET U16 /\ g \in [T -> ViewShares]
       /\ Len(y) = Cardinality(T) * (2 + PLen + SLen)
  BY <1>7, <1>12, ViewBytes
<1>15. Cardinality(S) = Cardinality(T)
  <2>1. PICK L \in Nat \ {0} : L = 2 + PLen + SLen
    BY DEF CanonicalReprs
  <2>2. Cardinality(S) \in Nat /\ Cardinality(T) \in Nat
    BY <1>13, <1>14, IdentifiersInOrder
  <2>3. Cardinality(S) * L = Cardinality(T) * L
    BY <1>10, <1>13, <1>14, <2>1
  <2> QED BY <2>1, <2>2, <2>3, SameMultiple
<1>16. view_shares(f) = view_shares(g)
  BY <1>6, <1>7, <1>10
<1>17. f = g
  BY <1>13, <1>14, <1>15, <1>16, SharesDetermined
<1> QED BY <1>5, <1>11, <1>17

\* What is hashed for a commitment to a pairwise key determines the key.
LEMMA KeyCommitmentDetermined ==
  ASSUME CanonicalReprs, HashableInputs, NEW k \in KeysSeen
  PROVE  /\ KeyCommitmentBytes(k)[3] = 118
         /\ \A l \in KeysSeen : KeyCommitmentBytes(k) = KeyCommitmentBytes(l) => k = l
<1>1. PICK t : t = Tag("Hvk")
  OBVIOUS
<1>2. t \in Seq(Nat) /\ Len(t) >= 3 /\ t[3] = 118
  BY <1>1, Tags
<1>3. KeyCommitmentBytes(k)[3] = 118
  <2>1. PICK a : a = ByteArray(k) /\ a \in Seq(Nat)
    BY ByteArrays
  <2>2. (t \o a)[3] = 118
    BY <1>2, <2>1, ThirdByte
  <2> QED BY <1>1, <2>1, <2>2 DEF KeyCommitmentBytes
<1>4. ASSUME NEW l \in KeysSeen, KeyCommitmentBytes(k) = KeyCommitmentBytes(l)
      PROVE  k = l
  <2>1. PICK a, b : a = ByteArray(k) /\ b = ByteArray(l) /\ a \in Seq(Nat) /\ b \in Seq(Nat)
    BY ByteArrays
  <2>2. t \o a = t \o b
    BY <1>1, <1>4, <2>1 DEF KeyCommitmentBytes
  <2>3. a = b
    BY <1>2, <2>1, <2>2, ConcatSplit
  <2> QED BY <2>1, <2>3, ByteArrays
<1> QED BY <1>3, <1>4

-----------------------------------------------------------------------------
(* Nothing else is ever hashed.                                            *)

\* What a digest of each kind is of.
IsBindingFactor(x) ==
    \E vk \in Scalar, p \in SigningPackagesSeen :
        x = [args |-> <<"Hnon", vk, p>>, bytes |-> BindingFactorBytes(vk, p)]

IsChallenge(x) ==
    \E vk \in Scalar, R \in Scalar, m \in Messages :
        x = [args |-> <<"Hsig", vk, R, m>>, bytes |-> ChallengeBytes(vk, R, m)]

IsBlinding(x) ==
    \E p \in SigningPackagesSeen, k \in KeysSeen :
        /\ Ids(p) # {}
        /\ x = [args |-> <<"Hs", k, p>>, bytes |-> BlindingBase(p) \o ByteArray(k)]

IsRandomizerOf(x, p) ==
    \E f \in ViewsSeen(p), k \in KeysSeen :
        x = [args |-> <<"HIA", k, p.signing_commitments, f>>, bytes |-> RandomizerBytes(k, p, f)]

IsRandomizer(x) == \E p \in SigningPackagesSeen : IsRandomizerOf(x, p)

IsKeyCommitment(x) ==
    \E k \in KeysSeen : x = [args |-> <<"Hvk", k>>, bytes |-> KeyCommitmentBytes(k)]

\* What a digest is of, one of five kinds.
IsOfAKind(x) ==
    \/ IsBindingFactor(x) \/ IsChallenge(x) \/ IsBlinding(x) \/ IsRandomizer(x)
    \/ IsKeyCommitment(x)

\* A call under way hashes for a signer of its package, from the base of that
\* package, and the digests are of these kinds.
CallInv ==
    call # NoCall =>
        \E p \in SigningPackagesSeen : \E i \in Ids(p) :
            call = [signer |-> i, package |-> p, base |-> BlindingBase(p)]

DigestsInv == \A x \in digests : IsOfAKind(x)

HashInv == CallInv /\ DigestsInv

\* A step that leaves the call alone adds a digest of one of the kinds.
LEMMA DigestAdded ==
  ASSUME HashInv, NEW args, NEW string, Digest(args, string), UNCHANGED call,
         NEW x, x = [args |-> args, bytes |-> string],
         IsOfAKind(x)
  PROVE  HashInv'
<1>1. digests' = digests \cup {x}
  BY DEF Digest
<1>2. DigestsInv'
  BY <1>1 DEF HashInv, DigestsInv
<1>3. CallInv'
  BY DEF HashInv, CallInv
<1> QED BY <1>2, <1>3 DEF HashInv

\* The key of two signers is one of those that are seen.
LEMMA IsKeySeen ==
  ASSUME NEW k, \E a, b \in SignersSeen : k = PairKeyOf({a, b})
  PROVE  k \in KeysSeen
  BY SMT DEF KeysSeen

LEMMA KeySeen ==
  ASSUME NEW a \in SignersSeen, NEW b \in SignersSeen
  PROVE  PairKeyOf({a, b}) \in KeysSeen
<1>1. PICK k : k = PairKeyOf({a, b})
  OBVIOUS
<1>2. \E c, d \in SignersSeen : k = PairKeyOf({c, d})
  BY <1>1, Zenon
<1>3. k \in KeysSeen
  BY <1>2, IsKeySeen
<1> QED BY <1>1, <1>3

\* What is known of a call under way.
LEMMA CallUnderWay ==
  ASSUME HashInv, call # NoCall
  PROVE  /\ call.package \in SigningPackagesSeen /\ call.signer \in Ids(call.package)
         /\ call.base = BlindingBase(call.package)
  BY DEF HashInv, CallInv

\* The invariant holds.
LEMMA HashInvHolds ==
  ASSUME CanonicalReprs, HashableInputs
  PROVE  HashSpec => []HashInv
<1>1. HashInit => HashInv
  BY DEF HashInit, HashInv, CallInv, DigestsInv
<1>2. ASSUME HashInv, [HashNext]_hashvars PROVE HashInv'
  <2>1. CASE UNCHANGED hashvars
    BY <1>2, <2>1 DEF hashvars, HashInv, CallInv, DigestsInv
  <2>2. ASSUME NEW i \in SignersSeen, Begin(i) PROVE HashInv'
    <3>1. CallInv'
      BY <2>2 DEF Begin, CallInv
    <3>2. DigestsInv'
      BY <1>2, <2>2 DEF Begin, HashInv, DigestsInv
    <3> QED BY <3>1, <3>2 DEF HashInv
  <2>3. ASSUME HashBindingFactor PROVE HashInv'
    <3>1. call # NoCall /\ UNCHANGED call
      BY <2>3 DEF HashBindingFactor
    <3>2. PICK vk \in VerifyingKeys :
             Digest(<<"Hnon", vk, call.package>>, BindingFactorBytes(vk, call.package))
      BY <2>3 DEF HashBindingFactor
    <3>3. PICK p \in SigningPackagesSeen : p = call.package
      BY <1>2, <3>1, CallUnderWay
    <3>4. vk \in Scalar
      BY DEF HashableInputs
    <3>5. PICK args, string, x :
             /\ args = <<"Hnon", vk, p>> /\ string = BindingFactorBytes(vk, p)
             /\ x = [args |-> args, bytes |-> string]
      OBVIOUS
    <3>6. IsBindingFactor(x)
      BY <3>4, <3>5 DEF IsBindingFactor
    <3>7. Digest(args, string)
      BY <3>2, <3>3, <3>5
    <3> QED BY <1>2, <3>1, <3>5, <3>6, <3>7, DigestAdded DEF IsOfAKind
  <2>4. ASSUME HashChallenge PROVE HashInv'
    <3>1. call # NoCall /\ UNCHANGED call
      BY <2>4 DEF HashChallenge
    <3>2. PICK vk \in VerifyingKeys, R \in Scalar :
             Digest(<<"Hsig", vk, R, call.package.message>>,
                    ChallengeBytes(vk, R, call.package.message))
      BY <2>4 DEF HashChallenge
    <3>3. PICK m \in Messages : m = call.package.message
      BY <1>2, <3>1, CallUnderWay, PackageBytes
    <3>4. vk \in Scalar
      BY DEF HashableInputs
    <3>5. PICK args, string, x :
             /\ args = <<"Hsig", vk, R, m>> /\ string = ChallengeBytes(vk, R, m)
             /\ x = [args |-> args, bytes |-> string]
      OBVIOUS
    <3>6. IsChallenge(x)
      BY <3>4, <3>5 DEF IsChallenge
    <3>7. Digest(args, string)
      BY <3>2, <3>3, <3>5
    <3> QED BY <1>2, <3>1, <3>5, <3>6, <3>7, DigestAdded DEF IsOfAKind
  <2>5. ASSUME NEW j \in SignersSeen, HashBlinding(j) PROVE HashInv'
    <3>1. call # NoCall /\ UNCHANGED call
      BY <2>5 DEF HashBlinding
    <3>2. PICK p \in SigningPackagesSeen :
             p = call.package /\ call.signer \in Ids(p) /\ call.base = BlindingBase(p)
      BY <1>2, <3>1, CallUnderWay
    <3>3. PICK k \in KeysSeen : k = Key(j)
      <4>1. PICK i \in SignersSeen : i = call.signer
        BY <3>2 DEF SignersSeen
      <4> QED BY <4>1, KeySeen DEF Key
    <3>4. Digest(<<"Hs", k, p>>, BlindingBase(p) \o ByteArray(k))
      BY <2>5, <3>2, <3>3 DEF HashBlinding
    <3>5. PICK args, string, x :
             /\ args = <<"Hs", k, p>> /\ string = BlindingBase(p) \o ByteArray(k)
             /\ x = [args |-> args, bytes |-> string]
      OBVIOUS
    <3>6. IsBlinding(x)
      BY <3>2, <3>5 DEF IsBlinding
    <3>7. Digest(args, string)
      BY <3>4, <3>5
    <3> QED BY <1>2, <3>1, <3>5, <3>6, <3>7, DigestAdded DEF IsOfAKind
  <2>6. ASSUME NEW j \in SignersSeen, HashRandomizer(j) PROVE HashInv'
    <3>1. call # NoCall /\ UNCHANGED call
      BY <2>6 DEF HashRandomizer
    <3>2. PICK p \in SigningPackagesSeen : p = call.package /\ call.signer \in Ids(p)
      BY <1>2, <3>1, CallUnderWay
    <3>3. PICK k \in KeysSeen : k = Key(j)
      <4>1. PICK i \in SignersSeen : i = call.signer
        BY <3>2 DEF SignersSeen
      <4> QED BY <4>1, KeySeen DEF Key
    <3>4. PICK f \in ViewsSeen(p) :
             Digest(<<"HIA", k, p.signing_commitments, f>>, RandomizerBytes(k, p, f))
      BY <2>6, <3>2, <3>3 DEF HashRandomizer
    <3>5. PICK args, string, x :
             /\ args = <<"HIA", k, p.signing_commitments, f>>
             /\ string = RandomizerBytes(k, p, f)
             /\ x = [args |-> args, bytes |-> string]
      OBVIOUS
    <3>6. IsRandomizer(x)
      BY <3>5 DEF IsRandomizer, IsRandomizerOf
    <3>7. Digest(args, string)
      BY <3>4, <3>5
    <3> QED BY <1>2, <3>1, <3>5, <3>6, <3>7, DigestAdded DEF IsOfAKind
  <2>7. ASSUME HashKeyCommitment PROVE HashInv'
    <3>1. UNCHANGED call
      BY <2>7 DEF HashKeyCommitment
    <3>2. PICK k \in KeysSeen : Digest(<<"Hvk", k>>, KeyCommitmentBytes(k))
      BY <2>7 DEF HashKeyCommitment
    <3>3. PICK args, string, x :
             /\ args = <<"Hvk", k>> /\ string = KeyCommitmentBytes(k)
             /\ x = [args |-> args, bytes |-> string]
      OBVIOUS
    <3>4. IsKeyCommitment(x)
      BY <3>3 DEF IsKeyCommitment
    <3>5. Digest(args, string)
      BY <3>2, <3>3
    <3> QED BY <1>2, <3>1, <3>3, <3>4, <3>5, DigestAdded DEF IsOfAKind
  <2>8. ASSUME Return PROVE HashInv'
    BY <1>2, <2>8 DEF Return, HashInv, CallInv, DigestsInv
  <2> QED BY <1>2, <2>1, <2>2, <2>3, <2>4, <2>5, <2>6, <2>7, <2>8 DEF HashNext
<1> QED BY <1>1, <1>2, PTL DEF HashSpec

-----------------------------------------------------------------------------
(* Digests of two kinds differ, and of one kind they tell their arguments. *)

\* The third byte or the length tells the kind.
LEMMA KindsApart ==
  ASSUME CanonicalReprs, HashableInputs, NEW x
  PROVE  /\ IsBindingFactor(x) => x.args[1] = "Hnon" /\ x.bytes[3] = 110
         /\ IsChallenge(x) => /\ x.args[1] = "Hsig" /\ x.bytes[3] = 115
                              /\ Len(x.bytes) = 5 + PLen + PLen + 32
         /\ IsBlinding(x) => /\ x.args[1] = "Hs" /\ x.bytes[3] = 115
                             /\ Len(x.bytes) # 5 + PLen + PLen + 32
         /\ IsRandomizer(x) => x.args[1] = "HIA" /\ x.bytes[3] = 73
         /\ IsKeyCommitment(x) => x.args[1] = "Hvk" /\ x.bytes[3] = 118
<1>1. ASSUME IsBindingFactor(x) PROVE x.args[1] = "Hnon" /\ x.bytes[3] = 110
  <2>1. PICK vk \in Scalar, p \in SigningPackagesSeen :
           x = [args |-> <<"Hnon", vk, p>>, bytes |-> BindingFactorBytes(vk, p)]
    BY <1>1 DEF IsBindingFactor
  <2> QED BY <2>1, BindingFactorParts
<1>2. ASSUME IsChallenge(x)
      PROVE  x.args[1] = "Hsig" /\ x.bytes[3] = 115 /\ Len(x.bytes) = 5 + PLen + PLen + 32
  <2>1. PICK vk \in Scalar, R \in Scalar, m \in Messages :
           x = [args |-> <<"Hsig", vk, R, m>>, bytes |-> ChallengeBytes(vk, R, m)]
    BY <1>2 DEF IsChallenge
  <2> QED BY <2>1, ChallengeParts
<1>3. ASSUME IsBlinding(x)
      PROVE  x.args[1] = "Hs" /\ x.bytes[3] = 115 /\ Len(x.bytes) # 5 + PLen + PLen + 32
  <2>1. PICK p \in SigningPackagesSeen, k \in KeysSeen :
           /\ Ids(p) # {}
           /\ x = [args |-> <<"Hs", k, p>>, bytes |-> BlindingBase(p) \o ByteArray(k)]
    BY <1>3 DEF IsBlinding
  <2>2. PICK n \in Nat \ {0} : n = Cardinality(Ids(p))
    <3>1. PICK i : i \in Ids(p)
      BY <2>1
    <3>2. Ids(p) \in SUBSET U16
      BY PackageBytes
    <3>3. /\ Cardinality(Ids(p)) \in Nat
          /\ \E m \in 1..Cardinality(Ids(p)) : InOrder(Ids(p))[m] = i
      BY <3>1, <3>2, IdentifiersInOrder
    <3> QED BY <3>3
  <2>3. PICK L \in Nat : L = 2 + PLen + PLen
    BY DEF CanonicalReprs
  <2>4. BlindingInput(BlindingBase(p) \o ByteArray(k), p, k)
    BY BlindingBytes
  <2>5. Len(BlindingBase(p) \o ByteArray(k)) = 3 + n * L + 32 + n * 2 + 32
    <3>1. Len(BlindingBase(p) \o ByteArray(k)) = BlindingLen(Cardinality(Ids(p)))
      BY <2>4, Zenon DEF BlindingInput
    <3> QED BY <2>2, <2>3, <3>1, Zenon DEF BlindingLen
  <2>6. PICK v \in Nat : v = n * L /\ v >= L
    <3>1. PICK m \in Nat : n = m + 1
      <4>1. n - 1 \in Nat /\ n = (n - 1) + 1
        OBVIOUS
      <4> QED BY <4>1
    <3>2. PICK u \in Nat : u = m * L
      BY TimesNat
    <3>3. n * L = u + L
      BY <3>1, <3>2, TimesSuccessor
    <3> QED BY <3>2, <3>3
  <2>7. 3 + v + 32 + n * 2 + 32 # 5 + PLen + PLen + 32
    BY <2>3, <2>6 DEF CanonicalReprs
  <2>8. x.args[1] = "Hs" /\ x.bytes = BlindingBase(p) \o ByteArray(k)
    BY <2>1
  <2>9. x.bytes[3] = 115
    <3>1. (BlindingBase(p) \o ByteArray(k))[3] = 115
      BY <2>4, Zenon DEF BlindingInput
    <3> QED BY <2>8, <3>1
  <2> QED BY <2>5, <2>6, <2>7, <2>8, <2>9
<1>4. ASSUME IsRandomizer(x) PROVE x.args[1] = "HIA" /\ x.bytes[3] = 73
  <2>1. PICK p \in SigningPackagesSeen : IsRandomizerOf(x, p)
    BY <1>4 DEF IsRandomizer
  <2>2. PICK f \in ViewsSeen(p), k \in KeysSeen :
           x = [args |-> <<"HIA", k, p.signing_commitments, f>>,
                bytes |-> RandomizerBytes(k, p, f)]
    BY <2>1 DEF IsRandomizerOf
  <2> QED BY <2>2, RandomizerParts
<1>5. ASSUME IsKeyCommitment(x) PROVE x.args[1] = "Hvk" /\ x.bytes[3] = 118
  <2>1. PICK k \in KeysSeen : x = [args |-> <<"Hvk", k>>, bytes |-> KeyCommitmentBytes(k)]
    BY <1>5 DEF IsKeyCommitment
  <2> QED BY <2>1, KeyCommitmentDetermined
<1> QED BY <1>1, <1>2, <1>3, <1>4, <1>5

\* Two binding factors,
LEMMA BindingFactorsTell ==
  ASSUME CanonicalReprs, HashableInputs, NEW x, NEW y, IsBindingFactor(x), IsBindingFactor(y)
  PROVE  x.bytes = y.bytes <=> x.args = y.args
<1>1. PICK vk \in Scalar, p \in SigningPackagesSeen :
         x = [args |-> <<"Hnon", vk, p>>, bytes |-> BindingFactorBytes(vk, p)]
  BY DEF IsBindingFactor
<1>2. PICK wk \in Scalar, r \in SigningPackagesSeen :
         y = [args |-> <<"Hnon", wk, r>>, bytes |-> BindingFactorBytes(wk, r)]
  BY DEF IsBindingFactor
<1>3. ASSUME x.bytes = y.bytes PROVE x.args = y.args
  <2>1. BindingFactorBytes(vk, p) = BindingFactorBytes(wk, r)
    BY <1>1, <1>2, <1>3
  <2>2. p = r /\ vk = wk
    BY <2>1, BindingFactorDetermined
  <2> QED BY <1>1, <1>2, <2>2
<1>4. ASSUME x.args = y.args PROVE x.bytes = y.bytes
  <2>1. vk = wk /\ p = r
    BY <1>1, <1>2, <1>4
  <2> QED BY <1>1, <1>2, <2>1
<1> QED BY <1>3, <1>4

\* two challenges,
LEMMA ChallengesTell ==
  ASSUME CanonicalReprs, HashableInputs, NEW x, NEW y, IsChallenge(x), IsChallenge(y)
  PROVE  x.bytes = y.bytes <=> x.args = y.args
<1>1. PICK vk \in Scalar, R \in Scalar, m \in Messages :
         x = [args |-> <<"Hsig", vk, R, m>>, bytes |-> ChallengeBytes(vk, R, m)]
  BY DEF IsChallenge
<1>2. PICK wk \in Scalar, S \in Scalar, n \in Messages :
         y = [args |-> <<"Hsig", wk, S, n>>, bytes |-> ChallengeBytes(wk, S, n)]
  BY DEF IsChallenge
<1>3. ASSUME x.bytes = y.bytes PROVE x.args = y.args
  <2>1. ChallengeBytes(vk, R, m) = ChallengeBytes(wk, S, n)
    BY <1>1, <1>2, <1>3
  <2>2. vk = wk /\ R = S /\ m = n
    BY <2>1, ChallengeDetermined
  <2> QED BY <1>1, <1>2, <2>2
<1>4. ASSUME x.args = y.args PROVE x.bytes = y.bytes
  <2>1. vk = wk /\ R = S /\ m = n
    BY <1>1, <1>2, <1>4
  <2> QED BY <1>1, <1>2, <2>1
<1> QED BY <1>3, <1>4

\* two blinding values,
LEMMA BlindingsTell ==
  ASSUME CanonicalReprs, HashableInputs, NEW x, NEW y, IsBlinding(x), IsBlinding(y)
  PROVE  x.bytes = y.bytes <=> x.args = y.args
<1>1. PICK p \in SigningPackagesSeen, k \in KeysSeen :
         x = [args |-> <<"Hs", k, p>>, bytes |-> BlindingBase(p) \o ByteArray(k)]
  BY DEF IsBlinding
<1>2. PICK r \in SigningPackagesSeen, l \in KeysSeen :
         y = [args |-> <<"Hs", l, r>>, bytes |-> BlindingBase(r) \o ByteArray(l)]
  BY DEF IsBlinding
<1>3. ASSUME x.bytes = y.bytes PROVE x.args = y.args
  <2>1. BlindingBase(p) \o ByteArray(k) = BlindingBase(r) \o ByteArray(l)
    BY <1>1, <1>2, <1>3
  <2>2. p = r /\ k = l
    BY <2>1, BlindingDetermined
  <2> QED BY <1>1, <1>2, <2>2
<1>4. ASSUME x.args = y.args PROVE x.bytes = y.bytes
  <2>1. p = r /\ k = l
    BY <1>1, <1>2, <1>4
  <2> QED BY <1>1, <1>2, <2>1
<1> QED BY <1>3, <1>4

\* two commitments to keys,
LEMMA KeyCommitmentsTell ==
  ASSUME CanonicalReprs, HashableInputs, NEW x, NEW y, IsKeyCommitment(x), IsKeyCommitment(y)
  PROVE  x.bytes = y.bytes <=> x.args = y.args
<1>1. PICK k \in KeysSeen : x = [args |-> <<"Hvk", k>>, bytes |-> KeyCommitmentBytes(k)]
  BY DEF IsKeyCommitment
<1>2. PICK l \in KeysSeen : y = [args |-> <<"Hvk", l>>, bytes |-> KeyCommitmentBytes(l)]
  BY DEF IsKeyCommitment
<1>3. ASSUME x.bytes = y.bytes PROVE x.args = y.args
  <2>1. KeyCommitmentBytes(k) = KeyCommitmentBytes(l)
    BY <1>1, <1>2, <1>3
  <2>2. k = l
    BY <2>1, KeyCommitmentDetermined
  <2> QED BY <1>1, <1>2, <2>2
<1>4. ASSUME x.args = y.args PROVE x.bytes = y.bytes
  <2>1. k = l
    BY <1>1, <1>2, <1>4
  <2> QED BY <1>1, <1>2, <2>1
<1> QED BY <1>3, <1>4

\* and two randomizers of sessions with the same signers.
LEMMA RandomizersTell ==
  ASSUME CanonicalReprs, HashableInputs, NEW x, NEW y, IsRandomizer(x), IsRandomizer(y),
         ~OtherSigners(x, y)
  PROVE  x.bytes = y.bytes <=> x.args = y.args
<1>1. PICK p \in SigningPackagesSeen : IsRandomizerOf(x, p)
  BY DEF IsRandomizer
<1>2. PICK f \in ViewsSeen(p), k \in KeysSeen :
         x = [args |-> <<"HIA", k, p.signing_commitments, f>>,
              bytes |-> RandomizerBytes(k, p, f)]
  BY <1>1 DEF IsRandomizerOf
<1>3. PICK r \in SigningPackagesSeen : IsRandomizerOf(y, r)
  BY DEF IsRandomizer
<1>4. PICK g \in ViewsSeen(r), l \in KeysSeen :
         y = [args |-> <<"HIA", l, r.signing_commitments, g>>,
              bytes |-> RandomizerBytes(l, r, g)]
  BY <1>3 DEF IsRandomizerOf
<1>5. Ids(p) = Ids(r)
  <2>1. /\ x.args[1] = "HIA" /\ x.args[3] = p.signing_commitments
        /\ y.args[1] = "HIA" /\ y.args[3] = r.signing_commitments
    BY <1>2, <1>4
  <2>2. DOMAIN p.signing_commitments = DOMAIN r.signing_commitments
    BY <2>1 DEF OtherSigners
  <2> QED BY <2>2 DEF Ids
<1>6. ASSUME x.bytes = y.bytes PROVE x.args = y.args
  <2>1. RandomizerBytes(k, p, f) = RandomizerBytes(l, r, g)
    BY <1>2, <1>4, <1>6
  <2>2. k = l /\ p.signing_commitments = r.signing_commitments /\ f = g
    BY <1>5, <2>1, RandomizerDetermined
  <2> QED BY <1>2, <1>4, <2>2
<1>7. ASSUME x.args = y.args PROVE x.bytes = y.bytes
  <2>1. k = l /\ p.signing_commitments = r.signing_commitments /\ f = g
    BY <1>2, <1>4, <1>7
  <2>2. RandomizerBytes(k, p, f) = RandomizerBytes(l, r, g)
    BY <2>1 DEF RandomizerBytes, ia_view_bytes
  <2> QED BY <1>2, <1>4, <2>2
<1> QED BY <1>6, <1>7

\* The signers hash the same bytes exactly for the same purpose and arguments,
\* as HashInputs says: the bytes that binding_factor, the challenge of the
\* plain suite, the blinding values, the randomizers and the commitments to
\* pairwise keys feed to their hashers (src/src/utils.rs, src/src/ia.rs) tell
\* their tag and every field, whatever the lengths of points and scalars,
\* although no field is preceded by its length.  The curve library is assumed to encode different values as
\* different strings of the one length, and the inputs to be what their types
\* say.
THEOREM HashedBytesTellApart ==
  ASSUME CanonicalReprs, HashableInputs
  PROVE  HashSpec => []HashInputsSeparate
<1>1. ASSUME HashInv PROVE HashInputsSeparate
  <2> SUFFICES ASSUME NEW x \in digests, NEW y \in digests, ~OtherSigners(x, y)
               PROVE  x.bytes = y.bytes <=> x.args = y.args
    BY DEF HashInputsSeparate
  <2>1. \/ IsBindingFactor(x) \/ IsChallenge(x) \/ IsBlinding(x) \/ IsRandomizer(x)
        \/ IsKeyCommitment(x)
    BY <1>1 DEF HashInv, DigestsInv, IsOfAKind
  <2>2. \/ IsBindingFactor(y) \/ IsChallenge(y) \/ IsBlinding(y) \/ IsRandomizer(y)
        \/ IsKeyCommitment(y)
    BY <1>1 DEF HashInv, DigestsInv, IsOfAKind
  <2>3. /\ IsBindingFactor(x) => x.args[1] = "Hnon" /\ x.bytes[3] = 110
        /\ IsChallenge(x) => /\ x.args[1] = "Hsig" /\ x.bytes[3] = 115
                             /\ Len(x.bytes) = 5 + PLen + PLen + 32
        /\ IsBlinding(x) => /\ x.args[1] = "Hs" /\ x.bytes[3] = 115
                            /\ Len(x.bytes) # 5 + PLen + PLen + 32
        /\ IsRandomizer(x) => x.args[1] = "HIA" /\ x.bytes[3] = 73
        /\ IsKeyCommitment(x) => x.args[1] = "Hvk" /\ x.bytes[3] = 118
    BY KindsApart
  <2>4. /\ IsBindingFactor(y) => y.args[1] = "Hnon" /\ y.bytes[3] = 110
        /\ IsChallenge(y) => /\ y.args[1] = "Hsig" /\ y.bytes[3] = 115
                             /\ Len(y.bytes) = 5 + PLen + PLen + 32
        /\ IsBlinding(y) => /\ y.args[1] = "Hs" /\ y.bytes[3] = 115
                            /\ Len(y.bytes) # 5 + PLen + PLen + 32
        /\ IsRandomizer(y) => y.args[1] = "HIA" /\ y.bytes[3] = 73
        /\ IsKeyCommitment(y) => y.args[1] = "Hvk" /\ y.bytes[3] = 118
    BY KindsApart
  <2>5. CASE IsBindingFactor(x) /\ IsBindingFactor(y)
    BY <2>5, BindingFactorsTell
  <2>6. CASE IsChallenge(x) /\ IsChallenge(y)
    BY <2>6, ChallengesTell
  <2>7. CASE IsBlinding(x) /\ IsBlinding(y)
    BY <2>7, BlindingsTell
  <2>8. CASE IsRandomizer(x) /\ IsRandomizer(y)
    BY <2>8, RandomizersTell
  <2>9. CASE IsKeyCommitment(x) /\ IsKeyCommitment(y)
    BY <2>9, KeyCommitmentsTell
  <2>10. CASE x.bytes # y.bytes /\ x.args # y.args
    BY <2>10
  <2>11. \/ IsBindingFactor(x) /\ IsBindingFactor(y)
         \/ IsChallenge(x) /\ IsChallenge(y)
         \/ IsBlinding(x) /\ IsBlinding(y)
         \/ IsRandomizer(x) /\ IsRandomizer(y)
         \/ IsKeyCommitment(x) /\ IsKeyCommitment(y)
         \/ x.args[1] # y.args[1] /\ x.bytes # y.bytes
    BY <2>1, <2>2, <2>3, <2>4
  <2>12. x.args[1] # y.args[1] => x.args # y.args
    OBVIOUS
  <2> QED BY <2>5, <2>6, <2>7, <2>8, <2>9, <2>10, <2>11, <2>12
<1>2. HashSpec => []HashInv
  BY HashInvHolds
<1> QED BY <1>1, <1>2, PTL

=============================================================================
