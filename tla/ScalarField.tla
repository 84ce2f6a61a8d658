----------------------------- MODULE ScalarField -----------------------------
(***************************************************************************)
(* The arithmetic every protocol function of the crate is generic over:    *)
(* C::Scalar, a prime field (`PrimeField`), and C::Point, the prime-order  *)
(* group generated by G (src/src/ciphersuite/mod.rs).                      *)
(*                                                                         *)
(* A scalar is a number of 0..Q-1.  The group has the same prime order, so *)
(* a point G*x is represented by its discrete logarithm x: adding points   *)
(* is Add, scaling a point by a scalar is Mul, the identity is 0.          *)
(*                                                                         *)
(* A BTreeMap is a function whose domain is a set of identifiers; a loop   *)
(* over one runs in ascending order of the keys, as do Sum and Product.    *)
(* They are written as recursive functions, which the proofs can expand.   *)
(***************************************************************************)
EXTENDS Integers

CONSTANTS
    Q,           \* the order of the field and of the group, a prime
    MaxSigners   \* max_signers, the number of shares the dealer makes

ASSUME QAssumption == Q \in Nat /\ Q > 1

\* Q is prime: every scalar but zero has an inverse (`Field::invert`).
ASSUME InverseAssumption ==
    \A a \in 1..(Q - 1) : \E b \in 1..(Q - 1) : (a * b) % Q = 1

\* Identifiers are u16; the field has more elements than there are signers,
\* so distinct identifiers are distinct scalars and none is zero.
ASSUME MaxSignersAssumption == MaxSigners \in Nat /\ MaxSigners < Q

-----------------------------------------------------------------------------

Scalar == 0..(Q - 1)

\* The identifiers dealt, `1..=max_signers`.
Identifier == 1..MaxSigners

Add(a, b) == IF a + b < Q THEN a + b ELSE a + b - Q

\* Wrong: the result is not reduced.
NegUnreduced(a) == Q - a

Neg(a) == IF a = 0 THEN 0 ELSE Q - a

Sub(a, b) == Add(a, Neg(b))

Mul(a, b) == (a * b) % Q

\* The inverse of a nonzero scalar.
Inv(a) == CHOOSE b \in Scalar : a = 0 \/ Mul(a, b) = 1

-----------------------------------------------------------------------------

\* f is a BTreeMap<Identifier, Scalar>: PartialSums(f)[n] has added the values
\* of the keys up to n.
PartialSums(f) ==
    LET acc[n \in 0..MaxSigners] ==
          IF n = 0 THEN 0
          ELSE IF n \in DOMAIN f THEN Add(acc[n - 1], f[n]) ELSE acc[n - 1]
    IN  acc

Sum(f) == PartialSums(f)[MaxSigners]

PartialProducts(f) ==
    LET acc[n \in 0..MaxSigners] ==
          IF n = 0 THEN 1
          ELSE IF n \in DOMAIN f THEN Mul(acc[n - 1], f[n]) ELSE acc[n - 1]
    IN  acc

Product(f) == PartialProducts(f)[MaxSigners]

\* x to the power n, at most MaxSigners: the running `pow` of the share
\* evaluation.
Power(x, n) == Product([k \in 1..n |-> x])

\* `BTreeMap::insert`.
Insert(map, key, value) ==
    [k \in DOMAIN map \cup {key} |-> IF k = key THEN value ELSE map[k]]

\* `BTreeMap::new()`.
EmptyMap == [k \in {} |-> 0]
=============================================================================
