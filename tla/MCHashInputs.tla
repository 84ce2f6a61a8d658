----------------------------- MODULE MCHashInputs -----------------------------
(***************************************************************************)
(* A small instance of HashInputs, with the lengths of Ed25519, where a    *)
(* point is as long as a scalar.                                           *)
(***************************************************************************)
EXTENDS HashInputs

MCHsig(vk, R, m) == 1 + ((2 * vk + 3 * R + m) % (Q - 1))
MCHnon(vk, p) == 0
MCHs(k, p) == 0

\* The identifiers are chosen for their bytes: 1 and 256 differ in the order of
\* theirs, and those of 26983 are the letters by which the tags /Hs and /Hsig
\* differ.
SeenIds == {1, 256, 26983}

Package(S, message, D, E) ==
    [message |-> message, signing_commitments |-> [i \in S |-> [D |-> D, E |-> E]]]

SeenPackages ==
    {Package(S, message, D, E) :
        S \in (SUBSET SeenIds) \ {{}}, message \in 1..2, D \in 1..2, E \in {1}}
    \cup {Package({1, 256}, 1, 1, 2)}

\* Shares of some of the signers, of one value.
SeenViews(package) ==
    {[i \in T |-> [R |-> R, z |-> 1]] :
        T \in {Ids(package), Ids(package) \ {1}}, R \in 1..2}

SumOfIds(pair) == FoldFunction(+, 0, [i \in pair |-> i])

\* A number below 65536 in 32 bytes, the most significant first.
In32Bytes(n) ==
    [k \in 1..32 |-> CASE k = 32 -> n % 256 [] k = 31 -> n \div 256 [] OTHER -> 0]

Reprs32 == [n \in Scalar |-> In32Bytes(n)]

\* What is assumed of the curve library and of the inputs holds of them.
ASSUME InputCondition == CanonicalReprs /\ HashableInputs
=============================================================================
