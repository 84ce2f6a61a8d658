------------------------- MODULE MCIdentifiableAbort -------------------------
(***************************************************************************)
(* Small instances of IdentifiableAbort: the field of five elements, three *)
(* parties, threshold two.  A pairwise key dealt to i and j is the set     *)
(* {i, j}; {0} is a key the dealer has not dealt.                          *)
(***************************************************************************)
EXTENDS IdentifiableAbort

MCMessages == {1}

WrongKey == {0}

MCPairwiseKeys == Pairs \cup {WrongKey}

\* Hash functions that keep apart the inputs that occur.
MCHsig(vk, R, m) == (2 * vk + 3 * R + m) % Q

MCHnon(vk, p) == (vk + p.message + 2 * Cardinality(Ids(p))) % Q

MCHs(k, p) ==
    LET a == CHOOSE x \in k : \A y \in k : x <= y
        z == CHOOSE x \in k : \A y \in k : x >= y
    IN  (2 * a + a * z + p.message) % Q

Dealing(secret, coeff) ==
    [secret_key |-> secret,
     random     |-> [coeffs |-> [n \in 2..NumCoeffs |-> coeff],
                     omega  |-> [i \in Identifier |-> (i + 1) % Q],
                     k      |-> [pair \in Pairs |-> pair]]]

\* Keys of both parities, so that normalize_keygen does and does not negate.
MCDealings == {Dealing(1, 2), Dealing(2, 1)}

MCNonces == {[i \in Identifier |-> [d |-> i, e |-> 1]],
             [i \in Identifier |-> [d |-> i, e |-> 2]]}

\* A key and nonces of three signers that BIP-340 negates: the verifying key
\* and the aggregate nonce are odd, and no signer's share of it is zero.
OddDealing == {Dealing(1, 2)}
OddNonces  == {[i \in Identifier |-> [d |-> (2 * i) % Q, e |-> 2]]}

ASSUME OddInstance ==
    \A dealing \in OddDealing, ns \in OddNonces, m \in MCMessages :
        LET pk == GenerateWithDealer(dealing.secret_key, dealing.random).pubkeys
            p  == [message |-> m,
                   signing_commitments |-> [i \in Identifier |-> Commitment(ns[i])]]
        IN  /\ HasOddY(dealing.secret_key)
            /\ Suite = "bip340" =>
                  /\ HasOddY(AggregateNonce(p, pk))
                  /\ \A i \in Identifier :
                        Add(ns[i].d, Mul(NonceChallenge(p, pk), ns[i].e)) # 0

AllSign     == {Identifier}
TwoSign     == {{1, 2}}
AtLeastTwo  == {S \in SUBSET Identifier : Cardinality(S) >= 2}
MCWrongKeys == {WrongKey}
=============================================================================
