------------------------------ MODULE MCSigning ------------------------------
(***************************************************************************)
(* Small instances of Signing: a small field, three parties.  The pairwise *)
(* key dealt to i and j is the set {i, j}.                                 *)
(***************************************************************************)
EXTENDS Signing

TwoMessages == {1, 2}
OneMessage  == {1}

MCPairwiseKeys == Pairs

\* Hash functions that keep apart the inputs that occur; no challenge is zero.
MCHsig(vk, R, m) == 1 + ((2 * vk + 3 * R + m) % (Q - 1))

MCHnon(vk, p) ==
    (vk + 3 * p.message + 2 * Cardinality(Ids(p)) + Sum([i \in Ids(p) |->
        (i * p.signing_commitments[i].D + 3 * p.signing_commitments[i].E) % Q])) % Q

MCHs(k, p) ==
    LET a == CHOOSE x \in k : \A y \in k : x <= y
        z == CHOOSE x \in k : \A y \in k : x >= y
    IN  (1 + 2 * a + a * z + 3 * p.message) % Q

Dealing(secret, coeffs) ==
    [secret_key |-> secret,
     random     |-> [coeffs |-> coeffs,
                     omega  |-> [i \in Identifier |-> i],
                     k      |-> [pair \in Pairs |-> pair]]]

\* Every secret key, zero included, and every polynomial of full degree.
AllDealings ==
    {Dealing(secret, coeffs) :
        secret \in Scalar,
        coeffs \in {f \in [2..NumCoeffs -> Scalar] : f[NumCoeffs] # 0}}

\* One key that BIP-340 negates.
OddDealing == {Dealing(1, [n \in 2..NumCoeffs |-> 2])}

\* ThresholdNeeded and ValidSignsOneSession are checked where what they ask of
\* chance holds.
ASSUME ChanceConditions == NoZeroChallenge /\ FullDegree /\ MessagesKeptApart

\* Signer 1 commits twice, the others once.
TwiceOnce == [i \in Identifier |->
                 IF i = 1 THEN <<[d |-> 1, e |-> 2], [d |-> 3, e |-> 1]>>
                 ELSE <<[d |-> i, e |-> 1]>>]

Once == [i \in Identifier |-> <<[d |-> i, e |-> 1]>>]
=============================================================================
