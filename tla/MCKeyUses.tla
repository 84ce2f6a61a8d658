------------------------------ MODULE MCKeyUses ------------------------------
(***************************************************************************)
(* A small instance of what is done with a key file once it is written:    *)
(* the Taproot demo (TaprootSpend), and a session in the course of which   *)
(* the key is dealt again (Redeal).  They share no state, so in each       *)
(* behaviour only one of them moves.                                       *)
(*                                                                         *)
(* A pairwise key is the number of the deal it is of, and its pair.        *)
(***************************************************************************)
EXTENDS TaprootSpend, Redeal

VARIABLE part    \* "spend" or "redeal"

MCPairwiseKeys == Deals \X Pairs

\* Hash functions that keep apart the inputs that occur; no challenge is zero.
MCHsig(vk, R, m) == 1 + ((2 * vk + 3 * R + m) % (Q - 1))
MCHnon(vk, p) == 1 + ((3 * vk + p.message) % (Q - 1))

\* The blinding values, and below the coefficients, are chosen so that no mixture
\* of the deals has its errors cancel, whatever the challenge.
MCHs(k, p) ==
    CASE k = <<1, {1, 2}>> -> 6 [] k = <<1, {1, 3}>> -> 3 [] k = <<1, {2, 3}>> -> 2
      [] k = <<2, {1, 2}>> -> 1 [] k = <<2, {1, 3}>> -> 1 [] k = <<2, {2, 3}>> -> 4

ASSUME ChallengeCondition == NoZeroChallenge

-----------------------------------------------------------------------------
(* The demo: any key, for which two signers are enough or one more is      *)
(* needed.  Signer 2 draws any nonces, signer 1 some.                      *)

Draw(n, coeffs) ==
    [coeffs |-> coeffs,
     omega  |-> [i \in Identifier |-> (n + i) % Q],
     k      |-> [pair \in Pairs |-> <<n, pair>>]]

SpendDealings ==
    {[secret_key |-> secret, random |-> Draw(1, [c \in 2..3 |-> IF c = 2 THEN a ELSE b])] :
        secret \in Scalar, a \in Scalar, b \in {0, 4}}

SpendNonces ==
    {[i \in signer_ids |-> IF i = 1 THEN [d |-> 2, e |-> 1] ELSE [d |-> d, e |-> e]] :
        d \in Scalar, e \in 0..1}

-----------------------------------------------------------------------------
(* The session: one secret key, polynomials of degree one.                 *)

MCRandom ==
    [n \in Deals |-> Draw(n, [c \in 2..NumCoeffs |-> IF c = 2 THEN 3 * n - 2 ELSE 0])]

MCSignerNonces == [i \in Signers |-> [d |-> i + 1, e |-> 2 * i]]

ASSUME ChanceCondition == DealsDiffer /\ MixturesDiffer

-----------------------------------------------------------------------------

KeyUsesInit ==
    /\ Init /\ SessionInit
    /\ \/ part = "spend"
       \/ part = "redeal" /\ keys = GenerateWithDealer(5, Draw(1, [c \in 2..3 |-> 3 - c])) /\ tweak = 0

SpendStep == part = "spend" /\ Next /\ UNCHANGED <<part, sessionvars>>

SessionStep == part = "redeal" /\ SessionNext /\ UNCHANGED <<part, vars>>

KeyUsesSpec ==
    KeyUsesInit /\ [][SpendStep \/ SessionStep]_<<part, vars, sessionvars>>
=============================================================================
