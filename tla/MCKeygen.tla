------------------------------- MODULE MCKeygen -------------------------------
(***************************************************************************)
(* A small instance of keygen.rs: the key file (KeyFile) and the loops of  *)
(* the dealer (DealerLoops).  They share no state, so in each behaviour    *)
(* only one of them moves.                                                 *)
(*                                                                         *)
(* The texts of two keys differ in length by one when a number of signers  *)
(* is 2 in one and 10 in the other, and by two with 2 and 100.  The        *)
(* pairwise key of i and j is {i, j}.                                      *)
(***************************************************************************)
EXTENDS KeyFile, DealerLoops

VARIABLE part   \* the one that moves: "file" or "loops"

\* Every secret key, and every polynomial.
AllDealings ==
    {[secret_key |-> secret,
      random     |-> [coeffs |-> coeffs,
                      omega  |-> [id \in Identifier |-> id],
                      k      |-> [pair \in Pairs |-> pair]]] :
        secret \in Scalar, coeffs \in [2..MinSigners -> Scalar]}

-----------------------------------------------------------------------------

FirstKey == [scheme |-> SCHEME_ID, max_signers |-> 3, min_signers |-> 2,
             secret_key |-> 2, verifying_key |-> 2]

\* No file, a file that keygen has written, the same with a secret key that is
\* not normalised, and files no program deals from.
FilesFound ==
    {NoFile,
     FirstKey,
     [FirstKey EXCEPT !.secret_key = 3],
     [FirstKey EXCEPT !.verifying_key = 4],
     [FirstKey EXCEPT !.secret_key = Garbled],
     [FirstKey EXCEPT !.min_signers = 4],
     [FirstKey EXCEPT !.max_signers = 0],
     [FirstKey EXCEPT !.scheme = "FaFROST-ed25519"]}

\* A number of signers of each length that matters, a threshold of zero, one that
\* is refused, and the greatest number of signers.
KeygenArguments ==
    {[max_signers |-> max, min_signers |-> 2] : max \in {2, 10, 100, MaxU16}}
    \cup {[max_signers |-> 10, min_signers |-> 0], [max_signers |-> 2, min_signers |-> 10]}

\* These numbers, and "2" written over "100".
MixedNumbers == {0, 2, 10, 100, 200, MaxU16}

\* Two keys, the first of which BIP-340 negates.
TwoSecrets == {1, 4}

\* Hash functions are not used.
MCHsig(vk, R, m) == 0
MCHnon(vk, p) == 0
MCHs(k, p) == 0

-----------------------------------------------------------------------------

KeygenInit ==
    /\ Init /\ DealInit
    /\ \/ part = "file" /\ build = "debug" /\ IdMax = MaxSigners
             /\ dealing = CHOOSE d \in AllDealings : TRUE
       \/ part = "loops" /\ file = NoFile

FileStep == part = "file" /\ Next /\ UNCHANGED <<part, loopvars>>

LoopStep == part = "loops" /\ DealNext /\ UNCHANGED <<part, vars>>

allvars == <<part, vars, loopvars>>

\* The dealer's function runs, once it is called; the programs that share the
\* file may stop.
KeygenSpec == KeygenInit /\ [][FileStep \/ LoopStep]_allvars /\ WF_allvars(LoopStep)

\* Every deal ends, and with packages unless the identifiers are used up.
EveryDealEnds == part = "loops" => DealEnds
=============================================================================
