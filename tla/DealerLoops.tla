------------------------------ MODULE DealerLoops ------------------------------
(***************************************************************************)
(* The loops of generate_with_dealer_from_secret (src/src/keygen.rs), for  *)
(* which GenerateWithDealer of module FaFrost is the specification.  The   *)
(* identifiers are machine integers: the last one is IdMax, 65535 in the   *)
(* code and at least MaxSigners, and the sum i + 1 may be one too many.    *)
(***************************************************************************)
EXTENDS FaFrost

CONSTANTS
    IdMaxs,     \* what Identifier::MAX may be
    Builds,     \* the builds: "debug" checks additions, "release" lets them wrap
    Dealings    \* the secret and what is drawn: [secret_key, random]

\* The dealer is called with a secret and scalars drawn at random, and the
\* identifiers are enough for the signers.
ASSUME LoopsAssumption ==
    /\ Dealings \subseteq [secret_key : Scalar, random : Randomness]
    /\ \A max \in IdMaxs : max \in Nat \ {0} /\ MaxSigners <= max

VARIABLES
    build, IdMax, dealing,
    loop,        \* the loop the dealer is in
    i, j,        \* the loop variables; i is `id` in the first loop
    n, y, pow,   \* the coefficient reached, the share and the power so far
    shares,      \* BTreeMap<Identifier, KeyPackage>
    vks          \* partial_verification_keys

input    == <<build, IdMax, dealing>>
loopvars == <<input, loop, i, j, n, y, pow, shares, vks>>

keypair == NormalizeKeygen(dealing.secret_key, dealing.secret_key)

Coeff(m) == IF m = 1 THEN keypair.sk ELSE dealing.random.coeffs[m]

-----------------------------------------------------------------------------

DealInit ==
    /\ build \in Builds
    /\ IdMax \in IdMaxs
    /\ dealing \in Dealings
    /\ loop = "shares"
    /\ i = 1 /\ j = 0
    /\ n = 1 /\ y = 0 /\ pow = 1
    /\ shares = EmptyMap /\ vks = EmptyMap

\* Wrong: the power is raised before the coefficient is added.
AddTermLate ==
    /\ loop = "shares" /\ i <= MaxSigners /\ n <= NumCoeffs
    /\ pow' = Mul(pow, i)
    /\ y' = Add(y, Mul(Coeff(n), pow'))
    /\ n' = n + 1
    /\ UNCHANGED <<input, loop, i, j, shares, vks>>

\* `y += a * pow; pow *= x`.
AddTerm ==
    /\ loop = "shares" /\ i <= MaxSigners /\ n <= NumCoeffs
    /\ y' = Add(y, Mul(Coeff(n), pow))
    /\ pow' = Mul(pow, i)
    /\ n' = n + 1
    /\ UNCHANGED <<input, loop, i, j, shares, vks>>

\* The packages of `id`, still without keys, and the next `id`.
InsertShare ==
    LET omega == dealing.random.omega[i]
    IN  /\ loop = "shares" /\ i <= MaxSigners /\ n > NumCoeffs
        /\ shares' = Insert(shares, i,
              [identifier |-> i, signing_share |-> y, signing_share_blinding |-> omega,
               pairwise_keys |-> EmptyMap])
        /\ vks' = Insert(vks, i,
              [signing_share_commitment |-> PedersenCommit(y, omega),
               pairwise_key_commitments |-> EmptyMap])
        /\ i' = i + 1 /\ n' = 1 /\ y' = 0 /\ pow' = 1
        /\ UNCHANGED <<input, loop, j>>

StartPairs ==
    /\ loop = "shares" /\ i > MaxSigners
    /\ loop' = "row" /\ i' = 1
    /\ UNCHANGED <<input, j, n, y, pow, shares, vks>>

\* Wrong: the keys of a signer start with the identifier zero.
StartRowAtZero ==
    /\ loop = "row" /\ i <= MaxSigners
    /\ loop' = "pairs" /\ j' = 0
    /\ UNCHANGED <<input, i, n, y, pow, shares, vks>>

\* `(i + 1)..=max_signers`.
StartRow ==
    /\ loop = "row" /\ i <= MaxSigners
    /\ IF i = IdMax /\ build = "debug"
       THEN loop' = "panicked" /\ UNCHANGED j
       ELSE loop' = "pairs" /\ j' = IF i = IdMax THEN 0 ELSE i + 1
    /\ UNCHANGED <<input, i, n, y, pow, shares, vks>>

\* One key for both, and its commitment.  `unwrap` panics for a signer that has
\* no package, after the key of the other has been inserted.
InsertPair ==
    /\ loop = "pairs" /\ j <= MaxSigners
    /\ IF j \in DOMAIN shares
       THEN LET k == PairKey(dealing.random, i, j)
                K == HashPairwiseKeyCommitment(k)
            IN  /\ shares' = [shares EXCEPT ![i].pairwise_keys = Insert(@, j, k),
                                            ![j].pairwise_keys = Insert(@, i, k)]
                /\ vks' = [vks EXCEPT ![i].pairwise_key_commitments = Insert(@, j, K),
                                      ![j].pairwise_key_commitments = Insert(@, i, K)]
                /\ j' = j + 1
                /\ UNCHANGED loop
       ELSE loop' = "panicked" /\ UNCHANGED <<j, shares, vks>>
    /\ UNCHANGED <<input, i, n, y, pow>>

EndRow ==
    /\ loop = "pairs" /\ j > MaxSigners
    /\ loop' = "row" /\ i' = i + 1
    /\ UNCHANGED <<input, j, n, y, pow, shares, vks>>

Return ==
    /\ loop = "row" /\ i > MaxSigners
    /\ loop' = "done"
    /\ UNCHANGED <<input, i, j, n, y, pow, shares, vks>>

DealTerminated == loop \in {"done", "panicked"} /\ UNCHANGED loopvars

DealNext ==
    \/ AddTerm \/ InsertShare \/ StartPairs \/ StartRow \/ InsertPair \/ EndRow \/ Return
    \/ DealTerminated

\* The dealer is a function that runs: it takes its next step.
DealSpec == DealInit /\ [][DealNext]_loopvars /\ WF_loopvars(DealNext)

-----------------------------------------------------------------------------
(* Properties.                                                             *)

\* When the loops are through they have built what GenerateWithDealer says: the
\* value of the polynomial for each signer, and for each two signers one key,
\* in the packages of both, with its commitment in the public ones of both.
LoopsDeal ==
    loop = "done" =>
        [shares |-> shares,
         pubkeys |-> [verifying_key |-> keypair.vk, partial_verification_keys |-> vks]]
            = GenerateWithDealer(dealing.secret_key, dealing.random)

\* Every deal ends; it returns packages, unless there are as many signers as
\* there are identifiers: then neither build returns any.
DealEnds == <>(IF MaxSigners = IdMax THEN loop = "panicked" ELSE loop = "done")
=============================================================================
