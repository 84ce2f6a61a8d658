-------------------------- MODULE AccountableSigning --------------------------
(***************************************************************************)
(* What a signing session with identifiable abort promises to whoever      *)
(* drives it: it comes to a result, it fails only through the fault of one *)
(* of its signers, and a session that fails names signers, none of them    *)
(* wrongly.  Module IdentifiableAbort implements it within the limits that *)
(* README.md states: enough signers, one of them faulty, which leaves the  *)
(* nonce of its share alone.                                               *)
(***************************************************************************)
CONSTANTS
    Parties,   \* the parties that hold a key share
    Faulty     \* those that deviate from the code

VARIABLES
    signers,   \* the parties of the session
    result,    \* "none", then how aggregate and verify ended
    accused    \* what decide has returned

vars == <<signers, result, accused>>

Failures == {"invalid", "ShareCountMismatch", "InconsistentAggregateNonce",
             "NoSignatureShares"}

Init ==
    /\ signers \in SUBSET Parties
    /\ result = "none"
    /\ accused = {}

\* The shares are aggregated and the signature is verified.
Conclude ==
    /\ result = "none"
    /\ result' \in IF signers \cap Faulty = {} THEN {"valid"}
                   ELSE Failures \cup {"valid"}
    /\ UNCHANGED <<signers, accused>>

\* The signers at fault are named, once.
Accuse ==
    /\ result # "none"
    /\ accused = {}
    /\ accused' \in (SUBSET (signers \cap Faulty)) \ {{}}
    /\ UNCHANGED <<signers, result>>

Next == Conclude \/ Accuse

\* It fails only with a faulty signer, and accuses no other, and once ...
Safety == Init /\ [][Next]_vars

\* ... and every session has a result, and one that failed has somebody accused.
Conclusive == (result = "none") ~> (result # "none")
FailureIsAttributed == (result \in Failures) ~> (accused # {})

Spec == Safety /\ Conclusive /\ FailureIsAttributed
=============================================================================
