------------------------------- MODULE KeyStore -------------------------------
(***************************************************************************)
(* What the programs that share a key file may rely on: the file is a      *)
(* register of one key.  It may lose its key at any moment, but a program  *)
(* that deals from it gets the key it holds at that moment, whole.         *)
(***************************************************************************)
CONSTANTS
    DealerKeys,   \* the keys that can be dealt
    Dealers,      \* the runs of programs that deal from the file
    None          \* no key

VARIABLES store, dealt

vars == <<store, dealt>>

Init == store \in DealerKeys \cup {None} /\ dealt = [p \in Dealers |-> None]

Change ==
    /\ store' \in DealerKeys \cup {None}
    /\ UNCHANGED dealt

Deal(p) ==
    /\ store # None
    /\ dealt[p] = None
    /\ dealt' = [dealt EXCEPT ![p] = store]
    /\ UNCHANGED store

Next == Change \/ \E p \in Dealers : Deal(p)

Spec == Init /\ [][Next]_vars
=============================================================================
