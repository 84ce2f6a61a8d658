------------------------------- MODULE Encoding -------------------------------
(***************************************************************************)
(* Bytes of points, scalars and identifiers (src/src/wire.rs).  A byte is  *)
(* a number below Base; the lengths of a point and of a scalar are         *)
(* constants, for the ciphersuites differ in them and so that every string *)
(* of bytes a peer may send can be looked at.                              *)
(***************************************************************************)
EXTENDS FaFrost, SequencesExt

CONSTANTS
    Base,          \* the number of values of a byte
    PLen, SLen,    \* point_len and scalar_len
    PointRepr,     \* the bytes the curve library encodes each point as
    ScalarRepr     \* and each scalar

\* What is assumed of the curve library: every encoding has its length, and no
\* two values have the same one.
CanonicalReprs ==
    /\ Base \in Nat \ {0} /\ PLen \in Nat /\ SLen \in Nat
    /\ PointRepr \in [Scalar -> [1..PLen -> 0..(Base - 1)]]
    /\ ScalarRepr \in [Scalar -> [1..SLen -> 0..(Base - 1)]]
    /\ \A x, y \in Scalar : PointRepr[x] = PointRepr[y] \/ ScalarRepr[x] = ScalarRepr[y]
                              => x = y

-----------------------------------------------------------------------------

Byte == 0..(Base - 1)

\* Identifier is u16, two bytes.
U16 == 0..(Base * Base - 1)

\* u16::to_be_bytes, the most significant byte first.
IdBytes(id) == <<id \div Base, id % Base>>

point_bytes(P) == PointRepr[P]

scalar_bytes(z) == ScalarRepr[z]

\* The identifiers of S in their order, in which a BTreeMap or BTreeSet of them
\* is iterated over.
InOrder(S) ==
    CHOOSE ids \in [1..Cardinality(S) -> S] :
        \A m, n \in DOMAIN ids : m < n => ids[m] < ids[n]

\* encode_commitments: id, D and E of each signer in the order of identifiers.
encode_commitments(commitments) ==
    LET ids == InOrder(DOMAIN commitments)
    IN  FlattenSeq([n \in DOMAIN ids |->
            IdBytes(ids[n]) \o point_bytes(commitments[ids[n]].D)
                            \o point_bytes(commitments[ids[n]].E)])

encode_signer_set(ids) ==
    LET sorted == InOrder(ids)
    IN  FlattenSeq([n \in DOMAIN sorted |-> IdBytes(sorted[n])])
=============================================================================
