--------------------------------- MODULE Wire ---------------------------------
(***************************************************************************)
(* The messages of src/src/wire.rs on their way from one party to another, *)
(* and the byte interface of src/src/ciphersuite/ed25519.rs, which has the *)
(* same layout.                                                            *)
(*                                                                         *)
(* The curve libraries decode the encodings they make, and that of Ed25519 *)
(* some more: decompress takes a y that is not reduced, and a sign of an x *)
(* that is zero.  These are OtherReprs, none for the other curves.  Points *)
(* outside the group of the generator are left out.                        *)
(***************************************************************************)
EXTENDS Encoding

CONSTANTS
    OtherReprs,        \* the point that each such string of bytes is decoded as
    Rfc8032(_, _, _)   \* rfc8032_challenge: the hash of bytes of R and A and a message

\* What is assumed of the curve library: these are not the encodings it makes.
OtherReprsCondition ==
    /\ DOMAIN OtherReprs \subseteq [1..PLen -> Byte]
    /\ \A b \in DOMAIN OtherReprs :
           OtherReprs[b] \in Scalar /\ \A P \in Scalar : PointRepr[P] # b

\* The challenge of Ed25519 is the hash of the encodings that compress makes.
ChallengeCondition ==
    \A vk, R \in Scalar, m \in Messages :
        Hsig(vk, R, m) = Rfc8032(point_bytes(R), point_bytes(vk), m)

VARIABLES
    kind,      \* the type of the message under way
    bytes,     \* the bytes that arrive
    result     \* what from_bytes returned

vars == <<kind, bytes, result>>

\* What a decoder returns that has found no value.
Malformed == <<"MalformedEncoding">>
Panic     == <<"Panic">>
Pending   == <<"Pending">>

-----------------------------------------------------------------------------

\* The fields of the messages in the order of their encoding.
Layout ==
    [SigningCommitments |-> <<"point", "point">>,
     SignatureShare     |-> <<"id", "point", "scalar">>,
     Signature          |-> <<"point", "scalar">>]

FieldLen(field) ==
    CASE field = "id" -> 2 [] field = "point" -> PLen [] field = "scalar" -> SLen

FieldValues(field) == IF field = "id" THEN U16 ELSE Scalar

FieldBytes(field, value) ==
    CASE field = "id"     -> IdBytes(value)
      [] field = "point"  -> point_bytes(value)
      [] field = "scalar" -> scalar_bytes(value)

\* Where the field n of a message starts.
Start(k, n) ==
    LET start[m \in 1..n] ==
          IF m = 1 THEN 0 ELSE start[m - 1] + FieldLen(Layout[k][m - 1])
    IN  start[n]

MessageLen(k) == Start(k, Len(Layout[k]) + 1)

\* The values a message of type k can have, a tuple of its fields.
Values(k) ==
    {v \in [DOMAIN Layout[k] -> U16 \cup Scalar] :
        \A n \in DOMAIN Layout[k] : v[n] \in FieldValues(Layout[k][n])}

to_bytes(k, v) ==
    FlattenSeq([n \in DOMAIN Layout[k] |-> FieldBytes(Layout[k][n], v[n])])

\* point_from_bytes, scalar_from_bytes and u16::from_be_bytes: the value of the
\* bytes, none if the length or the encoding is wrong.
Decode(field, b) ==
    IF Len(b) # FieldLen(field) THEN {}
    ELSE CASE field = "id"     -> {b[1] * Base + b[2]}
           [] field = "point"  -> {P \in Scalar : PointRepr[P] = b}
                                     \cup {OtherReprs[r] : r \in DOMAIN OtherReprs \cap {b}}
           [] field = "scalar" -> {z \in Scalar : ScalarRepr[z] = b}

\* The bytes of field n.  The last field is sliced to the end of the message,
\* the others to where they end.
FieldSlice(k, b, n) ==
    SubSeq(b, Start(k, n) + 1, IF n = Len(Layout[k]) THEN Len(b) ELSE Start(k, n + 1))

\* A slice past the end panics; the fields are decoded in their order.
DecodeFields(k, b) ==
    LET out(n)    == (IF n = Len(Layout[k]) THEN Start(k, n) ELSE Start(k, n + 1)) > Len(b)
        failed(n) == out(n) \/ Decode(Layout[k][n], FieldSlice(k, b, n)) = {}
        first     == {n \in DOMAIN Layout[k] :
                         failed(n) /\ \A m \in 1..(n - 1) : ~ failed(m)}
    IN  IF first = {}
        THEN [n \in DOMAIN Layout[k] |->
                 CHOOSE v \in Decode(Layout[k][n], FieldSlice(k, b, n)) : TRUE]
        ELSE IF \E n \in first : out(n) THEN Panic ELSE Malformed

\* Wrong: the length is not compared first.
FromBytesUnchecked(k, b) == DecodeFields(k, b)

from_bytes(k, b) == IF Len(b) # MessageLen(k) THEN Malformed ELSE DecodeFields(k, b)

-----------------------------------------------------------------------------
(* ed25519.rs                                                              *)

\* Wrong: s is not compared with the group order, but reduced.
Ed25519VerifyReduced(sig, msg, vk_bytes) ==
    LET s == FoldLeft(LAMBDA n, byte : n * Base + byte, 0, SubSeq(sig, PLen + 1, PLen + SLen))
    IN  \E A \in Decode("point", vk_bytes), R \in Decode("point", SubSeq(sig, 1, PLen)) :
            s % Q = Add(R, Mul(A, Rfc8032(SubSeq(sig, 1, PLen), vk_bytes, msg)))

\* ed25519_verify_bytes: its argument has the length of a signature, and its
\* bytes are hashed as they are, whatever they are decoded as.
Ed25519VerifyBytes(sig, msg, vk_bytes) ==
    \E A \in Decode("point", vk_bytes), R \in Decode("point", SubSeq(sig, 1, PLen)),
       s \in Decode("scalar", SubSeq(sig, PLen + 1, PLen + SLen)) :
        s = Add(R, Mul(A, Rfc8032(SubSeq(sig, 1, PLen), vk_bytes, msg)))

\* signature_to_bytes: the bytes of compress(R) and of s.
signature_to_bytes(sig) == point_bytes(sig.R) \o scalar_bytes(sig.z)

-----------------------------------------------------------------------------

Init ==
    /\ kind \in DOMAIN Layout
    /\ \E v \in Values(kind) : bytes = to_bytes(kind, v)
    /\ result = Pending

\* The message is damaged: bytes are changed, lost or added, at most one more
\* than the longest message has.
MaxLen == MessageLen("SignatureShare") + 1

Damage ==
    /\ result = Pending
    /\ \E n \in 0..MaxLen : bytes' \in [1..n -> Byte]
    /\ UNCHANGED <<kind, result>>

Receive ==
    /\ result = Pending
    /\ result' = from_bytes(kind, bytes)
    /\ UNCHANGED <<kind, bytes>>

Next == Damage \/ Receive

Spec == Init /\ [][Next]_vars

-----------------------------------------------------------------------------
(* Properties.                                                             *)

\* The bytes a field with this value is read from.
FieldEncodings(field, value) ==
    {FieldBytes(field, value)} \cup
        {b \in DOMAIN OtherReprs : field = "point" /\ OtherReprs[b] = value}

\* The bytes a message is read from: those that to_bytes makes of it, and those
\* with another encoding of a point in the place of its own.
Encodings(k, v) ==
    LET fields == DOMAIN Layout[k]
        of(n)  == FieldEncodings(Layout[k][n], v[n])
    IN  {FlattenSeq(q) : q \in {f \in [fields -> UNION {of(n) : n \in fields}] :
                                   \A n \in fields : f[n] \in of(n)}}

\* from_bytes returns a value exactly for the bytes to_bytes makes of it, where
\* another encoding of a point may stand for its own, and MalformedEncoding for
\* all others, of whatever length: it inverts to_bytes, and never slices past
\* the end.
DecodeInvertsEncode ==
    result # Pending =>
        LET sources == {v \in Values(kind) : bytes \in Encodings(kind, v)}
        IN  IF sources = {} THEN result = Malformed ELSE sources = {result}

\* ed25519_verify_bytes accepts bytes exactly if Signature::from_bytes does and
\* verify accepts what it returns, but for bytes that hold another encoding of
\* R: they are hashed as they are by the one, and as compress encodes R by the
\* other.  What from_bytes made of those, too, is accepted by both or by neither
\* once signature_to_bytes has encoded it; and a second s for the same signature
\* is refused by both.
Ed25519VerifiersAgree ==
    /\ result # Pending
    /\ kind = "Signature"
    /\ Len(bytes) = MessageLen(kind)
    => \A vk \in Scalar, m \in Messages :
           LET sig == [R |-> result[1], z |-> result[2]]
               accepted == result # Malformed /\ Verify(sig, m, [verifying_key |-> vk])
           IN  /\ SubSeq(bytes, 1, PLen) \notin DOMAIN OtherReprs
                   => (Ed25519VerifyBytes(bytes, m, point_bytes(vk)) <=> accepted)
               /\ result # Malformed
                   => (Ed25519VerifyBytes(signature_to_bytes(sig), m, point_bytes(vk)) <=> accepted)
=============================================================================
