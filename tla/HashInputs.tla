------------------------------ MODULE HashInputs ------------------------------
(***************************************************************************)
(* What is fed to the hash functions, byte by byte: the binding factor,    *)
(* the challenge, the blinding values, the randomizers and the commitments *)
(* to pairwise keys of src/src/utils.rs and src/src/ia.rs.  The hasher of  *)
(* the blinding values is loaded once in a call and cloned for every peer. *)
(*                                                                         *)
(* The lengths matter here: no field is preceded by its length, and the    *)
(* tag /Hs is the beginning of the tag /Hsig.                              *)
(***************************************************************************)
EXTENDS Encoding

CONSTANTS
    SigningPackagesSeen,   \* the packages the parties are given
    VerifyingKeys,         \* the verifying keys they sign for
    ByteArray(_),          \* the 32 bytes of a message or of a pairwise key
    PairKeyOf(_),          \* the key of a pair of signers
    ViewsSeen(_),          \* the maps of shares a package may come with
    MaxDigests             \* bound: how many digests are looked at together

VARIABLES
    call,      \* the call of a signer under way, or NoCall
    digests    \* what was hashed: the arguments and the bytes

hashvars == <<call, digests>>

NoCall == [signer |-> 0]

SignersSeen == UNION {Ids(p) : p \in SigningPackagesSeen}

\* The keys of any two of them.
KeysSeen == {PairKeyOf({i, j}) : i, j \in SignersSeen}

\* What is assumed of the inputs: the packages and the maps of shares are what
\* their Rust types say, and messages and keys are 32 bytes each.
HashableInputs ==
    /\ \A p \in SigningPackagesSeen :
          /\ p = [message |-> p.message, signing_commitments |-> p.signing_commitments]
          /\ p.message \in Messages
          /\ Ids(p) \in SUBSET U16
          /\ p.signing_commitments \in [Ids(p) -> SigningCommitments]
          /\ \A shares \in ViewsSeen(p) :
                /\ DOMAIN shares \in SUBSET U16
                /\ shares \in [DOMAIN shares -> [R : Scalar, z : Scalar]]
    /\ VerifyingKeys \subseteq Scalar
    /\ \A m, n \in Messages :
          ByteArray(m) \in [1..32 -> Byte] /\ (ByteArray(m) = ByteArray(n) => m = n)
    /\ \A k, l \in KeysSeen :
          ByteArray(k) \in [1..32 -> Byte] /\ (ByteArray(k) = ByteArray(l) => k = l)

-----------------------------------------------------------------------------

Tag(name) ==
    CASE name = "Hsig" -> <<47, 72, 115, 105, 103>>
      [] name = "Hnon" -> <<47, 72, 110, 111, 110>>
      [] name = "Hs"   -> <<47, 72, 115>>
      [] name = "HIA"  -> <<47, 72, 73, 65>>
      [] name = "Hvk"  -> <<47, 72, 118, 107>>

\* The challenge of Secp256k1Plain.
ChallengeBytes(vk, R, message) ==
    Tag("Hsig") \o point_bytes(vk) \o point_bytes(R) \o ByteArray(message)

BindingFactorBytes(vk, package) ==
    Tag("Hnon") \o point_bytes(vk) \o encode_signer_set(Ids(package))
                \o ByteArray(package.message)
                \o encode_commitments(package.signing_commitments)

\* Wrong: the message is left out.
BlindingBaseWithoutMessage(package) ==
    Tag("Hs") \o encode_commitments(package.signing_commitments)
              \o encode_signer_set(Ids(package))

\* blinding_base.
BlindingBase(package) ==
    Tag("Hs") \o encode_commitments(package.signing_commitments)
              \o ByteArray(package.message) \o encode_signer_set(Ids(package))

ia_view_bytes(package, shares) ==
    LET ids == InOrder(DOMAIN shares)
    IN  encode_commitments(package.signing_commitments) \o
        FlattenSeq([n \in DOMAIN ids |->
            IdBytes(ids[n]) \o point_bytes(shares[ids[n]].R)
                            \o scalar_bytes(shares[ids[n]].z)])

RandomizerBytes(key, package, shares) ==
    Tag("HIA") \o ByteArray(key) \o ia_view_bytes(package, shares)

KeyCommitmentBytes(key) == Tag("Hvk") \o ByteArray(key)

-----------------------------------------------------------------------------

HashInit == call = NoCall /\ digests = {}

\* A signer is called: it hashes the part all its blinding values share.
Begin(i) ==
    /\ call = NoCall
    /\ \E package \in SigningPackagesSeen :
          /\ i \in Ids(package)
          /\ call' = [signer |-> i, package |-> package, base |-> BlindingBase(package)]
    /\ UNCHANGED digests

Digest(args, bytes) ==
    /\ Cardinality(digests) < MaxDigests
    /\ digests' = digests \cup {[args |-> args, bytes |-> bytes]}

\* The binding factor, and the challenge it leads to.
HashBindingFactor ==
    /\ call # NoCall
    /\ \E vk \in VerifyingKeys :
          Digest(<<"Hnon", vk, call.package>>, BindingFactorBytes(vk, call.package))
    /\ UNCHANGED call

HashChallenge ==
    /\ call # NoCall
    /\ \E vk \in VerifyingKeys, R \in Scalar :
          Digest(<<"Hsig", vk, R, call.package.message>>,
                 ChallengeBytes(vk, R, call.package.message))
    /\ UNCHANGED call

\* The key the caller shares with j.
Key(j) == PairKeyOf({call.signer, j})

\* `base.clone().finish_with(key)`, for the peer j.
HashBlinding(j) ==
    /\ call # NoCall
    /\ j \in Ids(call.package) \ {call.signer}
    /\ Digest(<<"Hs", Key(j), call.package>>, call.base \o ByteArray(Key(j)))
    /\ UNCHANGED call

HashRandomizer(j) ==
    /\ call # NoCall
    /\ j \in Ids(call.package) \ {call.signer}
    /\ \E shares \in ViewsSeen(call.package) :
          Digest(<<"HIA", Key(j), call.package.signing_commitments, shares>>,
                 RandomizerBytes(Key(j), call.package, shares))
    /\ UNCHANGED call

\* hash_pairwise_key_commitment: the dealer commits to a key, decide compares
\* one that was opened.
HashKeyCommitment ==
    /\ \E key \in KeysSeen : Digest(<<"Hvk", key>>, KeyCommitmentBytes(key))
    /\ UNCHANGED call

Return == call # NoCall /\ call' = NoCall /\ UNCHANGED digests

HashNext ==
    \/ \E i \in SignersSeen : Begin(i) \/ HashBlinding(i) \/ HashRandomizer(i)
    \/ HashBindingFactor \/ HashChallenge \/ HashKeyCommitment \/ Return

HashSpec == HashInit /\ [][HashNext]_hashvars

-----------------------------------------------------------------------------
(* Properties.                                                             *)

\* Two digests under the tag /HIA are of sessions with other signers; the view
\* does not tell where the commitments end and the shares begin.
OtherSigners(x, y) ==
    x.args[1] = "HIA" /\ y.args[1] = "HIA" /\ DOMAIN x.args[3] # DOMAIN y.args[3]

\* The same bytes are hashed exactly for the same purpose and the same
\* arguments.  Both signers of a pair, whichever peers they hash for before,
\* get the same blinding value and the same randomizer from their key; and
\* although nothing in the bytes separates the fields, no two tags, sets of
\* signers, commitments, messages or maps of shares run into one another.
HashInputsSeparate ==
    \A x, y \in digests :
        OtherSigners(x, y) \/ (x.bytes = y.bytes <=> x.args = y.args)
=============================================================================
