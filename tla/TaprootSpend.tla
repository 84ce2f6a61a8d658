----------------------------- MODULE TaprootSpend -----------------------------
(***************************************************************************)
(* The Taproot key spend of src/src/bin/spenddemo.rs, with the BIP-340     *)
(* byte format of src/src/ciphersuite/bip340.rs: the dealt key is tweaked  *)
(* to the output key of a P2TR address, signers 1 and 2 sign the sighash   *)
(* for it, and the coordinator adds what is missing for the tweak.         *)
(*                                                                         *)
(* An x coordinate stands for the point of even y that has it.  What the   *)
(* demo leaves to the bitcoin crate is the address, the sighash (a         *)
(* message) and the tagged hash.                                           *)
(***************************************************************************)
EXTENDS IaRounds

CONSTANTS
    Dealings,     \* the dealer's choices: [secret_key, random]
    Nonces,       \* the nonces signers 1 and 2 draw
    Amounts       \* the amounts and fees given, in satoshis

\* The demo signs with 1 and 2.  For a key of one signer `sign` returns
\* MissingPairwiseKey to the first of them.
signer_ids == {1, 2}

ASSUME TaprootAssumption ==
    /\ Suite = "bip340"
    /\ MaxSigners >= 2
    /\ Dealings \subseteq [secret_key : Scalar, random : Randomness]
    /\ Nonces \subseteq [signer_ids -> [d : Scalar, e : Scalar]]
    /\ Amounts \subseteq Nat
    \* The challenge is hashed from any 32 bytes, Q for those that are not an
    \* x coordinate.
    /\ \A vk \in Scalar, m \in Messages : Hsig(vk, Q, m) \in Scalar

VARIABLES
    phase,           \* how far main has come
    keys,            \* what was dealt from the key file: [shares, pubkeys]
    tweak,           \* the TapTweak hash of the internal key
    signing_keys,    \* the tweaked [shares, pubkeys]
    tweak_eff,       \* what is added to z, times the challenge
    nonces,          \* the SigningNonces of the signers
    package,         \* the SigningPackage
    shares,          \* signature_shares
    sig              \* the aggregate signature

setup == <<keys, tweak>>
vars  == <<phase, setup, signing_keys, tweak_eff, nonces, package, shares, sig>>

-----------------------------------------------------------------------------
(* bip340.rs                                                               *)

\* The x coordinates lift_x finds a point for.
XCoordinates == {XOnly(P) : P \in Scalar \ {0}}

\* signature_to_bytes asserts that R is even; x_only_bytes panics for the
\* identity.
SignatureToBytesPanics(signature) == HasOddY(signature.R) \/ signature.R = 0

SignatureToBytes(signature) == [r_x |-> XOnly(signature.R), s |-> signature.z]

\* Wrong: the nonce recomputed may be the one of odd y.
Bip340VerifyBytesAnyY(bytes, msg, pubkey_x) ==
    /\ bytes.s \in Scalar
    /\ pubkey_x \in XCoordinates
    /\ LET R == Sub(bytes.s, Mul(pubkey_x, Hsig(pubkey_x, bytes.r_x, msg)))
       IN  R # 0 /\ XOnly(R) = bytes.r_x

\* bip340_verify_bytes; s is any 32-byte number.
Bip340VerifyBytes(bytes, msg, pubkey_x) ==
    /\ bytes.s \in Scalar
    /\ pubkey_x \in XCoordinates
    /\ LET R == Sub(bytes.s, Mul(pubkey_x, Hsig(pubkey_x, bytes.r_x, msg)))
       IN  R # 0 /\ ~ HasOddY(R) /\ XOnly(R) = bytes.r_x

-----------------------------------------------------------------------------
(* spenddemo.rs                                                            *)

\* Address::p2tr: the output key of an internal key without a script tree.
OutputKey(internal_x, t) == XOnly(Add(internal_x, t))

q_raw == Add(keys.pubkeys.verifying_key, tweak)

Init ==
    /\ \E dealing \in Dealings :
          keys = GenerateWithDealer(dealing.secret_key, dealing.random)
    /\ tweak \in Scalar
    /\ phase = "start"
    /\ signing_keys = keys
    /\ tweak_eff = 0
    /\ nonces = EmptyMap
    /\ package = EmptyMap
    /\ shares = EmptyMap
    /\ sig = EmptyMap

\* The x coordinate of the internal key, its address, the subtraction of the
\* fee.  Both the crate's tweak and x_only_bytes reject the identity.
Prepare ==
    /\ phase = "start"
    /\ \E amount_sat, fee_sat \in Amounts :
          phase' = IF keys.pubkeys.verifying_key = 0 \/ q_raw = 0 THEN "panicked"
                   ELSE IF fee_sat > amount_sat THEN "failed" ELSE "prepared"
    /\ UNCHANGED <<setup, signing_keys, tweak_eff, nonces, package, shares, sig>>

\* Wrong: the shares keep the sign of the internal key.
TweakKeysNotShares ==
    /\ phase = "prepared"
    /\ phase' = "tweaked"
    /\ signing_keys' = [signing_keys EXCEPT !.pubkeys.verifying_key = XOnly(q_raw)]
    /\ tweak_eff' = IF HasOddY(q_raw) THEN Neg(tweak) ELSE tweak
    /\ UNCHANGED <<setup, nonces, package, shares, sig>>

\* The tweaked key, and the shares with its sign.  The commitments to the
\* shares in the public key package stay what they were.
TweakKeys ==
    /\ phase = "prepared"
    /\ phase' = "tweaked"
    /\ signing_keys' =
          [shares  |-> [i \in Identifier |->
                          [keys.shares[i] EXCEPT !.signing_share =
                              IF HasOddY(q_raw) THEN Neg(@) ELSE @]],
           pubkeys |-> [keys.pubkeys EXCEPT !.verifying_key = XOnly(q_raw)]]
    /\ tweak_eff' = IF HasOddY(q_raw) THEN Neg(tweak) ELSE tweak
    /\ UNCHANGED <<setup, nonces, package, shares, sig>>

\* Signing round 1, and the package.
CommitNonces ==
    /\ phase = "tweaked"
    /\ phase' = "sign"
    /\ nonces' \in Nonces
    /\ \E message \in Messages :
          package' = [message |-> message,
                      signing_commitments |->
                          [i \in signer_ids |-> Commitment(nonces'[i])]]
    /\ UNCHANGED <<setup, signing_keys, tweak_eff, shares, sig>>

\* Signing round 2, in the order of the identifiers.
SignShare(i) ==
    LET result == SignResult(package, nonces[i], signing_keys.shares[i], signing_keys.pubkeys)
    IN  /\ phase = "sign"
        /\ i \notin DOMAIN shares /\ \A j \in signer_ids : j < i => j \in DOMAIN shares
        /\ IF result = "Ok"
           THEN /\ shares' = Insert(shares, i, Sign(package, nonces[i], signing_keys.shares[i],
                                                    signing_keys.pubkeys))
                /\ UNCHANGED phase
           ELSE /\ phase' = IF result = "Panic" THEN "panicked" ELSE "failed"
                /\ UNCHANGED shares
        /\ UNCHANGED <<setup, signing_keys, tweak_eff, nonces, package, sig>>

\* aggregate, and the coordinator's share for the tweak.
Finish ==
    /\ phase = "sign"
    /\ DOMAIN shares = signer_ids
    /\ phase' = IF AggregateResult(package, shares) = "Ok" THEN "check" ELSE "failed"
    /\ sig' = LET s == Aggregate(shares)
                  c == Hsig(XOnly(signing_keys.pubkeys.verifying_key), XOnly(s.R),
                            package.message)
              IN  [s EXCEPT !.z = Add(@, Mul(c, tweak_eff))]
    /\ UNCHANGED <<setup, signing_keys, tweak_eff, nonces, package, shares>>

\* Wrong: the signature is not verified before it is printed.
PrintUnchecked ==
    /\ phase = "check"
    /\ phase' = IF SignatureToBytesPanics(sig) THEN "panicked" ELSE "printed"
    /\ UNCHANGED <<setup, signing_keys, tweak_eff, nonces, package, shares, sig>>

\* The bytes, the assertion that they verify, and the transaction with them.
PrintTransaction ==
    /\ phase = "check"
    /\ phase' = IF ~ SignatureToBytesPanics(sig)
                   /\ Bip340VerifyBytes(SignatureToBytes(sig), package.message,
                                        XOnly(signing_keys.pubkeys.verifying_key))
                THEN "printed" ELSE "panicked"
    /\ UNCHANGED <<setup, signing_keys, tweak_eff, nonces, package, shares, sig>>

Terminated == phase \in {"printed", "failed", "panicked"} /\ UNCHANGED vars

Next ==
    \/ Prepare \/ TweakKeys \/ CommitNonces
    \/ \E i \in signer_ids : SignShare(i)
    \/ Finish \/ PrintTransaction \/ Terminated

Spec == Init /\ [][Next]_vars

-----------------------------------------------------------------------------
(* Properties.                                                             *)

\* The types of the variables.
TypeOK ==
    /\ phase \in {"start", "prepared", "tweaked", "sign", "check",
                  "printed", "failed", "panicked"}
    /\ tweak \in Scalar /\ tweak_eff \in Scalar
    /\ \A i \in Identifier : signing_keys.shares[i].signing_share \in Scalar
    /\ signing_keys.pubkeys.verifying_key \in Scalar
    /\ package = EmptyMap \/ package \in SigningPackages
    /\ DOMAIN shares \subseteq signer_ids
    /\ \A i \in DOMAIN shares : shares[i] \in SignatureShares
    /\ sig = EmptyMap \/ sig \in [R : Scalar, z : Scalar]

\* A transaction that is printed spends the output of the address: its witness
\* verifies under the output key the bitcoin crate makes of the internal key,
\* of which only the x coordinate is known there.
PrintedSpendsAddress ==
    phase = "printed" =>
        Bip340VerifyBytes(SignatureToBytes(sig), package.message,
                          OutputKey(XOnly(keys.pubkeys.verifying_key), tweak))

\* The dealt shares of signers 1 and 2 interpolate to the dealt key, as they do
\* when its threshold is at most two.
TwoDetermineKey ==
    Sum([i \in signer_ids |-> Mul(Lagrange(i, signer_ids), keys.shares[i].signing_share)])
        = keys.pubkeys.verifying_key

\* For a key two signers may use, the assertion before the transaction is printed
\* never fires: whichever of the internal key, the tweaked key and the nonce have
\* an odd y, the shares and the coordinator's own add up.  The demo only stops at
\* a point that is the identity, or, before it signs, for a fee that exceeds the
\* amount.  For a key of a higher threshold each call succeeds and the assertion
\* always fires.
TwoSignersSpend ==
    /\ phase = "panicked" =>
          \/ keys.pubkeys.verifying_key = 0
          \/ q_raw = 0
          \/ package # EmptyMap /\ AggregateNonce(package, signing_keys.pubkeys) = 0
          \/ ~ TwoDetermineKey
    /\ phase = "failed" => package = EmptyMap
    /\ phase = "printed" => TwoDetermineKey

\* The rounds of the identifiable abort, were they run on the demo's shares.
Named ==
    LET msgs == [i \in signer_ids |-> IA1Message(package, shares[i], signing_keys.shares[i],
                                                 signing_keys.pubkeys, shares)]
    IN  Decide(package, signing_keys.pubkeys, shares, msgs,
               [i \in signer_ids |-> IA2Decision(package, msgs, signing_keys.shares[i])])

\* The tweak takes the identifiable abort with it for half of the keys: when
\* the tweaked key had an odd y, decide names every signer with a share that is
\* not zero, although all have followed the code, because its commitment is
\* still to the share before the negation.  Otherwise it names nobody.
NegationNamesSigners ==
    phase = "check" =>
        Named = IF HasOddY(q_raw)
                THEN {i \in signer_ids : keys.shares[i].signing_share # 0} ELSE {}

\* bip340_verify_bytes accepts 64 bytes exactly if they are the encoding of a
\* signature verify accepts for the same key: of R and -R, and of the numbers
\* that are the same scalar, one passes.
VerifiersAgree ==
    \A r_x \in XCoordinates \cup {Q}, s \in 0..(2 * Q - 1), m \in Messages :
        LET vk == signing_keys.pubkeys.verifying_key
        IN  vk # 0 =>
            (Bip340VerifyBytes([r_x |-> r_x, s |-> s], m, XOnly(vk)) <=>
                \E signature \in [R : Scalar \ {0}, z : Scalar] :
                    /\ Verify(signature, m, signing_keys.pubkeys)
                    /\ SignatureToBytes(signature) = [r_x |-> r_x, s |-> s])
=============================================================================
