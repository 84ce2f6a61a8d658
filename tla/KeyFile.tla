------------------------------- MODULE KeyFile -------------------------------
(***************************************************************************)
(* The key file (src/src/keygen.rs) and the programs that share it: keygen *)
(* writes a fresh key, generateaddress reads the file twice, spenddemo     *)
(* once.  Nothing locks the file.  fs::write truncates it and then writes  *)
(* the text in one call; a program may be interrupted between any two of   *)
(* its calls.                                                              *)
(*                                                                         *)
(* The dealt packages are not looked at here; a dealing is the key dealt.  *)
(***************************************************************************)
EXTENDS Ciphersuite

CONSTANTS
    SCHEME_ID,      \* C::SCHEME_ID of the programs
    Keygens,        \* the runs of keygen
    Addresses,      \* the runs of generateaddress
    Spends,         \* the runs of spenddemo, up to the dealing
    Arguments,      \* what keygen is called with: max_signers and min_signers
    Secrets,        \* the secret keys drawn
    FixedLength,    \* the characters of the YAML text that are not digits of these
    Mixed,          \* the numbers that may be read in a text two keygens have written
    InitialFiles,   \* what the file holds at first, perhaps edited by hand
    NoFile,         \* nothing: no file, no key in memory
    Garbled         \* a text no key is read from: empty, cut off, overwritten

ASSUME RunsAssumption ==
    Keygens \cap Addresses = {} /\ Keygens \cap Spends = {} /\ Addresses \cap Spends = {}

VARIABLES
    file,      \* the text of the file: NoFile, Garbled, or a StoredKey
    length,    \* the number of characters in the file
    newlines,  \* how many of the last of them are newlines
    last,      \* the keygen that changed the file last, or NoFile
    pc,        \* how far each run has come
    key,       \* the StoredKey each run has in memory
    dealt      \* the key each run has dealt

vars == <<file, length, newlines, last, pc, key, dealt>>

Programs == Keygens \cup Addresses \cup Spends

MaxU16 == 65535

U16 == 0..MaxU16

StoredKeys ==
    [scheme        : STRING,
     max_signers   : U16,
     min_signers   : U16,
     secret_key    : Scalar \cup {Garbled},
     verifying_key : Scalar]

\* What the dealer is called with, and the verifying key it returns.
DealerKeys ==
    [max_signers   : U16,
     min_signers   : U16,
     secret_key    : Scalar,
     verifying_key : Scalar]

ASSUME ArgumentsAssumption ==
    /\ Arguments \subseteq [max_signers : U16, min_signers : U16]
    /\ Secrets \subseteq Scalar
    /\ FixedLength \in Nat
    /\ Mixed \subseteq U16
    /\ \A a \in Arguments : {a.max_signers, a.min_signers} \subseteq Mixed

ASSUME FilesAssumption ==
    /\ SCHEME_ID \in STRING
    /\ InitialFiles \subseteq StoredKeys \cup {NoFile}
    /\ NoFile \notin StoredKeys \cup DealerKeys
    /\ Garbled \notin StoredKeys \cup Scalar \cup {NoFile}
    /\ NoFile \notin Keygens

-----------------------------------------------------------------------------

\* Decimal digits of a u16.
Digits(n) ==
    LET atLeast(p) == IF n >= p THEN 1 ELSE 0
    IN  1 + atLeast(10) + atLeast(100) + atLeast(1000) + atLeast(10000)

\* The length of the YAML text of a key that is written: the scheme is always the
\* same, and the hexadecimals have a fixed number of digits.
TextLength(k) == FixedLength + Digits(k.max_signers) + Digits(k.min_signers)

\* The greater of two lengths.
Longer(m, n) == IF m > n THEN m ELSE n

\* Wrong: the secret key is normalised and the verifying key is not.
StoredKeyRaw(secret_key, max_signers, min_signers) ==
    [scheme |-> SCHEME_ID, max_signers |-> max_signers, min_signers |-> min_signers,
     secret_key |-> NormalizeKeygen(secret_key, secret_key).sk, verifying_key |-> secret_key]

\* The StoredKey write_key_yaml makes.
StoredKey(secret_key, max_signers, min_signers) ==
    LET norm == NormalizeKeygen(secret_key, secret_key)
    IN  [scheme        |-> SCHEME_ID,
         max_signers   |-> max_signers,
         min_signers   |-> min_signers,
         secret_key    |-> norm.sk,
         verifying_key |-> norm.vk]

ValidateStoredKey(stored_key) ==
    /\ stored_key.scheme = SCHEME_ID
    /\ stored_key.min_signers # 0
    /\ stored_key.max_signers # 0
    /\ stored_key.min_signers <= stored_key.max_signers
    /\ stored_key.secret_key \in Scalar
    /\ NormalizeKeygen(stored_key.secret_key, stored_key.secret_key).vk
           = stored_key.verifying_key

\* Whether read_key_yaml returns the key in the text.
Readable(text) == text \notin {NoFile, Garbled} /\ ValidateStoredKey(text)

\* The key generate_with_dealer_from_secret deals for a StoredKey.
DealtKey(k) ==
    LET norm == NormalizeKeygen(k.secret_key, k.secret_key)
    IN  [max_signers   |-> k.max_signers,
         min_signers   |-> k.min_signers,
         secret_key    |-> norm.sk,
         verifying_key |-> norm.vk]

\* The loops of the dealer come to no end with as many signers as there are
\* identifiers: i + 1 overflows, or wraps to a signer 0 (DealerLoops).
DealerPanics(k) == k.max_signers = MaxU16

\* Whether generate_with_dealer_from_key_yaml deals: the key is read, the dealer
\* returns, and the key dealt is the one stored.
Deals(text) ==
    /\ Readable(text)
    /\ ~ DealerPanics(text)
    /\ DealtKey(text).verifying_key = text.verifying_key

\* How it ends.
DealOutcome(text) ==
    CASE Deals(text)                           -> "done"
      [] Readable(text) /\ DealerPanics(text) -> "panicked"
      [] OTHER                                 -> "failed"

-----------------------------------------------------------------------------

Init ==
    /\ file \in InitialFiles
    /\ length = IF file = NoFile THEN 0 ELSE TextLength(file)
    /\ newlines = IF file = NoFile THEN 0 ELSE 1
    /\ last = NoFile
    /\ pc = [p \in Programs |-> "start"]
    /\ key = [p \in Programs |-> NoFile]
    /\ dealt = [p \in Programs |-> NoFile]

Goto(p, from, to) == pc[p] = from /\ pc' = [pc EXCEPT ![p] = to]

filevars == <<file, length, newlines, last>>

\* Wrong: the file is opened for writing before the arguments are looked at.
StartKeygenOpensFirst(p) ==
    \E secret_key \in Secrets, a \in Arguments :
        /\ Goto(p, "start", IF a.min_signers <= a.max_signers THEN "open" ELSE "refused")
        /\ key' = [key EXCEPT ![p] = StoredKey(secret_key, a.max_signers, a.min_signers)]
        /\ file' = Garbled /\ length' = 0 /\ newlines' = 0 /\ last' = p
        /\ UNCHANGED dealt

\* A secret key is drawn; the assertion of write_key_yaml on the thresholds;
\* the text to be written.
StartKeygen(p) ==
    \E secret_key \in Secrets, a \in Arguments :
        /\ Goto(p, "start", IF a.min_signers <= a.max_signers THEN "open" ELSE "refused")
        /\ key' = IF a.min_signers <= a.max_signers
                  THEN [key EXCEPT ![p] = StoredKey(secret_key, a.max_signers, a.min_signers)]
                  ELSE key
        /\ UNCHANGED <<filevars, dealt>>

\* fs::write opens and truncates the file ...
OpenFile(p) ==
    /\ Goto(p, "open", "write")
    /\ file' = Garbled
    /\ length' = 0 /\ newlines' = 0
    /\ last' = p
    /\ UNCHANGED <<key, dealt>>

\* ... and writes from its start.  What another keygen has written in between
\* is overwritten as far as the text goes.  The rest of a longer one remains, and
\* the key is read only if that is nothing but newlines.
WriteText(p) ==
    LET size  == TextLength(key[p])
        blank == length <= size + newlines
    IN  /\ Goto(p, "write", "deal")
        /\ file' = IF blank THEN key[p] ELSE Garbled
        /\ length' = Longer(length, size)
        /\ newlines' = IF blank THEN Longer(length, size) - size + 1 ELSE newlines
        /\ last' = p
        /\ UNCHANGED <<key, dealt>>

\* keygen deals the key it has in memory.
DealWritten(p) ==
    /\ Goto(p, "deal", IF DealerPanics(key[p]) THEN "panicked" ELSE "done")
    /\ dealt' = IF DealerPanics(key[p]) THEN dealt ELSE [dealt EXCEPT ![p] = DealtKey(key[p])]
    /\ UNCHANGED <<filevars, key>>

\* The run is killed before it writes or before it deals ...
Kill(p) ==
    /\ Goto(p, "open", "killed") \/ Goto(p, "deal", "killed")
    /\ UNCHANGED <<filevars, key, dealt>>

WithThresholds(k, max_signers, min_signers) ==
    [k EXCEPT !.max_signers = max_signers, !.min_signers = min_signers]

\* The keys that may be read in the file when the start of a text is written over
\* longer ones: the hexadecimals are those of one keygen, or agree with them, and
\* the digits of the thresholds come from several ("2" over "100" is 200).  All
\* that can be left over between two fields is a blank line.
Hybrids ==
    LET writers == {q \in Keygens : key[q] # NoFile /\ pc[q] # "open"}
    IN  {k \in {WithThresholds(key[q], max, min) : q \in writers, max \in Mixed, min \in Mixed} :
            TextLength(k) + newlines <= length + 1}

\* What may be in the file when p has written the first m characters of its text.
\* One that lacks the final newline only is still read.
TornFiles(p, m) ==
    CASE m = 0 -> {file}
      [] m = TextLength(key[p]) - 1 -> {IF length <= m + newlines THEN key[p] ELSE Garbled}
      [] OTHER -> {Garbled} \cup IF length > m + newlines THEN Hybrids ELSE {}

\* ... or in the write, or the write fails, with a part of the text written.  The
\* newlines inside a text lie further back than two texts differ in length.
Tear(p) ==
    /\ Goto(p, "write", "torn")
    /\ \E m \in 0..(TextLength(key[p]) - 1) :
           /\ file' \in TornFiles(p, m)
           /\ length' = Longer(length, m)
           /\ newlines' = IF length <= m + newlines THEN Longer(length, m) - m ELSE newlines
           /\ last' = IF m = 0 THEN last ELSE p
    /\ UNCHANGED <<key, dealt>>

\* Wrong: what does not parse is taken for a key.
ReadKeyUnchecked(p) ==
    /\ Goto(p, "start", IF file # NoFile THEN "deal" ELSE "failed")
    /\ key' = IF file # NoFile THEN [key EXCEPT ![p] = file] ELSE key
    /\ UNCHANGED <<filevars, dealt>>

\* generateaddress reads the key it prints ...
ReadKey(p) ==
    /\ Goto(p, "start", IF Readable(file) THEN "deal" ELSE "failed")
    /\ key' = IF Readable(file) THEN [key EXCEPT ![p] = file] ELSE key
    /\ UNCHANGED <<filevars, dealt>>

\* Wrong: a program that has read the file deals the key it has read.
DealFromMemory(p, from) ==
    LET found == IF key[p] = NoFile THEN file ELSE key[p]
    IN  /\ Goto(p, from, DealOutcome(found))
        /\ dealt' = IF Deals(found) THEN [dealt EXCEPT ![p] = DealtKey(found)] ELSE dealt
        /\ UNCHANGED <<filevars, key>>

\* ... and generate_with_dealer_from_key_yaml reads the file again.
DealFromFile(p, from) ==
    /\ Goto(p, from, DealOutcome(file))
    /\ dealt' = IF Deals(file) THEN [dealt EXCEPT ![p] = DealtKey(file)] ELSE dealt
    /\ UNCHANGED <<filevars, key>>

Ended == {"done", "refused", "killed", "torn", "panicked", "failed"}

Terminated == (\A p \in Programs : pc[p] \in Ended) /\ UNCHANGED vars

Next ==
    \/ \E p \in Keygens : \/ StartKeygen(p) \/ OpenFile(p) \/ WriteText(p)
                          \/ DealWritten(p) \/ Kill(p) \/ Tear(p)
    \/ \E p \in Addresses : ReadKey(p) \/ DealFromFile(p, "deal")
    \/ \E p \in Spends : DealFromFile(p, "start")
    \/ Terminated

Spec == Init /\ [][Next]_vars

-----------------------------------------------------------------------------
(* Properties.                                                             *)

\* The types of the variables.
TypeOK ==
    /\ file \in StoredKeys \cup {NoFile, Garbled}
    /\ length \in Nat /\ newlines \in 0..length
    /\ last \in Keygens \cup {NoFile}
    /\ pc \in [Programs -> Ended \cup {"start", "open", "write", "deal"}]
    /\ key \in [Programs -> StoredKeys \cup {NoFile}]
    /\ dealt \in [Programs -> DealerKeys \cup {NoFile}]

\* After the text of p there is more in the file than newlines: it has not covered
\* what another keygen has written of a longer one.
OverwritesLonger(p) ==
    /\ TextLength(key[p]) + newlines < length
    /\ \E q \in Keygens \ {p} :
           /\ pc[q] \in {"torn", "deal", "killed", "panicked", "done"}
           /\ key[q] # NoFile
           /\ length <= TextLength(key[q])

\* The key dealt from the file is the one p has dealt and printed.
ReadsBack(p) == Deals(file) /\ DealtKey(file) = dealt[p]

\* A keygen that has ended well, and was the last to write, has left a file from
\* which the same key is dealt that it has dealt and printed: the thresholds are
\* in order, and the key, which is normalised when it is written, stays the same
\* when it is normalised again.  One exception is a write over the text of another
\* keygen, whole or torn, that is longer.  The other is a threshold of zero, which
\* write_key_yaml accepts and validate_stored_key does not: no program can deal
\* from that file, although keygen has reported success.
WrittenKeyIsReadable ==
    \A p \in Keygens :
        pc[p] = "done" /\ last = p =>
            \/ OverwritesLonger(p)
            \/ IF key[p].min_signers = 0 THEN ~ Readable(file) ELSE ReadsBack(p)

\* The text of the file is lost only while a keygen writes it, when one has been
\* interrupted doing so, or when two have written at a time: a run that was
\* refused its arguments or has not come to the write leaves the key alone.
LostOnlyInWrite ==
    file = Garbled =>
        \/ \E p \in Keygens : pc[p] \in {"write", "torn"}
        \/ \E p \in Keygens : /\ pc[p] \in {"deal", "killed", "panicked", "done"}
                              /\ OverwritesLonger(p)

\* A StoredKey that deals is a key to deal.
ValidKeys ==
    {k \in DealerKeys : /\ k.min_signers \in 1..k.max_signers
                        /\ k.max_signers # MaxU16
                        /\ NormalizeKeygen(k.secret_key, k.secret_key).vk = k.verifying_key}

Store == INSTANCE KeyStore WITH
    DealerKeys <- ValidKeys,
    Dealers    <- Addresses \cup Spends,
    None       <- NoFile,
    store      <- IF Deals(file) THEN DealtKey(file) ELSE NoFile,
    dealt      <- [p \in Addresses \cup Spends |-> dealt[p]]

\* Whatever keygen runs do to the file at the same time, and whatever was in it
\* before, a program that deals from it gets a key that the file holds at the
\* moment it deals, with thresholds and a verifying key that fit its secret.
ImplementsKeyStore == Store!Spec
=============================================================================
