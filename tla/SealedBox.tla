----------------------------- MODULE SealedBox -----------------------------
(***************************************************************************)
(* The sealed box of crypto_box.rs; crypto_box384.rs and crypto_box512.rs  *)
(* are the same code with another KDF_LABEL and another KEM.  A box is a   *)
(* format version, a KEM ciphertext and a stream file whose key is derived *)
(* from the seed inside the KEM ciphertext.  A key pair is one value; full *)
(* is bit_len = L_MAX_P, which encapsulate always encrypts and another     *)
(* implementation need not.                                                *)
(***************************************************************************)
EXTENDS StreamFile, Integers

CONSTANTS
    KDF_LABEL,      \* tells the stream keys of the three sizes apart
    USIZE_MAX,      \* usize::MAX, in the lengths sealed_len computes with
    Garbage         \* a seed that decrypting another key's ciphertext may give

BOX_VERSION == 3

\* The lengths of the format, in fields.
KEM_PREFIX == 2         \* OPEN_STREAM_PREFIX_BYTES: version and KEM ciphertext
FILE_PREFIX == 2        \* FILE_PREFIX_BYTES: version and header
RECORD_OVERHEAD == 3    \* RECORD_OVERHEAD_BYTES: tag, length and auth tag
MIN_SEALED_LEN == KEM_PREFIX + FILE_PREFIX + RECORD_OVERHEAD

Ok(v) == [res |-> "Ok", val |-> v]
Err(e) == [res |-> e, val |-> << >>]

KemCell(pair, seed, full) == <<"kem", [pair |-> pair, seed |-> seed, full |-> full]>>

stream_key(seed, kem, pair, version) ==
    [label |-> KDF_LABEL, seed |-> seed, kem |-> kem, pair |-> pair, version |-> version]

encapsulate(pair, seed) ==
    LET kem == KemCell(pair, seed, TRUE)
    IN  [kem |-> kem, key |-> stream_key(seed, kem, pair, BOX_VERSION)]

\* Mutant: a recovered seed of any bit length is taken.
decapsulateAnyLength(kem, pair) ==
    IF kem[1] = "kem" /\ kem[2].pair = pair
    THEN {Ok(stream_key(kem[2].seed, kem, pair, BOX_VERSION))}
    ELSE {Err("InvalidCiphertext"), Ok(stream_key(Garbage, kem, pair, BOX_VERSION))}

\* A ciphertext of another key pair fails its checks or gives a garbage seed.
decapsulate(kem, pair) ==
    IF kem[1] = "kem" /\ kem[2].pair = pair
    THEN IF kem[2].full
         THEN {Ok(stream_key(kem[2].seed, kem, pair, BOX_VERSION))}
         ELSE {Err("InvalidCiphertext")}
    ELSE {Err("InvalidCiphertext"), Ok(stream_key(Garbage, kem, pair, BOX_VERSION))}

seal_stream(pair, seed, header) ==
    LET e == encapsulate(pair, seed)
    IN  [enc |-> StreamInit(e.key, header),
         prefix |-> <<VersionCell(BOX_VERSION), e.kem>> \o Prefix(header)]

open_stream(prefix, pair) ==
    UNION { IF v # BOX_VERSION THEN {Err("UnsupportedVersion")}
            ELSE { IF k.res = "Ok" THEN Ok(NewDecryptor(k.val)) ELSE k :
                     k \in decapsulate(prefix[2], pair) } :
            v \in VersionsOf(prefix[1]) }

\* Mutant: sealed_len counts no record for an empty message.
sealed_lenNoEmptyRecord(n) ==
    LET records == (n + CHUNK_BYTES - 1) \div CHUNK_BYTES
    IN  Ok(records * RECORD_OVERHEAD + n + KEM_PREFIX + FILE_PREFIX)

\* Every step is checked; none of them can pass usize::MAX unnoticed.
sealed_len(n) ==
    LET records == IF n = 0 THEN 1 ELSE (n + CHUNK_BYTES - 1) \div CHUNK_BYTES
        len == records * RECORD_OVERHEAD + n + KEM_PREFIX + FILE_PREFIX
    IN  IF len > USIZE_MAX THEN Err("None") ELSE Ok(len)

seal(pair, seed, header, message) ==
    LET e == encapsulate(pair, seed)
    IN  <<VersionCell(BOX_VERSION), e.kem>> \o SealAll(e.key, header, message)

\* open_all: feed what next_len asks for while the input has it, then finish.
RECURSIVE open_all(_, _, _)
open_all(dec, file, plaintext) ==
    IF Len(file) < NextLen(dec)
    THEN LET r == Finish(dec, TRUE)
         IN  {IF r.res = "Ok" THEN Ok(plaintext \o r.out) ELSE Err(r.res)}
    ELSE UNION { IF r.res # "Ok" THEN {Err(r.res)}
                 ELSE open_all(r.dec, SubSeq(file, NextLen(dec) + 1, Len(file)),
                               plaintext \o r.out) :
                 r \in Feed(dec, SubSeq(file, 1, NextLen(dec)), TRUE) }

\* open, with its own order of checks: version before length.
open(sealed, pair) ==
    IF sealed = << >> THEN {Err("Truncated")}
    ELSE IF BOX_VERSION \notin VersionsOf(sealed[1]) THEN {Err("UnsupportedVersion")}
    ELSE IF Len(sealed) < MIN_SEALED_LEN THEN {Err("Truncated")}
    ELSE UNION { IF d.res # "Ok" THEN {d}
                 ELSE { IF r.res \in {"Ok", "Truncated"} THEN r ELSE Err("InvalidCiphertext") :
                          r \in open_all(d.val, SubSeq(sealed, KEM_PREFIX + 1, Len(sealed)), << >>) } :
                 d \in open_stream(SubSeq(sealed, 1, KEM_PREFIX), pair) }
=============================================================================
