---------------------------- MODULE SealedForms ----------------------------
(***************************************************************************)
(* The sealed forms of dstu-core's easy API, as sequences of fields: the   *)
(* sealed boxes of the three sizes, the passphrase file                    *)
(* (passphrase_file.rs), secretbox and stream.  A box and a passphrase     *)
(* file are a stream file behind a prefix that carries what its key is     *)
(* derived from.  The key derivations are injective; DSTU 9041 gives its   *)
(* seed back only to the key pair it was encrypted to.                     *)
(***************************************************************************)
EXTENDS StreamFile, Integers

CONSTANTS
    USIZE_MAX,      \* usize::MAX
    Garbage         \* what a decryption without a check gives

Box == INSTANCE SealedBox WITH KDF_LABEL <- "cryptbox"
Box384 == INSTANCE SealedBox WITH KDF_LABEL <- "cryptbx3"
Box512 == INSTANCE SealedBox WITH KDF_LABEL <- "cryptbx5"

FILE_PREFIX == Box!FILE_PREFIX
RECORD_OVERHEAD == Box!RECORD_OVERHEAD
KEM_PREFIX == Box!KEM_PREFIX
Ok(v) == Box!Ok(v)
Err(e) == Box!Err(e)

-----------------------------------------------------------------------------
(***************************************************************************)
(* The passphrase file: type, version and KDF, costs, salt, stream file.   *)
(***************************************************************************)
CONTAINER == 80     \* 0x50
FORMAT == <<1, "argon2id13">>
STRENGTH == "Moderate"
HEADER_LEN == 4

PassphraseKey(passphrase, salt) == [passphrase |-> passphrase, salt |-> salt]

PassphraseHeader(salt) ==
    <<<<"container", CONTAINER>>, <<"format", FORMAT>>, <<"cost", STRENGTH>>, <<"salt", salt>>>>

PassphraseSealStream(passphrase, salt, header) ==
    IF passphrase = << >> THEN Err("EmptyPassphrase")
    ELSE Ok([enc |-> StreamInit(PassphraseKey(passphrase, salt), header),
             prefix |-> PassphraseHeader(salt) \o Prefix(header)])

\* Header::parse: the costs are checked before Argon2 ever runs on them.
HeaderParse(h) ==
    IF h[1] # <<"container", CONTAINER>> THEN Err("NotPassphraseFile")
    ELSE IF h[2] # <<"format", FORMAT>> THEN Err("UnsupportedFormat")
    ELSE IF h[3] # <<"cost", STRENGTH>> THEN Err("UnsupportedParams")
    ELSE Ok(h[4])

PassphraseOpenStream(h, passphrase) ==
    IF HeaderParse(h).res # "Ok" THEN HeaderParse(h)
    ELSE IF passphrase = << >> THEN Err("EmptyPassphrase")
    ELSE Ok(NewDecryptor(PassphraseKey(passphrase, HeaderParse(h).val)))

-----------------------------------------------------------------------------
(***************************************************************************)
(* crypto_secretbox: version, nonce, ciphertext and auth tag, where the    *)
(* tag covers the version, the nonce and the length; crypto_stream: an IV  *)
(* and as many bytes as the plaintext has, with nothing to check.          *)
(***************************************************************************)
SECRETBOX_VERSION == 2
SECRETBOX_OVERHEAD == 3
STREAM_OVERHEAD == 1

Covered(key, nonce, plaintext) == [key |-> key, nonce |-> nonce, plaintext |-> plaintext]

BoxedCells(c) == [i \in 1 .. Len(c.plaintext) |-> <<"boxed", c, i>>]

SecretboxSeal(key, nonce, plaintext) ==
    LET c == Covered(key, nonce, plaintext)
    IN  <<VersionCell(SECRETBOX_VERSION), <<"nonce", nonce>>>>
            \o BoxedCells(c) \o << <<"mac", c>> >>

SecretboxOpen(key, sealed) ==
    LET body == SubSeq(sealed, 3, Len(sealed) - 1)
        last == sealed[Len(sealed)]
    IN  IF Len(sealed) < SECRETBOX_OVERHEAD THEN Err("Truncated")
        ELSE IF sealed[1] # VersionCell(SECRETBOX_VERSION) THEN Err("UnsupportedVersion")
        ELSE IF /\ last[1] = "mac" /\ sealed[2][1] = "nonce"
                /\ last[2] = Covered(key, sealed[2][2], last[2].plaintext)
                /\ body = BoxedCells(last[2])
        THEN Ok(last[2].plaintext)
        ELSE Err("TagMismatch")

StreamEncrypt(key, iv, plaintext) ==
    <<<<"iv", iv>>>> \o [i \in 1 .. Len(plaintext) |-> <<"stream", key, iv, i, plaintext[i]>>]

\* A byte decrypts to itself under its own key, IV and position only.
StreamDecrypt(key, sealed) ==
    IF Len(sealed) < STREAM_OVERHEAD THEN Err("Truncated")
    ELSE Ok([i \in 1 .. Len(sealed) - STREAM_OVERHEAD |->
               LET b == sealed[i + STREAM_OVERHEAD]
               IN  IF b[1] = "stream" /\ sealed[1] = <<"iv", b[3]>> /\ b[2] = key /\ b[4] = i
                   THEN b[5] ELSE Garbage])
=============================================================================
