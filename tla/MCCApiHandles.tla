--------------------------- MODULE MCCApiHandles ---------------------------
(***************************************************************************)
(* A small instance of CApiHandles: chunks of two bytes, memory of a few   *)
(* addresses, and blobs that are genuine, cut, damaged, of another key, of *)
(* another format or spliced.                                              *)
(***************************************************************************)
EXTENDS CApiHandles

Bytes2 == {<< >>, <<"a">>, <<"a", "b">>, <<"a", "b", "c">>}
CutLast(b) == SubSeq(b, 1, Len(b) - 1)
Damage(b) == [b EXCEPT ![Len(b)] = BadCell]

Texts == {<< >>, <<"a", "b", "c">>}
BoxBlobs ==
    {Box!seal(pair, "seed", "header", m) : pair \in {"key", "other"}, m \in Texts}
        \cup {Box512!seal(pair, "seed", "header", m) : pair \in {"key", "other"}, m \in Texts}

\* A KEM ciphertext and records, all genuine, of different boxes.
Records(kem) == SealAll(Box!stream_key("seed", kem, "key", Box!BOX_VERSION), "header", <<"a">>)
WithKem(kem, records) == <<VersionCell(Box!BOX_VERSION), kem>> \o records
Spliced == WithKem(Box!KemCell("key", "seed", TRUE), Records(Box!KemCell("key", "seed2", TRUE)))
ShortSeed == WithKem(Box!KemCell("key", "seed", FALSE), Records(Box!KemCell("key", "seed", FALSE)))
Plain == {SealAll(k, "header", m) : k \in {"key", "other"}, m \in {<<"a">>, <<"a", "b", "c">>}}
Boxes == {SecretboxSeal(k, "nonce", m) : k \in {"key", "other"}, m \in {<< >>, <<"a", "b">>}}
Streams == {StreamEncrypt("key", "iv", <<"a">>)}

MCBlobs ==
    LET good == BoxBlobs \cup {Spliced, ShortSeed} \cup Boxes \cup Streams
    IN  good \cup {CutLast(b) : b \in Boxes} \cup {Damage(b) : b \in Boxes}
            \cup {CutLast(Box!seal("key", "seed", "header", <<"a">>)), << >>}

MCFiles ==
    Plain \cup {CutLast(b) : b \in Plain} \cup {Damage(b) : b \in Plain}
        \cup {b \o <<BadCell>> : b \in Plain}

MCHeaders ==
    {PassphraseHeader("salt"),
     [PassphraseHeader("salt") EXCEPT ![1] = <<"container", 2>>],
     [PassphraseHeader("salt") EXCEPT ![2] = <<"format", <<2, "argon2id13">>>>],
     [PassphraseHeader("salt") EXCEPT ![3] = <<"cost", "Sensitive">>]}
=============================================================================
