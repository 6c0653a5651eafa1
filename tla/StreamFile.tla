----------------------------- MODULE StreamFile -----------------------------
(***************************************************************************)
(* The stream-file codec of crypto_secretstream/file.rs: FileEncryptor,    *)
(* FileDecryptor and the in-memory writer seal_all, as operators on their  *)
(* state.  A file is a sequence of cells, one per field of the format: the *)
(* version byte, the header, and for each record a tag byte, a length,     *)
(* every ciphertext byte and the auth tag.  A cell read where a field of   *)
(* another kind is expected shows the reader an arbitrary value.           *)
(***************************************************************************)
EXTENDS SecretStream

CONSTANTS
    CHUNK_BYTES,    \* plaintext bytes in every non-final record
    NoHeader,       \* a header that no stream was started with
    Wiped           \* a zeroized key

ASSUME ChunkBytesAssumption == CHUNK_BYTES \in Nat \ {0}

FORMAT_VERSION == 2
Versions == {FORMAT_VERSION, 3}
\* Declared lengths up to one more than any record may have.
Lengths == 0 .. CHUNK_BYTES + 1

VersionCell(v) == <<"version", v>>
HeaderCell(h) == <<"header", h>>
TagCell(t) == <<"tag", t>>
LenCell(n) == <<"len", n>>
AuthCell(a) == <<"auth", a>>
CiphertextCells(c) == [i \in 1 .. Len(c.plaintext) |-> <<"ciphertext", c, i>>]
\* A ciphertext byte or an auth tag with some bit changed.
BadCell == <<"bad">>

VersionsOf(cell) == IF cell[1] = "version" THEN {cell[2]} ELSE Versions
HeadersOf(cell) == IF cell[1] = "header" THEN {cell[2]} ELSE {NoHeader}
TagBytesOf(cell) == IF cell[1] = "tag" THEN {cell[2]} ELSE TagByte
LengthsOf(cell) == IF cell[1] = "len" THEN {cell[2]} ELSE Lengths

-----------------------------------------------------------------------------
(***************************************************************************)
(* FileEncryptor.  Its only state is a PushState.                          *)
(***************************************************************************)
Prefix(header) == <<VersionCell(FORMAT_VERSION), HeaderCell(header)>>

\* The checks of seal, then those of push; outOk is out.len() >= record_len.
SealResult(push, plaintext, outOk) ==
    IF push.finalized THEN "Finished"
    ELSE IF Len(plaintext) > CHUNK_BYTES \/ ~outOk THEN "InvalidLength"
    ELSE PushResult(push, TRUE)

Record(push, tag, plaintext) ==
    LET c == Chunk(push, tag, plaintext)
    IN  <<TagCell(tag), LenCell(Len(plaintext))>>
            \o CiphertextCells(c.ciphertext) \o <<AuthCell(c.auth)>>

(***************************************************************************)
(* seal_all: while more than CHUNK_BYTES remain, seal a full chunk; seal   *)
(* the rest, possibly a full chunk or nothing, as Final.                   *)
(***************************************************************************)
FullChunks(plaintext) ==
    IF plaintext = << >> THEN 0 ELSE (Len(plaintext) - 1) \div CHUNK_BYTES

\* The push state after n of those chunks, and the file up to there.
Pushed(key, header, n) ==
    LET push[i \in Nat] ==
            IF i = 0 THEN StreamInit(key, header) ELSE Advance(push[i - 1], "Message")
    IN  push[n]

SealedChunks(key, header, plaintext, n) ==
    LET file[i \in Nat] ==
            IF i = 0 THEN Prefix(header)
            ELSE file[i - 1] \o
                 Record(Pushed(key, header, i - 1), "Message",
                        SubSeq(plaintext, (i - 1) * CHUNK_BYTES + 1, i * CHUNK_BYTES))
    IN  file[n]

SealAll(key, header, plaintext) ==
    LET full == FullChunks(plaintext)
    IN  SealedChunks(key, header, plaintext, full) \o
        Record(Pushed(key, header, full), "Final",
               SubSeq(plaintext, full * CHUNK_BYTES + 1, Len(plaintext)))

-----------------------------------------------------------------------------
(***************************************************************************)
(* FileDecryptor.  The state names are those of enum State; tag and len    *)
(* are the fields of RecordBody; pull is <<>> for None; held is            *)
(* final_plaintext[..final_len].                                           *)
(***************************************************************************)
NewDecryptor(key) ==
    [key |-> key, pull |-> << >>, state |-> "Version",
     tag |-> "Message", len |-> 0, held |-> << >>]

\* Mutant: the held plaintext survives the end of the decryptor.
FailKeepsHeld(dec) == [dec EXCEPT !.state = "Done", !.pull = << >>, !.key = Wiped]

Fail(dec) ==
    [dec EXCEPT !.state = "Done", !.pull = << >>, !.key = Wiped, !.held = << >>]

\* In cells: the header, the length and the auth tag are one cell each.
NextLen(dec) ==
    CASE dec.state \in {"Version", "Header", "AfterFinal"} -> 1
      [] dec.state = "RecordHead" -> 2
      [] dec.state = "RecordBody" -> dec.len + 1
      [] dec.state = "Done" -> 0

\* A call's reply: the decryptor after it, the plaintext it wrote, the result.
Reply(dec, plaintext, res) == [dec |-> dec, out |-> plaintext, res |-> res]

StepVersion(dec, input) ==
    { IF v # FORMAT_VERSION
      THEN Reply(dec, << >>, "UnsupportedVersion")
      ELSE Reply([dec EXCEPT !.state = "Header"], << >>, "Ok") :
        v \in VersionsOf(input[1]) }

StepHeader(dec, input) ==
    { Reply([dec EXCEPT !.pull = <<StreamInit(dec.key, h)>>, !.key = Wiped,
                        !.state = "RecordHead"], << >>, "Ok") :
        h \in HeadersOf(input[1]) }

\* Mutant: the exact-length rule is applied to the Final record too.
RecordHeadResultStrict(tagByte, len) ==
    IF len > CHUNK_BYTES THEN "ChunkTooLarge"
    ELSE IF FromByte(tagByte) = {} THEN "UnknownTag"
    ELSE IF len # CHUNK_BYTES THEN "BadChunkLength"
    ELSE "Ok"

RecordHeadResult(tagByte, len) ==
    IF len > CHUNK_BYTES THEN "ChunkTooLarge"
    ELSE IF FromByte(tagByte) = {} THEN "UnknownTag"
    ELSE IF tagByte # "Final" /\ len # CHUNK_BYTES THEN "BadChunkLength"
    ELSE "Ok"

StepRecordHead(dec, input) ==
    { IF RecordHeadResult(t, n) # "Ok"
      THEN Reply(dec, << >>, RecordHeadResult(t, n))
      ELSE Reply([dec EXCEPT !.state = "RecordBody", !.tag = t, !.len = n], << >>, "Ok") :
        t \in TagBytesOf(input[1]), n \in LengthsOf(input[2]) }

\* From<SecretstreamError> for FileError, for the errors pull returns.
FileErrorOf(res) ==
    CASE res = "TagMismatch" -> "Auth"
      [] res = "StreamFinalized" -> "Finished"
      [] OTHER -> res

\* The cells of a record body are intact when they end in an auth tag and the
\* rest are the bytes of the ciphertext it covers, in order.
BodyIntact(body) ==
    LET last == body[Len(body)]
    IN  /\ last[1] = "auth"
        /\ CiphertextCells(last[2].ciphertext) = SubSeq(body, 1, Len(body) - 1)

PullBody(pull, tagByte, body) ==
    LET auth == body[Len(body)][2]
    IN  PullResult(pull, tagByte, auth.ciphertext, auth, BodyIntact(body), TRUE)

\* Mutant: the Final record's plaintext comes out of feed like any other.
StepRecordBodyReleasesFinal(dec, input) ==
    LET res == PullBody(dec.pull[1], dec.tag, input)
        plaintext == input[Len(input)][2].ciphertext.plaintext
        pulled == [dec EXCEPT !.pull[1] = Advance(@, dec.tag)]
    IN  { IF res # "Ok"
          THEN Reply(dec, << >>, FileErrorOf(res))
          ELSE Reply([pulled EXCEPT !.state = IF dec.tag = "Final" THEN "AfterFinal"
                                              ELSE "RecordHead"], plaintext, "Ok") }

StepRecordBody(dec, input) ==
    LET res == PullBody(dec.pull[1], dec.tag, input)
        plaintext == input[Len(input)][2].ciphertext.plaintext
        pulled == [dec EXCEPT !.pull[1] = Advance(@, dec.tag)]
    IN  { IF res # "Ok"
          THEN Reply(dec, << >>, FileErrorOf(res))
          ELSE IF dec.tag = "Final"
          THEN Reply([pulled EXCEPT !.held = plaintext, !.state = "AfterFinal"],
                     << >>, "Ok")
          ELSE Reply([pulled EXCEPT !.state = "RecordHead"], plaintext, "Ok") }

\* Mutant: bytes after the Final record are skipped.
StepSkipsTrailing(dec, input) ==
    CASE dec.state = "Version" -> StepVersion(dec, input)
      [] dec.state = "Header" -> StepHeader(dec, input)
      [] dec.state = "RecordHead" -> StepRecordHead(dec, input)
      [] dec.state = "RecordBody" -> StepRecordBody(dec, input)
      [] dec.state = "AfterFinal" -> {Reply(dec, << >>, "Ok")}

Step(dec, input) ==
    CASE dec.state = "Version" -> StepVersion(dec, input)
      [] dec.state = "Header" -> StepHeader(dec, input)
      [] dec.state = "RecordHead" -> StepRecordHead(dec, input)
      [] dec.state = "RecordBody" -> StepRecordBody(dec, input)
      [] dec.state = "AfterFinal" -> {Reply(dec, << >>, "TrailingData")}

\* outOk is plaintext_out.len() >= CHUNK_BYTES.
Feed(dec, input, outOk) ==
    IF dec.state = "Done" THEN {Reply(dec, << >>, "Finished")}
    ELSE IF Len(input) # NextLen(dec) \/ ~outOk
    THEN {Reply(dec, << >>, "InvalidLength")}
    ELSE { IF r.res = "Ok" THEN r ELSE [r EXCEPT !.dec = Fail(@)] :
             r \in Step(dec, input) }

Finish(dec, outOk) ==
    IF dec.state = "Done" THEN Reply(dec, << >>, "Finished")
    ELSE IF ~outOk THEN Reply(dec, << >>, "InvalidLength")
    ELSE IF dec.state = "AfterFinal" THEN Reply(Fail(dec), dec.held, "Ok")
    ELSE Reply(Fail(dec), << >>, "Truncated")
=============================================================================
