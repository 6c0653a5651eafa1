-------------------------- MODULE StreamFileWriter --------------------------
(***************************************************************************)
(* write_stream_records, the loop behind "uacrypt encrypt" and "box-seal": *)
(* it reads an input of unknown length one chunk ahead (cur, next) so that *)
(* the last chunk can be sealed as Final.  fill_chunk gathers a chunk from *)
(* reads that may return fewer bytes than asked for.  The input may be a   *)
(* file another process is still appending to, or a terminal: bytes can    *)
(* arrive after a read has returned 0.                                     *)
(***************************************************************************)
EXTENDS StreamFile

CONSTANTS
    Key, Header,        \* of the stream being written
    Inputs,             \* what the input may hold when the command starts
    NewByte,            \* a byte appended later
    MaxGrow             \* bound on the bytes appended while it runs

ASSUME WriterAssumption ==
    /\ Inputs \subseteq Seq(Nat)
    /\ NewByte \in Nat
    /\ MaxGrow \in Nat
    /\ \A m \in Inputs : Len(m) + MaxGrow < CounterMax

VARIABLES
    input,      \* bytes of the input not read yet
    grown,      \* bytes appended since the start
    taken,      \* all bytes read so far
    cur, next,  \* the two buffers, up to cur_len and next_len
    filling,    \* the buffer fill_chunk is filling: "cur" or "next"
    enc,        \* the encryptor's push state
    file,       \* the cells written to the output
    status      \* "running", "done", "failed" (the seal was refused), "ioError",
                \* or "panicked"

vars == <<input, grown, taken, cur, next, filling, enc, file, status>>

Init ==
    /\ input \in Inputs
    /\ grown = 0
    /\ taken = << >>
    /\ cur = << >> /\ next = << >> /\ filling = "cur"
    /\ enc = StreamInit(Key, Header)
    /\ file = Prefix(Header)
    /\ status = "running"

Buffer == IF filling = "cur" THEN cur ELSE next

-----------------------------------------------------------------------------
\* One read of fill_chunk that returns n bytes, as few as one.
Read(n) ==
    /\ status = "running"
    /\ Len(Buffer) < CHUNK_BYTES
    /\ n <= Len(input) /\ n <= CHUNK_BYTES - Len(Buffer)
    /\ input' = SubSeq(input, n + 1, Len(input))
    /\ taken' = taken \o SubSeq(input, 1, n)
    /\ IF filling = "cur"
       THEN cur' = cur \o SubSeq(input, 1, n) /\ UNCHANGED next
       ELSE next' = next \o SubSeq(input, 1, n) /\ UNCHANGED cur
    /\ UNCHANGED <<grown, filling, enc, file, status>>

\* Mutant: every read ends the chunk, as if reads were never short.
FilledByOneRead == Buffer # << >> \/ input = << >>

\* fill_chunk returns: the buffer is full, or a read returned 0.
Filled == Len(Buffer) = CHUNK_BYTES \/ input = << >>

FirstChunk ==
    /\ status = "running" /\ filling = "cur" /\ Filled
    /\ filling' = "next"
    /\ UNCHANGED <<input, grown, taken, cur, next, enc, file, status>>

\* Mutants: a short next is taken for the end; an empty input is not sealed.
SealLastOnShortNext ==
    /\ status = "running" /\ filling = "next" /\ Filled
    /\ Len(next) < CHUNK_BYTES
    /\ file' = file \o Record(enc, "Final", cur)
    /\ enc' = Advance(enc, "Final")
    /\ status' = "done"
    /\ UNCHANGED <<input, grown, taken, cur, next, filling>>
SealLastNonEmpty ==
    /\ cur # << >>
    /\ status = "running" /\ filling = "next" /\ Filled
    /\ next = << >>
    /\ file' = file \o Record(enc, "Final", cur)
    /\ enc' = Advance(enc, "Final")
    /\ status' = "done"
    /\ UNCHANGED <<input, grown, taken, cur, next, filling>>

\* next_len == 0: cur was the last chunk.
SealLast ==
    /\ status = "running" /\ filling = "next" /\ Filled
    /\ next = << >>
    /\ IF SealResult(enc, cur, TRUE) = "Ok"
       THEN /\ file' = file \o Record(enc, "Final", cur)
            /\ enc' = Advance(enc, "Final")
            /\ status' = "done"
       ELSE status' = "failed" /\ UNCHANGED <<file, enc>>
    /\ UNCHANGED <<input, grown, taken, cur, next, filling>>

\* Otherwise cur must convert to a full chunk; the swap makes next the new cur.
SealFull ==
    /\ status = "running" /\ filling = "next" /\ Filled
    /\ next # << >>
    /\ IF Len(cur) # CHUNK_BYTES
       THEN status' = "panicked" /\ UNCHANGED <<cur, next, enc, file>>
       ELSE IF SealResult(enc, cur, TRUE) # "Ok"
       THEN status' = "failed" /\ UNCHANGED <<cur, next, enc, file>>
       ELSE /\ file' = file \o Record(enc, "Message", cur)
            /\ enc' = Advance(enc, "Message")
            /\ cur' = next /\ next' = << >>
            /\ UNCHANGED status
    /\ UNCHANGED <<input, grown, taken, filling>>

\* A read or a write returns an error; the caller drops the output.
IoError ==
    /\ status = "running"
    /\ status' = "ioError"
    /\ UNCHANGED <<input, grown, taken, cur, next, filling, enc, file>>

\* Whoever feeds the input adds a byte to it.
Grow ==
    /\ status = "running"
    /\ grown < MaxGrow
    /\ input' = Append(input, NewByte)
    /\ grown' = grown + 1
    /\ UNCHANGED <<taken, cur, next, filling, enc, file, status>>

Finished == status # "running" /\ UNCHANGED vars

Loop == (\E n \in 1 .. CHUNK_BYTES : Read(n)) \/ FirstChunk \/ SealLast \/ SealFull

Next == Loop \/ IoError \/ Grow \/ Finished

(***************************************************************************)
(* The loop runs in one thread and nothing in it waits for anything but    *)
(* the input, which is there.                                              *)
(***************************************************************************)
Spec == Init /\ [][Next]_vars /\ WF_vars(Loop)

-----------------------------------------------------------------------------
(***************************************************************************)
(* However the reads were split, the records written are the ones seal_all *)
(* makes of the bytes that were read: every record but the last is full,   *)
(* and nothing that was read is missing.                                   *)
(***************************************************************************)
WritesSealedFile == status = "done" => file = SealAll(Key, Header, taken)

(***************************************************************************)
(* The loop ends, whatever its input and its reads, and without an I/O     *)
(* error it ends with a file: no seal is refused, and the unreachable! is  *)
(* reached only when bytes arrived after a read had returned 0.            *)
(***************************************************************************)
Completes ==
    <>(status \in {"done", "ioError"} \/ (status = "panicked" /\ grown > 0))

(***************************************************************************)
(* An input that does not grow while it is read never makes the loop meet  *)
(* a short chunk that is not the last, however its reads are split.        *)
(***************************************************************************)
PanicsOnlyIfInputGrew == status = "panicked" => grown > 0

(***************************************************************************)
(* "fill_chunk returns a short chunk only at the end of the input": the    *)
(* unreachable! in write_stream_records is not reached.                    *)
(***************************************************************************)
ShortChunkIsLast == status # "panicked"
=============================================================================
