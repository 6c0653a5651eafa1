---------------------------- MODULE BindingStream ----------------------------
(***************************************************************************)
(* The stream wrappers of the eight language bindings: a writer that       *)
(* buffers what the program writes and sends sealed records to a sink, and *)
(* a reader that pulls a source through the codec.  Each drives its native *)
(* class, modelled first; they differ in what is left of the buffer when    *)
(* the sink refuses a record, in which call seals the Final record, and in *)
(* what a freed object still accepts.  The sink and the source are the     *)
(* program's own: a sink may refuse a record after taking none, some or    *)
(* all of its bytes, a source may fail in the middle of a read.            *)
(***************************************************************************)
EXTENDS StreamFile, SequencesExt

(***************************************************************************)
(* The native classes under the bindings' stream wrappers: the Rust side   *)
(* of the Python, Node.js, PHP, Ruby and Java extensions, and the C API    *)
(* under Go, .NET and C++.  Each checks the lengths it is given, calls the *)
(* codec of StreamFile and copies what comes back.  A call answers with    *)
(* the codec after it, the bytes it returns and its result: "Ok", "Misuse" *)
(* when an argument has the wrong length, or "Error" from the codec.       *)
(***************************************************************************)
CONSTANTS Key, Header   \* the stream key and the header drawn for the stream

\* A KEM prefix or passphrase header in front of the file; none under a key.
FormCells(form) == IF form = "key" THEN << >> ELSE <<<<"form", form>>>>

Answer(codec, out, res) == [codec |-> codec, out |-> out, res |-> res]
\* Whether to_array succeeds.
to_array(bytes, n) == Len(bytes) = n

\* The codec's own calls: start, seal a record, open.
FileEncryptor(form) ==
    Answer(StreamInit(Key, Header), FormCells(form) \o Prefix(Header), "Ok")

SealRecord(push, tag, bytes) ==
    IF SealResult(push, bytes, TRUE) = "Ok"
    THEN Answer(Advance(push, tag), Record(push, tag, bytes), "Ok")
    ELSE Answer(push, << >>, "Error")

FileDecryptor(form, prefix) ==
    IF prefix = FormCells(form)
    THEN Answer(NewDecryptor(Key), << >>, "Ok")
    ELSE Answer(NewDecryptor(Key), << >>, "Error")

\* Of a fixed-size array: exactly a chunk, exactly the prefix of the form.
SealArray(push, chunk) ==
    IF ~to_array(chunk, CHUNK_BYTES) THEN Answer(push, << >>, "Misuse")
    ELSE SealRecord(push, "Message", chunk)

OpenArray(form, prefix) ==
    IF ~to_array(prefix, Len(FormCells(form))) THEN Answer(NewDecryptor(Key), << >>, "Misuse")
    ELSE FileDecryptor(form, prefix)

-----------------------------------------------------------------------------
PythonStart(form) == FileEncryptor(form)
PythonSealChunk(push, chunk) == SealArray(push, chunk)
PythonSealFinal(push, last) == SealRecord(push, "Final", last)
PythonDecryptor(form, prefix) == OpenArray(form, prefix)
PythonFeed(dec, data) == Feed(dec, data, TRUE)
PythonFinish(dec) == Finish(dec, TRUE)

NodeStart(form) == FileEncryptor(form)
NodeSealChunk(push, chunk) == SealArray(push, chunk)
NodeSealFinal(push, last) == SealRecord(push, "Final", last)
NodeDecryptor(form, prefix) == OpenArray(form, prefix)
NodeNativeFeed(dec, data) == Feed(dec, data, TRUE)
NodeNativeFinish(dec) == Finish(dec, TRUE)

PhpStart(form) == FileEncryptor(form)
PhpSealChunk(push, chunk) == SealArray(push, chunk)
PhpSealFinal(push, last) == SealRecord(push, "Final", last)
PhpDecryptor(form, prefix) == OpenArray(form, prefix)
PhpFeed(dec, data) == Feed(dec, data, TRUE)
PhpFinish(dec) == Finish(dec, TRUE)

RubyStart(form) == FileEncryptor(form)
RubySealChunk(push, chunk) == SealArray(push, chunk)
RubySealFinal(push, last) == SealRecord(push, "Final", last)
RubyDecryptor(form, prefix) == OpenArray(form, prefix)
RubyFeed(dec, data) == Feed(dec, data, TRUE)
RubyFinish(dec) == Finish(dec, TRUE)

\* The pointer and overlap checks of the C API are those of CApiHandles; the three
\* bindings above it pass buffers of their own.
CStart(form) == FileEncryptor(form)
CSealChunk(push, chunk) == SealArray(push, chunk)
CSealFinal(push, last) == SealRecord(push, "Final", last)
CDecryptor(form, prefix) == FileDecryptor(form, prefix)
CFeed(dec, data) == Feed(dec, data, TRUE)
CFinish(dec) == Finish(dec, TRUE)

(***************************************************************************)
(* Java gives whole arrays and a place in them, and the array that takes   *)
(* the prefix, whose size the Java side works out on its own.              *)
(***************************************************************************)
JavaPrefixBytes(form) == (IF form = "key" THEN 0 ELSE 1) + 2

start_encryptor(prefixOut, started) ==
    IF prefixOut # Len(started.out) THEN Answer(started.codec, << >>, "Misuse") ELSE started

JavaInit(prefixOut) == start_encryptor(prefixOut, FileEncryptor("key"))
JavaBoxSeal(prefixOut) == start_encryptor(prefixOut, FileEncryptor("box"))
JavaPassphraseSeal(prefixOut) == start_encryptor(prefixOut, FileEncryptor("passphrase"))

JavaStart(form) ==
    CASE form = "key" -> JavaInit(JavaPrefixBytes(form))
      [] form = "box" -> JavaBoxSeal(JavaPrefixBytes(form))
      [] form = "passphrase" -> JavaPassphraseSeal(JavaPrefixBytes(form))

JavaSealChunk(push, src, offset) ==
    IF offset < 0 \/ offset + CHUNK_BYTES > Len(src) THEN Answer(push, << >>, "Misuse")
    ELSE SealRecord(push, "Message", SubSeq(src, offset + 1, offset + CHUNK_BYTES))

JavaSealFinal(push, src, len) ==
    IF len < 0 \/ len > Len(src) \/ len > CHUNK_BYTES THEN Answer(push, << >>, "Misuse")
    ELSE SealRecord(push, "Final", SubSeq(src, 1, len))

JavaDecryptorNew == FileDecryptor("key", << >>)
JavaFormOpen(form, prefix) == OpenArray(form, prefix)
JavaDecryptor(form, prefix) ==
    IF form = "key" THEN JavaDecryptorNew ELSE JavaFormOpen(form, prefix)
JavaFeed(dec, data) == Feed(dec, data, TRUE)
JavaFinish(dec) == Finish(dec, TRUE)

-----------------------------------------------------------------------------
CONSTANTS
    Forms,              \* the forms of stream: "key", "box", "passphrase"
    Pairs,              \* the bindings that write and read a stream
    Sizes,              \* lengths of the writes
    Caps,               \* sizes of the program's read buffers
    MaxWrites,          \* bound on write calls
    MaxFinals,          \* bound on calls of complete, Finish, close, _flush
    MaxFaults           \* bound on failures: of the sink, of the source, lost cells

Langs == {"cpp", "dotnet", "go", "java", "node", "php", "python", "ruby"}

\* The sink fails at the at-th record of a call, having taken so much of it.
NoFault == [at |-> 0, took |-> "none"]
SinkFaults == [at : 1 .. 2, took : {"none", "some", "all"}]
PartTaken(record, took) ==
    SubSeq(record, 1, CASE took = "none" -> 0 [] took = "some" -> 1 [] OTHER -> Len(record))

-----------------------------------------------------------------------------
(***************************************************************************)
(* Writers.  A reply is the writer after a call, the cells the sink took   *)
(* and the result: "Ok", "Error" or "Misuse", a call on a finished object. *)
(***************************************************************************)
NewWriter == [buf |-> << >>, push |-> StreamInit(Key, Header),
              completed |-> FALSE, closed |-> FALSE]

Did(w, cells, res) == [w |-> w, cells |-> cells, res |-> res]
Misuse(w) == Did(w, << >>, "Misuse")

\* The constructor starts the codec and sends everything that stands before the
\* first record.
Started(started, f) ==
    IF started.res # "Ok" \/ f.at = 1
    THEN Did([NewWriter EXCEPT !.closed = TRUE], PartTaken(started.out, f.took), "Error")
    ELSE Did(NewWriter, started.out, "Ok")

\* Mutant: a last chunk that is exactly full is sealed as a Message too.
CertainChunksEager(n) == n \div CHUNK_BYTES

\* Full chunks that are certain not to be the last one.
CertainChunks(n) == IF n <= CHUNK_BYTES THEN 0 ELSE (n - 1) \div CHUNK_BYTES

ChunkAt(bytes, i) == SubSeq(bytes, (i - 1) * CHUNK_BYTES + 1, i * CHUNK_BYTES)

\* The buffer filled from the front of p.
ToppedUp(buf, p) == ChunkAt(buf \o p, 1)

\* The call of the native class that each binding makes.
NativeSealChunk(lang, push, bytes, i) ==
    CASE lang \in {"go", "dotnet", "cpp"} -> CSealChunk(push, ChunkAt(bytes, i))
      [] lang = "java" -> JavaSealChunk(push, bytes, (i - 1) * CHUNK_BYTES)
      [] lang = "python" -> PythonSealChunk(push, ChunkAt(bytes, i))
      [] lang = "ruby" -> RubySealChunk(push, ChunkAt(bytes, i))
      [] lang = "php" -> PhpSealChunk(push, ChunkAt(bytes, i))
      [] lang = "node" -> NodeSealChunk(push, ChunkAt(bytes, i))

NativeSealFinal(lang, push, last) ==
    CASE lang \in {"go", "dotnet", "cpp"} -> CSealFinal(push, last)
      [] lang = "java" -> JavaSealFinal(push, last, Len(last))
      [] lang = "python" -> PythonSealFinal(push, last)
      [] lang = "ruby" -> RubySealFinal(push, last)
      [] lang = "php" -> PhpSealFinal(push, last)
      [] lang = "node" -> NodeSealFinal(push, last)

(***************************************************************************)
(* Buffer p; when it does not fit, top up the buffer and seal it, then     *)
(* seal from p while more than a chunk is left, then keep the rest.  A     *)
(* record is sealed before the sink sees it, so a refused record has used  *)
(* up its place in the stream.  kept is what the buffer holds when its own *)
(* chunk is refused.                                                       *)
(***************************************************************************)
Cut(lang, w, p, f, kept) ==
    LET all == w.buf \o p
        n == CertainChunks(Len(all))
        did[i \in 0 .. n] ==
            IF i = 0 THEN Answer(w.push, << >>, "Ok")
            ELSE NativeSealChunk(lang, did[i - 1].codec, all, i)
        seals(i) == ~w.closed /\ did[i].res = "Ok"
        bad == {i \in 1 .. n : ~seals(i) \/ i = f.at}
        stop == IF bad = {} THEN n + 1 ELSE Min(bad)
        sent == FlattenSeq([i \in 1 .. stop - 1 |-> did[i].out])
    IN  IF bad = {}
        THEN Did([w EXCEPT !.buf = SubSeq(all, n * CHUNK_BYTES + 1, Len(all)),
                           !.push = did[n].codec], sent, "Ok")
        ELSE Did([w EXCEPT !.buf = IF stop = 1 /\ w.buf # << >> THEN kept ELSE << >>,
                           !.push = did[IF seals(stop) THEN stop ELSE stop - 1].codec],
                 sent \o IF seals(stop) THEN PartTaken(did[stop].out, f.took) ELSE << >>,
                 "Error")

\* Seal the buffer as Final; the writer is completed once the sink took it.
SealFinal(lang, w, f) ==
    LET last == NativeSealFinal(lang, w.push, w.buf)
        sealed == [w EXCEPT !.push = last.codec]
    IN  IF w.closed \/ last.res # "Ok" THEN Did(w, << >>, "Error")
        ELSE IF f.at = 1
        THEN Did(sealed, PartTaken(last.out, f.took), "Error")
        ELSE Did([sealed EXCEPT !.buf = << >>, !.completed = TRUE], last.out, "Ok")

\* A flush of the sink after the Final record fails when f.at = 2.
SealFinalAndFlush(lang, w, f) ==
    LET d == SealFinal(lang, w, f)
    IN  IF d.res = "Ok" /\ f.at = 2 THEN [d EXCEPT !.res = "Error"] ELSE d

Freed(w) == Did([w EXCEPT !.closed = TRUE], << >>, "Ok")

GoNew(form, f) == Started(CStart(form), f)
GoWrite(w, p, f) == IF w.completed THEN Misuse(w) ELSE Cut("go", w, p, f, w.buf)
GoComplete(w, f) == IF w.completed THEN Did(w, << >>, "Ok") ELSE SealFinal("go", w, f)
GoClose(w) == Freed(w)

DotnetNew(form, f) == Started(CStart(form), f)
DotnetWrite(w, p, f) == IF w.completed THEN Misuse(w) ELSE Cut("dotnet", w, p, f, w.buf)
DotnetComplete(w, f) ==
    IF w.completed THEN Did(w, << >>, "Ok") ELSE SealFinalAndFlush("dotnet", w, f)
DotnetDispose(w) == Freed(w)

JavaNew(form, f) == Started(JavaStart(form), f)
JavaWrite(w, p, f) ==
    IF w.closed \/ w.completed THEN Misuse(w) ELSE Cut("java", w, p, f, w.buf)
JavaComplete(w, f) ==
    IF w.completed THEN Did(w, << >>, "Ok")
    ELSE IF w.closed THEN Misuse(w)
    ELSE SealFinalAndFlush("java", w, f)
JavaClose(w) == Freed(w)

CppNew(form, f) == Started(CStart(form), f)
CppWrite(w, p, f) == IF w.completed THEN Misuse(w) ELSE Cut("cpp", w, p, f, w.buf)
CppFinish(w, f) == IF w.completed THEN Did(w, << >>, "Ok") ELSE SealFinal("cpp", w, f)

PythonNew(form, f) == Started(PythonStart(form), f)
PythonWrite(w, p, f) ==
    IF w.completed THEN Misuse(w) ELSE Cut("python", w, p, f, ToppedUp(w.buf, p))
PythonClose(w, f) == IF w.completed THEN Did(w, << >>, "Ok") ELSE SealFinal("python", w, f)

RubyNew(form, f) == Started(RubyStart(form), f)
RubyWrite(w, p, f) ==
    IF w.completed THEN Misuse(w) ELSE Cut("ruby", w, p, f, ToppedUp(w.buf, p))
RubyClose(w, f) == IF w.completed THEN Did(w, << >>, "Ok") ELSE SealFinal("ruby", w, f)

\* writeAll fails exactly when fwrite took fewer bytes than it was given.
PhpWriteAll(f) == IF f.took = "all" THEN NoFault ELSE f
PhpNew(form, f) == Started(PhpStart(form), PhpWriteAll(f))
PhpWrite(w, p, f) ==
    IF w.completed THEN Misuse(w) ELSE Cut("php", w, p, PhpWriteAll(f), w.buf)
PhpClose(w, f) ==
    IF w.completed THEN Did(w, << >>, "Ok") ELSE SealFinal("php", w, PhpWriteAll(f))

\* A Transform pushes into its own queue, which never refuses; an error of the
\* codec, or destroy, ends the stream without _flush.
NodeNew(form) == Started(NodeStart(form), NoFault)
NodeTransform(w, p) ==
    LET d == Cut("node", w, p, NoFault, w.buf)
    IN  IF w.completed \/ w.closed THEN Misuse(w)
        ELSE IF d.res = "Error" THEN [d EXCEPT !.w.closed = TRUE]
        ELSE d
NodeFlush(w) == IF w.completed \/ w.closed THEN Misuse(w) ELSE SealFinal("node", w, NoFault)

New(lang, form, f) ==
    CASE lang = "go" -> GoNew(form, f)
      [] lang = "dotnet" -> DotnetNew(form, f)
      [] lang = "java" -> JavaNew(form, f)
      [] lang = "cpp" -> CppNew(form, f)
      [] lang = "python" -> PythonNew(form, f)
      [] lang = "ruby" -> RubyNew(form, f)
      [] lang = "php" -> PhpNew(form, f)
      [] lang = "node" -> NodeNew(form)

Write(lang, w, p, f) ==
    CASE lang = "go" -> GoWrite(w, p, f)
      [] lang = "dotnet" -> DotnetWrite(w, p, f)
      [] lang = "java" -> JavaWrite(w, p, f)
      [] lang = "cpp" -> CppWrite(w, p, f)
      [] lang = "python" -> PythonWrite(w, p, f)
      [] lang = "ruby" -> RubyWrite(w, p, f)
      [] lang = "php" -> PhpWrite(w, p, f)
      [] lang = "node" -> NodeTransform(w, p)

\* Each language's call that seals the Final record.
Complete(lang, w, f) ==
    CASE lang = "go" -> GoComplete(w, f)
      [] lang = "dotnet" -> DotnetComplete(w, f)
      [] lang = "java" -> JavaComplete(w, f)
      [] lang = "cpp" -> CppFinish(w, f)
      [] lang = "python" -> PythonClose(w, f)
      [] lang = "ruby" -> RubyClose(w, f)
      [] lang = "php" -> PhpClose(w, f)
      [] lang = "node" -> NodeFlush(w)

Free(lang, w) ==
    CASE lang = "go" -> GoClose(w)
      [] lang = "dotnet" -> DotnetDispose(w)
      [] lang = "java" -> JavaClose(w)
      [] lang = "node" -> Freed(w)

-----------------------------------------------------------------------------
(***************************************************************************)
(* Readers.  rest is what is left of the source, pending the plaintext the *)
(* codec released and the program has not taken; buf and opened are the    *)
(* collected input and the open codec of Node.js.  A reply is the reader   *)
(* after a call, the plaintext handed out and the result: "Ok", "End" or   *)
(* "Error".  A fault stops the at-th read of a call after some cells.      *)
(***************************************************************************)
NoReadFault == [at |-> 0, cells |-> 0]
SourceFaults == [at : 1 .. 3, cells : 0 .. 1]

NewReader(lang, rest) ==
    [lang |-> lang, dec |-> NewDecryptor(Key), rest |-> rest, pending |-> << >>,
     done |-> FALSE, closed |-> FALSE, buf |-> << >>, opened |-> TRUE]

Gave(r, out, res) == [r |-> r, out |-> out, res |-> res]
Skipped(rest, n) == SubSeq(rest, n + 1, Len(rest))

NativeDecryptor(lang, form, prefix) ==
    CASE lang \in {"go", "dotnet", "cpp"} -> CDecryptor(form, prefix)
      [] lang = "java" -> JavaDecryptor(form, prefix)
      [] lang = "python" -> PythonDecryptor(form, prefix)
      [] lang = "ruby" -> RubyDecryptor(form, prefix)
      [] lang = "php" -> PhpDecryptor(form, prefix)
      [] lang = "node" -> NodeDecryptor(form, prefix)

NativeFeed(lang, dec, data) ==
    CASE lang \in {"go", "dotnet", "cpp"} -> CFeed(dec, data)
      [] lang = "java" -> JavaFeed(dec, data)
      [] lang = "python" -> PythonFeed(dec, data)
      [] lang = "ruby" -> RubyFeed(dec, data)
      [] lang = "php" -> PhpFeed(dec, data)
      [] lang = "node" -> NodeNativeFeed(dec, data)

NativeFinish(lang, dec) ==
    CASE lang \in {"go", "dotnet", "cpp"} -> CFinish(dec)
      [] lang = "java" -> JavaFinish(dec)
      [] lang = "python" -> PythonFinish(dec)
      [] lang = "ruby" -> RubyFinish(dec)
      [] lang = "php" -> PhpFinish(dec)
      [] lang = "node" -> NodeNativeFinish(dec)

\* The version and the byte after Final are single bytes, read or not read.
Lost(r, f) == IF r.dec.state \in {"Version", "AfterFinal"} THEN 0 ELSE f.cells

\* Mutant: the end of the source is taken for the end of the stream.
StepNoFinish(r, f) ==
    LET want == NextLen(r.dec)
    IN  IF r.closed THEN {Gave(r, << >>, "Error")}
        ELSE IF f.at = 1 THEN {Gave([r EXCEPT !.rest = Skipped(@, Lost(r, f))], << >>, "Error")}
        ELSE IF Len(r.rest) < want
        THEN {Gave([r EXCEPT !.rest = << >>, !.done = TRUE, !.pending = r.dec.held],
                   << >>, "Ok")}
        ELSE { Gave([r EXCEPT !.rest = Skipped(@, want), !.dec = a.dec, !.pending = a.out],
                    << >>, IF a.res = "Ok" THEN "Ok" ELSE "Error") :
               a \in NativeFeed(r.lang, r.dec, SubSeq(r.rest, 1, want)) }

(***************************************************************************)
(* step: read next_len bytes and feed them; when the source ends first,    *)
(* note that and finish.  What a failing source had already handed over is *)
(* lost.                                                                   *)
(***************************************************************************)
ReadStep(r, f) ==
    LET want == NextLen(r.dec)
        end == NativeFinish(r.lang, r.dec)
    IN  IF r.closed THEN {Gave(r, << >>, "Error")}
        ELSE IF f.at = 1 THEN {Gave([r EXCEPT !.rest = Skipped(@, Lost(r, f))], << >>, "Error")}
        ELSE IF Len(r.rest) < want
        THEN {Gave([r EXCEPT !.rest = << >>, !.done = TRUE, !.dec = end.dec,
                             !.pending = end.out],
                   << >>, IF end.res = "Ok" THEN "Ok" ELSE "Error")}
        ELSE { Gave([r EXCEPT !.rest = Skipped(@, want), !.dec = a.dec, !.pending = a.out],
                    << >>, IF a.res = "Ok" THEN "Ok" ELSE "Error") :
               a \in NativeFeed(r.lang, r.dec, SubSeq(r.rest, 1, want)) }

Later(f) == [f EXCEPT !.at = IF @ = 0 THEN 0 ELSE @ - 1]

\* The constructor takes the version and the header, so a wrong version fails there.
TwoSteps(r, f) ==
    UNION { IF a.res # "Ok" THEN {a} ELSE ReadStep(a.r, Later(f)) : a \in ReadStep(r, f) }

\* readPrefix, then the codec of the form; the cells are one form cell or none.
Opened(lang, form, rest, f) ==
    LET size == Len(FormCells(form))
        cut == size > 0 /\ (f.at = 1 \/ Len(rest) < size)
    IN  IF cut \/ NativeDecryptor(lang, form, SubSeq(rest, 1, size)).res # "Ok"
        THEN {Gave([NewReader(lang, rest) EXCEPT !.closed = TRUE], << >>, "Error")}
        ELSE TwoSteps(NewReader(lang, Skipped(rest, size)), IF size = 0 THEN f ELSE Later(f))

\* Hand out up to cap bytes of what is pending.
TakeUpTo(r, cap) ==
    LET n == Min({cap, Len(r.pending)})
    IN  Gave([r EXCEPT !.pending = Skipped(@, n)], SubSeq(r.pending, 1, n), "Ok")

RECURSIVE ReadLoop(_, _, _)
ReadLoop(r, cap, f) ==
    IF r.pending # << >> THEN {TakeUpTo(r, cap)}
    ELSE IF r.done THEN {Gave(r, << >>, "End")}
    ELSE UNION { IF a.res # "Ok" THEN {a} ELSE ReadLoop(a.r, cap, Later(f)) :
                 a \in ReadStep(r, f) }

GoOpen(form, rest, f) == Opened("go", form, rest, f)
GoRead(r, cap, f) == ReadLoop(r, cap, f)
DotnetOpen(form, rest, f) == Opened("dotnet", form, rest, f)
DotnetRead(r, cap, f) == ReadLoop(r, cap, f)
CppOpen(form, rest, f) == Opened("cpp", form, rest, f)
CppRead(r, cap, f) == ReadLoop(r, cap, f)
JavaOpen(form, rest, f) == Opened("java", form, rest, f)
JavaRead(r, cap, f) == IF r.closed THEN {Gave(r, << >>, "Error")} ELSE ReadLoop(r, cap, f)

\* Iterators: each turn hands out a whole chunk.
PythonOpen(form, rest, f) == Opened("python", form, rest, f)
PythonNext(r, f) == ReadLoop(r, CHUNK_BYTES, f)
RubyOpen(form, rest, f) == Opened("ruby", form, rest, f)
RubyEach(r, f) == ReadLoop(r, CHUNK_BYTES, f)
PhpOpen(form, rest, f) == Opened("php", form, rest, f)
PhpAdvance(r, f) == ReadLoop(r, CHUNK_BYTES, f)

(***************************************************************************)
(* Node.js: input arrives in pieces of any size; the prefix is collected   *)
(* first, then the codec is fed while the collected bytes suffice.  An     *)
(* error destroys the stream; what was pushed before it stays pushed.      *)
(***************************************************************************)
NodeOpen(form, rest) ==
    {Gave([NewReader("node", rest) EXCEPT !.opened = (form = "key")], << >>, "Ok")}

NodeFailed(r, out) == Gave([r EXCEPT !.closed = TRUE], out, "Error")

RECURSIVE NodeFeed(_, _)
NodeFeed(r, out) ==
    LET want == NextLen(r.dec)
    IN  IF Len(r.buf) < want THEN {Gave(r, out, "Ok")}
        ELSE UNION { IF a.res # "Ok" THEN {NodeFailed([r EXCEPT !.dec = a.dec], out)}
                     ELSE NodeFeed([r EXCEPT !.buf = Skipped(@, want), !.dec = a.dec],
                                   out \o a.out) :
                     a \in NativeFeed(r.lang, r.dec, SubSeq(r.buf, 1, want)) }

NodeCollect(r, form, n) ==
    LET size == Len(FormCells(form))
        buf == r.buf \o SubSeq(r.rest, 1, n)
        got == [r EXCEPT !.buf = buf, !.rest = Skipped(@, n)]
    IN  IF r.opened THEN NodeFeed(got, << >>)
        ELSE IF Len(buf) < size THEN {Gave(got, << >>, "Ok")}
        ELSE IF NodeDecryptor(form, SubSeq(buf, 1, size)).res # "Ok" THEN {NodeFailed(got, << >>)}
        ELSE NodeFeed([got EXCEPT !.opened = TRUE, !.buf = Skipped(buf, size)], << >>)

NodeFinish(r) ==
    LET end == NativeFinish(r.lang, r.dec)
    IN  IF ~r.opened \/ end.res # "Ok" THEN {NodeFailed(r, << >>)}
        ELSE {Gave([r EXCEPT !.dec = end.dec, !.done = TRUE], end.out, "End")}

Open(lang, form, rest, f) ==
    CASE lang = "go" -> GoOpen(form, rest, f)
      [] lang = "dotnet" -> DotnetOpen(form, rest, f)
      [] lang = "java" -> JavaOpen(form, rest, f)
      [] lang = "cpp" -> CppOpen(form, rest, f)
      [] lang = "python" -> PythonOpen(form, rest, f)
      [] lang = "ruby" -> RubyOpen(form, rest, f)
      [] lang = "php" -> PhpOpen(form, rest, f)
      [] lang = "node" -> NodeOpen(form, rest)

Read(lang, form, r, cap, f) ==
    CASE lang = "go" -> GoRead(r, cap, f)
      [] lang = "dotnet" -> DotnetRead(r, cap, f)
      [] lang = "java" -> JavaRead(r, cap, f)
      [] lang = "cpp" -> CppRead(r, cap, f)
      [] lang = "python" -> PythonNext(r, f)
      [] lang = "ruby" -> RubyEach(r, f)
      [] lang = "php" -> PhpAdvance(r, f)
      [] lang = "node" -> IF r.rest = << >> THEN NodeFinish(r)
                          ELSE NodeCollect(r, form, Min({cap, Len(r.rest)}))

-----------------------------------------------------------------------------
(***************************************************************************)
(* A program that writes a stream with one binding, in any order of calls, *)
(* going on after errors if it likes, and one that reads what the sink     *)
(* holds, all or a part of it, with another binding.                       *)
(***************************************************************************)
ASSUME BindingAssumption ==
    /\ Forms \subseteq {"key", "box", "passphrase"}
    /\ Pairs \subseteq Langs \X Langs
    /\ Sizes \subseteq Nat
    /\ Caps \subseteq Nat \ {0}
    /\ {MaxWrites, MaxFinals, MaxFaults} \subseteq Nat
    /\ Header # NoHeader

VARIABLES
    wlang, form,    \* the writing binding and the form of the stream
    w,              \* its writer
    sink,           \* cells the sink took
    written,        \* bytes given to write calls; the i-th byte is i
    taken,          \* bytes of the write calls that returned "Ok"
    wres,           \* result of the last call on the writer
    werror,         \* some call on the writer reported a failure
    unsure,         \* the sink failed though it had taken a whole record
    calls,          \* write and finishing calls, and failures, so far
    rlang,          \* the reading binding; "none" before it is opened, "failed"
                    \* when its constructor failed
    r,              \* its reader
    intact,         \* it is given all that the sink holds, and no read failed
    read,           \* plaintext handed to the program
    rerror,         \* some call on the reader reported a failure
    ended           \* a read reported the end of the stream

writerVars == <<wlang, form, w, sink, written, taken, wres, werror, unsure>>
readerVars == <<rlang, r, intact, read, rerror, ended>>
vars == <<writerVars, readerVars, calls>>

MayFail == calls.faults < MaxFaults
Faults == {NoFault} \cup IF MayFail THEN SinkFaults ELSE {}
ReadFaults == {NoReadFault} \cup IF MayFail THEN SourceFaults ELSE {}
Failing(failed) == IF failed THEN 1 ELSE 0

Init ==
    /\ wlang \in {pair[1] : pair \in Pairs} /\ form \in Forms
    /\ \E f \in {NoFault} \cup SinkFaults :
          /\ f # NoFault => New(wlang, form, f).res = "Error"
          /\ w = New(wlang, form, f).w
          /\ sink = New(wlang, form, f).cells
          /\ wres = New(wlang, form, f).res
          /\ calls = [writes |-> 0, finals |-> 0, faults |-> Failing(f # NoFault)]
    /\ written = 0 /\ taken = << >> /\ unsure = FALSE
    /\ werror = (wres = "Error")
    /\ rlang = "none" /\ r = NewReader("none", << >>) /\ intact = TRUE
    /\ read = << >> /\ rerror = FALSE /\ ended = FALSE

\* A constructor that failed gave the program no writer.
Writing == rlang = "none" /\ ~(w.closed /\ written = 0 /\ wres = "Error")

Replied(d, f) ==
    /\ f # NoFault => d.res = "Error"
    /\ w' = d.w
    /\ sink' = sink \o d.cells
    /\ wres' = d.res
    /\ werror' = (werror \/ d.res = "Error")
    /\ unsure' = (unsure \/ (d.res = "Error" /\ f.took = "all"))
    /\ UNCHANGED <<wlang, form, readerVars>>

WriteCall(n, f) ==
    LET p == [i \in 1 .. n |-> written + i]
        d == Write(wlang, w, p, f)
    IN  /\ Writing /\ calls.writes < MaxWrites
        /\ Replied(d, f)
        /\ written' = written + n
        /\ taken' = IF d.res = "Ok" THEN taken \o p ELSE taken
        /\ calls' = [calls EXCEPT !.writes = @ + 1, !.faults = @ + Failing(f # NoFault)]

FinalCall(f) ==
    /\ Writing /\ calls.finals < MaxFinals
    /\ Replied(Complete(wlang, w, f), f)
    /\ calls' = [calls EXCEPT !.finals = @ + 1, !.faults = @ + Failing(f # NoFault)]
    /\ UNCHANGED <<written, taken>>

\* The C++ destructor and an exception that leaves the block of Python, Ruby or
\* PHP seal nothing either; they leave no object to call.
FreeCall ==
    /\ Writing /\ ~w.closed /\ wlang \in {"go", "dotnet", "java", "node"}
    /\ Replied(Free(wlang, w), NoFault)
    /\ UNCHANGED <<written, taken, calls>>

\* The reader gets the first n cells that the sink took.
OpenCall(lang, n, f) ==
    /\ rlang = "none" /\ <<wlang, lang>> \in Pairs
    /\ n = Len(sink) \/ (MayFail /\ f = NoReadFault)
    /\ \E a \in Open(lang, form, SubSeq(sink, 1, n), f) :
          /\ f # NoReadFault => a.res = "Error"
          /\ r' = IF a.res = "Error" THEN NewReader("none", << >>) ELSE a.r
          /\ rerror' = (a.res = "Error")
          /\ rlang' = IF a.res = "Error" THEN "failed" ELSE lang
    /\ intact' = (n = Len(sink) /\ f = NoReadFault)
    /\ calls' = [calls EXCEPT !.faults = @ + Failing(n # Len(sink) \/ f # NoReadFault)]
    /\ UNCHANGED <<writerVars, read, ended>>

\* A program may read on after an error and after the end.
ReadCall(cap, f) ==
    /\ rlang \in Langs
    /\ rlang = "node" => ~r.done /\ ~r.closed
    /\ \E a \in Read(rlang, form, r, cap, f) :
          /\ f # NoReadFault => a.res = "Error"
          /\ r' = a.r
          /\ read' = read \o a.out
          /\ rerror' = (rerror \/ a.res = "Error")
          /\ ended' = (ended \/ (a.res = "End" /\ ~rerror))
    /\ intact' = (intact /\ f = NoReadFault)
    /\ calls' = [calls EXCEPT !.faults = @ + Failing(f # NoReadFault)]
    /\ UNCHANGED <<writerVars, rlang>>

CloseReader ==
    /\ rlang \in {"go", "dotnet", "java", "node"} /\ ~r.closed
    /\ r' = [r EXCEPT !.closed = TRUE]
    /\ UNCHANGED <<writerVars, calls, rlang, intact, read, rerror, ended>>

Next ==
    \/ \E n \in Sizes, f \in Faults : WriteCall(n, f)
    \/ \E f \in Faults : FinalCall(f)
    \/ FreeCall
    \/ \E lang \in Langs, n \in 0 .. Len(sink), f \in ReadFaults : OpenCall(lang, n, f)
    \/ \E cap \in Caps, f \in ReadFaults : ReadCall(cap, f)
    \/ CloseReader

Spec == Init /\ [][Next]_vars
-----------------------------------------------------------------------------
(***************************************************************************)
(* A stream that a reader takes to its end, having reported no failure, is *)
(* one whose writer sealed the Final record, and it gave the program the   *)
(* bytes of the writes that succeeded, all of them and in order; no reader *)
(* ever hands out anything but the first bytes written.  So a stream that  *)
(* a failed write, a close or an exception left unfinished does not open   *)
(* (decision D-65 in the bindings' docs), and no failure of the sink or    *)
(* the source that a program ignores makes a stream open to other data.    *)
(* The one thing the wrappers cannot tell is a sink that took a whole      *)
(* record and still failed.                                                *)
(***************************************************************************)
OpensOnlyWhatWasCompleted ==
    ~unsure =>
        /\ IsPrefix(read, [i \in 1 .. written |-> i])
        /\ ended => w.completed /\ read = taken

(***************************************************************************)
(* A program whose calls on a writer all succeeded, the finishing call     *)
(* included, has written the very file that seal_all makes of its bytes,   *)
(* whatever the sizes of its writes: an exact multiple of the chunk size   *)
(* ends in a full Final record (D-208 in the Python and Ruby writers).     *)
(* Every binding's reader takes all of that file without a failure.        *)
(***************************************************************************)
CompletedIsReadable ==
    w.completed /\ ~werror =>
        /\ sink = FormCells(form) \o SealAll(Key, Header, taken)
        /\ intact /\ ~r.closed => ~rerror
        /\ intact /\ r.done /\ r.pending = << >> => read = taken
=============================================================================
