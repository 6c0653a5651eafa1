----------------------- MODULE StreamFileReaderLemmas -----------------------
(***************************************************************************)
(* What the proofs about StreamFileReader rest on: the cells that a        *)
(* damaged file can hold, the inductive invariant, which record bodies     *)
(* pull accepts, and what the decryptor does with an accepted one.         *)
(***************************************************************************)
EXTENDS StreamFileReader, StreamFileProofs

\* Record j, from 0, of the file that seals m in stream s.
TagOf(m, j) == IF j = FullChunks(m) THEN "Final" ELSE "Message"
TextOf(m, j) ==
    SubSeq(m, j * CHUNK_BYTES + 1,
           IF j = FullChunks(m) THEN Len(m) ELSE (j + 1) * CHUNK_BYTES)
ChunkOf(s, m, j) == Chunk(Pushed(Key, s, j), TagOf(m, j), TextOf(m, j))
RecordOf(s, m, j) == Record(Pushed(Key, s, j), TagOf(m, j), TextOf(m, j))

\* The records of the file that seals m are numbered 0 to FullChunks(m).
Indices(m) == 0 .. FullChunks(m)

\* The cells a damaged file can hold: any value of a plain field, the
\* ciphertext bytes and the auth tags that the sealed files have, or a changed
\* one. Nothing that was not sealed carries a valid tag.
PlainCells ==
    {VersionCell(v) : v \in Versions} \cup {HeaderCell(h) : h \in Streams \cup {NoHeader}}
      \cup {TagCell(t) : t \in TagByte} \cup {LenCell(n) : n \in Lengths} \cup {BadCell}
CiphertextCell(p) ==
    {<<"ciphertext", ChunkOf(s, p[s], j).ciphertext, i>> : s \in Streams, j \in Nat, i \in Nat}
AuthCells(p) == UNION {{AuthCell(ChunkOf(s, p[s], j).auth) : j \in Indices(p[s])} : s \in Streams}
Cells(p) == PlainCells \cup CiphertextCell(p) \cup AuthCells(p)

\* The plaintext of record j, its length and where it lies in the message.
LEMMA TextIs ==
    ASSUME NEW m \in Seq(Nat), NEW j \in Indices(m)
    PROVE  /\ TextOf(m, j) \in Seq(Nat)
           /\ Len(TextOf(m, j)) \in 0 .. CHUNK_BYTES
           /\ TagOf(m, j) = "Message" => /\ Len(TextOf(m, j)) = CHUNK_BYTES
                                        /\ j * CHUNK_BYTES + CHUNK_BYTES <= Len(m)
           /\ j * CHUNK_BYTES + Len(TextOf(m, j)) <= Len(m)
           /\ TagOf(m, j) = "Final" => j * CHUNK_BYTES + Len(TextOf(m, j)) = Len(m)
<1> DEFINE F == FullChunks(m)
           base == j * CHUNK_BYTES
<1>1. F \in Nat /\ F * CHUNK_BYTES <= Len(m) /\ Len(m) <= F * CHUNK_BYTES + CHUNK_BYTES
  BY FullChunksBounds, Zenon
<1>2. j \in Nat /\ j <= F
  BY <1>1 DEF Indices
<1>3. base \in Nat /\ (j + 1) * CHUNK_BYTES = base + CHUNK_BYTES /\ CHUNK_BYTES \in Nat
  BY <1>2, ChunkArith, ChunkBytesAssumption, Zenon
<1>4. CASE j = F
  <2>1. TextOf(m, j) = SubSeq(m, base + 1, Len(m)) /\ TagOf(m, j) = "Final"
    BY <1>4, Zenon DEF TextOf, TagOf
  <2>2. base <= Len(m) /\ Len(m) <= base + CHUNK_BYTES
    BY <1>1, <1>4, Zenon
  <2>3. TextOf(m, j) \in Seq(Nat) /\ Len(TextOf(m, j)) = Len(m) - base
    <3> HIDE DEF base
    <3>1. QED
      BY <1>3, <2>1, <2>2, SeqSplit, ZenonT(60)
  <2> HIDE DEF base
  <2>4. Len(TextOf(m, j)) \in 0 .. CHUNK_BYTES /\ base + Len(TextOf(m, j)) <= Len(m)
        /\ base + Len(TextOf(m, j)) = Len(m)
    BY <1>3, <2>2, <2>3
  <2>5. "Final" # "Message"
    BY Zenon
  <2>6. QED
    BY <2>1, <2>3, <2>4, <2>5, Zenon DEF base
<1>5. CASE j # F
  <2>1. TextOf(m, j) = SubSeq(m, base + 1, base + CHUNK_BYTES) /\ TagOf(m, j) = "Message"
    BY <1>3, <1>5, Zenon DEF TextOf, TagOf
  <2>2. base + CHUNK_BYTES <= Len(m)
    <3>1. j + 1 \in Nat /\ j + 1 <= F
      BY <1>1, <1>2, <1>5
    <3>2. (j + 1) * CHUNK_BYTES <= F * CHUNK_BYTES
      BY <1>1, <3>1, ChunkMono, Zenon
    <3>3. F * CHUNK_BYTES \in Nat
      BY <1>1, ChunkArith, Zenon
    <3> HIDE DEF base, F
    <3>4. QED
      BY <1>1, <1>3, <3>2, <3>3
  <2> HIDE DEF base
  <2>3. TextOf(m, j) \in Seq(Nat) /\ Len(TextOf(m, j)) = CHUNK_BYTES
    BY <1>3, <2>1, <2>2
  <2>4. Len(TextOf(m, j)) \in 0 .. CHUNK_BYTES /\ base + Len(TextOf(m, j)) <= Len(m)
    BY <1>3, <2>2, <2>3
  <2>5. "Final" # "Message"
    BY Zenon
  <2>6. QED
    BY <2>1, <2>2, <2>3, <2>4, <2>5, Zenon DEF base
<1>6. QED
  BY <1>4, <1>5, Zenon

\* The cells of a record, one by one.
LEMMA RecordCells ==
    ASSUME NEW push, NEW tag, NEW text \in Seq(Nat), NEW S,
           TagCell(tag) \in S, LenCell(Len(text)) \in S,
           AuthCell(Chunk(push, tag, text).auth) \in S,
           \A i \in 1 .. Len(text) :
              <<"ciphertext", Chunk(push, tag, text).ciphertext, i>> \in S
    PROVE  LET r == Record(push, tag, text)
               c == Chunk(push, tag, text)
           IN  /\ r \in Seq(S)
               /\ Len(r) = Len(text) + 3
               /\ r[1] = TagCell(tag) /\ r[2] = LenCell(Len(text))
               /\ \A i \in 1 .. Len(text) : r[i + 2] = <<"ciphertext", c.ciphertext, i>>
               /\ r[Len(text) + 3] = AuthCell(c.auth)
<1> DEFINE c == Chunk(push, tag, text)
           body == [i \in 1 .. Len(text) |-> <<"ciphertext", c.ciphertext, i>>]
           r == <<TagCell(tag), LenCell(Len(text))>> \o body \o <<AuthCell(c.auth)>>
<1>1. Record(push, tag, text) = r
  BY Zenon DEF Record, CiphertextCells, Chunk, Encrypt
<1> HIDE DEF c
<1>2. body \in Seq(S) /\ Len(body) = Len(text)
  BY DEF c
<1>3. <<TagCell(tag), LenCell(Len(text))>> \in Seq(S) /\ <<AuthCell(c.auth)>> \in Seq(S)
  BY DEF c
<1>4. \A i \in 1 .. Len(text) : body[i] = <<"ciphertext", c.ciphertext, i>>
  BY Zenon
<1>5. Len(text) \in Nat
  OBVIOUS
<1> HIDE DEF body
<1>6. r \in Seq(S) /\ Len(r) = Len(text) + 3
  BY <1>2, <1>3
<1>7. r[1] = TagCell(tag) /\ r[2] = LenCell(Len(text))
  BY <1>2, <1>3
<1>8. \A i \in 1 .. Len(text) : r[i + 2] = body[i]
  BY <1>2, <1>3
<1>9. r[Len(text) + 3] = AuthCell(c.auth)
  BY <1>2, <1>3
<1> HIDE DEF r
<1>10. QED
  BY <1>1, <1>4, <1>6, <1>7, <1>8, <1>9, Zenon DEF c

\* The cells of record j of a sealed file, one by one; all of them are cells
\* that a damaged file may hold.
LEMMA RecordTyped ==
    ASSUME NEW p, NEW s \in Streams, p[s] \in Seq(Nat), NEW j \in Indices(p[s])
    PROVE  LET r == RecordOf(s, p[s], j)
               c == ChunkOf(s, p[s], j)
               n == Len(TextOf(p[s], j))
           IN  /\ r \in Seq(Cells(p)) /\ Len(r) = n + 3
               /\ r[1] = TagCell(TagOf(p[s], j)) /\ r[2] = LenCell(n)
               /\ \A i \in 1 .. n : r[i + 2] = <<"ciphertext", c.ciphertext, i>>
               /\ r[n + 3] = AuthCell(c.auth)
<1> DEFINE m == p[s]
           text == TextOf(m, j)
           c == ChunkOf(s, m, j)
<1>1. text \in Seq(Nat) /\ Len(text) \in 0 .. CHUNK_BYTES
  BY TextIs, Zenon
<1>2. TagCell(TagOf(m, j)) \in Cells(p)
  BY Zenon DEF Cells, PlainCells, TagOf, TagByte, Tag
<1>3. LenCell(Len(text)) \in Cells(p)
  <2>1. Len(text) \in Lengths
    BY <1>1, ChunkBytesAssumption DEF Lengths
  <2>2. QED
    BY <2>1, Zenon DEF Cells, PlainCells
<1>4. AuthCell(c.auth) \in Cells(p)
  BY DEF Cells, AuthCells
<1>5. \A i \in 1 .. Len(text) : <<"ciphertext", c.ciphertext, i>> \in Cells(p)
  <2>1. j \in Nat /\ \A i \in 1 .. Len(text) : i \in Nat
    BY <1>1, FullChunksBounds DEF Indices
  <2>2. QED
    BY <2>1 DEF Cells, CiphertextCell
<1>6. QED
  <2> HIDE DEF text
  <2>1. RecordOf(s, m, j) = Record(Pushed(Key, s, j), TagOf(m, j), text)
    BY Zenon DEF RecordOf, text
  <2>2. c = Chunk(Pushed(Key, s, j), TagOf(m, j), text)
    BY Zenon DEF ChunkOf, text
  <2> HIDE DEF c, m
  <2>3. /\ RecordOf(s, m, j) \in Seq(Cells(p)) /\ Len(RecordOf(s, m, j)) = Len(text) + 3
        /\ RecordOf(s, m, j)[1] = TagCell(TagOf(m, j))
        /\ RecordOf(s, m, j)[2] = LenCell(Len(text))
        /\ \A i \in 1 .. Len(text) : RecordOf(s, m, j)[i + 2] = <<"ciphertext", c.ciphertext, i>>
        /\ RecordOf(s, m, j)[Len(text) + 3] = AuthCell(c.auth)
    BY <1>1, <1>2, <1>3, <1>4, <1>5, <2>1, <2>2, RecordCells, SMTT(60)
  <2>4. QED
    BY <2>3, Zenon DEF c, m, text

\* Up to the next record a sealed file grows by exactly that record.
LEMMA SealedNext ==
    ASSUME NEW s, NEW m \in Seq(Nat), NEW n \in Indices(m), n # FullChunks(m)
    PROVE  /\ n + 1 \in Indices(m)
           /\ SealedChunks(Key, s, m, n + 1) = SealedChunks(Key, s, m, n) \o RecordOf(s, m, n)
<1>1. n \in Nat /\ n + 1 \in Indices(m)
  BY FullChunksBounds DEF Indices
<1>2. TagOf(m, n) = "Message"
      /\ TextOf(m, n) = SubSeq(m, n * CHUNK_BYTES + 1, (n + 1) * CHUNK_BYTES)
  BY Zenon DEF TagOf, TextOf
<1>3. SealedChunks(Key, s, m, n + 1) =
        SealedChunks(Key, s, m, n) \o
        Record(Pushed(Key, s, n), "Message",
               SubSeq(m, n * CHUNK_BYTES + 1, (n + 1) * CHUNK_BYTES))
  BY <1>1, ChunksNext, Zenon
<1>4. QED
  BY <1>1, <1>2, <1>3, Zenon DEF RecordOf

\* A sealed file ends with its Final record.
LEMMA SealedLast ==
    ASSUME NEW s, NEW m
    PROVE  SealAll(Key, s, m) =
             SealedChunks(Key, s, m, FullChunks(m)) \o RecordOf(s, m, FullChunks(m))
  BY Zenon DEF SealAll, RecordOf, TagOf, TextOf

\* All cells of a sealed file are cells that a damaged file may hold.
LEMMA SealedTyped ==
    ASSUME NEW p, NEW s \in Streams, p[s] \in Seq(Nat)
    PROVE  /\ \A n \in Indices(p[s]) : SealedChunks(Key, s, p[s], n) \in Seq(Cells(p))
           /\ SealAll(Key, s, p[s]) \in Seq(Cells(p))
<1> DEFINE m == p[s]
           T == {n \in Nat : n \in Indices(m) => SealedChunks(Key, s, m, n) \in Seq(Cells(p))}
<1>0. FullChunks(m) \in Nat
  BY FullChunksBounds, Zenon
<1>1. 0 \in T
  <2>1. VersionCell(FORMAT_VERSION) \in Cells(p) /\ HeaderCell(s) \in Cells(p)
    BY Zenon DEF Cells, PlainCells, Versions
  <2>2. Prefix(s) \in Seq(Cells(p))
    BY <2>1 DEF Prefix
  <2>3. QED
    BY <2>2, ChunksNone, Zenon
<1>2. ASSUME NEW n \in Nat, n \in T PROVE n + 1 \in T
  <2>1. SUFFICES ASSUME n + 1 \in Indices(m)
                 PROVE  SealedChunks(Key, s, m, n + 1) \in Seq(Cells(p))
    OBVIOUS
  <2>2. n \in Indices(m) /\ n # FullChunks(m)
    BY <1>0, <2>1 DEF Indices
  <2>3. SealedChunks(Key, s, m, n) \in Seq(Cells(p)) /\ RecordOf(s, m, n) \in Seq(Cells(p))
    BY <1>2, <2>2, RecordTyped, Zenon
  <2>4. SealedChunks(Key, s, m, n) \o RecordOf(s, m, n) \in Seq(Cells(p))
    BY <2>3, SeqJoin, Zenon
  <2>5. QED
    BY <2>2, <2>4, SealedNext, Zenon
<1> HIDE DEF T
<1>3. Nat \subseteq T
  BY <1>1, <1>2, NatSetInduction, Zenon
<1>4. \A n \in Indices(m) : SealedChunks(Key, s, m, n) \in Seq(Cells(p))
  BY <1>0, <1>3 DEF T, Indices
<1>5. FullChunks(m) \in Indices(m)
  BY <1>0 DEF Indices
<1>6. SealAll(Key, s, m) \in Seq(Cells(p))
  <2>1. RecordOf(s, m, FullChunks(m)) \in Seq(Cells(p))
    BY <1>5, RecordTyped, Zenon
  <2>2. SealedChunks(Key, s, m, FullChunks(m)) \o RecordOf(s, m, FullChunks(m)) \in Seq(Cells(p))
    BY <1>4, <1>5, <2>1, SeqJoin, Zenon
  <2>3. QED
    BY <2>2, SealedLast, Zenon
<1>7. QED
  BY <1>4, <1>6, Zenon

\* A cell that shows a field of some kind holds a value of that field; an auth
\* tag is the tag of a record that was sealed.
LEMMA CellKinds ==
    ASSUME NEW p, NEW c \in Cells(p)
    PROVE  /\ c[1] = "auth" => \E s \in Streams : \E j \in Indices(p[s]) :
                                  c = AuthCell(ChunkOf(s, p[s], j).auth)
           /\ c[1] = "header" => \E h \in Streams \cup {NoHeader} : c = HeaderCell(h)
           /\ c[1] = "version" => \E v \in Versions : c = VersionCell(v)
           /\ c[1] = "tag" => \E t \in TagByte : c = TagCell(t)
           /\ c[1] = "len" => \E n \in Lengths : c = LenCell(n)
<1>1. CASE c \in PlainCells
  BY <1>1 DEF PlainCells, VersionCell, HeaderCell, TagCell, LenCell, BadCell
<1>2. CASE c \in CiphertextCell(p)
  BY <1>2 DEF CiphertextCell
<1>3. CASE c \in AuthCells(p)
  BY <1>3 DEF AuthCells, AuthCell
<1>4. QED
  BY <1>1, <1>2, <1>3, Zenon DEF Cells

-----------------------------------------------------------------------------
\* The files: sealed ones are never touched, and the file being read holds
\* nothing but the cells above.
FilesInv ==
    /\ \A s \in Streams : plain[s] \in Plaintexts[s]
    /\ sealed = [s \in Streams |-> SealAll(Key, s, plain[s])]
    /\ file \in Seq(Cells(plain))

\* The decryptor has the fields of FileDecryptor.
Shape ==
    dec = [key |-> dec.key, pull |-> dec.pull, state |-> dec.state,
           tag |-> dec.tag, len |-> dec.len, held |-> dec.held]

\* The first p cells of the file read as those of the sealed file h up to its
\* record n, and what came out is the plaintext of those records.
Matches(h, n, p) ==
    /\ n \in Indices(plain[h])
    /\ out = SubSeq(plain[h], 1, n * CHUNK_BYTES)
    /\ p = Len(SealedChunks(Key, h, plain[h], n))
    /\ \A i \in 1 .. p : Reads(file[i], SealedChunks(Key, h, plain[h], n)[i])

\* The decryptor pulls record n under key k and header h. It got past record 0
\* only under the right key and the header of a sealed file.
Progress(k, h, n, p) ==
    /\ k \in {Key, OtherKey} /\ h \in Streams \cup {NoHeader} /\ n \in Nat
    /\ n = 0 => out = << >>
    /\ n > 0 => k = Key /\ h \in Streams
    /\ k = Key /\ h \in Streams => Matches(h, n, p)

\* The pull state before record n.
PullAt(k, h, n) ==
    <<[subkey |-> InitialSubkey(k, h), counter |-> n, finalized |-> FALSE]>>

\* One predicate for each state of enum State: what is known of the file, the
\* output and the decryptor when it is in that state.
AtVersion ==
    /\ dec.state = "Version"
    /\ dec.pull = << >> /\ dec.key \in {Key, OtherKey} /\ dec.held = << >>
    /\ pos = 0 /\ out = << >> /\ outcome = "open"
AtHeader ==
    /\ dec.state = "Header"
    /\ dec.pull = << >> /\ dec.key \in {Key, OtherKey} /\ dec.held = << >>
    /\ pos = 1 /\ out = << >> /\ outcome = "open"
    /\ FORMAT_VERSION \in VersionsOf(file[1])
AtRecordHead ==
    /\ dec.state = "RecordHead"
    /\ dec.key = Wiped /\ dec.held = << >> /\ outcome = "open"
    /\ \E k, h, n : dec.pull = PullAt(k, h, n) /\ Progress(k, h, n, pos)
AtRecordBody ==
    /\ dec.state = "RecordBody"
    /\ dec.key = Wiped /\ dec.held = << >> /\ outcome = "open"
    /\ RecordHeadResult(dec.tag, dec.len) = "Ok" /\ dec.len \in Nat
    /\ pos >= 2
    /\ dec.tag \in TagBytesOf(file[pos - 1]) /\ dec.len \in LengthsOf(file[pos])
    /\ \E k, h, n : dec.pull = PullAt(k, h, n) /\ Progress(k, h, n, pos - 2)
\* The whole of sealed file h was read, and nothing else.
ReadAll(h) ==
    /\ pos = Len(sealed[h])
    /\ \A i \in 1 .. pos : Reads(file[i], sealed[h][i])
AtAfterFinal ==
    /\ dec.state = "AfterFinal"
    /\ dec.key = Wiped /\ outcome = "open"
    /\ \E h \in Streams :
          /\ dec.pull = <<[subkey |-> InitialSubkey(Key, h),
                           counter |-> FullChunks(plain[h]) + 1, finalized |-> TRUE]>>
          /\ out = SubSeq(plain[h], 1, FullChunks(plain[h]) * CHUNK_BYTES)
          /\ dec.held = TextOf(plain[h], FullChunks(plain[h]))
          /\ ReadAll(h)
AtDone ==
    /\ dec.state = "Done"
    /\ dec.pull = << >> /\ dec.key = Wiped /\ dec.held = << >>
    /\ outcome \in {"complete", "failed"}
    /\ OpensOnlySealedFiles

\* The inductive invariant. It ties the position in the damaged file to the
\* record counter of the pull state, and the plaintext released so far to the
\* records read, which no single call of feed can see.
ReaderInv ==
    /\ FilesInv
    /\ pos \in 0 .. Len(file)
    /\ out \in Seq(Nat)
    /\ Shape
    /\ res \in Results \cup {"none"}
    /\ res = "none" => dec.state = "Version"
    /\ AtVersion \/ AtHeader \/ AtRecordHead \/ AtRecordBody \/ AtAfterFinal \/ AtDone

\* A step of the Delivery contract, or none.
ContractStep == Contract!Next \/ UNCHANGED Contract!vars

\* Sealed messages are sequences short enough for the record counter.
LEMMA PlainTyped ==
    ASSUME FilesInv, NEW s \in Streams
    PROVE  /\ plain[s] \in Seq(Nat) /\ FullChunks(plain[s]) \in Nat
           /\ FullChunks(plain[s]) < CounterMax
  BY ReaderAssumption, FullChunksBounds, Zenon DEF FilesInv

\* The invariant holds before the first call.
LEMMA ReaderInit == Init => ReaderInv
<1> SUFFICES ASSUME Init PROVE ReaderInv
  BY Zenon
<1> USE DEF Init
<1>1. \A s \in Streams : plain[s] \in Plaintexts[s] /\ plain[s] \in Seq(Nat)
  BY ReaderAssumption, Zenon
<1>2. file \in Seq(Cells(plain))
  BY <1>1, SealedTyped, ReaderAssumption, Zenon
<1>3. FilesInv
  BY <1>1, <1>2, Zenon DEF FilesInv
<1>4. AtVersion /\ Shape
  BY DEF AtVersion, Shape, NewDecryptor
<1>5. QED
  BY <1>2, <1>3, <1>4 DEF ReaderInv, AtVersion

\* Damage adds no cell that a damaged file cannot hold, and happens before the
\* reading starts.
LEMMA DamageStep == ASSUME ReaderInv, Damage PROVE ReaderInv'
<1>1. /\ UNCHANGED <<plain, sealed, pos, dec, out, res, outcome>>
      /\ res = "none"
  BY Zenon DEF Damage, Cut, Insert, Change, Damaging
<1>2. file \in Seq(Cells(plain)) /\ AtVersion
  BY <1>1, Zenon DEF ReaderInv, FilesInv, AtVersion, AtHeader, AtRecordHead, AtRecordBody, AtAfterFinal, AtDone
<1>3. \A s \in Streams : sealed[s] \in Seq(Cells(plain))
  BY SealedTyped, PlainTyped, Zenon DEF ReaderInv, FilesInv
<1>4. file' \in Seq(Cells(plain))
  <2>1. CASE \E i \in 0 .. Len(file) : \E j \in i + 1 .. Len(file) : Cut(i, j)
    BY <1>2, <2>1 DEF Cut, Damaging
  <2>2. CASE \E s \in Streams : \E i \in 0 .. Len(file) :
                \E k \in 0 .. Len(sealed[s]) : \E l \in k + 1 .. Len(sealed[s]) :
                   Insert(s, i, k, l)
    BY <1>2, <1>3, <2>2 DEF Insert, Damaging
  <2>3. CASE \E i \in 1 .. Len(file) : Change(i)
    <3>1. PICK i \in 1 .. Len(file) : Change(i)
      BY <2>3, Zenon
    <3>2. PICK c \in ChangedCells(file[i]) : file' = [file EXCEPT ![i] = c]
      BY <3>1, Zenon DEF Change, Damaging
    <3>3. c \in Cells(plain)
      BY <3>2, Zenon DEF ChangedCells, Cells, PlainCells
    <3>4. QED
      BY <1>2, <3>1, <3>2, <3>3
  <2>4. QED
    BY <2>1, <2>2, <2>3, Zenon DEF Damage
<1>5. FilesInv' /\ Shape'
  BY <1>1, <1>4, Zenon DEF ReaderInv, FilesInv, Shape
<1>6. QED
  BY <1>1, <1>2, <1>4, <1>5 DEF ReaderInv, AtVersion

\* A call that returns without touching the decryptor.
LEMMA RefusedStep ==
    ASSUME ReaderInv, UNCHANGED <<plain, sealed, file, pos, dec, out, outcome>>, res' \in Results
    PROVE  ReaderInv'
<1> USE DEF ReaderInv
<1>1. FilesInv' /\ Shape' /\ "none" \notin Results
  BY Zenon DEF FilesInv, Shape, Results
<1>2. CASE AtVersion
  BY <1>1, <1>2, Zenon DEF AtVersion
<1>3. CASE AtHeader
  BY <1>1, <1>3, Zenon DEF AtHeader
<1>4. CASE AtRecordHead
  BY <1>1, <1>4 DEF AtRecordHead, Progress, Matches
<1>5. CASE AtRecordBody
  <2>1. PICK k, h, n : dec.pull = PullAt(k, h, n) /\ Progress(k, h, n, pos - 2)
    BY <1>5, Zenon DEF AtRecordBody
  <2>2. (dec.pull = PullAt(k, h, n) /\ Progress(k, h, n, pos - 2))'
    BY <2>1, Zenon DEF Progress, Matches
  <2>3. AtRecordBody'
    BY <1>5, <2>2, Zenon DEF AtRecordBody
  <2>4. QED
    BY <1>1, <1>5, <2>3, Zenon DEF AtRecordBody
<1>6. CASE AtAfterFinal
  BY <1>1, <1>6, Zenon DEF AtAfterFinal, ReadAll
<1>7. CASE AtDone
  BY <1>1, <1>7, Zenon DEF AtDone, OpensOnlySealedFiles
<1>8. QED
  BY <1>2, <1>3, <1>4, <1>5, <1>6, <1>7, Zenon

\* A call that ends the decryptor with an error.
LEMMA FailedStep ==
    ASSUME ReaderInv, UNCHANGED <<plain, sealed, file, out>>, pos' \in 0 .. Len(file),
           dec' = Fail(dec), res' \in Results, outcome' = "failed"
    PROVE  ReaderInv'
<1> USE DEF ReaderInv
<1>1. FilesInv' /\ "none" \notin Results
  BY Zenon DEF FilesInv, Results
<1>2. /\ Shape' /\ dec'.state = "Done" /\ dec'.pull = << >> /\ dec'.key = Wiped
      /\ dec'.held = << >>
  BY Zenon DEF Shape, Fail
<1>3. AtDone'
  BY <1>2, Zenon DEF AtDone, OpensOnlySealedFiles
<1>4. QED
  BY <1>1, <1>2, <1>3, Zenon

\* Pulling the Final record finalizes the state.
LEMMA AdvanceFinal ==
    ASSUME NEW k, NEW n \in Nat
    PROVE  Advance([subkey |-> k, counter |-> n, finalized |-> FALSE], "Final") =
             [subkey |-> k, counter |-> n + 1, finalized |-> TRUE]
<1> DEFINE st == [subkey |-> k, counter |-> n, finalized |-> FALSE]
<1>1. (st.finalized \/ "Final" = "Final") = TRUE
  BY Zenon
<1>2. (IF "Final" = "Rekey" THEN Rekey(st.subkey) ELSE st.subkey) = k /\ st.counter + 1 = n + 1
  BY Zenon
<1> HIDE DEF st
<1>3. Advance(st, "Final") = [subkey |-> k, counter |-> n + 1, finalized |-> TRUE]
  BY <1>1, <1>2, Zenon DEF Advance
<1>4. QED
  BY <1>3, Zenon DEF st

\* The record body pull accepts is the one that was sealed at its position.
IsBody(p, h, n, tag, len, body) ==
    LET c == ChunkOf(h, p[h], n)
    IN  /\ h \in Streams /\ n \in Indices(p[h])
        /\ tag = TagOf(p[h], n) /\ len = Len(TextOf(p[h], n))
        /\ \A i \in 1 .. len : body[i] = <<"ciphertext", c.ciphertext, i>>
        /\ body[len + 1] = AuthCell(c.auth)
        /\ body[Len(body)][2].ciphertext.plaintext = TextOf(p[h], n)

\* A record body that pull accepts is the body of the record that comes next.
LEMMA AcceptedBody ==
    ASSUME NEW p, \A s \in Streams : p[s] \in Seq(Nat),
           NEW k, NEW h, NEW n \in Nat, NEW tag, NEW body \in Seq(Cells(p)),
           NEW len \in Nat, Len(body) = len + 1,
           PullBody(PullAt(k, h, n)[1], tag, body) = "Ok"
    PROVE  k = Key /\ IsBody(p, h, n, tag, len, body)
<1> DEFINE st == PullAt(k, h, n)[1]
           last == body[len + 1]
           auth == last[2]
<1>1. st.subkey = InitialSubkey(k, h) /\ st.counter = n
  BY Zenon DEF PullAt
<1>2. Verifies(st, tag, auth.ciphertext, auth, BodyIntact(body))
  BY Zenon DEF PullBody, PullResult
<1> HIDE DEF st
<1>3. /\ last[1] = "auth" /\ CiphertextCells(auth.ciphertext) = SubSeq(body, 1, len)
  BY <1>2 DEF Verifies, BodyIntact
<1>4. auth = AuthTag(InitialSubkey(k, h), n, ChunkAad(n, tag, Len(auth.ciphertext.plaintext)),
                     auth.ciphertext)
  BY <1>1, <1>2, Zenon DEF Verifies
<1>5. last \in Cells(p)
  BY SMTT(60)
<1>6. PICK s \in Streams : \E j \in Indices(p[s]) : last = AuthCell(ChunkOf(s, p[s], j).auth)
  BY <1>3, <1>5, CellKinds, Zenon
<1>7. PICK j \in Indices(p[s]) : last = AuthCell(ChunkOf(s, p[s], j).auth)
  BY <1>6, Zenon
<1> DEFINE text == TextOf(p[s], j)
           cipher == Encrypt(InitialSubkey(Key, s), j, text)
<1>8. j \in Nat
  BY FullChunksBounds DEF Indices
<1>9. ChunkOf(s, p[s], j).ciphertext = cipher
      /\ ChunkOf(s, p[s], j).auth =
           AuthTag(InitialSubkey(Key, s), j, ChunkAad(j, TagOf(p[s], j), Len(text)), cipher)
  BY <1>8, PushedIs DEF ChunkOf, Chunk
<1>10. auth = AuthTag(InitialSubkey(Key, s), j, ChunkAad(j, TagOf(p[s], j), Len(text)), cipher)
  BY <1>7, <1>9 DEF AuthCell
<1>11. auth.ciphertext = cipher /\ cipher.plaintext = text
  BY <1>10 DEF AuthTag, Encrypt
<1>12. k = Key /\ h = s /\ n = j /\ tag = TagOf(p[s], j)
  <2> HIDE DEF auth, cipher, text
  <2>1. InitialSubkey(k, h) = InitialSubkey(Key, s) /\ n = j
        /\ ChunkAad(n, tag, Len(auth.ciphertext.plaintext)) = ChunkAad(j, TagOf(p[s], j), Len(text))
    BY <1>4, <1>10, Zenon DEF AuthTag
  <2>2. QED
    BY <2>1, Zenon DEF InitialSubkey, ChunkAad
<1>13. text \in Seq(Nat)
  BY TextIs, Zenon
<1>14. CiphertextCells(cipher) = [i \in 1 .. Len(text) |-> <<"ciphertext", cipher, i>>]
  BY <1>11, Zenon DEF CiphertextCells
<1>15. Len(text) = len /\ \A i \in 1 .. len : body[i] = <<"ciphertext", cipher, i>>
  <2> HIDE DEF cipher, text
  <2>1. SubSeq(body, 1, len) = [i \in 1 .. Len(text) |-> <<"ciphertext", cipher, i>>]
    BY <1>3, <1>11, <1>14, Zenon
  <2>2. Len(SubSeq(body, 1, len)) = len /\ \A i \in 1 .. len : SubSeq(body, 1, len)[i] = body[i]
    OBVIOUS
  <2>3. Len(text) = len
    BY <1>13, <2>1, <2>2
  <2>4. QED
    BY <2>1, <2>2, <2>3, Zenon
<1>16. body[Len(body)][2].ciphertext.plaintext = text
  BY <1>11, Zenon
<1>17. QED
  <2> HIDE DEF cipher, text, last
  <2>1. QED
    BY <1>7, <1>9, <1>12, <1>15, <1>16, Zenon DEF text, last, IsBody

\* Cells that read one after the other read together.
LEMMA ReadsJoin ==
    ASSUME NEW S, NEW t \in Seq(S), NEW r \in Seq(S), NEW f,
           \A i \in 1 .. Len(t) : Reads(f[i], t[i]),
           \A i \in 1 .. Len(r) : Reads(f[Len(t) + i], r[i])
    PROVE  /\ Len(t \o r) = Len(t) + Len(r)
           /\ \A i \in 1 .. Len(t) + Len(r) : Reads(f[i], (t \o r)[i])
<1>1. Len(t) \in Nat /\ Len(r) \in Nat /\ Len(t \o r) = Len(t) + Len(r)
  OBVIOUS
<1>2. ASSUME NEW i \in 1 .. Len(t) + Len(r) PROVE Reads(f[i], (t \o r)[i])
  <2>1. CASE i <= Len(t)
    <3>1. (t \o r)[i] = t[i] /\ i \in 1 .. Len(t)
      BY <1>1, <2>1
    <3>2. QED
      BY <3>1, Zenon
  <2>2. CASE i > Len(t)
    <3>1. PICK q : q = i - Len(t)
      BY Zenon
    <3>2. q \in 1 .. Len(r) /\ i = Len(t) + q
      BY <1>1, <2>2, <3>1
    <3>3. (t \o r)[i] = r[q]
      BY <1>1, <2>2, <3>1, <3>2
    <3>4. QED
      BY <3>2, <3>3, Zenon
  <2>3. QED
    BY <1>1, <2>1, <2>2
<1>3. QED
  BY <1>1, <1>2, Zenon

\* The three early returns of pull that a record body can meet, and its success.
LEMMA PullBodyResults ==
    ASSUME NEW st, NEW tag, NEW body
    PROVE  LET e == PullBody(st, tag, body)
           IN  e # "Ok" => FileErrorOf(e) \in Results
  BY Zenon DEF PullBody, PullResult, FileErrorOf, Results

\* Nothing comes out: a stuttering step of the contract, or the end of the reading.
LEMMA QuietStep ==
    ASSUME UNCHANGED <<plain, out>>,
           outcome' = outcome \/ (outcome = "open" /\ outcome' = "failed")
    PROVE  ContractStep
<1>1. UNCHANGED {plain[s] : s \in Streams}
  BY Zenon
<1>2. CASE outcome' = outcome
  BY <1>1, <1>2, Zenon DEF ContractStep, Contract!vars
<1>3. CASE outcome = "open" /\ outcome' = "failed"
  BY <1>1, <1>3, Zenon DEF ContractStep, Contract!Next, Contract!Abandon
<1>4. QED
  BY <1>2, <1>3, Zenon

\* More of a message comes out, and not the end of it.
LEMMA ReleaseStep ==
    ASSUME UNCHANGED <<plain, outcome>>, outcome = "open",
           NEW h \in Streams, plain[h] \in Seq(Nat),
           NEW b \in Nat, NEW u \in Nat, b < u, u < Len(plain[h]),
           out = SubSeq(plain[h], 1, b), out' = SubSeq(plain[h], 1, u)
    PROVE  ContractStep
<1>1. UNCHANGED {plain[s] : s \in Streams}
  BY Zenon
<1>2. PICK m : m = plain[h]
  BY Zenon
<1>3. m \in {plain[s] : s \in Streams} /\ m \in Seq(Nat)
  BY <1>2, Zenon
<1>4. Len(out) = b /\ \A i \in 1 .. b : out[i] = m[i]
  BY <1>2, <1>3
<1>5. Contract!IsPrefixOf(out, m)
  BY <1>2, <1>3, <1>4, SMTT(60) DEF Contract!IsPrefixOf
<1>6. u \in Len(out) + 1 .. Len(m) - 1 /\ out' = SubSeq(m, 1, u)
  BY <1>2, <1>3, <1>4
<1>7. Contract!Release
  BY <1>1, <1>3, <1>5, <1>6, Zenon DEF Contract!Release
<1>8. QED
  BY <1>7, Zenon DEF ContractStep, Contract!Next

\* The rest of a message comes out with the news that it is complete.
LEMMA CompleteStep ==
    ASSUME UNCHANGED plain, outcome = "open", outcome' = "complete",
           NEW h \in Streams, plain[h] \in Seq(Nat), NEW b \in Nat, b <= Len(plain[h]),
           out = SubSeq(plain[h], 1, b), out' = plain[h]
    PROVE  ContractStep
<1>1. UNCHANGED {plain[s] : s \in Streams}
  BY Zenon
<1>2. PICK m : m = plain[h]
  BY Zenon
<1>3. m \in {plain[s] : s \in Streams} /\ m \in Seq(Nat) /\ out' = m
  BY <1>2, Zenon
<1>4. Len(out) = b /\ \A i \in 1 .. b : out[i] = m[i]
  BY <1>2, <1>3
<1>5. Contract!IsPrefixOf(out, m)
  BY <1>2, <1>3, <1>4, Zenon DEF Contract!IsPrefixOf
<1>6. Contract!Complete
  BY <1>1, <1>3, <1>5, Zenon DEF Contract!Complete
<1>7. QED
  BY <1>6, Zenon DEF ContractStep, Contract!Next

\* The file read so far, when the record after it is the one that comes next.
LEMMA BodyRead ==
    ASSUME FilesInv, NEW h \in Streams, NEW n \in Indices(plain[h]),
           pos \in Nat, pos >= 2, Matches(h, n, pos - 2), NEW len \in Nat,
           TagOf(plain[h], n) \in TagBytesOf(file[pos - 1]), len \in LengthsOf(file[pos]),
           len = Len(TextOf(plain[h], n)),
           \A i \in 1 .. len :
              file[pos + i] = <<"ciphertext", ChunkOf(h, plain[h], n).ciphertext, i>>,
           file[pos + (len + 1)] = AuthCell(ChunkOf(h, plain[h], n).auth),
           NEW f, f = SealedChunks(Key, h, plain[h], n) \o RecordOf(h, plain[h], n)
    PROVE  /\ Len(f) = pos + (len + 1)
           /\ \A i \in 1 .. pos + (len + 1) : Reads(file[i], f[i])
<1> DEFINE m == plain[h]
           c == ChunkOf(h, m, n)
           t == SealedChunks(Key, h, m, n)
           rec == RecordOf(h, m, n)
<1>1. m \in Seq(Nat)
  BY PlainTyped, Zenon
<1>2. t \in Seq(Cells(plain)) /\ Len(t) = pos - 2
  BY <1>1, SealedTyped, Zenon DEF Matches
<1>3. /\ rec \in Seq(Cells(plain)) /\ Len(rec) = len + 3
      /\ rec[1] = TagCell(TagOf(m, n)) /\ rec[2] = LenCell(len)
      /\ \A i \in 1 .. len : rec[i + 2] = <<"ciphertext", c.ciphertext, i>>
      /\ rec[len + 3] = AuthCell(c.auth)
  <2> DEFINE l == Len(TextOf(m, n))
  <2>1. /\ rec \in Seq(Cells(plain)) /\ Len(rec) = l + 3
        /\ rec[1] = TagCell(TagOf(m, n)) /\ rec[2] = LenCell(l)
        /\ \A i \in 1 .. l : rec[i + 2] = <<"ciphertext", c.ciphertext, i>>
        /\ rec[l + 3] = AuthCell(c.auth)
    BY <1>1, RecordTyped, Zenon
  <2> HIDE DEF rec
  <2>2. QED
    BY <2>1, Zenon
<1>4. \A i \in 1 .. Len(t) : Reads(file[i], t[i])
  BY <1>2, Zenon DEF Matches
<1> HIDE DEF m, c, t, rec
<1>5. \A i \in 1 .. Len(rec) : Reads(file[Len(t) + i], rec[i])
  <2>1. Reads(file[pos - 1], rec[1])
    BY <1>3 DEF Reads, TagCell, m
  <2>2. Reads(file[pos], rec[2])
    BY <1>3 DEF Reads, LenCell
  <2>3. ASSUME NEW i \in 1 .. len PROVE Reads(file[pos + i], rec[i + 2])
    <3>1. file[pos + i] = <<"ciphertext", c.ciphertext, i>> /\ rec[i + 2] = file[pos + i]
      BY <1>3, Zenon DEF c, m
    <3>2. QED
      BY <3>1 DEF Reads
  <2>4. Reads(file[pos + (len + 1)], rec[len + 3])
    <3>1. file[pos + (len + 1)] = AuthCell(c.auth) /\ rec[len + 3] = file[pos + (len + 1)]
      BY <1>3, Zenon DEF c, m
    <3>2. QED
      BY <3>1 DEF Reads, AuthCell
  <2>5. TAKE i \in 1 .. Len(rec)
  <2>6. i \in Nat /\ i >= 1 /\ i <= len + 3 /\ Len(t) + i = pos + i - 2
    <3>1. Len(rec) = len + 3 /\ Len(t) = pos - 2
      BY <1>2, <1>3, Zenon
    <3>2. QED
      BY <3>1
  <2>7. CASE i = 1
    BY <2>1, <2>6, <2>7
  <2>8. CASE i = 2
    BY <2>2, <2>6, <2>8
  <2>9. CASE i >= 3 /\ i <= len + 2
    <3>1. i - 2 \in 1 .. len /\ (i - 2) + 2 = i /\ pos + (i - 2) = Len(t) + i
      BY <2>6, <2>9
    <3>2. QED
      BY <2>3, <3>1, Zenon
  <2>10. CASE i = len + 3
    <3>1. Len(t) + i = pos + (len + 1)
      BY <2>6, <2>10
    <3>2. QED
      BY <2>4, <2>10, <3>1, Zenon
  <2>11. QED
    BY <2>6, <2>7, <2>8, <2>9, <2>10
<1>6. Len(t) + Len(rec) = pos + (len + 1)
  <2>1. Len(rec) = len + 3 /\ Len(t) = pos - 2
    BY <1>2, <1>3, Zenon
  <2>2. QED
    BY <2>1
<1>7. /\ Len(t \o rec) = Len(t) + Len(rec)
      /\ \A i \in 1 .. Len(t) + Len(rec) : Reads(file[i], (t \o rec)[i])
  BY <1>2, <1>3, <1>4, <1>5, ReadsJoin, Zenon
<1>8. f = t \o rec
  BY Zenon DEF t, rec, m
<1>9. QED
  BY <1>6, <1>7, <1>8, Zenon

\* What an accepted record body is, in the state before its feed.
NextRecord(h, n) ==
    /\ h \in Streams /\ n \in Indices(plain[h]) /\ n \in Nat
    /\ dec.pull = PullAt(Key, h, n)
    /\ Matches(h, n, pos - 2)
    /\ \A f : f = SealedChunks(Key, h, plain[h], n) \o RecordOf(h, plain[h], n) =>
                Len(f) = pos' /\ \A i \in 1 .. pos' : Reads(file[i], f[i])
    /\ UNCHANGED <<plain, sealed, file, outcome>> /\ pos' \in 0 .. Len(file) /\ res' = "Ok"

\* The decryptor after it: Pulled is the state before state and held are set.
Pulled(tag, d) == [d EXCEPT !.pull[1] = Advance(@, tag)]

\* The decryptor that holds text back, in the state given.
Holding(d, text, state) == [d EXCEPT !.held = text, !.state = state]

\* A decryptor with these fields.
Decryptor(key, pull, state, tag, len, held) ==
    [key |-> key, pull |-> <<pull>>, state |-> state, tag |-> tag, len |-> len, held |-> held]

\* Pulling a record changes the pull state of the decryptor and no other field.
LEMMA PulledIs ==
    ASSUME NEW d, NEW key, NEW pull, NEW state, NEW tag, NEW len, NEW held, NEW t,
           d = Decryptor(key, pull, state, tag, len, held)
    PROVE  Pulled(t, d) = Decryptor(key, Advance(pull, t), state, tag, len, held)
  BY SMT DEF Pulled, Decryptor

\* The decryptor after a Message record.
LEMMA PulledMessage ==
    ASSUME NEW d, NEW key, NEW pull, NEW was, NEW tag, NEW len, NEW held, NEW state, NEW t,
           d = Decryptor(key, pull, was, tag, len, held)
    PROVE  [Pulled(t, d) EXCEPT !.state = state] =
             Decryptor(key, Advance(pull, t), state, tag, len, held)
<1>1. PICK e : e = Pulled(t, d)
  BY Zenon
<1>2. e = Decryptor(key, Advance(pull, t), was, tag, len, held)
  BY <1>1, PulledIs
<1>3. [e EXCEPT !.state = state] = Decryptor(key, Advance(pull, t), state, tag, len, held)
  BY ONLY <1>2, SMT DEF Decryptor
<1>4. QED
  BY <1>1, <1>3, Zenon

\* The decryptor after the Final record, whose text it holds.
LEMMA PulledFinal ==
    ASSUME NEW d, NEW key, NEW pull, NEW was, NEW tag, NEW len, NEW held, NEW state, NEW t,
           NEW text, d = Decryptor(key, pull, was, tag, len, held)
    PROVE  Holding(Pulled(t, d), text, state) =
             Decryptor(key, Advance(pull, t), state, tag, len, text)
<1>1. PICK e : e = Pulled(t, d)
  BY Zenon
<1>2. e = Decryptor(key, Advance(pull, t), was, tag, len, held)
  BY <1>1, PulledIs
<1>3. PICK g : g = [e EXCEPT !.held = text]
  BY Zenon
<1>4. g = Decryptor(key, Advance(pull, t), was, tag, len, text)
  BY ONLY <1>2, <1>3, SMT DEF Decryptor
<1>5. [g EXCEPT !.state = state] = Decryptor(key, Advance(pull, t), state, tag, len, text)
  BY ONLY <1>4, SMT DEF Decryptor
<1>6. Holding(e, text, state) = [g EXCEPT !.state = state]
  BY ONLY <1>2, <1>3, <1>4, <1>5, SMT DEF Holding, Decryptor
<1>7. QED
  BY <1>1, <1>5, <1>6, Zenon

\* The Final record is held back until finish.
LEMMA FinalRecordStep ==
    ASSUME ReaderInv, AtRecordBody, NEW h, NEW n, NextRecord(h, n), n = FullChunks(plain[h]),
           dec.tag = "Final",
           dec' = [Pulled("Final", dec) EXCEPT !.held = TextOf(plain[h], n), !.state = "AfterFinal"],
           out' = out
    PROVE  ReaderInv' /\ ContractStep
<1> DEFINE m == plain[h]
<1>1. /\ FilesInv /\ Shape /\ h \in Streams /\ n \in Nat /\ dec.pull = PullAt(Key, h, n)
      /\ UNCHANGED <<plain, sealed, file, outcome>> /\ pos' \in 0 .. Len(file) /\ res' = "Ok"
      /\ out \in Seq(Nat) /\ outcome = "open" /\ dec.key = Wiped /\ Matches(h, n, pos - 2)
  BY Zenon DEF NextRecord, ReaderInv, AtRecordBody
<1>2. dec' = [key |-> dec.key,
              pull |-> <<[subkey |-> InitialSubkey(Key, h), counter |-> n + 1,
                          finalized |-> TRUE]>>,
              state |-> "AfterFinal", tag |-> dec.tag, len |-> dec.len, held |-> TextOf(m, n)]
  <2>1. PICK pull : pull = [subkey |-> InitialSubkey(Key, h), counter |-> n, finalized |-> FALSE]
    BY Zenon
  <2>2. dec = Decryptor(dec.key, pull, dec.state, dec.tag, dec.len, dec.held)
    BY <1>1, <2>1, Zenon DEF Shape, PullAt, Decryptor
  <2>3. Advance(pull, "Final") = [subkey |-> InitialSubkey(Key, h), counter |-> n + 1,
                                finalized |-> TRUE]
    BY <1>1, <2>1, AdvanceFinal, Zenon
  <2>4. dec' = Decryptor(dec.key, Advance(pull, "Final"), "AfterFinal", dec.tag, dec.len, TextOf(m, n))
    <3>1. PICK text : text = TextOf(m, n)
      BY Zenon
    <3>2. Holding(Pulled("Final", dec), text, "AfterFinal") =
            Decryptor(dec.key, Advance(pull, "Final"), "AfterFinal", dec.tag, dec.len, text)
      BY ONLY <2>2, PulledFinal, SMT
    <3>3. dec' = Holding(Pulled("Final", dec), text, "AfterFinal")
      BY <3>1, Zenon DEF Holding
    <3>4. QED
      BY <3>1, <3>2, <3>3, Zenon
  <2>5. QED
    BY <2>3, <2>4, Zenon DEF Decryptor
<1>3. Shape' /\ FilesInv'
  BY <1>1, <1>2, Zenon DEF Shape, FilesInv
<1>4. ReadAll(h)'
  <2>1. PICK f : f = SealedChunks(Key, h, m, n) \o RecordOf(h, m, n)
    BY Zenon
  <2>2. Len(f) = pos' /\ \A i \in 1 .. pos' : Reads(file[i], f[i])
    BY <2>1, Zenon DEF NextRecord
  <2>3. sealed[h] = f
    BY <1>1, <2>1, SealedLast, Zenon DEF FilesInv
  <2>4. sealed'[h] = f /\ file' = file
    BY <1>1, <2>3, Zenon
  <2>5. QED
    BY <2>2, <2>4, Zenon DEF ReadAll
<1>5. /\ out' = SubSeq(plain'[h], 1, FullChunks(plain'[h]) * CHUNK_BYTES)
      /\ dec'.held = TextOf(plain'[h], FullChunks(plain'[h]))
      /\ dec'.pull = <<[subkey |-> InitialSubkey(Key, h),
                        counter |-> FullChunks(plain'[h]) + 1, finalized |-> TRUE]>>
      /\ dec'.state = "AfterFinal" /\ dec'.key = Wiped /\ outcome' = "open"
  <2>1. out = SubSeq(m, 1, n * CHUNK_BYTES) /\ plain'[h] = m /\ n = FullChunks(m)
    BY <1>1, Zenon DEF Matches
  <2>2. /\ dec'.held = TextOf(m, n) /\ dec'.state = "AfterFinal" /\ dec'.key = Wiped
        /\ dec'.pull = <<[subkey |-> InitialSubkey(Key, h), counter |-> n + 1, finalized |-> TRUE]>>
    <3>1. dec.key = Wiped
      BY <1>1, Zenon
    <3>2. QED
      BY ONLY <1>2, <3>1, Zenon
  <2> HIDE DEF m
  <2>3. QED
    BY <1>1, <2>1, <2>2, Zenon
<1>6. AtAfterFinal'
  BY <1>1, <1>4, <1>5, Zenon DEF AtAfterFinal
<1>7. ReaderInv'
  BY <1>1, <1>3, <1>6, Zenon DEF ReaderInv, Results
<1>8. QED
  BY <1>1, <1>7, QuietStep, Zenon

\* A Message record comes out at once, and the message has more to come.
LEMMA MessageRecordStep ==
    ASSUME ReaderInv, AtRecordBody, NEW h, NEW n, NextRecord(h, n), n # FullChunks(plain[h]),
           dec.tag = "Message",
           dec' = [Pulled("Message", dec) EXCEPT !.state = "RecordHead"],
           out' = out \o TextOf(plain[h], n)
    PROVE  ReaderInv' /\ ContractStep
<1> DEFINE m == plain[h]
<1>1. /\ FilesInv /\ Shape /\ h \in Streams /\ n \in Nat /\ dec.pull = PullAt(Key, h, n)
      /\ UNCHANGED <<plain, sealed, file, outcome>> /\ pos' \in 0 .. Len(file) /\ res' = "Ok"
      /\ out \in Seq(Nat) /\ outcome = "open" /\ dec.key = Wiped /\ dec.held = << >>
      /\ Matches(h, n, pos - 2) /\ n \in Indices(m)
  BY Zenon DEF NextRecord, ReaderInv, AtRecordBody
<1>2. dec' = [key |-> dec.key, pull |-> PullAt(Key, h, n + 1),
              state |-> "RecordHead", tag |-> dec.tag, len |-> dec.len, held |-> dec.held]
  <2>1. PICK pull : pull = [subkey |-> InitialSubkey(Key, h), counter |-> n, finalized |-> FALSE]
    BY Zenon
  <2>2. dec = Decryptor(dec.key, pull, dec.state, dec.tag, dec.len, dec.held)
    BY <1>1, <2>1, Zenon DEF Shape, PullAt, Decryptor
  <2>3. Advance(pull, "Message") = [subkey |-> InitialSubkey(Key, h), counter |-> n + 1,
                                finalized |-> FALSE]
    BY <1>1, <2>1, AdvanceMessage, Zenon
  <2>4. dec' = Decryptor(dec.key, Advance(pull, "Message"), "RecordHead", dec.tag, dec.len, dec.held)
    BY <2>2, PulledMessage, SMT
  <2>5. QED
    BY <2>3, <2>4, Zenon DEF Decryptor, PullAt
<1>3. Shape' /\ FilesInv'
  BY <1>1, <1>2, Zenon DEF Shape, FilesInv
<1>4. m \in Seq(Nat) /\ FullChunks(m) \in Nat
  BY <1>1, PlainTyped, Zenon
<1>5. n + 1 \in Indices(m) /\ n + 1 \in Nat /\ n + 1 > 0 /\ n + 1 # 0 /\ n + 1 <= FullChunks(m)
  BY <1>1, <1>4 DEF Indices
<1>6. SealedChunks(Key, h, m, n + 1) = SealedChunks(Key, h, m, n) \o RecordOf(h, m, n)
  BY <1>1, <1>4, SealedNext, Zenon
<1>7. TextOf(m, n) \in Seq(Nat)
  BY <1>1, <1>4, TextIs, Zenon
<1> DEFINE b == n * CHUNK_BYTES
           u == (n + 1) * CHUNK_BYTES
<1>8. out = SubSeq(m, 1, b) /\ TextOf(m, n) = SubSeq(m, b + 1, u)
  BY <1>1, Zenon DEF Matches, TextOf
<1>9. b \in Nat /\ u = b + CHUNK_BYTES /\ CHUNK_BYTES \in Nat /\ CHUNK_BYTES > 0
  BY <1>1, ChunkArith, ChunkBytesAssumption
<1> HIDE DEF b
<1>10. u \in Nat /\ b < u /\ b <= u /\ u <= Len(m) /\ u < Len(m)
  <2> DEFINE v == FullChunks(m) * CHUNK_BYTES
  <2>1. u <= v
    BY <1>4, <1>5, ChunkMono, Zenon
  <2> HIDE DEF u
  <2>2. v \in Nat /\ v <= Len(m) /\ (m # << >> => v < Len(m))
    BY <1>4, FullChunksBounds, ChunkArith, Zenon
  <2> HIDE DEF v
  <2>3. u \in Nat /\ b < u /\ u <= Len(m) /\ b <= u
    BY <1>4, <1>9, <2>1, <2>2
  <2>4. m # << >>
    BY <1>4, <1>9, <2>3
  <2>5. QED
    BY <1>4, <2>1, <2>2, <2>3, <2>4
<1> HIDE DEF u, m
<1>11. out' = SubSeq(m, 1, u)
  <2>1. Join(SubSeq(m, 1, b), SubSeq(m, b + 1, u)) = SubSeq(m, 1, u)
    BY <1>4, <1>9, <1>10, SeqGrow, Zenon
  <2>2. QED
    BY <1>8, <2>1, Zenon DEF Join, m
<1>12. ContractStep
  BY <1>1, <1>4, <1>8, <1>9, <1>10, <1>11, ReleaseStep, Zenon DEF m
<1>13. Matches(h, n + 1, pos)'
  <2>1. PICK f : f = SealedChunks(Key, h, m, n + 1)
    BY Zenon
  <2>2. Len(f) = pos' /\ \A i \in 1 .. pos' : Reads(file[i], f[i])
    BY <1>6, <2>1, Zenon DEF NextRecord, m
  <2>3. plain'[h] = m /\ file' = file
    BY <1>1, Zenon DEF m
  <2>4. QED
    BY <1>5, <1>11, <2>1, <2>2, <2>3, Zenon DEF Matches, u
<1>14. Progress(Key, h, n + 1, pos)'
  BY <1>1, <1>5, <1>13, Zenon DEF Progress
<1>15. AtRecordHead'
  <2>1. /\ dec'.state = "RecordHead" /\ dec'.key = Wiped /\ dec'.held = << >>
        /\ dec'.pull = PullAt(Key, h, n + 1) /\ outcome' = "open"
    BY <1>1, <1>2
  <2>2. QED
    BY <1>14, <2>1, Zenon DEF AtRecordHead
<1>16. out' \in Seq(Nat)
  BY <1>1, <1>7 DEF m
<1>17. ReaderInv'
  BY <1>1, <1>3, <1>15, <1>16, Zenon DEF ReaderInv, Results
<1>18. QED
  BY <1>12, <1>17, Zenon
=============================================================================
