----------------------- MODULE StreamFileWriterProofs -----------------------
(***************************************************************************)
(* Proofs about StreamFileWriter: for every input, chunk size and pattern  *)
(* of short reads the double-buffered writer produces the file that        *)
(* seal_all makes of what it read, and it panics only if its input grew    *)
(* while it was read.                                                      *)
(***************************************************************************)
EXTENDS StreamFileWriter, StreamFileProofs

\* The push state while records are being sealed.
Sealing ==
    [subkey |-> InitialSubkey(Key, Header), counter |-> enc.counter, finalized |-> FALSE]

\* What was read is what was sealed already, then cur, then next.
Written(before) ==
    /\ before \in Seq(Nat)
    /\ Len(before) = enc.counter * CHUNK_BYTES
    /\ taken = before \o cur \o next

(***************************************************************************)
(* The inductive invariant. The file so far is what seal_all writes for    *)
(* the full chunks sealed so far; what was taken from the input but not    *)
(* sealed yet is in the two buffers; cur is never empty once a chunk was   *)
(* sealed (so the Final record is not empty by mistake); a short cur while *)
(* next is being filled means the input had ended, unless it grew since;   *)
(* and at the end the whole file is what seal_all makes of everything      *)
(* taken.                                                                  *)
(***************************************************************************)
WriterInv ==
    /\ input \in Seq(Nat) /\ taken \in Seq(Nat) /\ cur \in Seq(Nat) /\ next \in Seq(Nat)
    /\ grown \in Nat
    /\ filling \in {"cur", "next"}
    /\ filling = "cur" => next = << >>
    /\ Len(cur) <= CHUNK_BYTES /\ Len(next) <= CHUNK_BYTES
    /\ status # "done" =>
          /\ enc.counter \in Nat
          /\ enc = Sealing
          /\ \E before : Written(before)
          /\ file = SealedChunks(Key, Header, taken, enc.counter)
          /\ enc.counter > 0 => cur # << >>
    /\ status = "running" /\ filling = "next" /\ grown = 0 /\ Len(cur) < CHUNK_BYTES =>
          input = << >> /\ next = << >>
    /\ status = "panicked" => grown > 0
    /\ status = "done" => file = SealAll(Key, Header, taken)

\* A read, however short, keeps the invariant: it adds to one of the two
\* buffers what it takes from the input.
LEMMA ReadStep == ASSUME WriterInv, NEW n \in 1 .. CHUNK_BYTES, Read(n) PROVE WriterInv'
<1> DEFINE got == SubSeq(input, 1, n)
           rest == SubSeq(input, n + 1, Len(input))
<1>1. n \in Nat /\ n > 0 /\ n <= Len(input) /\ input \in Seq(Nat)
  BY ChunkBytesAssumption DEF Read, WriterInv
<1>2. got \in Seq(Nat) /\ Len(got) = n /\ rest \in Seq(Nat)
  BY <1>1, SeqSplit
<1>3. /\ input' = rest /\ taken' = taken \o got
      /\ grown' = grown /\ filling' = filling /\ enc' = enc /\ file' = file /\ status' = status
      /\ status = "running" /\ n <= CHUNK_BYTES - Len(Buffer)
  BY DEF Read
<1>4. IF filling = "cur" THEN cur' = cur \o got /\ next' = next
      ELSE next' = next \o got /\ cur' = cur
  BY DEF Read
<1> HIDE DEF got, rest
<1> USE DEF WriterInv
<1>5. PICK before : Written(before)
  BY <1>3
<1>6. Sealing' = Sealing
  BY <1>3 DEF Sealing
<1>7. enc.counter * CHUNK_BYTES \in Nat
  BY <1>3, ChunkArith, Zenon
<1>8. taken' \in Seq(Nat)
  BY <1>2, <1>3, SeqJoin
<1>9. file' = SealedChunks(Key, Header, taken', enc'.counter)
  <2>1. enc.counter * CHUNK_BYTES <= Len(taken)
    BY <1>5, <1>7, SeqJoin3 DEF Written
  <2>2. SealedChunks(Key, Header, taken \o got, enc.counter) = SealedChunks(Key, Header, taken, enc.counter)
    BY <1>2, <1>3, <2>1, ChunksOfLonger, SMTT(60)
  <2>3. QED
    BY <1>3, <2>2
<1>10. CASE filling = "cur"
  <2>1. cur' = cur \o got /\ next' = next /\ next = << >> /\ filling' = "cur"
    BY <1>3, <1>4, <1>10
  <2>2. cur' \in Seq(Nat) /\ Len(cur') = Len(cur) + n
    BY <1>2, <2>1, SeqJoin, Zenon
  <2>3. Len(cur') <= CHUNK_BYTES /\ cur' # << >>
    BY <1>1, <1>3, <1>10, <2>2, ChunkBytesAssumption DEF Buffer
  <2>4. Written(before)'
    <3>0. before \in Seq(Nat) /\ cur \in Seq(Nat) /\ got \in Seq(Nat)
      BY <1>2, <1>5 DEF Written
    <3>1. before \o cur \o << >> \o got = before \o (cur \o got) \o << >>
      <4>1. PICK u, v : u = before \o cur /\ v = cur \o got
        BY Zenon
      <4>2. PICK w : w = before \o v
        BY Zenon
      <4>3. u \in Seq(Nat) /\ w \in Seq(Nat) /\ before \o cur \o got = before \o (cur \o got)
        BY ONLY <3>0, <4>1, <4>2, SMTT(60)
      <4>4. u \o << >> = u /\ w \o << >> = w
        BY ONLY <4>3
      <4>5. QED
        BY <4>1, <4>2, <4>3, <4>4, Zenon
    <3>2. QED
      BY <1>3, <1>5, <2>1, <3>1, Zenon DEF Written
  <2>5. QED
    BY <1>2, <1>3, <1>6, <1>8, <1>9, <2>1, <2>2, <2>3, <2>4
<1>11. CASE filling = "next"
  <2>1. next' = next \o got /\ cur' = cur /\ filling' = "next"
    BY <1>3, <1>4, <1>11
  <2>2. next' \in Seq(Nat) /\ Len(next') = Len(next) + n
    BY <1>2, <2>1, SeqJoin, Zenon
  <2>3. Len(next') <= CHUNK_BYTES
    BY <1>1, <1>3, <1>11, <2>2, ChunkBytesAssumption DEF Buffer
  <2>4. Written(before)'
    <3>0. before \in Seq(Nat) /\ cur \in Seq(Nat) /\ next \in Seq(Nat) /\ got \in Seq(Nat)
      BY <1>2, <1>5 DEF Written
    <3>1. before \o cur \o next \o got = before \o cur \o (next \o got)
      <4>1. PICK w : w = before \o cur
        BY Zenon
      <4>2. w \in Seq(Nat) /\ next \in Seq(Nat) /\ got \in Seq(Nat)
        BY <3>0, <4>1, SeqJoin
      <4>3. w \o next \o got = w \o (next \o got)
        BY ONLY <4>2
      <4>4. QED
        BY <4>1, <4>3, Zenon
    <3>2. QED
      BY <1>3, <1>5, <2>1, <3>1 DEF Written
  <2>5. grown' = 0 => ~(Len(cur') < CHUNK_BYTES)
    BY <1>1, <1>3, <1>11, <2>1
  <2>6. QED
    BY <1>2, <1>3, <1>6, <1>8, <1>9, <2>1, <2>2, <2>3, <2>4, <2>5, Zenon
<1>12. QED
  BY <1>10, <1>11

\* Sealing the rest as Final completes the file of seal_all.
LEMMA SealLastStep == ASSUME WriterInv, SealLast PROVE WriterInv'
<1> USE DEF WriterInv
<1>1. /\ input' = input /\ taken' = taken /\ grown' = grown /\ cur' = cur /\ next' = next
      /\ filling' = filling /\ status = "running" /\ next = << >> /\ enc.counter \in Nat
  BY DEF SealLast
<1>2. CASE status' = "failed" /\ file' = file /\ enc' = enc
  <2>1. Sealing' = Sealing /\ \A before : Written(before)' = Written(before)
    BY <1>1, <1>2 DEF Sealing, Written
  <2>2. QED
    BY <1>1, <1>2, <2>1
<1>3. CASE status' = "done" /\ file' = file \o Record(enc, "Final", cur)
  <2>1. PICK before : Written(before)
    BY <1>1
  <2> DEFINE n == enc.counter
  <2>2. n * CHUNK_BYTES \in Nat
    BY <1>1, ChunkArith, Zenon
  <2>3. Len(taken) = n * CHUNK_BYTES + Len(cur) /\ before \in Seq(Nat)
        /\ taken = before \o cur \o next /\ Len(before) = n * CHUNK_BYTES
    BY <1>1, <2>1, <2>2, SeqJoin3, SMTT(60) DEF Written
  <2>4. FullChunks(taken) = n
    <3>1. n > 0 => Len(cur) > 0
      BY <1>1
    <3> DEFINE base == n * CHUNK_BYTES
    <3>2. base <= Len(taken) /\ Len(taken) <= base + CHUNK_BYTES /\ (n > 0 => base < Len(taken))
      <4>1. base \in Nat /\ Len(taken) = base + Len(cur) /\ CHUNK_BYTES \in Nat /\ Len(cur) \in Nat
        BY <2>2, <2>3, ChunkBytesAssumption
      <4> HIDE DEF base, n
      <4>2. QED
        BY <3>1, <4>1
    <3>4. n * CHUNK_BYTES <= Len(taken) /\ Len(taken) <= n * CHUNK_BYTES + CHUNK_BYTES
          /\ (n > 0 => n * CHUNK_BYTES < Len(taken))
      BY <3>2
    <3>3. QED
      BY <1>1, <3>4, FullChunksIs
  <2>5. SubSeq(taken, n * CHUNK_BYTES + 1, Len(taken)) = cur
    <3>1. before \in Seq(Nat) /\ cur \in Seq(Nat) /\ next \in Seq(Nat)
      BY <2>3
    <3>2. SubSeq(before \o cur \o next, Len(before) + 1, Len(before) + Len(cur)) = cur
      BY ONLY <3>1
    <3>3. QED
      BY <2>3, <3>2, Zenon
  <2>6. Pushed(Key, Header, n) = enc
    BY <1>1, PushedIs, Zenon DEF Sealing
  <2>7. SealAll(Key, Header, taken) = file \o Record(enc, "Final", cur)
    BY <1>1, <2>4, <2>5, <2>6, Zenon DEF SealAll
  <2>8. QED
    BY <1>1, <1>3, <2>7
<1>4. QED
  BY <1>2, <1>3, Zenon DEF SealLast

\* Sealing cur and swapping the buffers is one turn of the loop of seal_all, or
\* the panic of copy_from_slice after the input grew.
LEMMA SealFullStep == ASSUME WriterInv, SealFull PROVE WriterInv'
<1> USE DEF WriterInv
<1>1. /\ input' = input /\ taken' = taken /\ grown' = grown /\ filling' = filling
      /\ status = "running" /\ next # << >> /\ enc.counter \in Nat /\ filling = "next"
      /\ Len(next) = CHUNK_BYTES \/ input = << >>
  BY DEF SealFull, Filled, Buffer
<1>2. CASE /\ status' \in {"failed", "panicked"} /\ file' = file /\ enc' = enc /\ cur' = cur /\ next' = next
           /\ status' = "panicked" => Len(cur) # CHUNK_BYTES
  <2>1. Sealing' = Sealing /\ \A before : Written(before)' = Written(before)
    BY <1>1, <1>2 DEF Sealing, Written
  <2>2. QED
    BY <1>1, <1>2, <2>1, ChunkBytesAssumption, SMTT(60)
<1>3. CASE /\ status' = status /\ file' = file \o Record(enc, "Message", cur)
           /\ enc' = Advance(enc, "Message") /\ cur' = next /\ next' = << >> /\ Len(cur) = CHUNK_BYTES
  <2>1. PICK before : Written(before)
    BY <1>1
  <2> DEFINE n == enc.counter
  <2>2. n * CHUNK_BYTES \in Nat /\ (n + 1) * CHUNK_BYTES = n * CHUNK_BYTES + CHUNK_BYTES
    BY <1>1, ChunkArith, Zenon
  <2>3. enc'.counter = n + 1 /\ enc' = Sealing' /\ enc'.counter \in Nat
    <3>1. enc' = [subkey |-> InitialSubkey(Key, Header), counter |-> n + 1, finalized |-> FALSE]
      BY <1>1, <1>3, AdvanceMessage, Zenon DEF Sealing
    <3>2. QED
      BY <1>1, <3>1, SMTT(60) DEF Sealing
  <2>4. \E b : Written(b)'
    <3>1. PICK b : b = before \o cur
      BY Zenon
    <3>2. b \in Seq(Nat) /\ Len(b) = n * CHUNK_BYTES + CHUNK_BYTES
      BY <1>3, <2>1, <2>2, <3>1, SeqJoin, Zenon DEF Written
    <3>3. taken' = b \o cur' \o next'
      <4>1. before \in Seq(Nat) /\ cur \in Seq(Nat) /\ next \in Seq(Nat)
        BY <2>1 DEF Written
      <4>2. before \o cur \o next \o << >> = before \o cur \o next
        BY ONLY <4>1
      <4>3. taken = before \o cur \o next
        BY <2>1 DEF Written
      <4>4. QED
        BY <1>1, <1>3, <3>1, <4>2, <4>3, Zenon
    <3>4. Len(b) = enc'.counter * CHUNK_BYTES
      BY <2>2, <2>3, <3>2
    <3>5. Written(b)'
      BY <3>2, <3>3, <3>4 DEF Written
    <3>6. QED
      BY <3>5, Zenon
  <2>5. SubSeq(taken, n * CHUNK_BYTES + 1, (n + 1) * CHUNK_BYTES) = cur
    <3>1. /\ n * CHUNK_BYTES = Len(before) /\ (n + 1) * CHUNK_BYTES \in Nat
          /\ (n + 1) * CHUNK_BYTES = n * CHUNK_BYTES + Len(cur) /\ taken = before \o cur \o next
          /\ before \in Seq(Nat) /\ cur \in Seq(Nat) /\ next \in Seq(Nat)
      BY <1>3, <2>1, <2>2, ChunkBytesAssumption, SMTT(60) DEF Written
    <3>2. SubSeq(before \o cur \o next, Len(before) + 1, Len(before) + Len(cur)) = cur
      <4>1. before \in Seq(Nat) /\ cur \in Seq(Nat) /\ next \in Seq(Nat)
        BY <3>1
      <4>2. QED
        BY ONLY <4>1
    <3>3. QED
      BY <3>1, <3>2, Zenon
  <2>6. Pushed(Key, Header, n) = enc
    BY <1>1, PushedIs, Zenon DEF Sealing
  <2>7. file' = SealedChunks(Key, Header, taken', enc'.counter)
    <3>1. SealedChunks(Key, Header, taken, n + 1) =
            SealedChunks(Key, Header, taken, n) \o
            Record(Pushed(Key, Header, n), "Message",
                   SubSeq(taken, n * CHUNK_BYTES + 1, (n + 1) * CHUNK_BYTES))
      BY <1>1, ChunksNext, Zenon
    <3>2. file = SealedChunks(Key, Header, taken, n)
      BY <1>1
    <3>3. QED
      BY <1>1, <1>3, <2>3, <2>5, <2>6, <3>1, <3>2, Zenon
  <2>8. QED
    <3>1. input' \in Seq(Nat) /\ taken' \in Seq(Nat) /\ cur' \in Seq(Nat) /\ next' \in Seq(Nat)
          /\ Len(cur') <= CHUNK_BYTES /\ Len(next') <= CHUNK_BYTES /\ cur' # << >>
      BY <1>1, <1>3, ChunkBytesAssumption
    <3>2. grown' = 0 /\ Len(cur') < CHUNK_BYTES => input' = << >> /\ next' = << >>
      BY <1>1, <1>3
    <3>3. QED
      BY <1>1, <1>3, <2>3, <2>4, <2>7, <3>1, <3>2, Zenon
<1>4. QED
  BY <1>2, <1>3, Zenon DEF SealFull

\* Every step of the writer or of its input keeps the invariant.
LEMMA WriterStep == ASSUME WriterInv, [Next]_vars PROVE WriterInv'
<1>1. CASE \E n \in 1 .. CHUNK_BYTES : Read(n)
  BY <1>1, ReadStep
<1>2. CASE FirstChunk
  <2>1. Sealing' = Sealing /\ \A before : Written(before)' = Written(before)
    BY <1>2 DEF FirstChunk, Sealing, Written
  <2>2. QED
    BY <1>2, <2>1 DEF FirstChunk, Filled, Buffer, WriterInv
<1>3. CASE SealLast
  BY <1>3, SealLastStep
<1>4. CASE SealFull
  BY <1>4, SealFullStep
<1>5. CASE IoError
  <2>1. Sealing' = Sealing /\ \A before : Written(before)' = Written(before)
    BY <1>5 DEF IoError, Sealing, Written
  <2>2. QED
    BY <1>5, <2>1 DEF IoError, WriterInv
<1>6. CASE Grow
  <2>1. Sealing' = Sealing /\ \A before : Written(before)' = Written(before)
    BY <1>6 DEF Grow, Sealing, Written
  <2>2. input' \in Seq(Nat) /\ grown' \in Nat /\ grown' > 0
    BY <1>6, WriterAssumption DEF Grow, WriterInv
  <2>3. QED
    BY <1>6, <2>1, <2>2 DEF Grow, WriterInv
<1>7. CASE UNCHANGED vars
  <2>1. Sealing' = Sealing /\ \A before : Written(before)' = Written(before)
    BY <1>7 DEF vars, Sealing, Written
  <2>2. QED
    BY <1>7, <2>1 DEF vars, WriterInv
<1>8. QED
  BY <1>1, <1>2, <1>3, <1>4, <1>5, <1>6, <1>7 DEF Next, Loop, Finished

\* The invariant holds before the first read.
LEMMA WriterInit == Init => WriterInv
<1> SUFFICES ASSUME Init PROVE WriterInv
  OBVIOUS
<1> USE DEF Init
<1>1. input \in Seq(Nat)
  BY WriterAssumption
<1>2. enc.counter = 0 /\ enc = Sealing
  BY DEF StreamInit, Sealing
<1>3. Written(<< >>)
  BY <1>2, ChunkBytesAssumption DEF Written
<1>4. file = SealedChunks(Key, Header, taken, enc.counter)
  BY <1>2, ChunksNone
<1>5. QED
  BY <1>1, <1>2, <1>3, <1>4, ChunkBytesAssumption DEF WriterInv

\* The streaming writer writes the file that seal_all writes of the bytes it
\* took from its input, record for record, whatever the sizes of the reads.
THEOREM WriterMatchesSealAll == Spec => []WritesSealedFile
<1>1. WriterInv => WritesSealedFile
  BY DEF WriterInv, WritesSealedFile
<1>2. QED
  BY <1>1, WriterInit, WriterStep, PTL DEF Spec

\* The writer reaches the slice that can panic only if the input grew after a
\* read had come back short.
THEOREM NoPanicOnFixedInput == Spec => []PanicsOnlyIfInputGrew
<1>1. WriterInv => PanicsOnlyIfInputGrew
  BY DEF WriterInv, PanicsOnlyIfInputGrew
<1>2. QED
  BY <1>1, WriterInit, WriterStep, PTL DEF Spec
=============================================================================
