----------------------- MODULE StreamFileReaderProofs -----------------------
(***************************************************************************)
(* Proofs about StreamFileReader, for every set of files sealed under one  *)
(* key, every chunk size and any number of damaging edits: a file that     *)
(* opens is a file that was sealed, and the calls of the decryptor are     *)
(* steps of the abstract Delivery contract.                                *)
(***************************************************************************)
EXTENDS StreamFileReaderLemmas

\* A step that errs leaves the decryptor to Fail and releases nothing.
LEMMA StepReplies ==
    ASSUME NEW d, NEW input, NEW r \in Step(d, input),
           d = [key |-> d.key, pull |-> d.pull, state |-> d.state,
                tag |-> d.tag, len |-> d.len, held |-> d.held],
           d.state \in {"Version", "Header", "RecordHead", "RecordBody", "AfterFinal"}
    PROVE  /\ r = Reply(r.dec, r.out, r.res)
           /\ r.res # "Ok" => r.dec = d /\ r.out = << >>
           /\ r.res = "Ok" => r.dec.state # "Done"
           /\ d.state # "RecordBody" => r.out = << >>
<1>1. CASE d.state = "Version"
  BY <1>1 DEF Step, StepVersion, Reply
<1>2. CASE d.state = "Header"
  <2>1. PICK h : r = Reply([d EXCEPT !.pull = <<StreamInit(d.key, h)>>, !.key = Wiped,
                                     !.state = "RecordHead"], << >>, "Ok")
    BY <1>2, Zenon DEF Step, StepHeader
  <2>2. QED
    BY <2>1, Zenon DEF Reply
<1>3. CASE d.state = "RecordHead"
  <2> DEFINE R(t, n) == IF RecordHeadResult(t, n) # "Ok"
                        THEN Reply(d, << >>, RecordHeadResult(t, n))
                        ELSE Reply([d EXCEPT !.state = "RecordBody", !.tag = t, !.len = n],
                                   << >>, "Ok")
  <2>1. r \in {R(t, n) : t \in TagBytesOf(input[1]), n \in LengthsOf(input[2])}
    <3>1. r \in StepRecordHead(d, input)
      BY <1>3, Zenon DEF Step
    <3>2. StepRecordHead(d, input) = {R(t, n) : t \in TagBytesOf(input[1]), n \in LengthsOf(input[2])}
      BY DEF StepRecordHead
    <3> HIDE DEF R
    <3>3. QED
      BY <3>1, <3>2
  <2> HIDE DEF R
  <2>2. PICK t, n : r = R(t, n)
    BY <2>1
  <2>3. QED
    BY <2>2, Zenon DEF R, Reply
<1>4. CASE d.state = "RecordBody"
  <2> DEFINE verdict == PullBody(d.pull[1], d.tag, input)
             text == input[Len(input)][2].ciphertext.plaintext
             pulled == [d EXCEPT !.pull[1] = Advance(@, d.tag)]
  <2>1. r = IF verdict # "Ok" THEN Reply(d, << >>, FileErrorOf(verdict))
            ELSE IF d.tag = "Final"
            THEN Reply([pulled EXCEPT !.held = text, !.state = "AfterFinal"], << >>, "Ok")
            ELSE Reply([pulled EXCEPT !.state = "RecordHead"], text, "Ok")
    BY <1>4, Zenon DEF Step, StepRecordBody
  <2>2. verdict # "Ok" => FileErrorOf(verdict) # "Ok"
    BY Zenon DEF FileErrorOf
  <2> HIDE DEF verdict, text
  <2>3. QED
    BY <1>4, <2>1, <2>2, Zenon DEF Reply
<1>5. CASE d.state = "AfterFinal"
  BY <1>5 DEF Step, Reply
<1>6. QED
  BY <1>1, <1>2, <1>3, <1>4, <1>5, Zenon

\* What a feed that is not refused does, given what its step replies.
LEMMA FeedIs ==
    ASSUME ReaderInv, FeedCall, dec.state # "Done"
    PROVE  /\ UNCHANGED <<plain, sealed, file>>
           /\ pos' = pos + NextLen(dec) /\ pos' \in 0 .. Len(file) /\ NextLen(dec) \in Nat
           /\ \E r \in Step(dec, SubSeq(file, pos + 1, pos + NextLen(dec))) :
                 IF r.res = "Ok"
                 THEN /\ dec' = r.dec /\ out' = out \o r.out /\ res' = "Ok"
                      /\ outcome' = outcome
                 ELSE /\ dec' = Fail(dec) /\ out' = out /\ res' = r.res
                      /\ outcome' = "failed"
           /\ dec.state # "RecordBody" => out' = out
           /\ outcome = "open" /\ outcome' \in {"open", "failed"}
           /\ outcome' = "failed" => out' = out
<1>1. NextLen(dec) \in Nat /\ out \in Seq(Nat) /\ Shape
      /\ dec.state \in {"Version", "Header", "RecordHead", "RecordBody", "AfterFinal"}
  BY DEF NextLen, ReaderInv, AtVersion, AtHeader, AtRecordHead, AtRecordBody, AtAfterFinal, AtDone
<1>2. pos \in Nat /\ pos + NextLen(dec) <= Len(file) /\ file \in Seq(Cells(plain))
  BY DEF FeedCall, ReaderInv, FilesInv
<1> DEFINE input == SubSeq(file, pos + 1, pos + NextLen(dec))
<1>3. Len(input) = NextLen(dec)
  BY <1>1, <1>2, SeqWindow, Zenon
<1> HIDE DEF input
<1>4. PICK reply \in Feed(dec, input, TRUE) : Settle(reply)
  BY Zenon DEF FeedCall, input
<1>5. PICK r \in Step(dec, input) : reply = IF r.res = "Ok" THEN r ELSE [r EXCEPT !.dec = Fail(@)]
  BY <1>3, <1>4, Zenon DEF Feed
<1>6. /\ r = Reply(r.dec, r.out, r.res)
      /\ r.res # "Ok" => r.dec = dec /\ r.out = << >>
      /\ r.res = "Ok" => r.dec.state # "Done"
      /\ dec.state # "RecordBody" => r.out = << >>
  BY <1>1, <1>5, StepReplies, Zenon DEF Shape
<1>7. IF r.res = "Ok"
      THEN /\ dec' = r.dec /\ out' = out \o r.out /\ res' = "Ok" /\ outcome' = outcome
      ELSE /\ dec' = Fail(dec) /\ out' = out /\ res' = r.res /\ outcome' = "failed"
  <2>1. CASE r.res = "Ok"
    BY <1>4, <1>5, <1>6, <2>1, Zenon DEF Settle
  <2>2. CASE r.res # "Ok"
    <3>1. reply = Reply(Fail(dec), << >>, r.res)
      BY <1>5, <1>6, <2>2, Zenon DEF Reply
    <3>2. Fail(dec).state = "Done"
      BY <1>1, Zenon DEF Fail, Shape
    <3>3. QED
      BY <1>1, <1>4, <2>2, <3>1, <3>2 DEF Settle, Reply
  <2>3. QED
    BY <2>1, <2>2, Zenon
<1>8. UNCHANGED <<plain, sealed, file>> /\ pos' = pos + NextLen(dec)
  BY <1>4, Zenon DEF Settle, FeedCall
<1>9. pos' \in 0 .. Len(file)
  BY <1>1, <1>2, <1>8
<1>10. outcome = "open"
  BY Zenon DEF ReaderInv, AtVersion, AtHeader, AtRecordHead, AtRecordBody, AtAfterFinal, AtDone
<1>11. dec.state # "RecordBody" => out' = out
  BY <1>1, <1>6, <1>7
<1>12. outcome' \in {"open", "failed"} /\ (outcome' = "failed" => out' = out)
  BY <1>7, <1>10, Zenon
<1>13. QED
  BY <1>1, <1>5, <1>7, <1>8, <1>9, <1>10, <1>11, <1>12, Zenon DEF input

\* feed of the version byte.
LEMMA FeedVersion == ASSUME ReaderInv, AtVersion, FeedCall PROVE ReaderInv'
<1>1. NextLen(dec) = 1 /\ dec.state = "Version" /\ pos = 0 /\ file \in Seq(Cells(plain))
  BY Zenon DEF AtVersion, NextLen, ReaderInv, FilesInv
<1>2. /\ UNCHANGED <<plain, sealed, file>> /\ pos' = 1 /\ pos' \in 0 .. Len(file)
  BY <1>1, FeedIs
<1>3. PICK r \in Step(dec, SubSeq(file, 1, 1)) :
         IF r.res = "Ok"
         THEN dec' = r.dec /\ out' = out \o r.out /\ res' = "Ok" /\ outcome' = outcome
         ELSE dec' = Fail(dec) /\ out' = out /\ res' = r.res /\ outcome' = "failed"
  BY <1>1, FeedIs
<1>4. SubSeq(file, 1, 1)[1] = file[1]
  BY <1>1, <1>2
<1>5. PICK v \in VersionsOf(file[1]) :
         r = IF v # FORMAT_VERSION THEN Reply(dec, << >>, "UnsupportedVersion")
             ELSE Reply([dec EXCEPT !.state = "Header"], << >>, "Ok")
  BY <1>1, <1>3, <1>4, Zenon DEF Step, StepVersion
<1>6. CASE v # FORMAT_VERSION
  <2>1. r.res = "UnsupportedVersion"
    BY <1>5, <1>6, Zenon DEF Reply
  <2>2. QED
    BY <1>2, <1>3, <2>1, FailedStep, Zenon DEF Results
<1>7. CASE v = FORMAT_VERSION
  <2>1. dec' = [dec EXCEPT !.state = "Header"] /\ out' = out \o << >> /\ res' = "Ok"
        /\ outcome' = outcome
    BY <1>3, <1>5, <1>7, Zenon DEF Reply
  <2>2. Shape' /\ dec'.state = "Header" /\ dec'.pull = dec.pull /\ dec'.key = dec.key
        /\ dec'.held = dec.held
    BY <2>1, Zenon DEF Shape, ReaderInv
  <2>3. out' = << >>
    BY <2>1 DEF AtVersion
  <2>4. AtHeader'
    BY <1>2, <1>5, <1>7, <2>1, <2>2, <2>3, Zenon DEF AtHeader, AtVersion
  <2>5. FilesInv'
    BY <1>2, Zenon DEF FilesInv, ReaderInv
  <2>6. QED
    BY <1>2, <2>1, <2>2, <2>3, <2>4, <2>5 DEF ReaderInv, Results
<1>8. QED
  BY <1>6, <1>7, Zenon

\* feed of the header: from here the pull state belongs to one header and one
\* key.
LEMMA FeedHeader == ASSUME ReaderInv, AtHeader, FeedCall PROVE ReaderInv'
<1>1. NextLen(dec) = 1 /\ dec.state = "Header" /\ pos = 1 /\ file \in Seq(Cells(plain))
  BY Zenon DEF AtHeader, NextLen, ReaderInv, FilesInv
<1>2. /\ UNCHANGED <<plain, sealed, file>> /\ pos' = 2 /\ pos' \in 0 .. Len(file)
  BY <1>1, FeedIs
<1>3. PICK r \in Step(dec, SubSeq(file, 2, 2)) :
         IF r.res = "Ok"
         THEN dec' = r.dec /\ out' = out \o r.out /\ res' = "Ok" /\ outcome' = outcome
         ELSE dec' = Fail(dec) /\ out' = out /\ res' = r.res /\ outcome' = "failed"
  BY <1>1, FeedIs
<1>4. SubSeq(file, 2, 2)[1] = file[2] /\ file[1] \in Cells(plain) /\ file[2] \in Cells(plain)
  BY <1>1, <1>2
<1>5. PICK h \in HeadersOf(file[2]) :
         r = Reply([dec EXCEPT !.pull = <<StreamInit(dec.key, h)>>, !.key = Wiped,
                               !.state = "RecordHead"], << >>, "Ok")
  BY <1>1, <1>3, <1>4, Zenon DEF Step, StepHeader
<1>6. dec' = [dec EXCEPT !.pull = <<StreamInit(dec.key, h)>>, !.key = Wiped,
                         !.state = "RecordHead"]
      /\ out' = out \o << >> /\ res' = "Ok" /\ outcome' = outcome
  BY <1>3, <1>5, Zenon DEF Reply
<1>7. /\ Shape' /\ dec'.state = "RecordHead" /\ dec'.pull = PullAt(dec.key, h, 0)
      /\ dec'.key = Wiped /\ dec'.held = dec.held
  BY <1>6, Zenon DEF Shape, ReaderInv, StreamInit, PullAt
<1>8. out = << >> /\ out' = << >>
  BY <1>6 DEF AtHeader
<1>9. h \in Streams \cup {NoHeader} /\ (h \in Streams => file[2] = HeaderCell(h))
  <2>1. CASE file[2][1] = "header"
    BY <1>4, <1>5, <2>1, CellKinds DEF HeadersOf, HeaderCell
  <2>2. CASE file[2][1] # "header"
    BY <1>5, <2>2, ReaderAssumption, Zenon DEF HeadersOf
  <2>3. QED
    BY <2>1, <2>2, Zenon
<1>10. ASSUME h \in Streams PROVE Matches(h, 0, 2)'
  <2>1. plain[h] \in Seq(Nat) /\ 0 \in Indices(plain[h])
    BY <1>10, PlainTyped DEF ReaderInv, Indices
  <2>2. SubSeq(plain[h], 1, 0 * CHUNK_BYTES) = << >>
    BY <2>1, ChunkBytesAssumption
  <2>3. SealedChunks(Key, h, plain[h], 0) = <<VersionCell(FORMAT_VERSION), HeaderCell(h)>>
    BY ChunksNone, Zenon DEF Prefix
  <2>4. Reads(file[1], VersionCell(FORMAT_VERSION))
    BY Zenon DEF Reads, VersionCell, AtHeader
  <2>5. Reads(file[2], HeaderCell(h))
    BY <1>9, <1>10, Zenon DEF Reads, HeaderCell
  <2>6. \A i \in 1 .. 2 : Reads(file[i], SealedChunks(Key, h, plain[h], 0)[i])
    BY <2>3, <2>4, <2>5
  <2>7. Len(SealedChunks(Key, h, plain[h], 0)) = 2
    BY <2>3
  <2>8. QED
    BY <1>2, <1>8, <2>1, <2>2, <2>6, <2>7, Zenon DEF Matches
<1>11. \E k, g, n : dec'.pull = PullAt(k, g, n) /\ Progress(k, g, n, pos)'
  <2>1. PICK k : k = dec.key
    BY Zenon
  <2>2. Progress(k, h, 0, pos)'
    BY <1>2, <1>8, <1>9, <1>10, <2>1 DEF Progress, AtHeader
  <2>3. QED
    BY <1>7, <2>1, <2>2, Zenon
<1>12. FilesInv' /\ AtRecordHead'
  BY <1>2, <1>6, <1>7, <1>11, Zenon DEF FilesInv, ReaderInv, AtRecordHead, AtHeader
<1>13. QED
  BY <1>2, <1>6, <1>7, <1>8, <1>12, Zenon DEF ReaderInv, Results

\* feed of a record head: what it declares is remembered for the body.
LEMMA FeedRecordHead == ASSUME ReaderInv, AtRecordHead, FeedCall PROVE ReaderInv'
<1>1. NextLen(dec) = 2 /\ dec.state = "RecordHead" /\ pos \in Nat /\ file \in Seq(Cells(plain))
  BY DEF AtRecordHead, NextLen, ReaderInv, FilesInv
<1>2. /\ UNCHANGED <<plain, sealed, file>> /\ pos' = pos + 2 /\ pos' \in 0 .. Len(file)
  BY <1>1, FeedIs, Zenon
<1> DEFINE input == SubSeq(file, pos + 1, pos + 2)
<1>3. PICK r \in Step(dec, input) :
         IF r.res = "Ok"
         THEN dec' = r.dec /\ out' = out \o r.out /\ res' = "Ok" /\ outcome' = outcome
         ELSE dec' = Fail(dec) /\ out' = out /\ res' = r.res /\ outcome' = "failed"
  BY <1>1, FeedIs, Zenon
<1>4. /\ input[1] = file[pos + 1] /\ input[2] = file[pos + 2]
      /\ file[pos + 1] \in Cells(plain) /\ file[pos + 2] \in Cells(plain)
  BY <1>1, <1>2
<1> HIDE DEF input
<1> DEFINE R(t, n) == IF RecordHeadResult(t, n) # "Ok"
                      THEN Reply(dec, << >>, RecordHeadResult(t, n))
                      ELSE Reply([dec EXCEPT !.state = "RecordBody", !.tag = t, !.len = n],
                                 << >>, "Ok")
<1>5. r \in StepRecordHead(dec, input)
  BY <1>1, <1>3, Zenon DEF Step
<1>6. StepRecordHead(dec, input) =
        {R(t, n) : t \in TagBytesOf(input[1]), n \in LengthsOf(input[2])}
  BY DEF StepRecordHead
<1> HIDE DEF R
<1>7. PICK t \in TagBytesOf(file[pos + 1]), n \in LengthsOf(file[pos + 2]) : r = R(t, n)
  BY <1>4, <1>5, <1>6
<1>8. n \in Nat
  BY <1>4, <1>7, CellKinds, ChunkBytesAssumption DEF LengthsOf, LenCell, Lengths
<1>9. CASE RecordHeadResult(t, n) # "Ok"
  <2>1. r.res = RecordHeadResult(t, n) /\ RecordHeadResult(t, n) \in Results
    BY <1>7, <1>9, Zenon DEF R, Reply, RecordHeadResult, Results
  <2>2. QED
    BY <1>2, <1>3, <1>9, <2>1, FailedStep, Zenon
<1>10. CASE RecordHeadResult(t, n) = "Ok"
  <2>1. dec' = [dec EXCEPT !.state = "RecordBody", !.tag = t, !.len = n]
        /\ out' = out \o << >> /\ res' = "Ok" /\ outcome' = outcome
    BY <1>3, <1>7, <1>10, Zenon DEF R, Reply
  <2>2. /\ Shape' /\ dec'.state = "RecordBody" /\ dec'.pull = dec.pull /\ dec'.key = dec.key
        /\ dec'.held = dec.held /\ dec'.tag = t /\ dec'.len = n
    BY <2>1, Zenon DEF Shape, ReaderInv
  <2>3. out' = out
    BY <2>1 DEF ReaderInv
  <2>4. PICK k, h, c : dec.pull = PullAt(k, h, c) /\ Progress(k, h, c, pos)
    BY Zenon DEF AtRecordHead
  <2>5. pos' - 2 = pos /\ pos' - 1 = pos + 1 /\ pos' >= 2
    BY <1>1, <1>2
  <2>6. Progress(k, h, c, pos - 2)'
    BY <1>2, <2>3, <2>4, <2>5, Zenon DEF Progress, Matches
  <2>7. t \in TagBytesOf(file'[pos' - 1]) /\ n \in LengthsOf(file'[pos'])
    BY <1>2, <1>7, <2>5, Zenon
  <2>8. AtRecordBody'
    BY <1>8, <1>10, <2>1, <2>2, <2>4, <2>5, <2>6, <2>7, Zenon DEF AtRecordBody, AtRecordHead
  <2>9. FilesInv'
    BY <1>2, Zenon DEF FilesInv, ReaderInv
  <2>10. QED
    BY <1>2, <2>1, <2>2, <2>3, <2>8, <2>9, Zenon DEF ReaderInv, Results
<1>11. QED
  BY <1>9, <1>10, Zenon

(***************************************************************************)
(* feed of a record body. One that is refused ends the reading; one that   *)
(* is accepted is the next record of the sealed file, so its plaintext     *)
(* continues that message: released at once for a Message record, which    *)
(* never has the end of the message, and held for the Final one.           *)
(***************************************************************************)
LEMMA FeedRecordBody ==
    ASSUME ReaderInv, AtRecordBody, FeedCall
    PROVE  ReaderInv' /\ ContractStep
<1> DEFINE len == dec.len
           input == SubSeq(file, pos + 1, pos + (len + 1))
<1>1. /\ NextLen(dec) = len + 1 /\ dec.state = "RecordBody" /\ len \in Nat
      /\ pos \in Nat /\ pos >= 2 /\ file \in Seq(Cells(plain)) /\ FilesInv /\ Shape
  BY DEF AtRecordBody, NextLen, ReaderInv, FilesInv
<1>2. /\ UNCHANGED <<plain, sealed, file>> /\ pos' = pos + (len + 1) /\ pos' \in 0 .. Len(file)
  BY <1>1, FeedIs, Zenon
<1>3. PICK r \in Step(dec, input) :
         IF r.res = "Ok"
         THEN dec' = r.dec /\ out' = out \o r.out /\ res' = "Ok" /\ outcome' = outcome
         ELSE dec' = Fail(dec) /\ out' = out /\ res' = r.res /\ outcome' = "failed"
  BY <1>1, FeedIs, Zenon
<1>4. /\ input \in Seq(Cells(plain)) /\ Len(input) = len + 1
      /\ \A i \in 1 .. len + 1 : input[i] = file[pos + i]
  <2>1. PICK l \in Nat : l = len + 1
    BY <1>1
  <2>2. pos + l <= Len(file)
    BY <1>1, <1>2, <2>1
  <2>3. /\ SubSeq(file, pos + 1, pos + l) \in Seq(Cells(plain))
        /\ Len(SubSeq(file, pos + 1, pos + l)) = l
        /\ \A i \in 1 .. l : SubSeq(file, pos + 1, pos + l)[i] = file[pos + i]
    BY ONLY <1>1, <2>2, l \in Nat, SeqWindow, Zenon
  <2>4. QED
    BY <2>1, <2>3, Zenon
<1> HIDE DEF input
<1>5. PICK k, h, n : dec.pull = PullAt(k, h, n) /\ Progress(k, h, n, pos - 2)
  BY Zenon DEF AtRecordBody
<1> DEFINE st == [subkey |-> InitialSubkey(k, h), counter |-> n, finalized |-> FALSE]
           e == PullBody(st, dec.tag, input)
           text == input[Len(input)][2].ciphertext.plaintext
           pulled == [dec EXCEPT !.pull[1] = Advance(@, dec.tag)]
<1>6. dec.pull = <<st>> /\ PullAt(k, h, n)[1] = st /\ n \in Nat
  BY <1>5, Zenon DEF PullAt, Progress
<1>7. r = IF e # "Ok" THEN Reply(dec, << >>, FileErrorOf(e))
          ELSE IF dec.tag = "Final"
          THEN Reply([pulled EXCEPT !.held = text, !.state = "AfterFinal"], << >>, "Ok")
          ELSE Reply([pulled EXCEPT !.state = "RecordHead"], text, "Ok")
  <2>1. r \in StepRecordBody(dec, input) /\ dec.pull[1] = st
    BY <1>1, <1>3, <1>6 DEF Step
  <2>2. QED
    BY <2>1, Zenon DEF StepRecordBody
<1>8. CASE e # "Ok"
  <2>1. r.res = FileErrorOf(e) /\ FileErrorOf(e) # "Ok" /\ FileErrorOf(e) \in Results
    <3> HIDE DEF e
    <3>1. r.res = FileErrorOf(e) /\ FileErrorOf(e) # "Ok"
      BY <1>7, <1>8, Zenon DEF Reply, FileErrorOf
    <3>2. QED
      BY <1>8, <3>1, PullBodyResults, Zenon DEF e
  <2>2. outcome = "open" /\ outcome' = "failed" /\ out' = out
    BY <1>3, <2>1, Zenon DEF AtRecordBody
  <2>3. QED
    BY <1>2, <1>3, <2>1, <2>2, FailedStep, QuietStep, Zenon
<1>9. CASE e = "Ok"
  <2>1. \A s \in Streams : plain[s] \in Seq(Nat)
    BY <1>1, PlainTyped, Zenon
  <2>2. k = Key /\ IsBody(plain, h, n, dec.tag, len, input)
    <3>1. PullBody(PullAt(k, h, n)[1], dec.tag, input) = "Ok"
      BY <1>6, <1>9, Zenon
    <3> HIDE DEF len
    <3>2. QED
      BY <1>1, <1>4, <1>6, <2>1, <3>1, AcceptedBody, Zenon
  <2> HIDE DEF e, st
  <2> DEFINE m == plain[h]
  <2>3. /\ h \in Streams /\ n \in Indices(m) /\ dec.tag = TagOf(m, n) /\ len = Len(TextOf(m, n))
        /\ text = TextOf(m, n)
    BY <2>2, Zenon DEF IsBody
  <2> HIDE DEF text
  <2>4. \A i \in 1 .. len : file[pos + i] = <<"ciphertext", ChunkOf(h, m, n).ciphertext, i>>
    <3>1. \A i \in 1 .. len : i \in 1 .. len + 1
      BY <1>1
    <3>2. QED
      BY <1>4, <2>2, <3>1, Zenon DEF IsBody
  <2>5. file[pos + (len + 1)] = AuthCell(ChunkOf(h, m, n).auth)
    <3>1. len + 1 \in 1 .. len + 1
      BY <1>1
    <3>2. QED
      BY <1>4, <2>2, <3>1, Zenon DEF IsBody
  <2>6. Matches(h, n, pos - 2)
    BY <1>5, <2>2, <2>3, Zenon DEF Progress
  <2>7. TagOf(m, n) \in TagBytesOf(file[pos - 1]) /\ len \in LengthsOf(file[pos])
    BY <2>3, Zenon DEF AtRecordBody
  <2>8. \A f : f = SealedChunks(Key, h, m, n) \o RecordOf(h, m, n) =>
                 Len(f) = pos' /\ \A i \in 1 .. pos' : Reads(file[i], f[i])
    <3> HIDE DEF len
    <3>1. \A f : f = SealedChunks(Key, h, m, n) \o RecordOf(h, m, n) =>
                   /\ Len(f) = pos + (len + 1)
                   /\ \A i \in 1 .. pos + (len + 1) : Reads(file[i], f[i])
      BY <1>1, <2>3, <2>4, <2>5, <2>6, <2>7, BodyRead, Zenon
    <3>2. QED
      BY <1>2, <3>1, Zenon
  <2>9. /\ r.res = "Ok"
        /\ dec.tag = "Final" =>
              /\ r.out = << >>
              /\ r.dec = [Pulled(dec.tag, dec) EXCEPT !.held = TextOf(m, n), !.state = "AfterFinal"]
        /\ dec.tag # "Final" =>
              r.out = TextOf(m, n) /\ r.dec = [Pulled(dec.tag, dec) EXCEPT !.state = "RecordHead"]
    <3>1. /\ Pulled(dec.tag, dec) = pulled
          /\ r = IF dec.tag = "Final"
                 THEN Reply([pulled EXCEPT !.held = text, !.state = "AfterFinal"], << >>, "Ok")
                 ELSE Reply([pulled EXCEPT !.state = "RecordHead"], text, "Ok")
      BY <1>7, <1>9, Zenon DEF Pulled
    <3> HIDE DEF pulled
    <3> DEFINE final == [pulled EXCEPT !.held = text, !.state = "AfterFinal"]
               other == [pulled EXCEPT !.state = "RecordHead"]
    <3>2. /\ final = [Pulled(dec.tag, dec) EXCEPT !.held = TextOf(m, n), !.state = "AfterFinal"]
          /\ other = [Pulled(dec.tag, dec) EXCEPT !.state = "RecordHead"]
      BY <2>3, <3>1, Zenon
    <3> HIDE DEF final, other
    <3>3. r = IF dec.tag = "Final" THEN Reply(final, << >>, "Ok") ELSE Reply(other, text, "Ok")
      BY <3>1, Zenon DEF final, other
    <3>4. /\ r.res = "Ok"
          /\ dec.tag = "Final" => r.out = << >> /\ r.dec = final
          /\ dec.tag # "Final" => r.out = text /\ r.dec = other
      BY ONLY <3>3, Zenon DEF Reply
    <3>5. QED
      BY <2>3, <3>2, <3>4, Zenon
  <2>10. NextRecord(h, n)
    <3>1. res' = "Ok" /\ outcome' = outcome
      BY <1>3, <2>9, Zenon
    <3>2. QED
      BY <1>2, <1>5, <1>6, <2>2, <2>3, <2>6, <2>8, <3>1, Zenon DEF NextRecord
  <2>11. CASE n = FullChunks(m)
    <3>1. dec.tag = "Final"
      BY <2>3, <2>11, Zenon DEF TagOf
    <3>2. dec' = [Pulled("Final", dec) EXCEPT !.held = TextOf(m, n), !.state = "AfterFinal"]
          /\ out' = out \o << >> /\ out \in Seq(Nat)
      BY <1>3, <2>9, <3>1, Zenon DEF ReaderInv
    <3>3. out' = out
      BY <3>2
    <3>4. QED
      BY <2>10, <2>11, <3>1, <3>2, <3>3, FinalRecordStep, Zenon
  <2>12. CASE n # FullChunks(m)
    <3>1. dec.tag = "Message" /\ dec.tag # "Final"
      BY <2>3, <2>12, Zenon DEF TagOf
    <3>2. dec' = [Pulled("Message", dec) EXCEPT !.state = "RecordHead"]
          /\ out' = out \o TextOf(m, n)
      BY <1>3, <2>9, <3>1, Zenon
    <3>3. QED
      BY <2>10, <2>12, <3>1, <3>2, MessageRecordStep, Zenon
  <2>13. QED
    BY <2>11, <2>12, Zenon
<1>10. QED
  BY <1>8, <1>9, Zenon

\* feed after the Final record: trailing data, and the held plaintext is lost.
LEMMA FeedAfterFinal == ASSUME ReaderInv, AtAfterFinal, FeedCall PROVE ReaderInv'
<1>1. dec.state = "AfterFinal"
  BY Zenon DEF AtAfterFinal
<1>2. /\ UNCHANGED <<plain, sealed, file>> /\ pos' \in 0 .. Len(file)
      /\ dec' = Fail(dec) /\ out' = out /\ res' = "TrailingData" /\ outcome' = "failed"
  BY <1>1, FeedIs DEF Step, Reply
<1>3. QED
  BY <1>2, FailedStep, Zenon DEF Results

\* finish: the held plaintext comes out, if the Final record was the last thing
\* in the file, and completes the message.
LEMMA FinishStep == ASSUME ReaderInv, FinishCall PROVE ReaderInv' /\ ContractStep
<1> USE DEF ReaderInv
<1>1. UNCHANGED <<plain, sealed, file, pos>> /\ Shape /\ Settle(Finish(dec, TRUE))
  BY Zenon DEF FinishCall, Settle
<1>2. CASE dec.state = "Done"
  <2>1. dec' = dec /\ out' = out \o << >> /\ res' = "Finished" /\ outcome' = outcome
    BY <1>1, <1>2, Zenon DEF Settle, Finish, Reply
  <2>2. out' = out
    BY <2>1
  <2>3. QED
    BY <1>1, <2>1, <2>2, RefusedStep, QuietStep, Zenon DEF Results
<1>3. CASE dec.state = "AfterFinal"
  <2>1. PICK h \in Streams :
          /\ out = SubSeq(plain[h], 1, FullChunks(plain[h]) * CHUNK_BYTES)
          /\ dec.held = TextOf(plain[h], FullChunks(plain[h]))
          /\ ReadAll(h)
    BY <1>3, Zenon DEF AtVersion, AtHeader, AtRecordHead, AtRecordBody, AtAfterFinal, AtDone
  <2>2. Fail(dec).state = "Done"
    BY <1>1, Zenon DEF Fail, Shape
  <2>3. dec' = Fail(dec) /\ out' = out \o dec.held /\ res' = "Ok" /\ outcome' = "complete"
    BY <1>1, <1>3, <2>2, Zenon DEF Settle, Finish, Reply
  <2>4. out' = plain[h] /\ plain[h] \in Seq(Nat) /\ ContractStep
    <3> DEFINE m == plain[h]
               b == FullChunks(m) * CHUNK_BYTES
    <3>1. m \in Seq(Nat) /\ FullChunks(m) \in Nat
      BY PlainTyped, Zenon
    <3>2. b \in Nat /\ b <= Len(m)
      BY <3>1, ChunkArith, FullChunksBounds, Zenon
    <3>3. dec.held = SubSeq(m, b + 1, Len(m)) /\ out = SubSeq(m, 1, b)
      BY <2>1, Zenon DEF TextOf
    <3> HIDE DEF b, m
    <3>4. Join(SubSeq(m, 1, b), SubSeq(m, b + 1, Len(m))) = m
      BY <3>1, <3>2, SeqWhole, Zenon
    <3>5. out' = m
      BY <2>3, <3>1, <3>3, <3>4, Zenon DEF Join
    <3>6. UNCHANGED plain /\ outcome = "open" /\ outcome' = "complete"
      BY <1>1, <1>3, <2>3, Zenon
         DEF AtVersion, AtHeader, AtRecordHead, AtRecordBody, AtAfterFinal, AtDone
    <3>7. ContractStep
      BY <3>1, <3>2, <3>3, <3>5, <3>6, CompleteStep, Zenon DEF m
    <3>8. QED
      BY <3>1, <3>5, <3>7, Zenon DEF m
  <2>5. Len(file) = pos
    <3>1. NextLen(dec) = 1
      BY <1>3, Zenon DEF NextLen
    <3>2. QED
      BY <3>1 DEF FinishCall, FilesInv
  <2>6. OpensOnlySealedFiles'
    BY <1>1, <2>1, <2>4, <2>5, Zenon DEF OpensOnlySealedFiles, ReadAll
  <2>7. /\ Shape' /\ dec'.state = "Done" /\ dec'.pull = << >> /\ dec'.key = Wiped
        /\ dec'.held = << >>
    BY <1>1, <2>3, Zenon DEF Shape, Fail
  <2>8. FilesInv' /\ AtDone'
    BY <1>1, <2>3, <2>6, <2>7, Zenon DEF FilesInv, AtDone
  <2>9. QED
    BY <1>1, <2>3, <2>4, <2>7, <2>8, Zenon DEF Results
<1>4. CASE dec.state \notin {"Done", "AfterFinal"}
  <2>1. Fail(dec).state = "Done"
    BY <1>1, Zenon DEF Fail, Shape
  <2>2. dec' = Fail(dec) /\ out' = out \o << >> /\ res' = "Truncated" /\ outcome' = "failed"
    BY <1>1, <1>4, <2>1, Zenon DEF Settle, Finish, Reply
  <2>3. out' = out
    BY <2>2
  <2>4. outcome = "open"
    BY <1>4, Zenon DEF AtVersion, AtHeader, AtRecordHead, AtRecordBody, AtAfterFinal, AtDone
  <2>5. QED
    BY <1>1, <2>2, <2>3, <2>4, FailedStep, QuietStep, Zenon DEF Results
<1>5. QED
  BY <1>2, <1>3, <1>4, Zenon

\* A call with the wrong input length or a short buffer changes nothing.
LEMMA RefusedCallStep == ASSUME ReaderInv, RefusedCall PROVE ReaderInv' /\ ContractStep
<1>1. PICK n \in 0 .. Len(file) - pos, outOk \in BOOLEAN :
         /\ n # NextLen(dec) \/ ~outOk
         /\ \E reply \in Feed(dec, SubSeq(file, pos + 1, pos + n), outOk)
                            \cup {Finish(dec, FALSE)} :
                Settle(reply)
  BY Zenon DEF RefusedCall
<1>2. PICK reply \in Feed(dec, SubSeq(file, pos + 1, pos + n), outOk) \cup {Finish(dec, FALSE)} :
         Settle(reply)
  BY <1>1, Zenon
<1>3. pos \in Nat /\ n \in Nat /\ pos + n <= Len(file) /\ file \in Seq(Cells(plain))
  BY DEF ReaderInv, FilesInv
<1>4. Len(SubSeq(file, pos + 1, pos + n)) = n
  BY <1>3, SeqWindow, Zenon
<1>5. \E e \in {"Finished", "InvalidLength"} : reply = Reply(dec, << >>, e)
  BY <1>1, <1>2, <1>4, Zenon DEF Feed, Finish
<1>6. UNCHANGED <<plain, sealed, file, pos>> /\ dec' = dec /\ out' = out \o << >>
      /\ res' \in Results /\ outcome' = outcome
  BY <1>2, <1>5 DEF Settle, Reply, Results, RefusedCall
<1>7. out' = out
  BY <1>6 DEF ReaderInv
<1>8. QED
  BY <1>6, <1>7, RefusedStep, QuietStep, Zenon

\* feed of a decryptor that has ended changes nothing.
LEMMA FeedDone == ASSUME ReaderInv, AtDone, FeedCall PROVE ReaderInv' /\ ContractStep
<1>1. dec.state = "Done" /\ NextLen(dec) = 0 /\ out \in Seq(Nat) /\ pos \in Nat
  BY DEF AtDone, NextLen, ReaderInv
<1>2. PICK reply : reply = Reply(dec, << >>, "Finished") /\ Settle(reply)
  BY <1>1, Zenon DEF FeedCall, Feed
<1>3. UNCHANGED <<plain, sealed, file>> /\ dec' = dec /\ out' = out \o << >>
      /\ res' = "Finished" /\ outcome' = outcome /\ pos' = pos + 0
  BY <1>1, <1>2, Zenon DEF Settle, Reply, FeedCall
<1>4. out' = out /\ pos' = pos
  BY <1>1, <1>3
<1>5. QED
  BY <1>3, <1>4, RefusedStep, QuietStep, Zenon DEF Results

\* Every feed keeps the invariant and is a step of the contract.
LEMMA FeedStep == ASSUME ReaderInv, FeedCall PROVE ReaderInv' /\ ContractStep
<1>1. CASE AtRecordBody
  BY <1>1, FeedRecordBody, Zenon
<1>2. CASE AtDone
  BY <1>2, FeedDone, Zenon
<1>3. CASE AtVersion \/ AtHeader \/ AtRecordHead \/ AtAfterFinal
  <2>1. ReaderInv'
    BY <1>3, FeedVersion, FeedHeader, FeedRecordHead, FeedAfterFinal, Zenon
  <2>2. dec.state \notin {"RecordBody", "Done"}
    BY <1>3, Zenon DEF AtVersion, AtHeader, AtRecordHead, AtAfterFinal
  <2>3. UNCHANGED <<plain, out>> /\ outcome = "open" /\ outcome' \in {"open", "failed"}
    BY <2>2, FeedIs, Zenon
  <2>4. QED
    BY <2>1, <2>3, QuietStep, Zenon
<1>4. QED
  BY <1>1, <1>2, <1>3, Zenon DEF ReaderInv

\* Every step keeps the invariant and is a step of the contract.
LEMMA ReaderStep == ASSUME ReaderInv, [Next]_vars PROVE ReaderInv' /\ ContractStep
<1>1. CASE Damage
  <2>1. UNCHANGED <<plain, out, outcome>>
    BY <1>1, Zenon DEF Damage, Cut, Insert, Change, Damaging
  <2>2. QED
    BY <1>1, <2>1, DamageStep, QuietStep, Zenon
<1>2. CASE FeedCall
  BY <1>2, FeedStep, Zenon
<1>3. CASE FinishCall
  BY <1>3, FinishStep, Zenon
<1>4. CASE RefusedCall
  BY <1>4, RefusedCallStep, Zenon
<1>5. CASE UNCHANGED vars
  <2>1. UNCHANGED <<plain, sealed, file, damage, pos, dec, out, res, outcome>>
    BY <1>5, Zenon DEF vars
  <2>2. CASE res = "none"
    <3>1. AtVersion
      BY <2>2, Zenon DEF ReaderInv, AtVersion, AtHeader, AtRecordHead, AtRecordBody, AtAfterFinal, AtDone
    <3>2. AtVersion' /\ FilesInv' /\ Shape'
      BY <2>1, <3>1, Zenon DEF AtVersion, FilesInv, Shape, ReaderInv
    <3>3. QED
      BY <2>1, <3>1, <3>2, QuietStep, Zenon DEF ReaderInv
  <2>3. CASE res # "none"
    <3>1. res' \in Results
      BY <2>1, <2>3, Zenon DEF ReaderInv
    <3>2. QED
      BY <2>1, <3>1, RefusedStep, QuietStep, Zenon
  <2>4. QED
    BY <2>2, <2>3, Zenon
<1>6. QED
  BY <1>1, <1>2, <1>3, <1>4, <1>5, Zenon DEF Next

\* The inductive invariant holds in every reachable state, however the sealed
\* file was damaged before it is read.
THEOREM ReaderInvariant == Spec => []ReaderInv
<1>1. ReaderInv /\ [Next]_vars => ReaderInv'
  BY ReaderStep, Zenon
<1>2. QED
  BY <1>1, ReaderInit, PTL DEF Spec

(***************************************************************************)
(* The type invariant: the decryptor has a pull state exactly between the  *)
(* header and the end, its counter never exceeds the counter limit, its    *)
(* key is wiped once the header is read, and plaintext is held only after  *)
(* a verified Final record.                                                *)
(***************************************************************************)
THEOREM ReaderTyped == Spec => []TypeOK
<1>1. ReaderInv => TypeOK
  <2> SUFFICES ASSUME ReaderInv PROVE TypeOK
    BY Zenon
  <2> USE DEF ReaderInv
  <2>1. /\ \A s \in Streams : plain[s] \in Plaintexts[s]
        /\ CounterMax \in Nat \ {0}
    BY CounterMaxAssumption, Zenon DEF FilesInv
  <2>2. CASE AtVersion \/ AtHeader \/ AtDone
    BY <2>1, <2>2, Zenon DEF TypeOK, AtVersion, AtHeader, AtDone
  <2>3. CASE AtRecordHead \/ AtRecordBody
    <3>1. PICK k, h, n, p : dec.pull = PullAt(k, h, n) /\ Progress(k, h, n, p)
      BY <2>3, Zenon DEF AtRecordHead, AtRecordBody
    <3>2. n \in 0 .. CounterMax
      <4>1. CASE n = 0
        BY <2>1, <4>1
      <4>2. CASE n # 0
        <5>1. h \in Streams /\ n \in Indices(plain[h])
          BY <3>1, <4>2 DEF Progress, Matches
        <5>2. QED
          BY <2>1, <5>1, PlainTyped DEF Indices
      <4>3. QED
        BY <4>1, <4>2, Zenon
    <3>3. /\ Len(dec.pull) = 1 /\ dec.pull[1].subkey = InitialSubkey(k, h)
          /\ dec.pull[1].counter = n /\ dec.pull[1].finalized = FALSE
      BY <3>1 DEF PullAt
    <3>4. InitialSubkey(k, h) \in Subkey
      BY <3>1, Zenon DEF InitialSubkey, Subkey, Progress
    <3>5. /\ dec.state \in {"RecordHead", "RecordBody"} /\ dec.key = Wiped /\ dec.held = << >>
          /\ outcome = "open"
          /\ dec.state = "RecordBody" => RecordHeadResult(dec.tag, dec.len) = "Ok"
      BY <2>3, Zenon DEF AtRecordHead, AtRecordBody
    <3>6. dec.pull[1].finalized = (dec.state = "AfterFinal")
      <4>1. dec.state # "AfterFinal"
        BY <3>5, Zenon
      <4>2. QED
        BY <3>3, <4>1, Zenon
    <3>7. QED
      BY <2>1, <3>2, <3>3, <3>4, <3>5, <3>6, Zenon DEF TypeOK
  <2>4. CASE AtAfterFinal
    <3>1. PICK h \in Streams :
             dec.pull = <<[subkey |-> InitialSubkey(Key, h),
                           counter |-> FullChunks(plain[h]) + 1, finalized |-> TRUE]>>
      BY <2>4, Zenon DEF AtAfterFinal
    <3>2. /\ Len(dec.pull) = 1 /\ dec.pull[1].subkey = InitialSubkey(Key, h)
          /\ dec.pull[1].counter = FullChunks(plain[h]) + 1 /\ dec.pull[1].finalized = TRUE
      BY <3>1
    <3>3. FullChunks(plain[h]) + 1 \in 0 .. CounterMax
      BY <2>1, PlainTyped
    <3>4. InitialSubkey(Key, h) \in Subkey
      BY Zenon DEF InitialSubkey, Subkey
    <3>5. dec.state = "AfterFinal" /\ dec.key = Wiped /\ outcome = "open"
      BY <2>4, Zenon DEF AtAfterFinal
    <3>6. dec.pull[1].finalized = (dec.state = "AfterFinal")
      BY <3>2, <3>5, Zenon
    <3>7. QED
      BY <2>1, <3>2, <3>3, <3>4, <3>5, <3>6, Zenon DEF TypeOK
  <2>5. QED
    BY <2>2, <2>3, <2>4, Zenon
<1>2. QED
  BY <1>1, ReaderInvariant, PTL

(***************************************************************************)
(* A file that opens under open_all's loop reads, field for field, as a    *)
(* file that seal_all made under the same key, and the plaintext is that   *)
(* file's: no cut, insertion, repetition or mixing of records opens, after *)
(* any number of damaging edits.                                           *)
(***************************************************************************)
THEOREM OpenedFilesWereSealed == Spec => []OpensOnlySealedFiles
<1>1. ReaderInv => OpensOnlySealedFiles
  BY Zenon DEF ReaderInv, AtVersion, AtHeader, AtRecordHead, AtRecordBody, AtAfterFinal, AtDone,
         OpensOnlySealedFiles
<1>2. QED
  BY <1>1, ReaderInvariant, PTL

(***************************************************************************)
(* The calls of feed and finish implement the safety part of the Delivery  *)
(* contract: every step that releases plaintext continues one sealed       *)
(* message and never gives out its last part before finish succeeds, and a *)
(* failure releases nothing.                                               *)
(***************************************************************************)
THEOREM ReaderImplementsDelivery == Spec => Contract!Init /\ [][Contract!Next]_(Contract!vars)
<1>1. Init => Contract!Init
  BY Zenon DEF Init, Contract!Init
<1>2. ReaderInv /\ [Next]_vars => [Contract!Next]_(Contract!vars)
  BY ReaderStep, Zenon DEF ContractStep
<1>3. QED
  BY <1>1, <1>2, ReaderInvariant, PTL DEF Spec
=============================================================================
