--------------------- MODULE SecretStreamChannelProofs ----------------------
(***************************************************************************)
(* Proofs about SecretStreamChannel, for any number of streams, pullers,   *)
(* keys and plaintexts and any counter limit.                              *)
(***************************************************************************)
EXTENDS SecretStreamChannel, TLAPS

-----------------------------------------------------------------------------
(***************************************************************************)
(* The inductive invariant.  A stream's chunks carry the ratchet: the      *)
(* subkey of the next chunk is determined by the last one.  Both ends      *)
(* follow that rule, which is why their subkeys agree as long as what was  *)
(* accepted is a prefix of what was sent.                                  *)
(***************************************************************************)
\* The subkey a stream is at after the first n of these chunks.
SubkeyAfter(chunks, n, key, header) ==
    IF n = 0 THEN InitialSubkey(key, header)
    ELSE IF chunks[n].tag = "Rekey" THEN Rekey(chunks[n].ciphertext.subkey)
    ELSE chunks[n].ciphertext.subkey

\* A push or pull state that has handled exactly these chunks.
Follows(st, chunks) ==
    /\ st.counter = Len(chunks)
    /\ st.subkey = SubkeyAfter(chunks, Len(chunks), st.subkey.key, st.subkey.header)
    /\ st.finalized <=> (Len(chunks) > 0 /\ chunks[Len(chunks)].tag = "Final")
    /\ \A i \in 1 .. Len(chunks) : i < Len(chunks) => chunks[i].tag # "Final"

\* The chunk at position i of a stream is what push makes there.
WellMade(st, chunks, i) ==
    LET c == chunks[i].ciphertext
    IN  /\ c.subkey = SubkeyAfter(chunks, i - 1, st.subkey.key, st.subkey.header)
        /\ c.subkey.key = st.subkey.key
        /\ c.subkey.header = st.subkey.header
        /\ c.iv = i - 1
        /\ chunks[i].auth =
              AuthTag(c.subkey, i - 1, ChunkAad(i - 1, chunks[i].tag, Len(c.plaintext)), c)

PushInv ==
    \A s \in Streams :
        /\ push[s].subkey.header = s
        /\ Follows(push[s], sent[s])
        /\ \A i \in 1 .. Len(sent[s]) : WellMade(push[s], sent[s], i)

PullInv == \A p \in Pullers : Follows(pull[p], got[p])

IInv == TypeOK /\ PushInv /\ PullInv /\ AcceptedIsPrefix

-----------------------------------------------------------------------------
(***************************************************************************)
(* Facts about the chunk layer.                                            *)
(***************************************************************************)
\* What Advance does to a state that is not at the counter's limit: it stays a
\* state, of the same key and header.
LEMMA AdvanceType ==
    ASSUME NEW st \in State, NEW tag \in Tag, st.counter # CounterMax
    PROVE  /\ Advance(st, tag) \in State
           /\ Advance(st, tag).subkey.key = st.subkey.key
           /\ Advance(st, tag).subkey.header = st.subkey.header
           /\ Advance(st, tag).counter = st.counter + 1
           /\ Advance(st, tag).subkey = IF tag = "Rekey" THEN Rekey(st.subkey) ELSE st.subkey
           /\ Advance(st, tag).finalized <=> (st.finalized \/ tag = "Final")
  <1> DEFINE subkey2 == IF tag = "Rekey" THEN Rekey(st.subkey) ELSE st.subkey
  <1>1. /\ subkey2 \in Subkey
        /\ subkey2.key = st.subkey.key
        /\ subkey2.header = st.subkey.header
    BY DEF State, Subkey, Rekey
  <1>2. st.counter + 1 \in 0 .. CounterMax
    BY CounterMaxAssumption DEF State
  <1> HIDE DEF subkey2
  <1>3. /\ Advance(st, tag).subkey = subkey2
        /\ Advance(st, tag).counter = st.counter + 1
        /\ Advance(st, tag).finalized = (st.finalized \/ tag = "Final")
        /\ Advance(st, tag) \in State
    BY <1>1, <1>2 DEF Advance, State, subkey2
  <1>4. QED
    BY <1>1, <1>3, Zenon DEF subkey2

\* The chunk push makes has its type, and carries the state's subkey.
LEMMA ChunkType ==
    ASSUME NEW st \in State, NEW tag \in Tag, NEW plaintext \in Plaintexts
    PROVE  /\ Chunk(st, tag, plaintext) \in Chunks
           /\ Chunk(st, tag, plaintext).tag = tag
           /\ Chunk(st, tag, plaintext).ciphertext.subkey = st.subkey
  BY ChannelAssumption, CounterMaxAssumption
     DEF Chunk, Encrypt, AuthTag, ChunkAad, Chunks, Ciphertext, Auth, Aad, State

\* The rule of the ratchet looks at a prefix only.
LEMMA SubkeyAfterAppend ==
    ASSUME NEW chunks \in Seq(Chunks), NEW c \in Chunks,
           NEW n \in 0 .. Len(chunks), NEW key, NEW header
    PROVE  SubkeyAfter(Append(chunks, c), n, key, header) =
               SubkeyAfter(chunks, n, key, header)
  <1>1. n # 0 => Append(chunks, c)[n] = chunks[n]
    OBVIOUS
  <1>2. QED
    BY <1>1 DEF SubkeyAfter

\* A state that follows some chunks, advanced over one more, follows them all.
LEMMA FollowsAppend ==
    ASSUME NEW st \in State, NEW chunks \in Seq(Chunks), NEW c \in Chunks,
           Follows(st, chunks), ~st.finalized, st.counter # CounterMax,
           c.ciphertext.subkey = st.subkey
    PROVE  Follows(Advance(st, c.tag), Append(chunks, c))
  <1> DEFINE st2 == Advance(st, c.tag)
             more == Append(chunks, c)
  <1>1. c.tag \in Tag
    BY DEF Chunks
  <1>2. /\ Len(more) = Len(chunks) + 1
        /\ more[Len(more)] = c
        /\ \A i \in 1 .. Len(chunks) : more[i] = chunks[i]
        /\ Len(chunks) \in Nat
    OBVIOUS
  <1>3. st2.counter = Len(more)
    BY <1>1, <1>2, AdvanceType DEF Follows
  <1>4. st2.subkey = SubkeyAfter(more, Len(more), st2.subkey.key, st2.subkey.header)
    BY <1>1, <1>2, AdvanceType DEF SubkeyAfter
  <1>5. st2.finalized <=> (Len(more) > 0 /\ more[Len(more)].tag = "Final")
    BY <1>1, <1>2, AdvanceType
  <1>6. \A i \in 1 .. Len(more) : i < Len(more) => more[i].tag # "Final"
    <2> SUFFICES ASSUME NEW i \in 1 .. Len(more), i < Len(more)
                 PROVE  more[i].tag # "Final"
      OBVIOUS
    <2>1. i \in 1 .. Len(chunks) /\ more[i] = chunks[i]
      BY <1>2
    <2>2. CASE i < Len(chunks)
      BY <2>1, <2>2 DEF Follows
    <2>3. CASE i = Len(chunks)
      BY <2>1, <2>3, <1>2 DEF Follows
    <2>4. QED
      BY <2>1, <2>2, <2>3, <1>2
  <1>7. QED
    BY <1>3, <1>4, <1>5, <1>6 DEF Follows

-----------------------------------------------------------------------------
(***************************************************************************)
(* The initial states.                                                     *)
(***************************************************************************)
\* What PushState::init and PullState::init return is a state, at the start of its stream.
LEMMA InitialState ==
    ASSUME NEW key \in Keys, NEW header \in Headers
    PROVE  /\ StreamInit(key, header) \in State
           /\ StreamInit(key, header).subkey.header = header
           /\ Follows(StreamInit(key, header), << >>)
           /\ StreamInit(key, header).finalized = FALSE
  BY CounterMaxAssumption
     DEF StreamInit, InitialSubkey, State, Subkey, Follows, SubkeyAfter

\* The invariant holds before the first push and pull.
LEMMA InitIInv == Init => IInv
  <1> SUFFICES ASSUME Init PROVE IInv
    OBVIOUS
  <1>1. PICK keyOf \in [Streams -> Keys] :
            push = [s \in Streams |-> StreamInit(keyOf[s], s)]
    BY DEF Init
  <1>2. PICK pkeyOf \in [Pullers -> Keys], headerOf \in [Pullers -> Headers] :
            pull = [p \in Pullers |-> StreamInit(pkeyOf[p], headerOf[p])]
    BY DEF Init
  <1>3. \A s \in Streams :
            /\ push[s] \in State
            /\ push[s].subkey.header = s
            /\ Follows(push[s], << >>)
    BY <1>1, InitialState, ChannelAssumption, Zenon
  <1>4. \A p \in Pullers : pull[p] \in State /\ Follows(pull[p], << >>)
    BY <1>2, InitialState, Zenon
  <1>5. /\ sent = [s \in Streams |-> << >>]
        /\ got = [p \in Pullers |-> << >>]
        /\ res = "Ok"
    BY DEF Init
  <1>6. TypeOK
    <2>1. push \in [Streams -> State]
      BY <1>1, <1>3
    <2>2. pull \in [Pullers -> State]
      BY <1>2, <1>4
    <2>3. QED
      BY <1>5, <2>1, <2>2 DEF TypeOK, Result
  <1>7. PushInv
    BY <1>3, <1>5 DEF PushInv
  <1>8. PullInv
    BY <1>4, <1>5 DEF PullInv
  <1>9. AcceptedIsPrefix
    <2> SUFFICES ASSUME NEW p \in Pullers
                 PROVE  IF Matched(p)
                        THEN /\ Len(got[p]) <= Len(SentTo(p))
                             /\ \A i \in 1 .. Len(got[p]) : got[p][i] = SentTo(p)[i]
                        ELSE got[p] = << >>
      BY DEF AcceptedIsPrefix
    <2>1. got[p] = << >>
      BY <1>5
    <2>2. Matched(p) => SentTo(p) = << >>
      BY <1>5 DEF Matched, SentTo
    <2>3. QED
      BY <2>1, <2>2
  <1>10. QED
    BY <1>6, <1>7, <1>8, <1>9 DEF IInv

-----------------------------------------------------------------------------
(***************************************************************************)
(* A push.                                                                 *)
(***************************************************************************)
\* A push, refused or not, preserves the invariant.
LEMMA PushIInv ==
    ASSUME IInv, NEW s \in Streams, NEW tag \in Tag, NEW plaintext \in Plaintexts,
           NEW lengthOk \in BOOLEAN, Push(s, tag, plaintext, lengthOk)
    PROVE  IInv'
  <1> DEFINE c == Chunk(push[s], tag, plaintext)
             st2 == Advance(push[s], tag)
  <1>1. /\ push[s] \in State
        /\ sent[s] \in Seq(Chunks)
        /\ push \in [Streams -> State]
        /\ sent \in [Streams -> Seq(Chunks)]
    BY DEF IInv, TypeOK
  <1>2. res' \in Result
    BY DEF Push, PushResult, Result
  <1>3. CASE res' # "Ok"
    <2>1. UNCHANGED <<push, pull, sent, got>>
      BY <1>3 DEF Push
    <2>2. QED
      BY <2>1, <1>2 DEF IInv, TypeOK, PushInv, PullInv, AcceptedIsPrefix, Matched, SentTo
  <1>4. CASE res' = "Ok"
    <2>1. ~push[s].finalized /\ push[s].counter # CounterMax
      BY <1>4 DEF Push, PushResult
    <2>2. /\ sent' = [sent EXCEPT ![s] = Append(sent[s], c)]
          /\ push' = [push EXCEPT ![s] = st2]
          /\ pull' = pull /\ got' = got
      BY <1>4 DEF Push
    <2>3. /\ c \in Chunks
          /\ c.tag = tag
          /\ c.ciphertext.subkey = push[s].subkey
      BY <1>1, ChunkType
    <2>4. /\ st2 \in State
          /\ st2.subkey.key = push[s].subkey.key
          /\ st2.subkey.header = push[s].subkey.header
      BY <1>1, <2>1, AdvanceType
    <2> HIDE DEF st2
    <2>5. TypeOK'
      <3>1. push' \in [Streams -> State]
        BY <1>1, <2>2, <2>4
      <3>2. Append(sent[s], c) \in Seq(Chunks)
        BY <1>1, <2>3
      <3>3. sent' \in [Streams -> Seq(Chunks)]
        BY <1>1, <2>2, <3>2
      <3>4. QED
        BY <1>2, <2>2, <3>1, <3>3 DEF IInv, TypeOK
    <2>6. PullInv'
      BY <2>2 DEF IInv, PullInv
    <2>7. PushInv'
      <3> SUFFICES ASSUME NEW t \in Streams
                   PROVE  /\ push'[t].subkey.header = t
                          /\ Follows(push'[t], sent'[t])
                          /\ \A i \in 1 .. Len(sent'[t]) : WellMade(push'[t], sent'[t], i)
        BY DEF PushInv
      <3>1. CASE t # s
        <4>1. push'[t] = push[t] /\ sent'[t] = sent[t]
          BY <1>1, <2>2, <3>1
        <4>2. QED
          BY <4>1 DEF IInv, PushInv
      <3>2. CASE t = s
        <4>1. push'[s] = st2 /\ sent'[s] = Append(sent[s], c)
          BY <1>1, <2>2
        <4>2. /\ push[s].subkey.header = s
              /\ Follows(push[s], sent[s])
              /\ \A i \in 1 .. Len(sent[s]) : WellMade(push[s], sent[s], i)
          BY DEF IInv, PushInv
        <4>3. Follows(st2, Append(sent[s], c))
          BY <1>1, <2>1, <2>3, <4>2, FollowsAppend DEF st2
        <4>4. ASSUME NEW i \in 1 .. Len(sent[s]) + 1
              PROVE  WellMade(st2, Append(sent[s], c), i)
          <5>1. SubkeyAfter(Append(sent[s], c), i - 1, push[s].subkey.key, push[s].subkey.header)
                  = SubkeyAfter(sent[s], i - 1, push[s].subkey.key, push[s].subkey.header)
            <6>1. i - 1 \in 0 .. Len(sent[s])
              BY <1>1
            <6>2. QED
              BY <1>1, <2>3, <6>1, SubkeyAfterAppend
          <5>2. CASE i <= Len(sent[s])
            <6>1. Append(sent[s], c)[i] = sent[s][i] /\ i \in 1 .. Len(sent[s])
              BY <1>1, <5>2
            <6>2. WellMade(push[s], sent[s], i)
              BY <4>2, <6>1, SMTT(60)
            <6>3. QED
              BY <2>4, <5>1, <6>1, <6>2 DEF WellMade
          <5>3. CASE i = Len(sent[s]) + 1
            <6>1. Append(sent[s], c)[i] = c /\ i - 1 = Len(sent[s])
              BY <1>1, <5>3
            <6>2. push[s].counter = i - 1
              BY <4>2, <6>1 DEF Follows
            <6>3. /\ c.ciphertext.iv = i - 1
                  /\ c.auth = AuthTag(c.ciphertext.subkey, i - 1,
                                 ChunkAad(i - 1, c.tag, Len(c.ciphertext.plaintext)),
                                 c.ciphertext)
              BY <6>2 DEF Chunk, Encrypt, AuthTag, ChunkAad
            <6>4. c.ciphertext.subkey =
                    SubkeyAfter(sent[s], i - 1, push[s].subkey.key, push[s].subkey.header)
              BY <2>3, <4>2, <6>1 DEF Follows
            <6> HIDE DEF c
            <6>5. QED
              BY <2>3, <2>4, <5>1, <6>1, <6>3, <6>4 DEF WellMade
          <5>4. QED
            BY <1>1, <5>2, <5>3
        <4>5. Len(Append(sent[s], c)) = Len(sent[s]) + 1
          BY <1>1
        <4>6. QED
          BY <2>4, <3>2, <4>1, <4>2, <4>3, <4>4, <4>5
      <3>3. QED
        BY <3>1, <3>2
    <2>8. AcceptedIsPrefix'
      <3> SUFFICES ASSUME NEW p \in Pullers
                   PROVE  IF Matched(p)'
                          THEN /\ Len(got'[p]) <= Len(SentTo(p)')
                               /\ \A i \in 1 .. Len(got'[p]) : got'[p][i] = SentTo(p)'[i]
                          ELSE got'[p] = << >>
        BY DEF AcceptedIsPrefix
      <3>1. Matched(p)' <=> Matched(p)
        BY <1>1, <2>2, <2>4 DEF Matched
      <3>2. IF Matched(p)
            THEN /\ Len(got[p]) <= Len(SentTo(p))
                 /\ \A i \in 1 .. Len(got[p]) : got[p][i] = SentTo(p)[i]
            ELSE got[p] = << >>
        BY DEF IInv, AcceptedIsPrefix
      <3>3. CASE ~Matched(p)
        BY <2>2, <3>1, <3>2, <3>3
      <3>4. CASE Matched(p)
        <4>1. got[p] \in Seq(Chunks) /\ SentTo(p) \in Seq(Chunks)
          BY <1>1, <3>4, SMTT(60) DEF IInv, TypeOK, Matched, SentTo
        <4>2. SentTo(p)' = SentTo(p) \/ SentTo(p)' = Append(SentTo(p), c)
          BY <1>1, <2>2, <3>4 DEF Matched, SentTo
        <4> HIDE DEF c
        <4>3. Len(SentTo(p)') >= Len(SentTo(p))
          BY <2>3, <4>1, <4>2
        <4>4. \A i \in 1 .. Len(SentTo(p)) : SentTo(p)'[i] = SentTo(p)[i]
          BY <2>3, <4>1, <4>2, SMTT(60)
        <4>5. QED
          BY <2>2, <3>1, <3>2, <3>4, <4>1, <4>3, <4>4
      <3>5. QED
        BY <3>3, <3>4
    <2>9. QED
      BY <2>5, <2>6, <2>7, <2>8 DEF IInv
  <1>5. QED
    BY <1>3, <1>4

-----------------------------------------------------------------------------
(***************************************************************************)
(* A pull.  The heart of the argument: an authentication tag that verifies *)
(* was made by push, and everything it covers says where: which stream,    *)
(* which position, which tag byte, which ciphertext.                       *)
(***************************************************************************)
LEMMA AcceptedChunk ==
    ASSUME IInv, NEW p \in Pullers, NEW c \in InFlight, NEW d \in InFlight,
           NEW tagByte \in TagByte, NEW intact \in BOOLEAN, NEW lengthOk \in BOOLEAN,
           PullResult(pull[p], tagByte, c.ciphertext, d.auth, intact, lengthOk) = "Ok"
    PROVE  /\ ~pull[p].finalized
           /\ pull[p].counter # CounterMax
           /\ Matched(p)
           /\ Len(got[p]) + 1 <= Len(SentTo(p))
           /\ [tag |-> tagByte, ciphertext |-> c.ciphertext, auth |-> d.auth]
                = SentTo(p)[Len(got[p]) + 1]
           /\ SentTo(p)[Len(got[p]) + 1].tag = tagByte
           /\ SentTo(p)[Len(got[p]) + 1].ciphertext.subkey = pull[p].subkey
           /\ SentTo(p)[Len(got[p]) + 1] \in Chunks
  <1>1. /\ ~pull[p].finalized
        /\ pull[p].counter # CounterMax
        /\ d.auth = AuthTag(pull[p].subkey, pull[p].counter,
                       ChunkAad(pull[p].counter, tagByte, Len(c.ciphertext.plaintext)),
                       c.ciphertext)
    BY DEF PullResult, Verifies
  <1>a. PICK t \in Streams : d \in {sent[t][i] : i \in 1 .. Len(sent[t])}
    BY DEF InFlight
  <1>2. PICK j \in 1 .. Len(sent[t]) : d = sent[t][j]
    BY <1>a
  <1>3. /\ sent[t] \in Seq(Chunks)
        /\ got[p] \in Seq(Chunks)
        /\ push[t] \in State
        /\ pull[p] \in State
    BY DEF IInv, TypeOK
  <1>4. d \in Chunks
    BY <1>2, <1>3
  <1>5. /\ WellMade(push[t], sent[t], j)
        /\ push[t].subkey.header = t
        /\ pull[p].counter = Len(got[p])
    BY DEF IInv, PushInv, PullInv, Follows
  <1>6. /\ d.ciphertext.subkey.key = push[t].subkey.key
        /\ d.ciphertext.subkey.header = t
        /\ d.auth = AuthTag(d.ciphertext.subkey, j - 1,
                       ChunkAad(j - 1, d.tag, Len(d.ciphertext.plaintext)), d.ciphertext)
    BY <1>2, <1>5, SMTT(60) DEF WellMade
  <1>7. /\ d.ciphertext.subkey = pull[p].subkey
        /\ j - 1 = pull[p].counter
        /\ d.tag = tagByte
        /\ d.ciphertext = c.ciphertext
    BY <1>1, <1>6, SMTT(60) DEF AuthTag, ChunkAad
  <1>8. pull[p].subkey.header = t /\ Matched(p) /\ SentTo(p) = sent[t]
    BY <1>6, <1>7 DEF Matched, SentTo
  <1>9. j = Len(got[p]) + 1 /\ j <= Len(sent[t])
    BY <1>3, <1>5, <1>7
  <1>10. d = [tag |-> d.tag, ciphertext |-> d.ciphertext, auth |-> d.auth]
    BY <1>4 DEF Chunks
  <1>11. QED
    BY <1>1, <1>2, <1>4, <1>7, <1>8, <1>9, <1>10

\* A pull, refused or not, preserves the invariant.
LEMMA PullIInv ==
    ASSUME IInv, NEW p \in Pullers, NEW c \in InFlight, NEW d \in InFlight,
           NEW tagByte \in TagByte, NEW intact \in BOOLEAN, NEW lengthOk \in BOOLEAN,
           Pull(p, tagByte, c.ciphertext, d.auth, intact, lengthOk)
    PROVE  IInv'
  <1>1. res' \in Result
    BY SMTT(60) DEF Pull, PullResult, Result
  <1>2. CASE res' # "Ok"
    <2>1. UNCHANGED <<push, pull, sent, got>>
      BY <1>2 DEF Pull
    <2>2. QED
      BY <2>1, <1>1 DEF IInv, TypeOK, PushInv, PullInv, AcceptedIsPrefix, Matched, SentTo
  <1>3. CASE res' = "Ok"
    <2> DEFINE e == SentTo(p)[Len(got[p]) + 1]
               st2 == Advance(pull[p], tagByte)
    <2>1. /\ ~pull[p].finalized
          /\ pull[p].counter # CounterMax
          /\ Matched(p)
          /\ Len(got[p]) + 1 <= Len(SentTo(p))
          /\ [tag |-> tagByte, ciphertext |-> c.ciphertext, auth |-> d.auth] = e
          /\ e.tag = tagByte
          /\ e.ciphertext.subkey = pull[p].subkey
          /\ e \in Chunks
      <3>1. PullResult(pull[p], tagByte, c.ciphertext, d.auth, intact, lengthOk) = "Ok"
        BY <1>3 DEF Pull
      <3>2. QED
        BY <3>1, AcceptedChunk
    <2> HIDE DEF e
    <2>2. /\ got' = [got EXCEPT ![p] = Append(got[p], e)]
          /\ pull' = [pull EXCEPT ![p] = st2]
          /\ push' = push /\ sent' = sent
      BY <1>3, <2>1 DEF Pull
    <2>3. /\ pull \in [Pullers -> State]
          /\ got \in [Pullers -> Seq(Chunks)]
      BY DEF IInv, TypeOK
    <2>4. /\ st2 \in State
          /\ st2.subkey.key = pull[p].subkey.key
          /\ st2.subkey.header = pull[p].subkey.header
      <3>1. tagByte \in Tag /\ pull[p] \in State
        BY <2>1, <2>3 DEF Chunks
      <3>2. QED
        BY <2>1, <3>1, AdvanceType, SMTT(60)
    <2>5. Follows(st2, Append(got[p], e))
      BY <2>1, <2>3, FollowsAppend, SMTT(60) DEF IInv, PullInv
    <2> HIDE DEF st2
    <2>6. TypeOK'
      <3>1. pull' \in [Pullers -> State]
        BY <2>2, <2>3, <2>4
      <3>2. Append(got[p], e) \in Seq(Chunks)
        BY <2>1, <2>3
      <3>3. got' \in [Pullers -> Seq(Chunks)]
        BY <2>2, <2>3, <3>2
      <3>4. QED
        BY <1>1, <2>2, <3>1, <3>3 DEF IInv, TypeOK
    <2>7. PushInv'
      BY <2>2 DEF IInv, PushInv
    <2>8. PullInv'
      <3> SUFFICES ASSUME NEW q \in Pullers PROVE Follows(pull'[q], got'[q])
        BY DEF PullInv
      <3>1. CASE q # p
        <4>1. pull'[q] = pull[q] /\ got'[q] = got[q]
          BY <2>2, <2>3, <3>1
        <4>2. QED
          BY <4>1 DEF IInv, PullInv
      <3>2. CASE q = p
        BY <2>2, <2>3, <2>5, <3>2
      <3>3. QED
        BY <3>1, <3>2
    <2>9. AcceptedIsPrefix'
      <3> SUFFICES ASSUME NEW q \in Pullers
                   PROVE  IF Matched(q)'
                          THEN /\ Len(got'[q]) <= Len(SentTo(q)')
                               /\ \A i \in 1 .. Len(got'[q]) : got'[q][i] = SentTo(q)'[i]
                          ELSE got'[q] = << >>
        BY DEF AcceptedIsPrefix
      <3>1. IF Matched(q)
            THEN /\ Len(got[q]) <= Len(SentTo(q))
                 /\ \A i \in 1 .. Len(got[q]) : got[q][i] = SentTo(q)[i]
            ELSE got[q] = << >>
        BY DEF IInv, AcceptedIsPrefix
      <3>2. (Matched(q)' <=> Matched(q)) /\ SentTo(q)' = SentTo(q)
        BY <2>2, <2>3, <2>4 DEF Matched, SentTo
      <3>3. CASE q # p
        <4>1. got'[q] = got[q]
          BY <2>2, <2>3, <3>3
        <4>2. QED
          BY <3>1, <3>2, <4>1
      <3>4. CASE q = p
        <4>1. got'[p] = Append(got[p], e) /\ got[p] \in Seq(Chunks)
          BY <2>2, <2>3, SMTT(60)
        <4>2. /\ Len(got'[p]) = Len(got[p]) + 1
              /\ got'[p][Len(got[p]) + 1] = e
              /\ \A i \in 1 .. Len(got[p]) : got'[p][i] = got[p][i]
              /\ Len(got[p]) \in Nat
          BY <4>1, <2>1
        <4>3. \A i \in 1 .. Len(got'[p]) : got'[p][i] = SentTo(p)[i]
          <5> SUFFICES ASSUME NEW i \in 1 .. Len(got'[p])
                       PROVE  got'[p][i] = SentTo(p)[i]
            OBVIOUS
          <5>1. CASE i = Len(got[p]) + 1
            BY <4>2, <5>1 DEF e
          <5>2. CASE i \in 1 .. Len(got[p])
            BY <2>1, <3>1, <3>4, <4>2, <5>2
          <5>3. QED
            BY <4>2, <5>1, <5>2
        <4>4. QED
          BY <2>1, <3>2, <3>4, <4>2, <4>3
      <3>5. QED
        BY <3>3, <3>4
    <2>10. QED
      BY <2>6, <2>7, <2>8, <2>9, SMTT(60) DEF IInv
  <1>4. QED
    BY <1>2, <1>3

-----------------------------------------------------------------------------
(***************************************************************************)
(* Theorems.                                                               *)
(***************************************************************************)
\* Every step preserves the invariant.
LEMMA NextIInv == IInv /\ [Next]_vars => IInv'
  <1> SUFFICES ASSUME IInv, [Next]_vars PROVE IInv'
    OBVIOUS
  <1>1. ASSUME NEW s \in Streams, NEW tag \in Tag, NEW plaintext \in Plaintexts,
               NEW lengthOk \in BOOLEAN, Push(s, tag, plaintext, lengthOk)
        PROVE  IInv'
    BY <1>1, PushIInv
  <1>2. ASSUME NEW p \in Pullers, NEW c \in InFlight, NEW d \in InFlight,
               NEW tagByte \in TagByte, NEW intact \in BOOLEAN, NEW lengthOk \in BOOLEAN,
               Pull(p, tagByte, c.ciphertext, d.auth, intact, lengthOk)
        PROVE  IInv'
    BY <1>2, PullIInv, SMTT(60)
  <1>3. CASE UNCHANGED vars
    BY <1>3 DEF vars, IInv, TypeOK, PushInv, PullInv, AcceptedIsPrefix, Matched, SentTo
  <1>4. QED
    BY <1>1, <1>2, <1>3 DEF Next

\* The invariant holds in every reachable state.
LEMMA SpecIInv == Spec => []IInv
  BY InitIInv, NextIInv, PTL DEF Spec

\* Every state field, chunk and result has its type; in particular no PushState
\* or PullState counter passes u64::MAX.
THEOREM ChannelTypeCorrect == Spec => []TypeOK
  <1>1. IInv => TypeOK
    BY DEF IInv
  <1>2. QED
    BY <1>1, SpecIInv, PTL

\* PullState::pull accepts exactly the first chunks of its own stream, in order,
\* whatever the transport does.
THEOREM ChannelAcceptsPrefix == Spec => []AcceptedIsPrefix
  <1>1. IInv => AcceptedIsPrefix
    BY DEF IInv
  <1>2. QED
    BY <1>1, SpecIInv, PTL

\* PushState::push never encrypts twice under one (subkey, iv).
THEOREM ChannelNoIvReuse == Spec => []NoIvReuse
  <1>1. IInv => NoIvReuse
    <2> SUFFICES ASSUME IInv, NEW s \in Streams, NEW t \in Streams,
                        NEW i \in 1 .. Len(sent[s]), NEW j \in 1 .. Len(sent[t]),
                        sent[s][i].ciphertext.subkey = sent[t][j].ciphertext.subkey,
                        sent[s][i].ciphertext.iv = sent[t][j].ciphertext.iv
                 PROVE  s = t /\ i = j
      BY SMTT(60) DEF NoIvReuse
    <2>1. /\ WellMade(push[s], sent[s], i) /\ push[s].subkey.header = s
          /\ WellMade(push[t], sent[t], j) /\ push[t].subkey.header = t
      BY DEF IInv, PushInv
    <2>2. s = t
      BY <2>1, SMTT(60) DEF WellMade
    <2>3. i - 1 = j - 1
      BY <2>1, Zenon DEF WellMade
    <2>4. QED
      BY <2>2, <2>3
  <1>2. QED
    BY <1>1, SpecIInv, PTL

\* A PullState that reports is_finalized() has every chunk of a closed stream.
THEOREM ChannelFinalMeansComplete == Spec => []FinalMeansComplete
  <1>1. IInv => FinalMeansComplete
    <2> SUFFICES ASSUME IInv, NEW p \in Pullers, pull[p].finalized
                 PROVE  /\ Matched(p)
                        /\ push[pull[p].subkey.header].finalized
                        /\ Len(got[p]) = Len(SentTo(p))
      BY DEF FinalMeansComplete
    <2> DEFINE h == pull[p].subkey.header
    <2>1. /\ Len(got[p]) > 0
          /\ got[p][Len(got[p])].tag = "Final"
          /\ got[p] \in Seq(Chunks)
      BY DEF IInv, TypeOK, PullInv, Follows
    <2>2. Matched(p)
      BY <2>1 DEF IInv, AcceptedIsPrefix
    <2>3. h \in Streams /\ SentTo(p) = sent[h] /\ sent[h] \in Seq(Chunks)
      BY <2>2 DEF Matched, SentTo, IInv, TypeOK
    <2>4. /\ Len(got[p]) <= Len(sent[h])
          /\ sent[h][Len(got[p])].tag = "Final"
      BY <2>1, <2>2, <2>3 DEF IInv, AcceptedIsPrefix
    <2>5. Follows(push[h], sent[h])
      BY <2>3 DEF IInv, PushInv
    <2> HIDE DEF h
    <2>6. Len(got[p]) = Len(sent[h])
      BY <2>1, <2>3, <2>4, <2>5 DEF Follows
    <2>7. push[h].finalized
      BY <2>1, <2>4, <2>5, <2>6 DEF Follows
    <2>8. QED
      BY <2>2, <2>3, <2>6, <2>7 DEF h
  <1>2. QED
    BY <1>1, SpecIInv, PTL

\* A puller that is behind its stream accepts the next genuine chunk, however
\* many others it has refused.
THEOREM ChannelResumable == Spec => []Resumable
  <1>1. IInv => Resumable
    <2> SUFFICES ASSUME IInv, NEW p \in Pullers, Matched(p), Len(got[p]) < Len(SentTo(p))
                 PROVE  LET c == SentTo(p)[Len(got[p]) + 1]
                        IN  PullResult(pull[p], c.tag, c.ciphertext, c.auth, TRUE, TRUE) = "Ok"
      BY Zenon DEF Resumable
    <2> DEFINE h == pull[p].subkey.header
               n == Len(got[p])
               c == sent[h][n + 1]
    <2>1. /\ h \in Streams
          /\ SentTo(p) = sent[h]
          /\ push[h].subkey.key = pull[p].subkey.key
      BY DEF Matched, SentTo
    <2>2. /\ sent[h] \in Seq(Chunks) /\ got[p] \in Seq(Chunks)
          /\ push[h] \in State /\ pull[p] \in State
      BY <2>1, SMTT(60) DEF IInv, TypeOK
    <2>3. /\ n \in Nat /\ n + 1 \in 1 .. Len(sent[h])
          /\ \A i \in 1 .. n : got[p][i] = sent[h][i]
      BY <2>1, <2>2, SMTT(60) DEF IInv, AcceptedIsPrefix
    <2>4. /\ push[h].subkey.header = h
          /\ Follows(push[h], sent[h])
          /\ Follows(pull[p], got[p])
          /\ WellMade(push[h], sent[h], n + 1)
      BY <2>1, <2>3, SMTT(60) DEF IInv, PushInv, PullInv
    <2>5. c \in Chunks
      BY <2>2, <2>3
    <2> HIDE DEF h
    <2>6. ~pull[p].finalized
      <3> SUFFICES ASSUME pull[p].finalized PROVE FALSE
        OBVIOUS
      <3>1. n > 0 /\ got[p][n].tag = "Final"
        BY <2>4 DEF Follows
      <3>2. sent[h][n].tag = "Final" /\ n \in 1 .. Len(sent[h]) /\ n < Len(sent[h])
        BY <2>2, <2>3, <3>1
      <3>3. QED
        BY <2>4, <3>2 DEF Follows
    <2>7. pull[p].counter = n /\ pull[p].counter # CounterMax
      <3>1. pull[p].counter = n /\ push[h].counter = Len(sent[h])
        BY <2>4 DEF Follows
      <3>2. QED
        BY <2>2, <2>3, <3>1, CounterMaxAssumption DEF State
    <2>8. pull[p].subkey = c.ciphertext.subkey
      <3>1. pull[p].subkey = SubkeyAfter(got[p], n, pull[p].subkey.key, h)
        BY <2>4, ZenonT(60) DEF Follows, h
      <3>2. c.ciphertext.subkey = SubkeyAfter(sent[h], n, pull[p].subkey.key, h)
        BY <2>1, <2>3, <2>4, SMTT(60) DEF WellMade
      <3>3. n # 0 => got[p][n] = sent[h][n]
        BY <2>3
      <3>4. SubkeyAfter(got[p], n, pull[p].subkey.key, h) =
              SubkeyAfter(sent[h], n, pull[p].subkey.key, h)
        BY <3>3, SMTT(60) DEF SubkeyAfter
      <3>5. QED
        BY <3>1, <3>2, <3>4
    <2>9. c.auth = AuthTag(pull[p].subkey, pull[p].counter,
                     ChunkAad(pull[p].counter, c.tag, Len(c.ciphertext.plaintext)),
                     c.ciphertext)
      BY <2>3, <2>4, <2>7, <2>8 DEF WellMade
    <2>10. FromByte(c.tag) # {}
      BY <2>5, Zenon DEF FromByte, Chunks
    <2> HIDE DEF c
    <2>11. PullResult(pull[p], c.tag, c.ciphertext, c.auth, TRUE, TRUE) = "Ok"
      BY <2>6, <2>7, <2>9, <2>10 DEF PullResult, Verifies
    <2>12. QED
      BY <2>1, <2>11, Zenon DEF c
  <1>2. QED
    BY <1>1, SpecIInv, PTL
=============================================================================
