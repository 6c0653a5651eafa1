-------------------------- MODULE StreamFileProofs --------------------------
(***************************************************************************)
(* Lemmas about the operators of StreamFile: what seal_all has written     *)
(* after n full chunks, for every plaintext and every chunk size.          *)
(* SealedChunks and Pushed are recursive functions of n, so the facts      *)
(* about them are proved by induction, from the least element of a set of  *)
(* naturals.                                                               *)
(***************************************************************************)
EXTENDS StreamFile, WellFoundedInduction, TLAPS

\* A set of naturals that is not empty has a least element.
LEMMA NatMin ==
    ASSUME NEW T, T \subseteq Nat, T # {}
    PROVE  \E x \in T : \A y \in T : x <= y
<1> DEFINE R == OpToRel(<, Nat)
<1>1. IsWellFoundedOn(R, Nat)
  BY NatLessThanWellFounded, Zenon
<1>2. \A x, y \in Nat : x < y => <<x, y>> \in R
  BY DEF OpToRel
<1> HIDE DEF R
<1>3. \E x \in T : \A y \in T : ~ (<<y, x>> \in R)
  BY <1>1, WFMin, Zenon
<1>4. PICK x \in T : \A y \in T : ~ (<<y, x>> \in R)
  BY <1>3
<1>5. \A y \in T : ~ (y < x)
  BY <1>2, <1>4, Zenon
<1>6. \A y \in T : x <= y
  BY <1>5, SMT
<1> QED
  BY <1>6

\* Induction over the naturals, for a set.
LEMMA NatSetInduction ==
    ASSUME NEW S, 0 \in S, \A n \in Nat : n \in S => n + 1 \in S
    PROVE  Nat \subseteq S
<1>1. SUFFICES ASSUME Nat \ S # {} PROVE FALSE
  OBVIOUS
<1>2. PICK x \in Nat \ S : \A y \in Nat \ S : x <= y
  BY <1>1, NatMin, Zenon
<1>3. x # 0 /\ x - 1 \in Nat /\ x = (x - 1) + 1 /\ ~(x <= x - 1)
  OBVIOUS
<1>4. x - 1 \in S
  BY <1>2, <1>3
<1>5. QED
  BY <1>3, <1>4

\* Pushing a Message record counts it and changes nothing else of the state.
LEMMA AdvanceMessage ==
    ASSUME NEW k, NEW n \in Nat
    PROVE  Advance([subkey |-> k, counter |-> n, finalized |-> FALSE], "Message") =
             [subkey |-> k, counter |-> n + 1, finalized |-> FALSE]
<1> DEFINE st == [subkey |-> k, counter |-> n, finalized |-> FALSE]
<1>1. (st.finalized \/ "Message" = "Final") = FALSE
  <2>1. "Message" # "Final" /\ ~st.finalized
    OBVIOUS
  <2>2. QED
    BY <2>1, Zenon
<1>2. (IF "Message" = "Rekey" THEN Rekey(st.subkey) ELSE st.subkey) = k
  OBVIOUS
<1>3. st.counter + 1 = n + 1
  OBVIOUS
<1> HIDE DEF st
<1>4. Advance(st, "Message") = [subkey |-> k, counter |-> n + 1, finalized |-> FALSE]
  BY <1>1, <1>2, <1>3, Zenon DEF Advance
<1>5. QED
  BY <1>4 DEF st

\* After n Message records the push state of seal_all has counted n of them
\* under the subkey it started with: no chunk of a file is sealed under
\* another.
LEMMA PushedIs ==
    ASSUME NEW key, NEW header, NEW n \in Nat
    PROVE  Pushed(key, header, n) =
             [subkey |-> InitialSubkey(key, header), counter |-> n, finalized |-> FALSE]
<1> DEFINE step(f) == [i \in Nat |-> IF i = 0 THEN StreamInit(key, header)
                                     ELSE Advance(f[i - 1], "Message")]
           g == [i \in Nat |-> [subkey |-> InitialSubkey(key, header), counter |-> i,
                                finalized |-> FALSE]]
           f == CHOOSE f : f = step(f)
<1>1. Pushed(key, header, n) = f[n]
  BY DEF Pushed
<1>2. g = step(g)
  <2>1. \A i \in Nat : step(g)[i] = g[i]
    <3>2. ASSUME NEW i \in Nat, i # 0 PROVE Advance(g[i - 1], "Message") = g[i]
      <4>1. i - 1 \in Nat /\ (i - 1) + 1 = i
        BY <3>2
      <4>2. QED
        BY <4>1, AdvanceMessage
    <3>3. QED
      BY <3>2, Zenon DEF StreamInit
  <2>2. QED
    BY <2>1
<1> HIDE DEF g
<1>3. f = step(f)
  BY <1>2
<1> HIDE DEF f
<1> DEFINE S == {i \in Nat : f[i] = [subkey |-> InitialSubkey(key, header), counter |-> i,
                                finalized |-> FALSE]}
<1>4. 0 \in S
  BY <1>3 DEF StreamInit
<1>5. ASSUME NEW i \in Nat, i \in S PROVE i + 1 \in S
  <2>1. i + 1 # 0 /\ i + 1 \in Nat /\ (i + 1) - 1 = i
    OBVIOUS
  <2>2. f[i + 1] = Advance(f[i], "Message")
    BY <1>3, <2>1
  <2>3. QED
    BY <1>5, <2>1, <2>2, AdvanceMessage
<1> HIDE DEF S
<1>6. n \in S
  BY <1>4, <1>5, NatSetInduction
<1>7. QED
  BY <1>1, <1>6 DEF S

\* f[n] is first with R[1], ..., R[n] appended to it.
IsConcatenation(f, first, R) ==
    f = [i \in Nat |-> IF i = 0 THEN first ELSE f[i - 1] \o R[i]]

\* There is such a function, for every sequence R of parts.
LEMMA ConcatenationExists ==
    ASSUME NEW first, NEW R
    PROVE  \E f : IsConcatenation(f, first, R)
<1> DEFINE Upto(n, g) == g = [i \in 0 .. n |-> IF i = 0 THEN first ELSE g[i - 1] \o R[i]]
<1>1. \A n \in Nat : \E g : Upto(n, g)
  <2> DEFINE S == {n \in Nat : \E g : Upto(n, g)}
  <2>1. 0 \in S
    <3>1. Upto(0, [i \in 0 .. 0 |-> first])
      OBVIOUS
    <3>2. QED
      BY <3>1, Zenon
  <2>2. ASSUME NEW n \in Nat, n \in S PROVE n + 1 \in S
    <3>1. PICK g : Upto(n, g)
      BY <2>2, Zenon
    <3> DEFINE h == [i \in 0 .. n + 1 |-> IF i = n + 1 THEN g[n] \o R[n + 1] ELSE g[i]]
    <3>2. ASSUME NEW i \in 0 .. n + 1
          PROVE  h[i] = IF i = 0 THEN first ELSE h[i - 1] \o R[i]
      <4>1. CASE i = 0
        BY <3>1, <4>1
      <4>2. CASE i # 0 /\ i # n + 1
        <5>1. i \in 0 .. n /\ i - 1 \in 0 .. n + 1 /\ i - 1 # n + 1
          BY <4>2
        <5>2. h[i] = g[i] /\ h[i - 1] = g[i - 1]
          BY <5>1, <4>2
        <5>3. g[i] = g[i - 1] \o R[i]
          BY <3>1, <4>2, <5>1
        <5>4. QED
          BY <4>2, <5>2, <5>3, Zenon
      <4>3. CASE i = n + 1
        <5>1. i - 1 = n /\ n \in 0 .. n + 1 /\ n # n + 1 /\ i # 0
          BY <4>3
        <5>2. h[i] = g[n] \o R[i] /\ h[n] = g[n]
          BY <4>3, <5>1, Zenon
        <5>3. QED
          BY <5>1, <5>2, Zenon
      <4>4. QED
        BY <4>1, <4>2, <4>3
    <3>3. Upto(n + 1, h)
      BY <3>2, Zenon
    <3>4. n + 1 \in Nat
      OBVIOUS
    <3>5. QED
      BY <3>3, <3>4, Zenon
  <2> HIDE DEF S
  <2>3. Nat \subseteq S
    BY <2>1, <2>2, NatSetInduction, Zenon
  <2>4. QED
    BY <2>3, Zenon DEF S
<1>2. ASSUME NEW n \in Nat, NEW m \in Nat, NEW g, NEW h, Upto(n, g), Upto(m, h),
             NEW k \in Nat, k <= n, k <= m
      PROVE  g[k] = h[k]
  <2> DEFINE S == {i \in Nat : i <= n /\ i <= m => g[i] = h[i]}
  <2>1. 0 \in S
    BY <1>2
  <2>2. ASSUME NEW i \in Nat, i \in S PROVE i + 1 \in S
    <3>1. SUFFICES ASSUME i + 1 <= n, i + 1 <= m PROVE g[i + 1] = h[i + 1]
      OBVIOUS
    <3>2. i + 1 \in 0 .. n /\ i + 1 \in 0 .. m /\ i + 1 # 0 /\ (i + 1) - 1 = i /\ i <= n /\ i <= m
      BY <3>1
    <3>3. g[i + 1] = g[i] \o R[i + 1] /\ h[i + 1] = h[i] \o R[i + 1]
      BY <1>2, <3>2, Zenon
    <3>4. g[i] = h[i]
      BY <2>2, <3>2
    <3>5. QED
      BY <3>3, <3>4, Zenon
  <2> HIDE DEF S
  <2>3. k \in S
    BY <2>1, <2>2, NatSetInduction, Zenon
  <2>4. QED
    BY <1>2, <2>3 DEF S
<1> DEFINE G(n) == CHOOSE g : Upto(n, g)
           F == [n \in Nat |-> G(n)[n]]
<1>3. \A n \in Nat : Upto(n, G(n))
  BY <1>1, Zenon
<1> HIDE DEF G
<1>4. ASSUME NEW n \in Nat PROVE F[n] = IF n = 0 THEN first ELSE F[n - 1] \o R[n]
  <2>1. CASE n = 0
    <3>1. G(0)[0] = first
      <4>1. 0 \in Nat /\ 0 \in 0 .. 0
        OBVIOUS
      <4>2. QED
        BY <1>3, <4>1, Zenon
    <3>2. QED
      BY <2>1, <3>1
  <2>2. CASE n # 0
    <3>1. n - 1 \in Nat /\ n - 1 <= n /\ n - 1 <= n - 1 /\ n \in 0 .. n
      BY <2>2
    <3>2. G(n)[n] = G(n)[n - 1] \o R[n]
      BY <1>3, <2>2, <3>1, Zenon
    <3>3. G(n)[n - 1] = G(n - 1)[n - 1]
      <4> HIDE DEF Upto
      <4>1. Upto(n, G(n)) /\ Upto(n - 1, G(n - 1))
        BY <1>3, <3>1, Zenon
      <4>2. QED
        BY <1>2, <3>1, <4>1
    <3>4. F[n] = G(n)[n] /\ F[n - 1] = G(n - 1)[n - 1]
      BY <3>1
    <3>5. QED
      BY <2>2, <3>2, <3>3, <3>4, Zenon
  <2>3. QED
    BY <2>1, <2>2
<1>5. IsConcatenation(F, first, R)
  BY <1>4, Zenon DEF IsConcatenation
<1>6. QED
  BY <1>5, Zenon

\* The recursion of SealedChunks: the loop of seal_all appends one full record
\* a turn.
LEMMA ChunksStep ==
    ASSUME NEW key, NEW header, NEW m, NEW n \in Nat
    PROVE  /\ SealedChunks(key, header, m, 0) = Prefix(header)
           /\ SealedChunks(key, header, m, n + 1) =
                 SealedChunks(key, header, m, n) \o
                 Record(Pushed(key, header, n), "Message",
                        SubSeq(m, n * CHUNK_BYTES + 1, (n + 1) * CHUNK_BYTES))
<1> DEFINE Rec(i) == Record(Pushed(key, header, i - 1), "Message",
                            SubSeq(m, (i - 1) * CHUNK_BYTES + 1, i * CHUNK_BYTES))
           R == [i \in Nat |-> Rec(i)]
           step(f) == [i \in Nat |-> IF i = 0 THEN Prefix(header) ELSE f[i - 1] \o Rec(i)]
           f == CHOOSE f : f = step(f)
<1>1. \A i : SealedChunks(key, header, m, i) = f[i]
  BY DEF SealedChunks
<1> HIDE DEF Rec, R
<1>2. PICK g : IsConcatenation(g, Prefix(header), R)
  BY ConcatenationExists, Zenon
<1>3. g = step(g)
  <2>1. \A i \in Nat : R[i] = Rec(i)
    BY DEF R
  <2>2. QED
    BY <1>2, <2>1, Zenon DEF IsConcatenation
<1>4. f = step(f)
  BY <1>3, Zenon
<1> HIDE DEF f
<1>5. f[0] = Prefix(header)
  <2>1. 0 \in Nat
    OBVIOUS
  <2>2. QED
    BY <1>4, <2>1, Zenon
<1>6. f[n + 1] = f[n] \o Rec(n + 1)
  <2>1. n + 1 \in Nat /\ n + 1 # 0 /\ (n + 1) - 1 = n
    OBVIOUS
  <2>2. QED
    BY <1>4, <2>1, Zenon
<1>7. Rec(n + 1) = Record(Pushed(key, header, n), "Message",
                          SubSeq(m, n * CHUNK_BYTES + 1, (n + 1) * CHUNK_BYTES))
  <2>1. (n + 1) - 1 = n
    OBVIOUS
  <2>2. QED
    BY <2>1, Zenon DEF Rec
<1>8. QED
  BY <1>1, <1>5, <1>6, <1>7, Zenon

\* Before the first chunk the file is the version byte and the header.
LEMMA ChunksNone ==
    ASSUME NEW key, NEW header, NEW m
    PROVE  SealedChunks(key, header, m, 0) = Prefix(header)
<1>1. 0 \in Nat
  OBVIOUS
<1>2. QED
  BY <1>1, ChunksStep, Zenon

\* The n-th turn of the loop of seal_all appends the record of chunk n.
LEMMA ChunksNext ==
    ASSUME NEW key, NEW header, NEW m, NEW n \in Nat
    PROVE  SealedChunks(key, header, m, n + 1) =
             SealedChunks(key, header, m, n) \o
             Record(Pushed(key, header, n), "Message",
                    SubSeq(m, n * CHUNK_BYTES + 1, (n + 1) * CHUNK_BYTES))
  BY ChunksStep, ZenonT(60)

\* Where chunk n begins and ends.
LEMMA ChunkArith ==
    ASSUME NEW n \in Nat
    PROVE  /\ n * CHUNK_BYTES \in Nat
           /\ (n + 1) * CHUNK_BYTES = n * CHUNK_BYTES + CHUNK_BYTES
  BY ChunkBytesAssumption

\* A byte in chunk n is found by dividing its index.
LEMMA ChunkDiv ==
    ASSUME NEW n \in Nat, NEW a \in Nat, n * CHUNK_BYTES <= a,
           a < n * CHUNK_BYTES + CHUNK_BYTES
    PROVE  a \div CHUNK_BYTES = n
  BY ChunkBytesAssumption

\* Dividing an index by the chunk size finds the chunk that holds it.
LEMMA ChunkDiv2 ==
    ASSUME NEW a \in Nat
    PROVE  /\ a \div CHUNK_BYTES \in Nat
           /\ (a \div CHUNK_BYTES) * CHUNK_BYTES <= a
           /\ a < (a \div CHUNK_BYTES) * CHUNK_BYTES + CHUNK_BYTES
  BY ChunkBytesAssumption

\* Later chunks begin later.
LEMMA ChunkMono ==
    ASSUME NEW n \in Nat, NEW k \in Nat, n <= k
    PROVE  n * CHUNK_BYTES <= k * CHUNK_BYTES
  BY ChunkBytesAssumption

\* Appending to a sequence leaves the parts of it alone.
LEMMA SubSeqPrefix ==
    ASSUME NEW S, NEW s \in Seq(S), NEW t \in Seq(S), NEW i \in Nat, i > 0, NEW j \in Nat, j <= Len(s)
    PROVE  SubSeq(s \o t, i, j) = SubSeq(s, i, j)
  OBVIOUS

\* The two parts a sequence is cut into.
LEMMA SeqSplit ==
    ASSUME NEW S, NEW s \in Seq(S), NEW n \in Nat, n <= Len(s)
    PROVE  /\ SubSeq(s, 1, n) \in Seq(S) /\ Len(SubSeq(s, 1, n)) = n
           /\ SubSeq(s, n + 1, Len(s)) \in Seq(S)
           /\ Len(SubSeq(s, n + 1, Len(s))) = Len(s) - n
  OBVIOUS

\* The n elements that follow element i.
LEMMA SeqWindow ==
    ASSUME NEW S, NEW s \in Seq(S), NEW i \in Nat, NEW n \in Nat, i + n <= Len(s)
    PROVE  /\ SubSeq(s, i + 1, i + n) \in Seq(S)
           /\ Len(SubSeq(s, i + 1, i + n)) = n
           /\ \A k \in 1 .. n : SubSeq(s, i + 1, i + n)[k] = s[i + k]
  OBVIOUS

\* Concatenation under a name that is expanded only where it is needed.
Join(s, t) == s \o t

\* A prefix and the elements after it make a longer prefix.
LEMMA SeqGrow ==
    ASSUME NEW S, NEW s \in Seq(S), NEW i \in Nat, NEW j \in Nat, i <= j, j <= Len(s)
    PROVE  Join(SubSeq(s, 1, i), SubSeq(s, i + 1, j)) = SubSeq(s, 1, j)
<1>1. /\ SubSeq(s, 1, i) \in Seq(S) /\ Len(SubSeq(s, 1, i)) = i
      /\ SubSeq(s, i + 1, j) \in Seq(S) /\ Len(SubSeq(s, i + 1, j)) = j - i
      /\ SubSeq(s, 1, j) \in Seq(S) /\ Len(SubSeq(s, 1, j)) = j
  OBVIOUS
<1>2. \A k \in 1 .. j : (SubSeq(s, 1, i) \o SubSeq(s, i + 1, j))[k] = SubSeq(s, 1, j)[k]
  <2>1. TAKE k \in 1 .. j
  <2>2. CASE k <= i
    BY <2>2
  <2>3. CASE k > i
    BY <2>3
  <2>4. QED
    BY <2>2, <2>3
<1>3. QED
  BY <1>1, <1>2 DEF Join

\* A prefix and everything after it make the sequence.
LEMMA SeqWhole ==
    ASSUME NEW S, NEW s \in Seq(S), NEW i \in Nat, i <= Len(s)
    PROVE  Join(SubSeq(s, 1, i), SubSeq(s, i + 1, Len(s))) = s
<1>1. PICK j \in Nat : j = Len(s)
  OBVIOUS
<1>2. i <= j /\ j <= Len(s)
  BY <1>1
<1>3. Join(SubSeq(s, 1, i), SubSeq(s, i + 1, j)) = SubSeq(s, 1, j)
  BY <1>2, SeqGrow, Zenon
<1>4. SubSeq(s, 1, j) = s
  BY <1>1
<1>5. QED
  BY <1>1, <1>3, <1>4, Zenon

\* The length of two sequences together.
LEMMA SeqJoin ==
    ASSUME NEW S, NEW s \in Seq(S), NEW t \in Seq(S)
    PROVE  s \o t \in Seq(S) /\ Len(s \o t) = Len(s) + Len(t)
  OBVIOUS

\* The length of three sequences together, however they are joined.
LEMMA SeqJoin3 ==
    ASSUME NEW S, NEW a \in Seq(S), NEW b \in Seq(S), NEW c \in Seq(S)
    PROVE  /\ a \o b \o c \in Seq(S) /\ Len(a \o b \o c) = Len(a) + Len(b) + Len(c)
           /\ a \o b \o c = a \o (b \o c)
           /\ a \o b \o c \o << >> = a \o b \o c
           /\ a \o b \o << >> \o c = a \o (b \o c) \o << >>
  OBVIOUS

\* What seal_all writes for the first n full chunks depends on those n chunks
\* only, not on what follows: a writer that has not seen the end of its input
\* yet may write them.
LEMMA ChunksOfLonger ==
    ASSUME NEW key, NEW header, NEW S, NEW s \in Seq(S), NEW t \in Seq(S),
           NEW n \in Nat, n * CHUNK_BYTES <= Len(s)
    PROVE  SealedChunks(key, header, s \o t, n) = SealedChunks(key, header, s, n)
<1> DEFINE T == {i \in Nat : i <= n => SealedChunks(key, header, s \o t, i) =
                                         SealedChunks(key, header, s, i)}
<1>1. 0 \in T
  <2>1. SealedChunks(key, header, s \o t, 0) = SealedChunks(key, header, s, 0)
    BY ChunksNone, Zenon
  <2>2. QED
    BY <2>1
<1>2. ASSUME NEW i \in Nat, i \in T PROVE i + 1 \in T
  <2>1. SUFFICES ASSUME i + 1 <= n
                 PROVE  SealedChunks(key, header, s \o t, i + 1) =
                          SealedChunks(key, header, s, i + 1)
    OBVIOUS
  <2>2. SealedChunks(key, header, s \o t, i) = SealedChunks(key, header, s, i)
    BY <1>2, <2>1
  <2> HIDE DEF T
  <2>3. (i + 1) * CHUNK_BYTES \in Nat /\ i * CHUNK_BYTES + 1 \in Nat
        /\ i * CHUNK_BYTES + 1 > 0 /\ (i + 1) * CHUNK_BYTES <= Len(s)
    <3>1. (i + 1) * CHUNK_BYTES <= n * CHUNK_BYTES
      BY <2>1, ChunkMono
    <3>0. i + 1 \in Nat
      OBVIOUS
    <3>2. i * CHUNK_BYTES \in Nat /\ (i + 1) * CHUNK_BYTES \in Nat /\ n * CHUNK_BYTES \in Nat
      BY <3>0, ChunkArith, Zenon
    <3>3. QED
      BY <3>1, <3>2
  <2>4. SubSeq(s \o t, i * CHUNK_BYTES + 1, (i + 1) * CHUNK_BYTES) =
        SubSeq(s, i * CHUNK_BYTES + 1, (i + 1) * CHUNK_BYTES)
    BY <2>3, SubSeqPrefix, ZenonT(60)
  <2>5. \A m : SealedChunks(key, header, m, i + 1) =
                 SealedChunks(key, header, m, i) \o
                 Record(Pushed(key, header, i), "Message",
                        SubSeq(m, i * CHUNK_BYTES + 1, (i + 1) * CHUNK_BYTES))
    BY ChunksNext, Zenon
  <2>6. QED
    BY <2>2, <2>4, <2>5, Zenon
<1> HIDE DEF T
<1>3. n \in T
  BY <1>1, <1>2, NatSetInduction, Zenon
<1>4. QED
  BY <1>3 DEF T

\* A plaintext of n full chunks and one more byte at least, at most one more
\* chunk, has n chunks before its Final record; an exact multiple of the chunk
\* size leaves a full chunk to the Final record.
LEMMA FullChunksIs ==
    ASSUME NEW S, NEW m \in Seq(S), NEW n \in Nat,
           n * CHUNK_BYTES <= Len(m), Len(m) <= n * CHUNK_BYTES + CHUNK_BYTES,
           n > 0 => n * CHUNK_BYTES < Len(m)
    PROVE  FullChunks(m) = n
<1>1. CASE m = << >>
  BY <1>1, ChunkMono, ChunkArith, ChunkBytesAssumption DEF FullChunks
<1>2. CASE m # << >>
  <2>1. Len(m) - 1 \in Nat /\ n * CHUNK_BYTES <= Len(m) - 1
        /\ Len(m) - 1 < n * CHUNK_BYTES + CHUNK_BYTES
    BY <1>2, ChunkArith, ChunkBytesAssumption
  <2>2. QED
    BY <1>2, <2>1, ChunkDiv DEF FullChunks
<1>3. QED
  BY <1>1, <1>2

\* The chunks before the Final record fit in the plaintext, leave at most one
\* chunk, and leave at least one byte unless the plaintext is empty.
LEMMA FullChunksBounds ==
    ASSUME NEW S, NEW m \in Seq(S)
    PROVE  /\ FullChunks(m) \in Nat
           /\ FullChunks(m) * CHUNK_BYTES <= Len(m)
           /\ Len(m) <= FullChunks(m) * CHUNK_BYTES + CHUNK_BYTES
           /\ m # << >> => FullChunks(m) * CHUNK_BYTES < Len(m)
<1>1. CASE m = << >>
  BY <1>1, ChunkArith, ChunkBytesAssumption DEF FullChunks
<1>2. CASE m # << >>
  <2>1. Len(m) - 1 \in Nat
    BY <1>2
  <2> DEFINE q == FullChunks(m)
  <2>2. q \in Nat /\ q * CHUNK_BYTES <= Len(m) - 1 /\ Len(m) - 1 < q * CHUNK_BYTES + CHUNK_BYTES
    BY <1>2, <2>1, ChunkDiv2 DEF FullChunks
  <2>3. q * CHUNK_BYTES \in Nat
    BY <2>2, ChunkArith
  <2> HIDE DEF q
  <2>4. q * CHUNK_BYTES < Len(m) /\ Len(m) <= q * CHUNK_BYTES + CHUNK_BYTES
    BY <2>2, <2>3, ChunkBytesAssumption
  <2>5. QED
    BY <2>2, <2>3, <2>4 DEF q
<1>3. QED
  BY <1>1, <1>2
=============================================================================
