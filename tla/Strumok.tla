------------------------------ MODULE Strumok ------------------------------
(***************************************************************************)
(* dstu-core/src/hazmat/strumok.rs: the stream cipher DSTU 8845.  A u64 is *)
(* its eight bytes, least significant first.  The tables are given by the  *)
(* linear maps and S-boxes they tabulate.                                  *)
(***************************************************************************)
EXTENDS KalynaTables

\* Word b of MUL_ALPHA is b times alpha's reduction polynomial, byte by byte in
\* the field of the MDS matrix; MUL_ALPHA_INV likewise for the inverse.
MUL_ALPHA == Tabulate(256, LAMBDA b :
    Tabulate(8, LAMBDA j : gf_mul(b - 1, <<4, 0, 0, 94, 18, 4, 63, 215>>[j])))
MUL_ALPHA_INV == Tabulate(256, LAMBDA b :
    Tabulate(8, LAMBDA j : gf_mul(b - 1, <<0, 0, 153, 138, 1, 198, 252, 71>>[j])))

\* T_i: the S-box of byte i and column i of the MDS matrix.
T0 == build_sbox_mds[1]
T1 == build_sbox_mds[2]
T2 == build_sbox_mds[3]
T3 == build_sbox_mds[4]
T4 == build_sbox_mds[5]
T5 == build_sbox_mds[6]
T6 == build_sbox_mds[7]
T7 == build_sbox_mds[8]

mul_alpha(w) == XorBytes(<<0>> \o SubSeq(w, 1, 7), MUL_ALPHA[w[8] + 1])

\* As if the reduction were chosen by the other end of the word.
mul_alpha_invTopByte(w) == XorBytes(Tail(w) \o <<0>>, MUL_ALPHA_INV[w[8] + 1])

mul_alpha_inv(w) == XorBytes(Tail(w) \o <<0>>, MUL_ALPHA_INV[w[1] + 1])

t_function(w) ==
    LET t == <<T0[w[1]], T1[w[2]], T2[w[3]], T3[w[4]], T4[w[5]], T5[w[6]], T6[w[7]], T7[w[8]]>>
    IN  XorColumns(LAMBDA r : t[r])

\* The small-tables build: no T0..T7, the S-boxes and the matrix.
t_function_small_tables(w) ==
    apply_forward_matrix(<<Tabulate(8, LAMBDA r : RowBox(SBOXES, r)[w[r] + 1])>>)[1]

fsm(x, y, z) == XorBytes(Add(x, y), z)

word_le(bytes, index) == Slice(bytes, index * 8, 8)

init_state(key, iv) ==
    LET v(i) == word_le(iv, i)
        k(i) == word_le(key, i)
        n(i) == NotBytes(k(i))
    IN  IF Len(key) = 32
        THEN <<XorBytes(k(3), v(0)), k(2), XorBytes(k(1), v(1)), XorBytes(k(0), v(2)),
               k(3), XorBytes(k(2), v(3)), n(1), n(0), k(3), k(2), n(1), k(0), k(3), n(2), k(1), n(0)>>
        ELSE <<XorBytes(k(7), v(0)), k(6), k(5), XorBytes(k(4), v(1)),
               k(3), XorBytes(k(2), v(2)), k(1), n(0), XorBytes(k(4), v(3)), n(6), k(5), n(7),
               k(3), k(2), n(1), k(0)>>

\* Word i of the shift register, which is a ring that starts at head.
Word(c, i) == c.s[((c.head + i) % 16) + 1]

next_step(c, init_mode) ==
    LET linear   == XorBytes(XorBytes(mul_alpha(Word(c, 0)), mul_alpha_inv(Word(c, 11))), Word(c, 13))
        feedback == IF init_mode THEN XorBytes(linear, fsm(Word(c, 15), c.r0, c.r1)) ELSE linear
    IN  [c EXCEPT !.s = [@ EXCEPT ![c.head + 1] = feedback], !.head = (@ + 1) % 16,
                  !.r0 = Add(c.r1, Word(c, 13)), !.r1 = t_function(c.r0)]

strm(c) == XorBytes(fsm(Word(c, 15), c.r0, c.r1), Word(c, 0))

\* Sixteen steps with fixed indices, for a register whose head is 0.
BlockStep(x, k) ==
    LET at(i) == x.c.s[((k + i - 1) % 16) + 1]
        feedback == XorBytes(XorBytes(mul_alpha(at(0)), mul_alpha_inv(at(11))), at(13))
    IN  [out |-> x.out \o XorBytes(fsm(at(15), x.c.r0, x.c.r1), at(0)),
         c |-> [x.c EXCEPT !.s = [@ EXCEPT ![k] = feedback],
                           !.r0 = Add(x.c.r1, at(13)), !.r1 = t_function(x.c.r0)]]

next_block(c, input) ==
    LET r == Loop(16, [c |-> c, out |-> <<>>], BlockStep)
    IN  [c |-> r.c, out |-> XorBytes(input, r.out)]

Core_new(key, iv) ==
    LET fresh == [s |-> init_state(key, iv), head |-> 0, r0 |-> Zeros(8), r1 |-> Zeros(8),
                  block |-> Zeros(8), block_pos |-> 8]
    IN  next_step(Loop(32, fresh, LAMBDA c, i : next_step(c, TRUE)), FALSE)

\* What is left of the last word.
drain(c, data) ==
    LET n == IF 8 - c.block_pos < Len(data) THEN 8 - c.block_pos ELSE Len(data)
    IN  [o |-> [c EXCEPT !.block_pos = @ + n],
         buf |-> XorBytes(Slice(data, 0, n), SubSeq(c.block, c.block_pos + 1, 8))]

Bulk(c, data) ==
    Loop(Len(data) \div 128, [o |-> c, buf |-> <<>>], LAMBDA a, i :
        LET b == next_block(a.o, Chunks(data, 128)[i]) IN [o |-> b.c, buf |-> a.buf \o b.out])

\* As if the register were not turned to head 0 first.
RotatedNot(c) == [c EXCEPT !.head = 0]

\* rotate_left(head): logical word 0 comes first.
Rotated(c) == [c EXCEPT !.s = Tabulate(16, LAMBDA i : Word(c, i - 1)), !.head = 0]

\* Whole blocks of 128 bytes, once the last word is used up.
bulk(c, data) ==
    IF c.block_pos # 8 \/ Len(data) < 128 THEN [o |-> c, buf |-> <<>>] ELSE Bulk(Rotated(c), data)

\* The rest, a word at a time; there is a rest only if block_pos is 8.
remainder(c, data) ==
    LET word(a, i) ==
            LET n == IF 8 * i <= Len(data) THEN 8 ELSE Len(data) % 8
                d == drain([next_step(a.o, FALSE) EXCEPT !.block = strm(a.o), !.block_pos = 0],
                           Slice(data, 8 * (i - 1), n))
            IN  [o |-> d.o, buf |-> a.buf \o d.buf]
    IN  Loop((Len(data) + 7) \div 8, [o |-> c, buf |-> <<>>], word)

apply_keystream(c, data) ==
    LET d == drain(c, data)
        b == bulk(d.o, SubSeq(data, Len(d.buf) + 1, Len(data)))
        r == remainder(b.o, SubSeq(data, Len(d.buf) + Len(b.buf) + 1, Len(data)))
    IN  [o |-> r.o, buf |-> d.buf \o b.buf \o r.buf]
=============================================================================
