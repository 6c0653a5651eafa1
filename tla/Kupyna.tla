------------------------------- MODULE Kupyna -------------------------------
(***************************************************************************)
(* dstu-core/src/hazmat/kupyna.rs, kupyna_kmac.rs and kupyna_kdf.rs: the   *)
(* hash function, its streaming core, the MAC and the key derivation.  A   *)
(* state is a sequence of columns of eight bytes; the functions with a     *)
(* length argument and their const-generic copies (..._n) are one          *)
(* definition.  Wiping of locals is left out.                              *)
(***************************************************************************)
EXTENDS KalynaTables

\* The three digests: the constants of the state and the bytes returned.
Kupyna256 == [columns |-> 8, rounds |-> 10, last_row_shift |-> 7, out |-> 32]
Kupyna384 == [columns |-> 16, rounds |-> 14, last_row_shift |-> 11, out |-> 48]
Kupyna512 == [columns |-> 16, rounds |-> 14, last_row_shift |-> 11, out |-> 64]

RowShift(row, last_row_shift) == IF row = ROWS THEN last_row_shift ELSE row - 1

sub_bytes(state) ==
    Tabulate(Len(state), LAMBDA c :
        Tabulate(ROWS, LAMBDA r : RowBox(SBOXES, r)[state[c][r] + 1]))

shift_bytes(state, last_row_shift) ==
    LET n == Len(state) IN
    Tabulate(n, LAMBDA c : Tabulate(ROWS, LAMBDA r :
        state[((c - 1 + n - RowShift(r, last_row_shift)) % n) + 1][r]))

mix_columns(state) == apply_forward_matrix(state)

\* The three at once, from the combined table.
sub_shift_mix(state, last_row_shift) ==
    LET n == Len(state)
        src(c, r) == state[((c - 1 + n - RowShift(r, last_row_shift)) % n) + 1][r]
    IN  Tabulate(n, LAMBDA c : XorColumns(LAMBDA r : forward_sbox_mds(r, src(c, r))))

add_round_constant_xor(state, round) ==
    Tabulate(Len(state), LAMBDA c :
        [state[c] EXCEPT ![1] = Xor(@, Xor((c - 1) * 16, round))])

add_round_constant_add(state, round) ==
    Tabulate(Len(state), LAMBDA c :
        Add(state[c], <<243, 240, 240, 240, 240, 240, 240, Xor((Len(state) - c) * 16, round)>>))

t_transform(state, v) == Loop(v.rounds, state, LAMBDA s, i :
    sub_shift_mix(add_round_constant_xor(s, i - 1), v.last_row_shift))

t_plus_transform(state, v) == Loop(v.rounds, state, LAMBDA s, i :
    sub_shift_mix(add_round_constant_add(s, i - 1), v.last_row_shift))

XorState(a, b) == Tabulate(Len(a), LAMBDA c : XorBytes(a[c], b[c]))

compress(h, block, v) ==
    XorState(h, XorState(t_transform(XorState(h, block), v), t_plus_transform(block, v)))

bytes_to_columns(bytes) == Chunks(bytes, ROWS)

\* As if a length field that does not fit the block were put at its end all the
\* same, over the marker.
kupyna_paddingOneBlock(prefix, len, block_bytes) ==
    SubSeq(Padded(Append(prefix, 128), block_bytes), 1, block_bytes - 12) \o LE(8 * len, 12)

\* 0x80, zeros, and the length in bits of the message, 12 bytes.
kupyna_padding(prefix, len, block_bytes) ==
    LET used == Len(prefix) + 13
        zero_bytes == (block_bytes - (used % block_bytes)) % block_bytes
    IN  Append(prefix, 128) \o Zeros(zero_bytes) \o LE(8 * len, 12)

(***************************************************************************)
(* KupynaCore                                                              *)
(***************************************************************************)
block_bytes(v) == v.columns * ROWS

KupynaCore_new(v) ==
    [h |-> Overwrite(Tabulate(v.columns, LAMBDA c : Zeros(ROWS)), 0, <<Padded(<<block_bytes(v)>>, ROWS)>>),
     buffer |-> <<>>, total_len |-> 0, v |-> v]

CompressBlocks(core, blocks) ==
    [core EXCEPT !.h = Loop(Len(blocks), @, LAMBDA h, i :
        compress(h, bytes_to_columns(blocks[i]), core.v))]

KupynaCore_update(core, data) ==
    LET bb   == block_bytes(core.v)
        take == IF core.buffer = <<>> THEN 0
                ELSE IF bb - Len(core.buffer) < Len(data) THEN bb - Len(core.buffer) ELSE Len(data)
        full == core.buffer \o SubSeq(data, 1, take)
        rest == SubSeq(data, take + 1, Len(data))
        c    == [core EXCEPT !.total_len = @ + Len(data)]
        c2   == IF full = <<>> THEN c ELSE CompressBlocks(c, <<full>>)
    IN  IF full # <<>> /\ Len(full) < bb THEN [c EXCEPT !.buffer = full]
        ELSE [CompressBlocks(c2, Chunks(rest, bb)) EXCEPT !.buffer = Remainder(rest, bb)]

KupynaCore_output(core) ==
    LET flat == Flatten(XorState(core.h, t_transform(core.h, core.v)))
    IN  SubSeq(flat, block_bytes(core.v) - core.v.out + 1, block_bytes(core.v))

KupynaCore_finalize(core) ==
    LET bb == block_bytes(core.v)
    IN  KupynaCore_output(CompressBlocks(core, Chunks(kupyna_padding(core.buffer, core.total_len, bb), bb)))

digest(v, message) == KupynaCore_finalize(KupynaCore_update(KupynaCore_new(v), message))

(***************************************************************************)
(* kupyna_kmac.rs and kupyna_kdf.rs                                        *)
(***************************************************************************)
\* PAD(K), M, the suffix of PAD(M) and ~K.
kmac(v, key, message) ==
    LET bb   == block_bytes(v)
        c1   == KupynaCore_update(KupynaCore_new(v), kupyna_padding(key, Len(key), bb))
        c2   == KupynaCore_update(c1, message)
        padm == kupyna_padding(c2.buffer, Len(message), bb)
        c3   == KupynaCore_update(c2, SubSeq(padm, Len(c2.buffer) + 1, Len(padm)))
    IN  IF Len(key) # v.out THEN [st |-> "WrongKeyLength"]
        ELSE [st |-> "Ok", v |-> KupynaCore_finalize(KupynaCore_update(c3, NotBytes(key)))]

kmac_verify(v, key, message, expected) ==
    LET mac == kmac(v, key, message) IN
    IF mac.st # "Ok" THEN mac
    ELSE IF mac.v = expected THEN [st |-> "Ok", v |-> <<>>] ELSE [st |-> "TagMismatch"]

derive_subkey(v, master_key, subkey_id, context) ==
    kmac(v, master_key, context \o LE(subkey_id, 8)).v
=============================================================================
