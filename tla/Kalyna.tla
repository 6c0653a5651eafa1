------------------------------- MODULE Kalyna -------------------------------
(***************************************************************************)
(* dstu-core/src/hazmat/kalyna.rs: the Kalyna block cipher, in all five    *)
(* variants.  nb, nk and nr are the words of a block, the words of a key   *)
(* and the rounds; a column is a word, that is, eight bytes.               *)
(***************************************************************************)
EXTENDS KalynaTables, TLC

\* kalyna_variant!: [block words, key words, rounds].
Kalyna128_128 == [nb |-> 2, nk |-> 2, nr |-> 10]
Kalyna128_256 == [nb |-> 2, nk |-> 4, nr |-> 14]
Kalyna256_256 == [nb |-> 4, nk |-> 4, nr |-> 14]
Kalyna256_512 == [nb |-> 4, nk |-> 8, nr |-> 18]
Kalyna512_512 == [nb |-> 8, nk |-> 8, nr |-> 18]

sub_bytes(state) == Tabulate(Len(state), LAMBDA c :
    Tabulate(ROWS, LAMBDA row : RowBox(SBOXES, row)[state[c][row] + 1]))

inv_sub_bytes(state) == Tabulate(Len(state), LAMBDA c :
    Tabulate(ROWS, LAMBDA row : RowBox(SBOXES_DEC, row)[state[c][row] + 1]))

\* As if every row moved by its index.
ShiftByIndex(row, nb) == (row - 1) % nb

\* Row r moves right by r * nb / 8 columns.
Shift(row, nb) == ((row - 1) * nb) \div ROWS

\* The column the byte of row `row' in output column c comes from.
Source(c, row, nb) == ((c - 1 + nb - Shift(row, nb)) % nb) + 1
InvSource(c, row, nb) == ((c - 1 + Shift(row, nb)) % nb) + 1

shift_rows(state) == LET nb == Len(state) IN
    Tabulate(nb, LAMBDA c : Tabulate(ROWS, LAMBDA row : state[Source(c, row, nb)][row]))

inv_shift_rows(state) == LET nb == Len(state) IN
    Tabulate(nb, LAMBDA c : Tabulate(ROWS, LAMBDA row : state[InvSource(c, row, nb)][row]))

add_round_key(state, key) == Tabulate(Len(state), LAMBDA c : Add(state[c], key[c]))
sub_round_key(state, key) == Tabulate(Len(state), LAMBDA c : Sub(state[c], key[c]))
xor_round_key(state, key) == Tabulate(Len(state), LAMBDA c : XorBytes(state[c], key[c]))

\* The three layers in one pass: encipher_round and encipher_round_n.
encipher_round(state) == LET nb == Len(state) IN
    Tabulate(nb, LAMBDA c :
        XorColumns(LAMBDA row : forward_sbox_mds(row, state[Source(c, row, nb)][row])))

decipher_round(state) == inv_sub_bytes(inv_shift_rows(apply_inverse_matrix(state)))

\* fused_inv_round and fused_inv_round_n.  The round key XORed after it has to
\* be the transformed one.
fused_inv_round(state) == LET nb == Len(state) IN
    Tabulate(nb, LAMBDA c :
        XorColumns(LAMBDA row : inverse_sbox_mds(row, state[InvSource(c, row, nb)][row])))

\* As if the reordered rounds could use the keys as they are.
transform_keys_for_decryptNot(round_keys, nr) == round_keys

transform_keys_for_decrypt(round_keys, nr) ==
    [i \in 0 .. nr |-> IF i \in 1 .. nr - 1 THEN apply_inverse_matrix(round_keys[i])
                                            ELSE round_keys[i]]

round_key_from(base, tmp) ==
    add_round_key(encipher_round(xor_round_key(encipher_round(add_round_key(base, tmp)), tmp)), tmp)

columns_from_bytes(bytes, count) == Chunks(SubSeq(bytes, 1, count * ROWS), ROWS)

shift_left_words(state) == Tabulate(Len(state), LAMBDA c : Add(state[c], state[c]))

rotate_words_left(buf) == Append(Tail(buf), Head(buf))

rotate_bytes_left(buf, shift) == SubSeq(buf, shift + 1, Len(buf)) \o SubSeq(buf, 1, shift)

key_expand_kt(key, nb, nk) ==
    LET tmv == Tabulate(nb, LAMBDA c : IF c = 1 THEN LE(nb + nk + 1, ROWS) ELSE Zeros(ROWS))
        k0  == columns_from_bytes(key, nb)
        k1  == IF nk = nb THEN k0 ELSE columns_from_bytes(Slice(key, nb * ROWS, nb * ROWS), nb)
        s1  == encipher_round(add_round_key(tmv, k0))
        s2  == encipher_round(xor_round_key(s1, k1))
    IN  encipher_round(add_round_key(s2, k0))

mod_add_columns(a, b) == add_round_key(a, b)

\* The keys with an even index, from `round' on: a function on 0, 2, ..., nr.
\* With nk # nb each turn makes two of them, one from each half of the key
\* words, and rotates the words once.
RECURSIVE EvenKeys(_, _, _, _, _, _)
EvenKeys(data, kt, tmv, round, nb, nr) ==
    LET key(half, t) == round_key_from(SubSeq(data, half + 1, half + nb), mod_add_columns(kt, t))
        tmv2  == shift_left_words(tmv)
        one   == (round :> key(0, tmv))
        two   == one @@ ((round + 2) :> key(nb, tmv2))
    IN  CASE round = nr -> one
          [] round # nr /\ Len(data) = nb ->
               one @@ EvenKeys(rotate_words_left(data), kt, tmv2, round + 2, nb, nr)
          [] round # nr /\ Len(data) # nb /\ round + 2 = nr -> two
          [] OTHER -> two @@ EvenKeys(rotate_words_left(data), kt, shift_left_words(tmv2),
                                      round + 4, nb, nr)

key_expand_even(key, kt, nb, nk, nr) ==
    EvenKeys(columns_from_bytes(key, nk), kt,
             Tabulate(nb, LAMBDA c : <<1, 0, 1, 0, 1, 0, 1, 0>>), 0, nb, nr)

\* The keys with an odd index: the one below, rotated left by 2 * nb + 3 bytes.
key_expand_odd(even, nb, nr) ==
    [i \in 0 .. nr |->
        IF i % 2 = 0 THEN even[i]
        ELSE Chunks(rotate_bytes_left(Flatten(even[i - 1]), 2 * nb + 3), ROWS)]

key_expand(key, v) ==
    key_expand_odd(key_expand_even(key, key_expand_kt(key, v.nb, v.nk), v.nb, v.nk, v.nr),
                   v.nb, v.nr)

encrypt_with_schedule(round_keys, plaintext, v) ==
    LET s0 == add_round_key(columns_from_bytes(plaintext, v.nb), round_keys[0])
        s1 == Loop(v.nr - 1, s0, LAMBDA s, i : xor_round_key(encipher_round(s), round_keys[i]))
    IN  Flatten(add_round_key(encipher_round(s1), round_keys[v.nr]))

decrypt_with_schedule(round_keys, dec_keys, ciphertext, v) ==
    LET s0 == apply_inverse_matrix(
                  sub_round_key(columns_from_bytes(ciphertext, v.nb), round_keys[v.nr]))
        s1 == Loop(v.nr - 1, s0, LAMBDA s, i : xor_round_key(fused_inv_round(s), dec_keys[v.nr - i]))
    IN  Flatten(sub_round_key(inv_sub_bytes(inv_shift_rows(s1)), round_keys[0]))

\* ExpandedKey::new, and what encrypt_generic and decrypt_generic make for one
\* call.
ExpandedKey(key, v) ==
    LET round_keys == key_expand(key, v)
    IN  [v |-> v, round_keys |-> round_keys,
         dec_keys |-> transform_keys_for_decrypt(round_keys, v.nr)]

encrypt_block(k, block) == encrypt_with_schedule(k.round_keys, block, k.v)
decrypt_block(k, block) == decrypt_with_schedule(k.round_keys, k.dec_keys, block, k.v)
=============================================================================
