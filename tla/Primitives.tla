----------------------------- MODULE Primitives -----------------------------
(***************************************************************************)
(* The primitives of dstu-core/src/hazmat in use: first the symmetric      *)
(* ones, at full size, then DSTU 4145 signatures over the two binary       *)
(* curves and DSTU 9041 encryption over the three Edwards curves.  The     *)
(* algorithms are the source's, limb by limb; the fields of the curves are *)
(* small ones of the same shape, so that a reference can be computed       *)
(* beside every answer.  Also the hashing of passwords and the distance    *)
(* between mistyped names.                                                 *)
(***************************************************************************)
EXTENDS KalynaModes, Integers

(***************************************************************************)
(* The symmetric primitives: a caller takes one of the stateful objects    *)
(* (CTR, OFB, CFB, CBC, Strumok, Kupyna) and hands it a message in pieces  *)
(* of its choice, or calls one of the functions (block cipher, AEAD, MAC,  *)
(* XTS, key wrap, field product) on an input.                              *)
(*                                                                         *)
(* `task' is what is used and on what, `cuts' the lengths of the pieces    *)
(* the object has been given, `asked' whether the function was called.     *)
(* What the object has become and what the function returned are functions *)
(* of these: Given and the ...Call operators.                              *)
(***************************************************************************)
H == INSTANCE Kupyna
S == INSTANCE Strumok
\* GF(2^8) as two words of four bits, for the algorithms of gf2m_wide.rs.
Small == INSTANCE Gf2mWide WITH W <- 4, LIMBS <- 2, TERMS <- <<3, 2, 1>>

CONSTANTS
    StreamTasks,    \* [op, pieces, limit, calls, ...]: objects, the lengths they are
                    \* given, of how much message at most and in how many calls
    CallTasks       \* [op, ...]: the function calls

VARIABLES task, cuts, asked

vars == <<task, cuts, asked>>

\* Byte i of the message every object is given.
Message(n) == Tabulate(n, LAMBDA i : (7 * i + 250) % 256)
Key(n) == Tabulate(n, LAMBDA i : i - 1)

K128 == ExpandedKey(Key(16), Kalyna128_128)

\* An IV whose encryption is two steps from the end of the counter.
CarryIv(k) == decrypt_block(k, <<254>> \o Tabulate(Block(k) - 1, LAMBDA i : 255))
Iv(k) == Tabulate(Block(k), LAMBDA i : 15 + i)

(***************************************************************************)
(* Objects                                                                 *)
(***************************************************************************)
NewCtr == ctr_new(K128, CarryIv(K128))
NewStrumok256 == S!Core_new(Key(32), Key(32))
NewStrumok512 == S!Core_new(Key(64), Key(32))
NewStrumok(n) == IF n = 32 THEN NewStrumok256 ELSE NewStrumok512

New(t) ==
    CASE t.op = "ctr" -> NewCtr
      [] t.op = "ofb" -> ofb_new(Iv(K128))
      [] t.op = "cfb" -> cfb_new(K128, Iv(K128), t.q).v
      [] t.op = "cbc" -> cbc_new(Iv(K128))
      [] t.op = "ecb" -> {}
      [] t.op = "strumok" -> NewStrumok(t.key)
      [] t.op = "kupyna" -> H!KupynaCore_new(t.v)

WithObject(r, o) == IF r.st = "Ok" THEN Ok(After(o, r.v)) ELSE r

\* One call on an object.
Apply(t, o, data, enc) ==
    CASE t.op = "ctr" -> Ok(ctr_apply_in_place(K128, o, data))
      [] t.op = "ofb" -> Ok(ofb_apply_in_place(K128, o, data))
      [] t.op = "cfb" -> cfb_in_place(K128, o, data, enc)
      [] t.op = "cbc" -> IF enc THEN cbc_encrypt_in_place(K128, o, data)
                                ELSE cbc_decrypt_in_place(K128, o, data)
      [] t.op = "ecb" -> WithObject(IF enc THEN ecb_encrypt_in_place(K128, data)
                                           ELSE ecb_decrypt_in_place(K128, data), o)
      [] t.op = "strumok" -> Ok(S!apply_keystream(o, data))

\* encrypt_in_place, apply_in_place, apply_keystream or update on the next n bytes,
\* and the inverse, by a second object, on what came out.
NextCall(t, g, n) ==
    LET piece == Slice(Message(g.fed + n), g.fed, n)
        e == Apply(t, g.enc, piece, TRUE)
        d == Apply(t, g.dec, e.v.buf, FALSE)
    IN  IF t.op = "kupyna"
        THEN [g EXCEPT !.enc = H!KupynaCore_update(g.enc, piece), !.fed = @ + n]
        ELSE IF e.st # "Ok" THEN g
        ELSE [enc |-> e.v.o, dec |-> d.v.o, fed |-> g.fed + n,
              out |-> g.out \o e.v.buf, back |-> g.back \o d.v.buf]

\* The two objects after these calls, how much of the message they took, and what
\* each returned.
Given(t, calls) ==
    Loop(Len(calls), [enc |-> New(t), dec |-> New(t), fed |-> 0, out |-> <<>>, back |-> <<>>],
         LAMBDA g, i : NextCall(t, g, calls[i]))

(***************************************************************************)
(* Functions                                                               *)
(***************************************************************************)
\* A block through the cipher and back.
BlockCall(t) ==
    LET k == ExpandedKey(Key(8 * t.v.nk), t.v)
        p == Tabulate(Block(k), LAMBDA i : (t.mul * i) % 256)
        c == encrypt_block(k, p)
    IN  [k |-> k, p |-> p, c |-> c, back |-> decrypt_block(k, c)]

\* s with one bit of byte i changed.
Changed(s, i) == [s EXCEPT ![i] = Xor(@, 1)]

Seal(alg, aad, text) ==
    IF alg = "gcm" THEN gcm_encrypt(K128, Iv(K128), aad, text, Len(text))
    ELSE ccm_seal(K128, Iv(K128), aad, text)

Open(alg, aad, buf, tag) ==
    IF alg = "gcm" THEN gcm_decrypt(K128, Iv(K128), aad, buf, tag, Len(buf))
    ELSE ccm_open(K128, Iv(K128), aad, buf, tag)

\* Seals, changes one part on the way, and opens.
AeadCall(t) ==
    LET aad  == Message(t.aad)
        text == Message(t.text)
        s    == Seal(t.alg, aad, text)
        a2   == IF t.change = "aad" THEN Changed(aad, t.aad) ELSE aad
        b2   == IF t.change = "text" THEN Changed(s.v.buf, t.text) ELSE s.v.buf
        t2   == IF t.change = "tag" THEN Changed(s.v.tag, Len(s.v.tag)) ELSE s.v.tag
    IN  IF s.st # "Ok" THEN [sealed |-> s.st]
        ELSE [sealed |-> "Ok", text |-> text,
              opened |-> Open(t.alg, a2, b2, t2)]

\* The tag of each of a set of inputs, under one key and nonce.
Tag(alg, m) ==
    CASE alg = "cmac" -> cmac(K128, m.text).v
      [] alg = "gmac" -> gmac(K128, m.text).v
      [] alg = "gcm" -> gcm_compute_tag(K128, m.aad, m.text)
      [] alg = "ccm" -> ccm_compute_tag(K128, Iv(K128), m.aad, m.text)
      [] alg = "kmac" -> H!kmac(H!Kupyna256, Key(32), m.text).v
      [] alg = "kdf" -> H!derive_subkey(H!Kupyna256, Key(32), m.id, m.text)

Verify(alg, m, tag) ==
    CASE alg = "cmac" -> cmac_verify(K128, m.text, tag).st
      [] alg = "gmac" -> gmac_verify(K128, m.text, tag).st
      [] alg = "kmac" -> H!kmac_verify(H!Kupyna256, Key(32), m.text, tag).st

MacCall(t) ==
    [tags |-> {<<m, Tag(t.alg, m)>> : m \in t.inputs},
     verified |-> {<<p, Verify(t.alg, p[1], Tag(t.alg, p[2]))>> : p \in t.pairs}]

XtsCall(t) ==
    LET m == Message(t.len)
        e == xts_encrypt_in_place(K128, Iv(K128), m)
    IN  [m |-> m, enc |-> e,
         dec |-> IF e.st = "Ok" THEN xts_decrypt_in_place(K128, Iv(K128), e.v) ELSE e]

\* Wraps, changes byte `byte' of the wrapped key if that is not 0, unwraps.
WrapCall(t) ==
    LET m    == Message(t.len)
        room == IF t.pad THEN wrapped_len(K128, t.len) ELSE t.len + Block(K128)
        w    == IF t.pad THEN kw_p_wrap(K128, m, room) ELSE kw_wrap(K128, m, room)
        w2   == IF t.byte = 0 THEN w.v ELSE Changed(w.v, t.byte)
        u    == IF t.pad THEN kw_p_unwrap(K128, w2, room - Block(K128))
                ELSE kw_unwrap(K128, w2, room - Block(K128))
    IN  IF w.st # "Ok" THEN [wrapped |-> w.st]
        ELSE [wrapped |-> "Ok", m |-> m, unwrapped |-> u]

\* unpad on what KW returned: the padding of a message of every length below
\* the buffer's, and the same with a byte changed.
UnpadCall(t) ==
    LET p  == Padded(KwpPadded(K128, Message(t.len), t.room), t.room)
        p2 == IF t.byte = 0 THEN p ELSE Changed(p, t.byte)
    IN  [p |-> p2, u |-> unpad(p2, 16, 8)]

\* The product of a with each of a set of elements, by both routes.
FieldCall(t) ==
    [b \in t.bs |->
     [sw |-> Small!multiply(t.a, b), hw |-> Small!reduce(Small!poly_mul_wide_hw(t.a, b))]]

\* A round of Kupyna on a state of n columns, from the combined tables and in the
\* build without them.
TablesCall(t) ==
    LET state == Tabulate(t.n, LAMBDA c : Tabulate(8, LAMBDA r : (t.mul * (8 * c + r)) % 256))
    IN  [fused |-> H!sub_shift_mix(state, t.shift),
         layers |-> H!mix_columns(H!shift_bytes(H!sub_bytes(state), t.shift))]

\* Strumok on words that reach one entry of each table.
StrumokTablesCall(t) ==
    [t |-> S!t_function(t.w),
     t_small |-> S!t_function_small_tables(t.w),
     alpha |-> S!mul_alpha(Zeros(7) \o <<t.w[1]>>),
     alpha_inv |-> S!mul_alpha_inv(<<t.w[1]>> \o Zeros(7)),
     there |-> S!mul_alpha_inv(S!mul_alpha(t.w)),
     back |-> S!mul_alpha(S!mul_alpha_inv(t.w))]

\* A case of the repository's test vectors: what the function returns for it.
VectorCall(t) ==
    LET k == ExpandedKey(t.key, t.v) IN
    CASE t.alg = "block" -> encrypt_block(k, t.in)
      [] t.alg = "cbc" -> cbc_encrypt_in_place(k, cbc_new(t.iv), t.in).v.buf
      [] t.alg = "ctr" -> ctr_apply_in_place(k, ctr_new(k, t.iv), t.in).buf
      [] t.alg = "ofb" -> ofb_apply_in_place(k, ofb_new(t.iv), t.in).buf
      [] t.alg = "cfb" ->
            cfb_in_place(k, cfb_new(k, t.iv, t.q).v, t.in, TRUE).v.buf
      [] t.alg = "ccm" -> LET s == ccm_seal(k, t.iv, t.aad, t.in).v IN s.buf \o s.tag
      [] t.alg = "gcm" ->
            LET s == gcm_encrypt(k, t.iv, t.aad, t.in, Len(t.in)).v IN s.buf \o s.tag
      [] t.alg = "cmac" -> cmac(k, t.in).v
      [] t.alg = "gmac" -> gmac(k, t.in).v
      [] t.alg = "xts" -> xts_encrypt_in_place(k, t.iv, t.in).v
      [] t.alg = "kw" -> kw_wrap(k, t.in, Len(t.in) + Block(k)).v
      [] t.alg = "kw_p" -> kw_p_wrap(k, t.in, wrapped_len(k, Len(t.in))).v
      [] t.alg = "kupyna" -> H!digest(t.v, t.in)
      [] t.alg = "kmac" -> H!kmac(t.v, t.key, t.in).v
      [] t.alg = "strumok" -> S!apply_keystream(S!Core_new(t.key, t.iv), t.in).buf

(***************************************************************************)
(* What the objects promise, written for the whole message at once.        *)
(***************************************************************************)
\* n bytes of a key stream that is made of the blocks g(1), g(2), ...
KeyStream(n, size, g(_)) ==
    LET blocks == Tabulate((n + size - 1) \div size, g)
    IN  Tabulate(n, LAMBDA j : blocks[((j - 1) \div size) + 1][((j - 1) % size) + 1])

\* Block i of CTR is E(E(iv) + i), of OFB E applied i times.
CtrSeed == encrypt_block(K128, CarryIv(K128))
CtrStream(n) == KeyStream(n, 16, LAMBDA i : encrypt_block(K128, Add(CtrSeed, LE(i, 16))))
OfbStream(n) == KeyStream(n, 16, LAMBDA i :
    Loop(i, Iv(K128), LAMBDA g, j : encrypt_block(K128, g)))

\* Strumok: a word from strm before each step.
StrumokStream(key, n) ==
    LET word(a, i) == After(S!next_step(a.o, FALSE), a.buf \o S!strm(a.o))
    IN  Slice(Loop((n + 7) \div 8, After(NewStrumok(key), <<>>), word).buf, 0, n)

\* CFB: gamma is E of the register; a unit takes the last q bytes of it, an
\* incomplete last unit as many as it has; the ciphertext takes their place.
CfbText(q, m) ==
    LET units == Chunks(m, q) \o (IF Len(m) % q = 0 THEN <<>> ELSE <<Remainder(m, q)>>)
        step(a, i) ==
            LET g == encrypt_block(K128, a.o)
                c == XorBytes(units[i], SubSeq(g, 17 - Len(units[i]), 16))
            IN  After(Overwrite(g, 16 - q, c), a.buf \o c)
    IN  Loop(Len(units), After(Iv(K128), <<>>), step).buf

\* The padding of the standard: as few zeros as make whole blocks.
HashOf(v, m) ==
    LET bb   == H!block_bytes(v)
        d    == CHOOSE d \in 0 .. bb - 1 : (Len(m) + 13 + d) % bb = 0
        full == Append(m, 128) \o Zeros(d) \o LE(8 * Len(m), 12)
    IN  H!KupynaCore_output(H!CompressBlocks(H!KupynaCore_new(v), Chunks(full, bb)))

(***************************************************************************)
(* Properties                                                              *)
(***************************************************************************)
\* What a mode object or Strumok writes does not depend on how the caller cut
\* the message into calls: it is the standard's key stream (with the counter
\* carrying over) or chain over all of it.  In particular CFB refuses every
\* call after one that ended inside a feedback unit.
SplitFree(t, g) ==
    /\ t.op = "ctr" => g.out = XorBytes(Message(g.fed), CtrStream(g.fed))
    /\ t.op = "ofb" => g.out = XorBytes(Message(g.fed), OfbStream(g.fed))
    /\ t.op = "cfb" => g.out = CfbText(t.q, Message(g.fed))
    /\ t.op = "strumok" => g.out = XorBytes(Message(g.fed), StrumokStream(t.key, g.fed))
    /\ t.op = "cbc" => \A i \in 1 .. g.fed \div 16 :
           decrypt_block(K128, Slice(g.out, 16 * (i - 1), 16))
             = XorBytes(Slice(Message(g.fed), 16 * (i - 1), 16),
                        IF i = 1 THEN Iv(K128) ELSE Slice(g.out, 16 * (i - 2), 16))

\* A second object of the same key and IV, given each piece of ciphertext as it
\* is written, returns the message.
DecryptInverts(t, g) == t.op # "kupyna" => g.back = Message(g.fed)

\* The hash of a message given to update in pieces is that of the message, also
\* where the padding goes over into a block of its own.
HashSplitFree(t, g) == t.op = "kupyna" => H!KupynaCore_finalize(g.enc) = HashOf(t.v, Message(g.fed))

\* One round of the cipher from its three layers without a table, and the cipher
\* made of such rounds.
Layers(s) == apply_matrix_via_gf_mul(shift_rows(sub_bytes(s)), MDS_MATRIX)

EncryptByLayers(k, p) ==
    LET key(i) == k.round_keys[i]
        s == Loop(k.v.nr - 1, add_round_key(columns_from_bytes(p, k.v.nb), key(0)),
                  LAMBDA x, i : xor_round_key(Layers(x), key(i)))
    IN  Flatten(add_round_key(Layers(s), key(k.v.nr)))

DecryptByLayers(k, c) ==
    LET key(i) == k.round_keys[i]
        s == Loop(k.v.nr - 1, decipher_round(sub_round_key(columns_from_bytes(c, k.v.nb), key(k.v.nr))),
                  LAMBDA x, i : decipher_round(xor_round_key(x, key(k.v.nr - i))))
    IN  Flatten(sub_round_key(s, key(0)))

\* The combined tables compute the rounds of the standard, in all five variants of
\* the cipher and in the hash.
FusedIsLayers(t, r) ==
    IF t.op = "block" THEN r.c = EncryptByLayers(r.k, r.p) ELSE r.fused = r.layers

\* Strumok's tables, which the model gives by formulas, have the words the source
\* lists (t.t, t.alpha and t.alpha_inv are those words): t_function is the XOR of
\* the eight it looks up, in the small-tables build too, and mul_alpha and
\* mul_alpha_inv undo each other.
TablesAsListed(t, r) ==
    LET listed == Loop(8, Zeros(8), LAMBDA x, i : XorBytes(x, t.t[i]))
    IN  /\ r.t = listed /\ r.t_small = listed
        /\ r.alpha = t.alpha /\ r.alpha_inv = t.alpha_inv
        /\ r.there = t.w /\ r.back = t.w

\* decrypt_block, with its reordered rounds and transformed round keys, is the
\* inverse of encrypt_block, and equal to the plain inverse rounds.
BlockInverts(t, r) ==
    r.back = r.p /\ r.back = DecryptByLayers(r.k, r.c)

\* GCM and CCM open what they sealed, whatever the lengths of text and additional
\* data.  GCM seals everything but nothing at all, CCM a text of 1 to 255 bytes
\* with up to 255 bytes of additional data.
OpensSealed(t, r) ==
    /\ (r.sealed = "Ok") = IF t.alg = "gcm" THEN t.text + t.aad > 0
                                ELSE t.text \in 1 .. 255 /\ t.aad <= 255
    /\ r.sealed = "Ok" /\ t.change = "none" => r.opened = Ok([buf |-> r.text])

\* A change of the text, the tag or the additional data is a TagMismatch, and
\* the caller's buffer is zeroed.
AlteredRefused(t, r) ==
    (r.sealed = "Ok" /\ t.change # "none"
        => r.opened = [st |-> "TagMismatch", buf |-> Zeros(t.text)])

\* Messages that differ only in what padding could confuse (a trailing zero or
\* marker byte, a byte moved from the additional data to the text) have
\* different tags, and verify accepts the tag of the message only.
TagsTellApart(t, r) ==
    /\ \A p, q \in r.tags : p[2] = q[2] => p[1] = q[1]
    /\ \A v \in r.verified : (v[2] = "Ok") = (v[1][1] = v[1][2])

\* XTS inverts itself at every length from one block, the stolen tail included,
\* and refuses less.
XtsInverts(t, r) ==
    IF t.len < 16 THEN r.enc = Err("InvalidLength")
    ELSE Len(r.enc.v) = t.len /\ r.dec = Ok(r.m)

\* A wrapped key unwraps to itself; one that was changed does not unwrap, and
\* KW-p leaves zeros.  KW takes 1 to 20 whole blocks, KW-p everything else that is
\* longer than a block and, with its length field and marker, not longer than 20.
WrapInverts(t, r) ==
    /\ (r.wrapped = "Ok") = IF t.pad THEN t.len > 16 /\ t.len % 16 # 0 /\ t.len + 8 + 1 <= 20 * 16
                                ELSE t.len \in {16 * n : n \in 1 .. 20}
    /\ r.wrapped = "Ok" =>
         IF t.byte # 0
         THEN /\ r.unwrapped.st = "ChecksumMismatch"
              /\ t.pad => \A i \in DOMAIN r.unwrapped.buf : r.unwrapped.buf[i] = 0
         ELSE IF t.pad
         THEN /\ r.unwrapped.v.len = t.len
              /\ SubSeq(r.unwrapped.v.buf, 1, t.len) = r.m
         ELSE r.unwrapped = Ok(r.m)

\* unpad accepts the padding wrap writes for a buffer of this size, with the
\* right length, and nothing else: one encoding per message.
UnpadExact(t, r) ==
    LET p == r.p
        made == {n \in 1 .. Len(p) : /\ wrapped_len(K128, n) = Len(p) + 16
                                     /\ KwpPadded(K128, SubSeq(p, 1, n), Len(p)) = p}
    IN  /\ r.u.ok = (made # {})
        /\ r.u.ok => r.u.len \in made

\* The product by nibbles and the one by carry-less multiplication of words,
\* both reduced a word at a time, are the product of the polynomials.
FieldProduct(t, r) ==
    \A b \in t.bs :
        /\ r[b].sw = r[b].hw
        /\ Small!Exponents(r[b].sw)
             = Small!ModPoly(Small!PolyProduct(Small!Exponents(t.a), Small!Exponents(b)))

\* The definitions return what the repository's test vectors expect.
KnownAnswers(t, r) == r = t.expect

-----------------------------------------------------------------------------
\* gf2m163.rs in words of four bits: GF(2^11), x^11 + x^2 + 1, three words, the
\* top one partly used; and gf2m257.rs in words of two: GF(2^9), x^9 + x + 1,
\* five words, one bit in the top one.
Chain11 == <<<<1, 1>>, <<2, 2>>, <<4, 1>>, <<5, 5>>>>
Chain9 == <<<<1, 1>>, <<2, 2>>, <<4, 4>>>>
F163 == INSTANCE BinaryCurve WITH W <- 4, LIMBS <- 3, M <- 11, TERMS <- <<2>>, CHAIN <- Chain11,
    A <- 1, B <- <<13, 1, 0>>, GX <- <<5, 0, 0>>, GY <- <<2, 9, 5>>, N <- 1063
F257 == INSTANCE BinaryCurve WITH W <- 2, LIMBS <- 5, M <- 9, TERMS <- <<1>>, CHAIN <- Chain9,
    A <- 0, B <- <<3, 3, 0, 0, 0>>, GX <- <<0, 1, 0, 0, 0>>, GY <- <<2, 2, 3, 2, 1>>, N <- 131

\* A curve with A = 1 and order 2 * 1063 over the first, one with A = 0 and order
\* 4 * 131 over the second.
E163 == INSTANCE BinaryCurve WITH W <- 4, LIMBS <- 3, M <- 11, TERMS <- <<2>>, CHAIN <- Chain11,
    A <- 1, B <- <<13, 1, 0>>, GX <- <<5, 0, 0>>, GY <- <<2, 9, 5>>, N <- 1063
E257 == INSTANCE BinaryCurve WITH W <- 2, LIMBS <- 5, M <- 9, TERMS <- <<1>>, CHAIN <- Chain9,
    A <- 0, B <- <<3, 3, 0, 0, 0>>, GX <- <<0, 1, 0, 0, 0>>, GY <- <<2, 2, 3, 2, 1>>, N <- 131

\* An instance for each source file of a size: here the scalars, below the keys and
\* the message blocks.
N163 == INSTANCE BinaryCurve WITH W <- 4, LIMBS <- 3, M <- 11, TERMS <- <<2>>, CHAIN <- Chain11,
    A <- 1, B <- <<13, 1, 0>>, GX <- <<5, 0, 0>>, GY <- <<2, 9, 5>>, N <- 1063
N257 == INSTANCE BinaryCurve WITH W <- 2, LIMBS <- 5, M <- 9, TERMS <- <<1>>, CHAIN <- Chain9,
    A <- 0, B <- <<3, 3, 0, 0, 0>>, GX <- <<0, 1, 0, 0, 0>>, GY <- <<2, 2, 3, 2, 1>>, N <- 131

\* r is what is left of a coordinate below 2^10 < 1063 and 2^7 < 131.
S163 == INSTANCE Dstu4145 WITH W <- 4, LIMBS <- 3, M <- 11, TERMS <- <<2>>, CHAIN <- Chain11,
    A <- 1, B <- <<13, 1, 0>>, GX <- <<5, 0, 0>>, GY <- <<2, 9, 5>>, N <- 1063,
    KEEP <- 10, SHAMIR <- TRUE
S257 == INSTANCE Dstu4145 WITH W <- 2, LIMBS <- 5, M <- 9, TERMS <- <<1>>, CHAIN <- Chain9,
    A <- 0, B <- <<3, 3, 0, 0, 0>>, GX <- <<0, 1, 0, 0, 0>>, GY <- <<2, 2, 3, 2, 1>>, N <- 131,
    KEEP <- 7, SHAMIR <- FALSE

K163 == INSTANCE Dstu4145 WITH W <- 4, LIMBS <- 3, M <- 11, TERMS <- <<2>>, CHAIN <- Chain11,
    A <- 1, B <- <<13, 1, 0>>, GX <- <<5, 0, 0>>, GY <- <<2, 9, 5>>, N <- 1063,
    KEEP <- 10, SHAMIR <- TRUE
K257 == INSTANCE Dstu4145 WITH W <- 2, LIMBS <- 5, M <- 9, TERMS <- <<1>>, CHAIN <- Chain9,
    A <- 0, B <- <<3, 3, 0, 0, 0>>, GX <- <<0, 1, 0, 0, 0>>, GY <- <<2, 2, 3, 2, 1>>, N <- 131,
    KEEP <- 7, SHAMIR <- FALSE

\* Modulo 2^10 - 3, 2^12 - 3 and 2^14 - 3, all of them 5 modulo 8.
P256 == INSTANCE EdwardsCurve WITH W <- 5, LIMBS <- 2, C <- 3,
    D <- 8, BASE_X <- 5, BASE_Y <- 413, N <- 263
P384 == INSTANCE EdwardsCurve WITH W <- 4, LIMBS <- 3, C <- 3,
    D <- 6, BASE_X <- 11, BASE_Y <- 42, N <- 1031
P512 == INSTANCE EdwardsCurve WITH W <- 7, LIMBS <- 2, C <- 3,
    D <- 8, BASE_X <- 13, BASE_Y <- 3423, N <- 4127

E256 == INSTANCE EdwardsCurve WITH W <- 5, LIMBS <- 2, C <- 3,
    D <- 8, BASE_X <- 5, BASE_Y <- 413, N <- 263
E384 == INSTANCE EdwardsCurve WITH W <- 4, LIMBS <- 3, C <- 3,
    D <- 6, BASE_X <- 11, BASE_Y <- 42, N <- 1031
E512 == INSTANCE EdwardsCurve WITH W <- 7, LIMBS <- 2, C <- 3,
    D <- 8, BASE_X <- 13, BASE_Y <- 3423, N <- 4127

\* Messages of up to three bytes.
M256 == INSTANCE Dstu9041 WITH W <- 5, LIMBS <- 2, C <- 3,
    D <- 8, BASE_X <- 5, BASE_Y <- 413, N <- 263,
    M_TILDE_BYTES <- 3, KAPPA <- 1024, APPENDED <- TRUE
M384 == INSTANCE Dstu9041 WITH W <- 4, LIMBS <- 3, C <- 3,
    D <- 6, BASE_X <- 11, BASE_Y <- 42, N <- 1031,
    M_TILDE_BYTES <- 3, KAPPA <- 2048, APPENDED <- FALSE
M512 == INSTANCE Dstu9041 WITH W <- 7, LIMBS <- 2, C <- 3,
    D <- 8, BASE_X <- 13, BASE_Y <- 3423, N <- 4127,
    M_TILDE_BYTES <- 3, KAPPA <- 16384, APPENDED <- TRUE

B256 == INSTANCE Dstu9041 WITH W <- 5, LIMBS <- 2, C <- 3,
    D <- 8, BASE_X <- 5, BASE_Y <- 413, N <- 263,
    M_TILDE_BYTES <- 3, KAPPA <- 1024, APPENDED <- TRUE
B384 == INSTANCE Dstu9041 WITH W <- 4, LIMBS <- 3, C <- 3,
    D <- 6, BASE_X <- 11, BASE_Y <- 42, N <- 1031,
    M_TILDE_BYTES <- 3, KAPPA <- 2048, APPENDED <- FALSE
B512 == INSTANCE Dstu9041 WITH W <- 7, LIMBS <- 2, C <- 3,
    D <- 8, BASE_X <- 13, BASE_Y <- 3423, N <- 4127,
    M_TILDE_BYTES <- 3, KAPPA <- 16384, APPENDED <- TRUE

Q256 == INSTANCE Dstu9041 WITH W <- 5, LIMBS <- 2, C <- 3,
    D <- 8, BASE_X <- 5, BASE_Y <- 413, N <- 263,
    M_TILDE_BYTES <- 3, KAPPA <- 1024, APPENDED <- TRUE
Q384 == INSTANCE Dstu9041 WITH W <- 4, LIMBS <- 3, C <- 3,
    D <- 6, BASE_X <- 11, BASE_Y <- 42, N <- 1031,
    M_TILDE_BYTES <- 3, KAPPA <- 2048, APPENDED <- FALSE
Q512 == INSTANCE Dstu9041 WITH W <- 7, LIMBS <- 2, C <- 3,
    D <- 8, BASE_X <- 13, BASE_Y <- 3423, N <- 4127,
    M_TILDE_BYTES <- 3, KAPPA <- 16384, APPENDED <- TRUE

PW == INSTANCE PasswordHash
Names == INSTANCE CliArgs

(***************************************************************************)
(* Calls                                                                   *)
(***************************************************************************)
\* The operations of a binary field.
Gf2mCall(t) ==
    LET go(num(_), mul(_, _), hw(_, _), sq(_), inv(_), a, b) ==
            [mul |-> num(mul(a, b)), hw |-> num(hw(a, b)), sq |-> num(sq(a)),
             inv |-> num(inv(a))]
    IN  CASE t.curve = 163 ->
                go(F163!ToNumber, F163!multiply, F163!multiply_hw, F163!square, F163!invert,
                   F163!ToLimbs(t.x, 3), F163!ToLimbs(t.y, 3))
          [] t.curve = 257 ->
                go(F257!ToNumber, F257!multiply, F257!multiply_hw, F257!square, F257!invert,
                   F257!ToLimbs(t.x, 5), F257!ToLimbs(t.y, 5))

\* Those of its scalars; `draws' are what the generator of keys draws.
ScalarCall(t) ==
    LET go(num(_), cand(_), mul(_, _), plus(_, _), wide(_, _), gen(_, _), a, b) ==
            [ok |-> cand(t.x).st, mul |-> num(mul(a, b)), sum |-> num(plus(a, b)),
             wide |-> num(wide(t.wide, 20)), key |-> num(gen(t.draws, t.mask).v)]
    IN  CASE t.curve = 163 ->
                go(N163!ToNumber, N163!from_candidate_bytes, N163!Scalar_multiply, N163!Scalar_add,
                   N163!reduce_wide_bytes, K163!generate,
                   N163!ToLimbs(t.x % 1063, 3), N163!ToLimbs(t.y % 1063, 3))
          [] t.curve = 257 ->
                go(N257!ToNumber, N257!from_candidate_bytes, N257!Scalar_multiply, N257!Scalar_add,
                   N257!reduce_wide_bytes, K257!generate,
                   N257!ToLimbs(t.x % 131, 5), N257!ToLimbs(t.y % 131, 5))

\* kP and (k + 1)P.
LadderCall(t) ==
    LET go(times(_, _), plus(_, _), p) ==
            LET kP == times(p, t.k)
            IN  [k |-> kP, next |-> times(p, t.k + 1), sum |-> plus(kP, p)]
    IN  CASE t.curve = 163 -> go(E163!scalar_multiply, E163!add,
                                    K163!from_uncompressed_bytes(t.x, t.y))
          [] t.curve = 257 -> go(E257!scalar_multiply, E257!add,
                                    K257!from_uncompressed_bytes(t.x, t.y))

\* Signs with a key, and verifies with the key's point; `macs' is what the MAC
\* gives for the counters 0, 1, ...
SignCall(t) ==
    LET go(key(_), sign(_, _, _, _), pub(_), verify(_, _, _, _)) ==
            LET d == key(t.x).v
            IN  Strict(LAMBDA s, q : [sig |-> s, good |-> s.st = "Some" /\ verify(t.hash, s.v.r, s.v.s, q)],
                       sign(d, t.hash, t.macs, 14), pub(d))
    IN  CASE t.curve = 163 -> go(N163!from_candidate_bytes, K163!sign_digest,
                                    K163!verifying_key, S163!verify)
          [] t.curve = 257 -> go(N257!from_candidate_bytes, K257!sign_digest,
                                    K257!verifying_key, S257!verify)

VerifyCall(t) ==
    CASE t.curve = 163 ->
            S163!verify(t.hash, t.r, t.s,
                        K163!from_uncompressed_bytes(t.x, t.y))
      [] t.curve = 257 ->
            S257!verify(t.hash, t.r, t.s,
                        K257!from_uncompressed_bytes(t.x, t.y))

\* The operations of a prime field.
FpCall(t) ==
    LET go(num(_), el(_), mul(_, _), plus(_, _), minus(_, _), inv(_), euler(_), root(_)) ==
            LET a == el(t.x)
                b == el(t.y)
            IN  [mul |-> num(mul(a, b)), sum |-> num(plus(a, b)), diff |-> num(minus(a, b)),
                 inv |-> num(inv(a)), square |-> euler(a), root |-> num(root(a))]
    IN  CASE t.curve = 256 -> go(P256!ToNumber, P256!Element, P256!multiply, P256!FAdd, P256!FSub,
                                    P256!invert, P256!euler_criterion, P256!sqrt)
          [] t.curve = 384 -> go(P384!ToNumber, P384!Element, P384!multiply, P384!FAdd, P384!FSub,
                                    P384!invert, P384!euler_criterion, P384!sqrt)
          [] t.curve = 512 -> go(P512!ToNumber, P512!Element, P512!multiply, P512!FAdd, P512!FSub,
                                    P512!invert, P512!euler_criterion, P512!sqrt)

\* A public key from its bytes, and a scalar from them.
FromXCall(t) ==
    LET go(key(_), on(_), num(_), valid(_)) ==
            LET p == key(t.x)
            IN  [st |-> p.st, on |-> p.st = "Some" => on(p.v) /\ num(p.v) = t.x,
                 valid |-> valid(t.x)]
    IN  CASE t.curve = 256 -> go(Q256!PublicKey_from_bytes, E256!is_on_curve, Q256!PublicKey_to_bytes,
                                    E256!is_valid_scalar)
          [] t.curve = 384 -> go(Q384!PublicKey_from_bytes, E384!is_on_curve, Q384!PublicKey_to_bytes,
                                    E384!is_valid_scalar)
          [] t.curve = 512 -> go(Q512!PublicKey_from_bytes, E512!is_on_curve, Q512!PublicKey_to_bytes,
                                    E512!is_valid_scalar)

\* Generates a key, encrypts to the point that comes back from the bytes of its
\* public key, and decrypts with the scalar `other'.
BoxCall(t) ==
    LET go(gen(_), secret(_), pub(_), num(_), enc(_, _, _, _), dec(_, _)) ==
            LET to(q, first) ==
                    Strict(LAMBDA c, f : [first |-> f, enc |-> c.st,
                                          dec |-> IF c.st = "Ok" THEN dec(c.v, t.other) ELSE c],
                           IF q.st = "Some" THEN enc(t.msg, t.bits, q.v, t.epsilon) ELSE q, first)
            IN  Strict(to, pub(num(secret(gen(t.draws).v).v.public)), secret(t.draws[1]).st)
    IN  CASE t.curve = 256 -> go(Q256!random_valid_scalar, Q256!SecretKey_from_bytes,
                                    Q256!PublicKey_from_bytes, Q256!PublicKey_to_bytes,
                                    B256!encrypt, B256!decrypt)
          [] t.curve = 384 -> go(Q384!random_valid_scalar, Q384!SecretKey_from_bytes,
                                    Q384!PublicKey_from_bytes, Q384!PublicKey_to_bytes,
                                    B384!encrypt, B384!decrypt)
          [] t.curve = 512 -> go(Q512!random_valid_scalar, Q512!SecretKey_from_bytes,
                                    Q512!PublicKey_from_bytes, Q512!PublicKey_to_bytes,
                                    B512!encrypt, B512!decrypt)

\* encrypt to a point that did not come from a key.
RecipientCall(t) ==
    B256!encrypt(<<1>>, 8, B256!Point(B256!Element(t.x), B256!Element(t.y)), 55).st

\* decrypt of a wrapped M' that was not made by encrypt (epsilon is 9, e is 7),
\* and the parsing of it in the other sizes.
ParseR == B256!ToNumber(B256!scalar_multiply(B256!base_point, 9).x)
ParseKappa == B256!kappa_from_x(B256!scalar_multiply(B256!base_point, 63).x)

ParseCall(t) ==
    LET m == [id |-> 1, hash |-> t.digest, l |-> t.bits, text |-> t.msg]
    IN  CASE t.curve = 256 -> B256!decrypt([r |-> ParseR, t |-> B256!Wrap(ParseKappa, m, t.tail)], 7)
          [] t.curve = 384 -> M384!parse_m_prime(m)
          [] t.curve = 512 -> M512!parse_m_prime(m)

\* A stored string h as it is, with one of its parts changed, and not a string
\* of that form.
Stored(h) ==
    LET costs(m, t, p) == [h EXCEPT !.params = <<<<"m", m>>, <<"t", t>>, <<"p", p>>>>]
    IN  [same |-> h,
         reordered |-> [h EXCEPT !.params = <<@[3], @[1], @[2]>>],
         argon2i |-> [costs(524288, 8, 1) EXCEPT !.algorithm = "argon2i"],
         argon2d |-> [h EXCEPT !.algorithm = "argon2d"],
         version |-> [h EXCEPT !.version = 16],
         twice |-> [h EXCEPT !.params = Append(@, @[1])],
         missing |-> [h EXCEPT !.params = Tail(@)],
         extra |-> [h EXCEPT !.params = Append(@, <<"keyid", 1>>)],
         not_u32 |-> costs(-1, 1, 1),
         least |-> costs(8, 1, 1),
         no_memory |-> costs(0, 1, 1),
         no_pass |-> costs(8, 0, 1),
         no_lane |-> costs(8, 1, 0),
         more_memory |-> costs(1048577, 1, 1),
         more_work |-> costs(1048576, 5, 1),
         wrapped_work |-> costs(1048576, 4096, 1),
         lanes |-> costs(64, 1, 8),
         more_lanes |-> costs(64, 1, 9),
         wrapped_lanes |-> costs(64, 1, 2 ^ 29),
         short_tag |-> [h EXCEPT !.hash.len = 15],
         long_tag |-> [h EXCEPT !.hash.len = 65],
         salt |-> [h EXCEPT !.salt.id = 2],
         short_salt |-> [h EXCEPT !.salt.len = 7],
         unparsed |-> [e \in {} |-> 0]]

\* Hashes a password, changes the string, and verifies `guess' against it; with
\* `theirs' the tag is what Argon2 gives for the changed string.
PasswordCall(t) ==
    LET h == PW!hash_password(t.pw, t.strength, t.drawn, t.free)
        s == Stored(h.v)[t.change]
        phc == IF t.theirs /\ DOMAIN s # {}
               THEN [s EXCEPT !.hash.tag = PW!Argon2(s.algorithm, PW!phc_costs(s.params),
                                                     t.pw, s.salt, s.hash.len)]
               ELSE s
    IN  CASE h.st # "Ok" -> [hashed |-> h.st]
          [] h.st = "Ok" ->
                [hashed |-> "Ok", phc |-> phc,
                 verified |-> PW!verify_password(t.guess, phc, t.later)]

SuggestCall(t) ==
    [to |-> Names!suggest(t.word, t.names),
     far |-> [i \in DOMAIN t.names |-> Names!edit_distance(t.word, t.names[i])]]

(***************************************************************************)
(* The caller                                                              *)
(***************************************************************************)
Init ==
    /\ task \in StreamTasks \cup CallTasks
    /\ cuts = <<>>
    /\ asked = FALSE

Fed == Loop(Len(cuts), 0, LAMBDA n, i : n + cuts[i])

\* Hands the object the next n bytes.
Feed(n) ==
    /\ Len(cuts) < task.calls
    /\ Fed + n <= task.limit
    /\ cuts' = Append(cuts, n)
    /\ UNCHANGED <<task, asked>>

\* Calls the function.
Ask ==
    /\ task \in CallTasks /\ ~asked
    /\ asked' = TRUE
    /\ UNCHANGED <<task, cuts>>

Next ==
    \/ \E n \in (IF task \in StreamTasks THEN task.pieces ELSE {}) : Feed(n)
    \/ Ask

Spec == Init /\ [][Next]_vars

(***************************************************************************)
(* References: polynomials as sets of exponents, points of the binary      *)
(* curves by the affine sums alone, the Edwards curves over the integers.  *)
(***************************************************************************)
BinaryCurves == [c \in {163, 257} |->
    IF c = 163 THEN [m |-> 11, term |-> 2, a |-> 1, b |-> 29, n |-> 1063, keep |-> 10]
    ELSE [m |-> 9, term |-> 1, a |-> 0, b |-> 15, n |-> 131, keep |-> 7]]

Exponents(x) == {e \in 0 .. 13 : Bit(x, e) = 1}

Xored(s, t) == (s \ t) \cup (t \ s)

\* x * s modulo x^m + x^term + 1, and the product of s and t.
TimesX(c, s) ==
    LET up == {e + 1 : e \in s}
    IN  IF c.m \in up THEN Xored(up \ {c.m}, {0, c.term}) ELSE up

Product(c, s, t) ==
    Loop(c.m, {}, LAMBDA acc, i :
        IF c.m - i \in t THEN Xored(TimesX(c, acc), s) ELSE TimesX(c, acc))

OnCurve(c, x, y) ==
    LET X == Exponents(x)
        Y == Exponents(y)
        X2 == Product(c, X, X)
    IN  /\ x < 2 ^ c.m /\ y < 2 ^ c.m
        /\ Xored(Product(c, Y, Y), Product(c, X, Y))
             = Xored(Xored(Product(c, X2, X), IF c.a = 1 THEN X2 ELSE {}), Exponents(c.b))

\* kP by doubling and adding.
AffineTimes(plus(_, _), p, k) ==
    Loop(12, <<>>, LAMBDA acc, i :
        IF Bit(k, 12 - i) = 1 THEN plus(plus(acc, acc), p) ELSE plus(acc, acc))

EdwardsCurves == [c \in {256, 384, 512} |->
    CASE c = 256 -> [p |-> 1021, d |-> 8, n |-> 263, base |-> <<5, 413>>, kappa |-> 1024]
      [] c = 384 -> [p |-> 4093, d |-> 6, n |-> 1031, base |-> <<11, 42>>, kappa |-> 2048]
      [] c = 512 -> [p |-> 16381, d |-> 8, n |-> 4127, base |-> <<13, 3423>>, kappa |-> 16384]]

\* a^(p - 2): the inverse of a modulo p.
Inverted(p, a) ==
    Loop(14, 1, LAMBDA r, i :
        IF Bit(p - 2, 14 - i) = 1 THEN (((r * r) % p) * a) % p ELSE (r * r) % p)

\* The law of the curve in affine coordinates; <<>> where it has no value.
EdwardsSum(c, P, Q) ==
    LET e == (((((c.d * P[1]) % c.p) * Q[1]) % c.p) * ((P[2] * Q[2]) % c.p)) % c.p
        z == ((1 + c.p - e) * (1 + e)) % c.p
        xs == (P[1] * Q[1] + 2 * (c.p - ((P[2] * Q[2]) % c.p))) % c.p
        ys == (P[1] * Q[2] + P[2] * Q[1]) % c.p
    IN  IF P = <<>> \/ Q = <<>> THEN <<>>
        ELSE IF z = 0 THEN <<>>
        ELSE <<(xs * Inverted(c.p, (1 + c.p - e) % c.p)) % c.p, (ys * Inverted(c.p, (1 + e) % c.p)) % c.p>>

EdwardsTimes(c, P, k) ==
    Loop(14, <<1, 0>>, LAMBDA acc, i :
        LET twice == EdwardsSum(c, acc, acc)
        IN  IF Bit(k, 14 - i) = 1 THEN EdwardsSum(c, twice, P) ELSE twice)

OnEdwards(c, x, y) ==
    LET x2 == (x * x) % c.p
        y2 == (y * y) % c.p
    IN  (x2 + 2 * y2) % c.p = (1 + ((c.d * x2) % c.p) * y2) % c.p

\* The points with this x that the base point generates.
Generated(c, x) ==
    {y \in 1 .. c.p - 1 :
        /\ OnEdwards(c, x, y)
        /\ EdwardsTimes(c, <<x, y>>, c.n) = <<1, 0>>}

(***************************************************************************)
(* Properties                                                              *)
(***************************************************************************)
\* The bit-serial and the carry-less product, the square by spreading bits and
\* the inverse by the addition chain are those of the field, whatever words the
\* reduction has to reach across; 0 has 0 for an inverse.
Gf2mExact(t, r) ==
    LET c == BinaryCurves[t.curve]
        X == Exponents(t.x)
    IN  /\ Exponents(r.mul) = Product(c, X, Exponents(t.y))
        /\ r.hw = r.mul
        /\ Exponents(r.sq) = Product(c, X, X)
        /\ Product(c, X, Exponents(r.inv)) = IF X = {} THEN {} ELSE {0}

\* Scalar arithmetic is that of the integers modulo the order; a key is taken
\* from bytes if and only if it is in [1, n), and generate takes the first draw
\* that, masked, is.
ScalarsModN(t, r) ==
    LET n == BinaryCurves[t.curve].n
        first == CHOOSE i \in DOMAIN t.draws :
            /\ t.draws[i] % t.mask \in 1 .. n - 1
            /\ \A j \in 1 .. i - 1 : t.draws[j] % t.mask \notin 1 .. n - 1
    IN  /\ r.mul = ((t.x % n) * (t.y % n)) % n
        /\ r.sum = ((t.x % n) + (t.y % n)) % n
        /\ r.wide = t.wide % n
        /\ (r.ok = "Some") = (t.x \in 1 .. n - 1)
        /\ r.key = t.draws[first] % t.mask

\* The ladder gives 0P = infinity and (k + 1)P = kP + P for every kind of point:
\* in the subgroup, outside it, of order 2 or 4, with x = 0, for k below, at and
\* above the order.
LadderStepsByOne(t, r) ==
    /\ t.k = 0 => r.k = <<>>
    /\ r.next = r.sum

\* sign_digest goes on to the next counter until a nonce signs, and what it
\* returns is in range and verifies under the key's own point.
SignedVerifies(t, r) ==
    LET n == BinaryCurves[t.curve].n
    IN  /\ r.sig.st = "Some"
        /\ r.sig.v.r \in 1 .. n - 1 /\ r.sig.v.s \in 1 .. n - 1
        /\ r.good

\* verify accepts exactly the signatures of the standard: both halves in range,
\* the key a point of the curve with reduced coordinates that the order takes to
\* infinity, and r what is left of h * x(sG + rQ), that sum taken affinely.
VerifyExact(t, r) ==
    LET c == BinaryCurves[t.curve]
        h == IF t.hash % 2 ^ c.m = 0 THEN 1 ELSE t.hash % 2 ^ c.m
        good(plus(_, _), num(_), g, q) ==
            LET R == plus(AffineTimes(plus, g, t.s), AffineTimes(plus, q, t.r))
                left == {e \in Product(c, Exponents(h), Exponents(num(R[1]))) : e < c.keep}
            IN  /\ AffineTimes(plus, q, c.n) = <<>>
                /\ R # <<>>
                /\ left = Exponents(t.r)
    IN  r = /\ t.r \in 1 .. c.n - 1 /\ t.s \in 1 .. c.n - 1
                /\ OnCurve(c, t.x, t.y)
                /\ IF t.curve = 163
                   THEN good(E163!add, E163!ToNumber, E163!generator,
                             K163!from_uncompressed_bytes(t.x, t.y))
                   ELSE good(E257!add, E257!ToNumber, E257!generator,
                             K257!from_uncompressed_bytes(t.x, t.y))

\* The prime fields compute modulo p, also where a carry leaves the top limb
\* more than once; the square root is one of every square.
FpExact(t, r) ==
    LET p == EdwardsCurves[t.curve].p
    IN  /\ r.mul = (t.x * t.y) % p
        /\ r.sum = (t.x + t.y) % p
        /\ r.diff = (t.x + p - t.y) % p
        /\ r.inv = Inverted(p, t.x)
        /\ r.square => (r.root * r.root) % p = t.x
        /\ ~r.square => t.x = 0 \/ (r.root * r.root) % p # t.x

\* A public key is taken from its x if and only if that is reduced and the x of
\* a point, other than the neutral one, that the base point generates.
FromXExact(t, r) ==
    LET c == EdwardsCurves[t.curve]
    IN  /\ (r.st = "Some") = (t.x < c.p /\ Generated(c, t.x) # {})
        /\ r.on
        /\ r.valid = (t.x \in 2 .. c.n - 2)

\* encrypt takes a message of 1 to L_MAX_P bits in as many bytes, and an
\* ephemeral scalar in (1, n - 1).  decrypt gives the message back, right-aligned,
\* to whoever gets the same x for the shared point: the holder of e or of n - e
\* (for the 384-bit form, the same low part of it), and nothing to anyone else.
OpensToTheKeyOnly(t, r) ==
    LET c == EdwardsCurves[t.curve]
        key == CHOOSE i \in DOMAIN t.draws :
            /\ t.draws[i] \in 2 .. c.n - 2
            /\ \A j \in 1 .. i - 1 : t.draws[j] \notin 2 .. c.n - 2
        shared(e) == EdwardsTimes(c, c.base, (e * t.epsilon) % c.n)[1] % c.kappa
    IN  /\ (r.first = "Some") = (key = 1)
        /\ r.enc = CASE t.epsilon \notin 2 .. c.n - 2 -> "InvalidEphemeralKey"
                         [] t.epsilon \in 2 .. c.n - 2 ->
                              IF t.bits \in 1 .. 24 /\ Len(t.msg) = (t.bits + 7) \div 8
                              THEN "Ok" ELSE "InvalidMessage"
        /\ r.enc = "Ok" =>
             r.dec = IF /\ t.other \in 2 .. c.n - 2
                            /\ shared(t.other) = shared(t.draws[key])
                         THEN [st |-> "Ok", v |-> [text |-> Zeros(3 - Len(t.msg)) \o t.msg,
                                                   bits |-> t.bits]]
                         ELSE [st |-> "InvalidCiphertext"]

\* encrypt refuses a recipient that is not on the curve, and the neutral point
\* and the one of order 2, whose multiples would give the key away.
RecipientChecked(t, r) ==
    LET c == EdwardsCurves[256]
    IN  r = IF OnEdwards(c, t.x, t.y) /\ t.y # 0 THEN "Ok" ELSE "InvalidPublicKey"

\* decrypt returns a text that is all zeros above the message, with the digest of
\* this length and text, a length in range and the appended block untouched, and
\* nothing with a nonzero byte above the message.  At a length in whole bytes that
\* is every text without padding bits and no other; at another length the first
\* byte of the message may have any bits above the length.
ParsedIsFormatted(t, r) ==
    LET number == 65536 * t.msg[1] + 256 * t.msg[2] + t.msg[3]
        sound(bits) == /\ t.tail = "zeros"
                       /\ t.digest = <<t.bits, t.msg>>
                       /\ t.bits \in 1 .. 24
                       /\ number < 2 ^ bits
    IN  /\ sound(t.bits) => r.st = "Ok"
        /\ r.st = "Ok" => \E bits \in {8, 16, 24} : bits - t.bits \in 0 .. 7 /\ sound(bits)

\* A string hash_password made verifies the password and no other, as does one
\* libsodium makes at its largest argon2i costs, and one with its costs in another
\* order; of all others only those of the documented form and within the costs of
\* the Sensitive preset do, and only with the tag that belongs to them.  Nothing
\* is reserved before that is known, a machine short of memory gets an answer,
\* and no string makes the cost check of the argon2 crate overflow.
PasswordsExact(t, r) ==
    LET m == [Interactive |-> 65536, Moderate |-> 262144, Sensitive |-> 1048576][t.strength]
        own == t.change \in {"same", "reordered"}
        foreign == t.theirs /\ t.change \in {"argon2i", "least", "lanes", "salt"}
        need == CASE own \/ t.change = "salt" -> m
                  [] t.change = "argon2i" -> 524288
                  [] t.change = "lanes" -> 64
                  [] OTHER -> 8
    IN  /\ r.hashed = IF t.drawn = 0 THEN "Random"
                          ELSE IF t.free < m THEN "OutOfMemory" ELSE "Ok"
        /\ r.hashed = "Ok" =>
             /\ (r.verified.st = "true")
                  = ((own \/ foreign) /\ t.guess = t.pw /\ t.later >= need)
             /\ r.verified.st # "panic"
             /\ r.verified.blocks <= IF t.later < 1048576 THEN t.later ELSE 1048576

\* edit_distance, which keeps three rows, is the distance over the whole table of
\* prefixes (an insertion, a removal, another letter or two letters exchanged), and
\* suggest takes the first of the nearest names, if one is near enough.
SuggestsNearest(t, r) ==
    LET w == t.word
        dist(b) ==
            LET d[i \in 0 .. Len(w), j \in 0 .. Len(b)] ==
                    LET change == d[i - 1, j - 1] + (IF w[i] = b[j] THEN 0 ELSE 1)
                        swap == IF i > 1 /\ j > 1 /\ w[i] = b[j - 1] /\ w[i - 1] = b[j]
                                THEN {d[i - 2, j - 2] + 1} ELSE {}
                        ways == {d[i - 1, j] + 1, d[i, j - 1] + 1, change} \cup swap
                    IN  IF i = 0 \/ j = 0 THEN i + j
                        ELSE CHOOSE least \in ways : \A v \in ways : least <= v
            IN  d[Len(w), Len(b)]
        letters == Cardinality({i \in DOMAIN w : \E j \in 1 .. i : w[j] # "-"})
        near == {i \in DOMAIN t.names : r.far[i] = 1 \/ 3 * r.far[i] <= letters}
    IN  /\ \A i \in DOMAIN t.names : r.far[i] = dist(t.names[i])
        /\ (r.to = 0) = (near = {})
        /\ \A i \in near : /\ r.far[r.to] <= r.far[i]
                            /\ i < r.to => r.far[r.to] < r.far[i]

(***************************************************************************)
(* What the run checks: the properties of one kind together, on what every *)
(* call returns.                                                           *)
(***************************************************************************)
\* promise holds of the objects after the calls made so far, of what call returned.
Holding(promise(_, _)) == task \in StreamTasks => \E g \in {Given(task, cuts')} : promise(task, g)
Answers(op, call(_), promise(_, _)) ==
    asked' /\ task.op = op => \E r \in {call(task)} : promise(task, r)

\* However the caller cuts a message into calls, CTR, OFB, CFB, CBC, Strumok and
\* the Kupyna hasher compute the standard's stream, chain or digest of all of it, and
\* a second object gives the message back piece by piece.
AnySplit ==
    [][Holding(LAMBDA t, g : SplitFree(t, g) /\ DecryptInverts(t, g) /\ HashSplitFree(t, g))]_vars

\* What is encrypted, sealed or wrapped in one call comes back: the block cipher, GCM
\* and CCM, XTS with its stolen tail, and the key wraps; and each accepts exactly
\* the lengths it documents, CCM up to 255 bytes and the key wraps up to 20 blocks.
Inverts ==
    [][/\ Answers("block", BlockCall, BlockInverts)
       /\ Answers("aead", AeadCall, OpensSealed)
       /\ Answers("xts", XtsCall, XtsInverts)
       /\ Answers("wrap", WrapCall, WrapInverts)]_vars

\* Nothing else comes back: an altered text, tag or additional data is refused and
\* zeroed, two different inputs have different tags, and unpad accepts one encoding
\* of each message only; and a stored password string verifies its password only.
NothingElseOpens ==
    [][/\ Answers("aead", AeadCall, AlteredRefused)
       /\ Answers("mac", MacCall, TagsTellApart)
       /\ Answers("unpad", UnpadCall, UnpadExact)
       /\ Answers("pwhash", PasswordCall, PasswordsExact)]_vars

\* Tables, fused rounds, word-wise products and the three rows of edit_distance
\* compute the plain definitions, and these give the repository's test vectors and
\* the words of its tables.
FastIsPlain ==
    [][/\ Answers("block", BlockCall, FusedIsLayers)
       /\ Answers("tables", TablesCall, FusedIsLayers)
       /\ Answers("words", StrumokTablesCall, TablesAsListed)
       /\ Answers("field", FieldCall, FieldProduct)
       /\ Answers("vector", VectorCall, KnownAnswers)
       /\ Answers("suggest", SuggestCall, SuggestsNearest)]_vars

\* The limb arithmetic of the fields, the scalars and the points is that of the
\* mathematics, also at carries, at zero, at the order and outside the subgroup.
ArithmeticExact ==
    [][/\ Answers("gf2m", Gf2mCall, Gf2mExact)
       /\ Answers("scalar", ScalarCall, ScalarsModN)
       /\ Answers("fp", FpCall, FpExact)
       /\ Answers("ladder", LadderCall, LadderStepsByOne)
       /\ Answers("fromx", FromXCall, FromXExact)]_vars

\* sign and verify of DSTU 4145: what is signed verifies, and what verifies is a
\* signature by the standard's definition.
SignaturesExact ==
    [][/\ Answers("sign", SignCall, SignedVerifies)
       /\ Answers("verify", VerifyCall, VerifyExact)]_vars

\* encrypt and decrypt of DSTU 9041: the message comes back to the key it was
\* encrypted to and to nobody else, encrypt refuses an unusable recipient, and
\* decrypt a wrapped text with a wrong digest, length or appended block or with a
\* nonzero byte above the message.
BoxesExact ==
    [][/\ Answers("box", BoxCall, OpensToTheKeyOnly)
       /\ Answers("recipient", RecipientCall, RecipientChecked)
       /\ Answers("parse", ParseCall, ParsedIsFormatted)]_vars
=============================================================================
