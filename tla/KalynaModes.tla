----------------------------- MODULE KalynaModes -----------------------------
(***************************************************************************)
(* dstu-core/src/hazmat/kalyna_*.rs: the modes of operation of Kalyna.     *)
(* Each file has one macro that makes the five variants; here the variant  *)
(* is the one of the expanded key k.  A mode object is a record of the     *)
(* fields the struct has besides the key.                                  *)
(***************************************************************************)
EXTENDS Kalyna, FiniteSets

Block(k) == k.v.nb * ROWS
Half(k) == Block(k) \div 2

Ok(v) == [st |-> "Ok", v |-> v]
Err(e) == [st |-> e]

(***************************************************************************)
(* kalyna_ecb.rs and kalyna_cbc.rs: whole blocks only.                     *)
(***************************************************************************)
ecb_encrypt_in_place(k, buf) ==
    IF Len(buf) % Block(k) # 0 THEN Err("InvalidLength")
    ELSE Ok(Flatten(Tabulate(Len(buf) \div Block(k), LAMBDA i :
            encrypt_block(k, Chunks(buf, Block(k))[i]))))

ecb_decrypt_in_place(k, buf) ==
    IF Len(buf) % Block(k) # 0 THEN Err("InvalidLength")
    ELSE Ok(Flatten(Tabulate(Len(buf) \div Block(k), LAMBDA i :
            decrypt_block(k, Chunks(buf, Block(k))[i]))))

\* The answer of a call on a mode object: the object after it and the buffer.
After(o, buf) == [o |-> o, buf |-> buf]

CbcEncrypt(k, o, buf) ==
    Loop(Len(buf) \div Block(k), After(o, <<>>), LAMBDA a, i :
        LET g == encrypt_block(k, XorBytes(a.o.gamma, Chunks(buf, Block(k))[i]))
        IN  After([gamma |-> g], a.buf \o g))

\* As if every block were decrypted against the IV.
CbcDecryptUnchained(k, o, buf) ==
    After(o, Flatten(Tabulate(Len(buf) \div Block(k), LAMBDA i :
        XorBytes(decrypt_block(k, Chunks(buf, Block(k))[i]), o.gamma))))

CbcDecrypt(k, o, buf) ==
    Loop(Len(buf) \div Block(k), After(o, <<>>), LAMBDA a, i :
        LET c == Chunks(buf, Block(k))[i]
        IN  After([gamma |-> c], a.buf \o XorBytes(decrypt_block(k, c), a.o.gamma)))

cbc_new(iv) == [gamma |-> iv]

cbc_encrypt_in_place(k, o, buf) ==
    IF Len(buf) % Block(k) # 0 THEN Err("InvalidLength") ELSE Ok(CbcEncrypt(k, o, buf))

cbc_decrypt_in_place(k, o, buf) ==
    IF Len(buf) % Block(k) # 0 THEN Err("InvalidLength") ELSE Ok(CbcDecrypt(k, o, buf))

(***************************************************************************)
(* kalyna_ctr.rs.  `used' is how much of gamma is spent.                   *)
(***************************************************************************)
\* Little-endian increment with carry.
RECURSIVE increment_counter(_)
increment_counter(counter) ==
    IF counter = <<>> THEN <<>>
    ELSE IF counter[1] = 255 THEN <<0>> \o increment_counter(Tail(counter))
    ELSE [counter EXCEPT ![1] = @ + 1]

Refill(k, o) == LET f == increment_counter(o.feed)
                IN  [o EXCEPT !.feed = f, !.gamma = encrypt_block(k, f)]

ctr_new(k, iv) == LET g == encrypt_block(k, iv)
                  IN  [gamma |-> g, feed |-> g, used |-> Block(k)]

\* The rest of gamma first, if some of it was spent.
CtrDrain(k, o, buf) ==
    IF o.used = 0 THEN After(o, <<>>)
    ELSE LET n   == IF Block(k) - o.used < Len(buf) THEN Block(k) - o.used ELSE Len(buf)
             out == XorBytes(Slice(buf, 0, n), SubSeq(o.gamma, o.used + 1, Block(k)))
         IN  IF o.used + n = Block(k) THEN After([Refill(k, o) EXCEPT !.used = 0], out)
             ELSE After([o EXCEPT !.used = @ + n], out)

\* Then whole blocks, then the tail.
CtrBlocks(k, o, buf) ==
    LET a == Loop(Len(buf) \div Block(k), After(o, <<>>), LAMBDA x, i :
                 After(Refill(k, x.o), x.buf \o XorBytes(Chunks(buf, Block(k))[i], x.o.gamma)))
        tail == Remainder(buf, Block(k))
    IN  After([a.o EXCEPT !.used = @ + Len(tail)],
              a.buf \o XorBytes(tail, SubSeq(a.o.gamma, a.o.used + 1, Block(k))))

ctr_apply_in_place(k, o, buf) ==
    LET d == CtrDrain(k, o, buf)
        r == CtrBlocks(k, d.o, SubSeq(buf, Len(d.buf) + 1, Len(buf)))
    IN  After(r.o, d.buf \o r.buf)

(***************************************************************************)
(* kalyna_ofb.rs.  `used' is 0 only in a new object.                       *)
(***************************************************************************)
ofb_new(iv) == [gamma |-> iv, used |-> 0]

OfbBlocks(k, o, buf) ==
    Loop((Len(buf) + Block(k) - 1) \div Block(k), After(o, <<>>), LAMBDA a, i :
        LET g == encrypt_block(k, a.o.gamma)
            c == IF i <= Len(buf) \div Block(k) THEN Chunks(buf, Block(k))[i]
                 ELSE Remainder(buf, Block(k))
        IN  After([gamma |-> g, used |-> Len(c)], a.buf \o XorBytes(c, g)))

ofb_apply_in_place(k, o, buf) ==
    LET avail == IF o.used = 0 THEN 0 ELSE Block(k) - o.used
        n     == IF avail < Len(buf) THEN avail ELSE Len(buf)
        out   == XorBytes(Slice(buf, 0, n), SubSeq(o.gamma, o.used + 1, Block(k)))
        rest  == OfbBlocks(k, [o EXCEPT !.used = @ + n], SubSeq(buf, n + 1, Len(buf)))
    IN  After(rest.o, out \o rest.buf)

(***************************************************************************)
(* kalyna_cfb.rs.  q bytes are fed back at a time; `used' is where in      *)
(* gamma the next byte is taken from.  The two directions differ in which  *)
(* bytes are the ciphertext: those written (enc) or those read.            *)
(***************************************************************************)
FeedbackWidths == {1, 8, 16, 32, 64}

cfb_new(k, iv, q) ==
    IF q = 0 \/ q > Block(k) \/ q \notin FeedbackWidths THEN Err("InvalidFeedbackWidth")
    ELSE Ok([gamma |-> iv, feed |-> iv, q |-> q, used |-> Block(k)])

\* Up to q - used bytes of the gamma in use, then a new gamma if it is spent.
CfbDrain(k, o, buf, enc) ==
    IF o.used = 0 THEN After(o, <<>>)
    ELSE LET room == IF o.used < o.q THEN o.q - o.used ELSE 0
             n    == IF room < Len(buf) THEN room ELSE Len(buf)
             inp  == Slice(buf, 0, n)
             out  == XorBytes(inp, SubSeq(o.gamma, o.used + 1, Block(k)))
             feed == Overwrite(o.feed, o.used, IF enc THEN out ELSE inp)
             end  == o.used + n
         IN  IF end = Block(k)
             THEN After([o EXCEPT !.feed = feed, !.gamma = encrypt_block(k, feed),
                                  !.used = Block(k) - o.q], out)
             ELSE After([o EXCEPT !.feed = feed, !.used = end], out)

\* Whole feedback units; then the tail, which takes the last bytes of gamma.
CfbChunks(k, o, buf, enc) ==
    LET unit(a, i) ==
            LET inp  == Chunks(buf, o.q)[i]
                out  == XorBytes(inp, Slice(a.o.gamma, o.used, o.q))
                feed == Overwrite(a.o.gamma, o.used, IF enc THEN out ELSE inp)
            IN  After([a.o EXCEPT !.feed = feed, !.gamma = encrypt_block(k, feed)], a.buf \o out)
        a    == Loop(Len(buf) \div o.q, After(o, <<>>), unit)
        tail == Remainder(buf, o.q)
        out  == XorBytes(tail, Slice(a.o.gamma, Block(k) - Len(tail), Len(tail)))
    IN  After([a.o EXCEPT !.feed = Overwrite(@, o.used, IF enc THEN out ELSE tail),
                          !.used = @ + Len(tail)], a.buf \o out)

CfbAligned(o) == o.used % o.q = 0

\* encrypt_in_place (enc) and decrypt_in_place.
cfb_in_place(k, o, buf, enc) ==
    IF ~CfbAligned(o) THEN Err("NonAlignedIntermediateCall")
    ELSE LET d == CfbDrain(k, o, buf, enc)
             r == CfbChunks(k, d.o, SubSeq(buf, Len(d.buf) + 1, Len(buf)), enc)
         IN  Ok(After(r.o, d.buf \o r.buf))

-----------------------------------------------------------------------------
(***************************************************************************)
(* dstu-core/src/hazmat/kalyna_{cmac,gmac,gcm,ccm,xts}.rs: the modes that  *)
(* authenticate, and the one that encrypts a sector.                       *)
(***************************************************************************)
\* The field of a 128-bit block, in words of one byte: from_le_bytes and
\* to_le_bytes are then the identity.
Gf2m128 == INSTANCE Gf2mWide WITH W <- 8, LIMBS <- 16, TERMS <- <<7, 2, 1>>

\* A u64 length in bits.
BitLen(n) == LE(8 * n, 8)

PadMarker(tail, n) == Padded(Append(tail, 128), n)

(***************************************************************************)
(* kalyna_cmac.rs                                                          *)
(***************************************************************************)
Chain(k, state, blocks) ==
    Loop(Len(blocks), state, LAMBDA s, i : encrypt_block(k, XorBytes(s, blocks[i])))

CmacKey(k, whole) == encrypt_block(k, Padded(<<IF whole THEN 0 ELSE 1>>, Block(k)))

cmac(k, message) ==
    LET b     == Block(k)
        whole == Len(message) % b = 0
        chain == IF whole THEN Len(message) - b ELSE (Len(message) \div b) * b
        tail  == SubSeq(message, chain + 1, Len(message))
        last  == IF whole THEN tail ELSE PadMarker(tail, b)
        state == Chain(k, Zeros(b), Chunks(SubSeq(message, 1, chain), b))
    IN  IF message = <<>> THEN Err("EmptyMessage")
        ELSE Ok(SubSeq(encrypt_block(k, XorBytes(XorBytes(state, last), CmacKey(k, whole))), 1, 16))

cmac_verify(k, message, expected) ==
    LET tag == cmac(k, message) IN
    IF tag.st # "Ok" THEN tag
    ELSE IF tag.v = expected THEN Ok(<<>>) ELSE Err("TagMismatch")

(***************************************************************************)
(* kalyna_gmac.rs and kalyna_gcm.rs, over a 128-bit block.                 *)
(***************************************************************************)
Absorb(acc, h_key, blocks) ==
    Loop(Len(blocks), acc, LAMBDA a, i : Gf2m128!multiply(Gf2m128!add(a, blocks[i]), h_key))

\* absorb_padded: the tail, if there is one, with a 0x80 marker.
PaddedBlocks(data, b) ==
    LET tail == Remainder(data, b)
    IN  Chunks(data, b) \o (IF tail = <<>> THEN <<>> ELSE <<PadMarker(tail, b)>>)

\* As if only whole blocks were absorbed.
absorb_paddedWhole(acc, h_key, data, b) == Absorb(acc, h_key, Chunks(data, b))

absorb_padded(acc, h_key, data, b) == Absorb(acc, h_key, PaddedBlocks(data, b))

TagLengths(b) == 8 .. b

gmac(k, message) ==
    LET b   == Block(k)
        h   == encrypt_block(k, Zeros(b))
        acc == absorb_padded(Zeros(b), h, message, b)
    IN  IF message = <<>> THEN Err("EmptyMessage")
        ELSE Ok(Strict(encrypt_block, k, XorBytes(acc, BitLen(Len(message)))))

gmac_verify(k, message, tag) ==
    LET expected == gmac(k, message) IN
    IF Len(tag) \notin TagLengths(Block(k)) THEN Err("InvalidLength")
    ELSE IF expected.st # "Ok" THEN expected
    ELSE IF SubSeq(expected.v, 1, Len(tag)) = tag THEN Ok(<<>>) ELSE Err("TagMismatch")

\* The counter is the low 64 bits of E(iv), wrapping; the rest stays.
GcmStream(k, seed, data) ==
    LET step(a, i) ==
            LET next == Add(SubSeq(a.o, 1, 8), LE(1, 8)) \o SubSeq(a.o, 9, Block(k))
            IN  After(next, a.buf \o encrypt_block(k, next))
    IN  XorBytes(data, Loop((Len(data) + Block(k) - 1) \div Block(k), After(seed, <<>>), step).buf)

gcm_apply_keystream(k, iv, data) == GcmStream(k, encrypt_block(k, iv), data)

LengthBlock(k, aad, ciphertext) ==
    Padded(BitLen(Len(aad)), Half(k)) \o Padded(BitLen(Len(ciphertext)), Half(k))

gcm_compute_tag(k, aad, ciphertext) ==
    LET b   == Block(k)
        h   == encrypt_block(k, Zeros(b))
        acc == absorb_padded(absorb_padded(Zeros(b), h, aad, b), h, ciphertext, b)
    IN  encrypt_block(k, XorBytes(LengthBlock(k, aad, ciphertext), acc))

\* `room' is the length of the output buffer.
gcm_encrypt(k, iv, aad, plaintext, room) ==
    LET c == gcm_apply_keystream(k, iv, plaintext) IN
    IF room # Len(plaintext) THEN Err("InvalidLength")
    ELSE IF aad = <<>> /\ plaintext = <<>> THEN Err("EmptyInput")
    ELSE Ok([buf |-> c, tag |-> gcm_compute_tag(k, aad, c)])

\* A tag that does not match leaves zeros.
gcm_decrypt(k, iv, aad, ciphertext, tag, room) ==
    LET expected == gcm_compute_tag(k, aad, ciphertext) IN
    IF Len(tag) \notin TagLengths(Block(k)) \/ room # Len(ciphertext) THEN Err("InvalidLength")
    ELSE IF aad = <<>> /\ ciphertext = <<>> THEN Err("EmptyInput")
    ELSE IF SubSeq(expected, 1, Len(tag)) # tag
    THEN [st |-> "TagMismatch", buf |-> Zeros(room)]
    ELSE Ok([buf |-> gcm_apply_keystream(k, iv, ciphertext)])

(***************************************************************************)
(* kalyna_ccm.rs.  The variant's width of a length field and of a tag.     *)
(***************************************************************************)
MAX_PLAINTEXT_LEN == 255
MAX_AAD_LEN == 255

CcmNb(v) == CASE v = Kalyna256_512 -> 6 [] v = Kalyna512_512 -> 8 [] OTHER -> 4
CcmQ(v) == CASE v = Kalyna256_512 -> 32 [] v = Kalyna512_512 -> 64 [] OTHER -> 16

tag_length_code(q) ==
    CASE q = 8 -> 2 [] q = 16 -> 3 [] q = 32 -> 4 [] q = 48 -> 5 [] q = 64 -> 6 [] OTHER -> 0

\* As if the length of the additional data were left out.
CcmHeaderNoLength(k, nonce, aad, len) ==
    LET b     == Block(k)
        nb    == CcmNb(k.v)
        flags == (IF aad = <<>> THEN 0 ELSE 128) + tag_length_code(CcmQ(k.v)) * 16 + nb - 1
    IN  SubSeq(nonce, 1, b - nb - 1) \o LE(len, nb) \o <<flags>>
        \o Zeros((b - (Len(aad) % b)) % b) \o aad

\* G1, then for additional data its length and zeros up to a whole number of
\* blocks with the data at the end.
CcmHeader(k, nonce, aad, len) ==
    LET b     == Block(k)
        nb    == CcmNb(k.v)
        flags == (IF aad = <<>> THEN 0 ELSE 128) + tag_length_code(CcmQ(k.v)) * 16 + nb - 1
        g1    == SubSeq(nonce, 1, b - nb - 1) \o LE(len, nb) \o <<flags>>
        zeros == (2 * b - (Len(aad) % b) - nb) % b
    IN  IF aad = <<>> THEN g1 ELSE g1 \o LE(Len(aad), nb) \o Zeros(zeros) \o aad

\* The blocks the tag is computed over.
CcmBlocks(k, nonce, aad, plaintext) ==
    Chunks(CcmHeader(k, nonce, aad, Len(plaintext)), Block(k)) \o PaddedBlocks(plaintext, Block(k))

ccm_compute_tag(k, nonce, aad, plaintext) ==
    SubSeq(Chain(k, Zeros(Block(k)), CcmBlocks(k, nonce, aad, plaintext)), 1, CcmQ(k.v))

\* Gamma is the CTR mode object; seal and open apply it to the text and then to
\* the tag.
Gamma_new(k, nonce) == ctr_new(k, nonce)
Gamma_apply(k, o, buf) == ctr_apply_in_place(k, o, buf)

\* As if an empty text were sealed.
CcmLengthsEmptyText(buf, aad) ==
    IF Len(buf) > MAX_PLAINTEXT_LEN THEN "PlaintextTooLong"
    ELSE IF Len(aad) > MAX_AAD_LEN THEN "AadTooLong" ELSE "Ok"

\* As if the additional data had no limit.
CcmLengthsNoLimit(buf, aad) ==
    IF buf = <<>> THEN "EmptyPlaintext"
    ELSE IF Len(buf) > MAX_PLAINTEXT_LEN THEN "PlaintextTooLong" ELSE "Ok"

CcmLengths(buf, aad) ==
    IF buf = <<>> THEN "EmptyPlaintext"
    ELSE IF Len(buf) > MAX_PLAINTEXT_LEN THEN "PlaintextTooLong"
    ELSE IF Len(aad) > MAX_AAD_LEN THEN "AadTooLong" ELSE "Ok"

ccm_seal(k, nonce, aad, buf) ==
    LET text == Gamma_apply(k, Gamma_new(k, nonce), buf)
        tag  == Gamma_apply(k, text.o, ccm_compute_tag(k, nonce, aad, buf))
    IN  IF CcmLengths(buf, aad) # "Ok" THEN Err(CcmLengths(buf, aad))
        ELSE Ok([buf |-> text.buf, tag |-> tag.buf])

\* A tag that does not match leaves zeros in the buffer.
ccm_open(k, nonce, aad, buf, tag) ==
    LET text == Gamma_apply(k, Gamma_new(k, nonce), buf)
        recovered_tag == Gamma_apply(k, text.o, tag)
    IN  IF CcmLengths(buf, aad) # "Ok" THEN Err(CcmLengths(buf, aad))
        ELSE IF recovered_tag.buf = ccm_compute_tag(k, nonce, aad, text.buf)
        THEN Ok([buf |-> text.buf])
        ELSE [st |-> "TagMismatch", buf |-> Zeros(Len(buf))]

(***************************************************************************)
(* kalyna_xts.rs.  Tweak i is E(iv) doubled i times.                       *)
(***************************************************************************)
Tweak(gamma, n) == Loop(n, gamma, LAMBDA g, i : Gf2m128!double(g))

XtsEnc(k, t, block) == XorBytes(encrypt_block(k, XorBytes(block, t)), t)
XtsDec(k, t, block) == XorBytes(decrypt_block(k, XorBytes(block, t)), t)

\* With a tail of r bytes, block k is encrypted, its first r bytes become the
\* tail, and the tail with its other bytes takes its place under tweak k + 1.
xts_encrypt_in_place(k, iv, buf) ==
    LET b == Block(k)
        n == Len(buf) \div b
        r == Len(buf) % b
        gamma == encrypt_block(k, iv)
        done  == Tabulate(n, LAMBDA i : XtsEnc(k, Tweak(gamma, i), Slice(buf, (i - 1) * b, b)))
        last  == done[n]
        combined == SubSeq(buf, n * b + 1, Len(buf)) \o SubSeq(last, r + 1, b)
    IN  IF Len(buf) < b THEN Err("InvalidLength")
        ELSE IF r = 0 THEN Ok(Flatten(done))
        ELSE Ok(Flatten(SubSeq(done, 1, n - 1)) \o XtsEnc(k, Tweak(gamma, n + 1), combined)
                \o SubSeq(last, 1, r))

\* As if the last two tweaks were taken in the order of encryption.
XtsTailTweaksInOrder(n) == <<n, n + 1>>

\* The tweaks the block before the tail is decrypted under, in this order.
XtsTailTweaks(n) == <<n + 1, n>>

xts_decrypt_in_place(k, iv, buf) ==
    LET b == Block(k)
        n == Len(buf) \div b
        r == Len(buf) % b
        gamma == encrypt_block(k, iv)
        m     == IF r = 0 THEN n ELSE n - 1
        done  == Tabulate(m, LAMBDA i : XtsDec(k, Tweak(gamma, i), Slice(buf, (i - 1) * b, b)))
        tw    == XtsTailTweaks(n)
        combined == XtsDec(k, Tweak(gamma, tw[1]), Slice(buf, (n - 1) * b, b))
        rebuilt  == SubSeq(buf, n * b + 1, Len(buf)) \o SubSeq(combined, r + 1, b)
    IN  IF Len(buf) < b THEN Err("InvalidLength")
        ELSE IF r = 0 THEN Ok(Flatten(done))
        ELSE Ok(Flatten(done) \o XtsDec(k, Tweak(gamma, tw[2]), rebuilt) \o SubSeq(combined, 1, r))

-----------------------------------------------------------------------------
(***************************************************************************)
(* dstu-core/src/hazmat/kalyna_kw.rs and kalyna_kw_p.rs: key wrapping, of  *)
(* whole blocks, and of any other length above one block by padding.       *)
(* `room' is the length of the caller's output buffer.                     *)
(***************************************************************************)
MAX_R == 20

\* Step i of wrapping: the block from the front half and slot 0, enciphered;
\* its upper half, with i XORed in, is the next front, its lower half the new
\* last slot.
WrapStep(k, s, i) ==
    LET h == Half(k)
        e == encrypt_block(k, s.big_b \o s.b[1])
    IN  [big_b |-> XorBytes(SubSeq(e, h + 1, 2 * h), LE(i, 4)),
         b |-> Append(Tail(s.b), SubSeq(e, 1, h))]

\* As if the steps were counted from 0 here.
UnwrapStepFromZero(k, s, i) ==
    LET h == Half(k)
        n == Len(s.b)
        d == decrypt_block(k, s.b[n] \o XorBytes(s.big_b, LE(i - 1, 4)))
    IN  [big_b |-> SubSeq(d, 1, h), b |-> <<SubSeq(d, h + 1, 2 * h)>> \o SubSeq(s.b, 1, n - 1)]

UnwrapStep(k, s, i) ==
    LET h == Half(k)
        n == Len(s.b)
        d == decrypt_block(k, s.b[n] \o XorBytes(s.big_b, LE(i, 4)))
    IN  [big_b |-> SubSeq(d, 1, h), b |-> <<SubSeq(d, h + 1, 2 * h)>> \o SubSeq(s.b, 1, n - 1)]

Halves(k, s) == LET c == Chunks(s, Half(k)) IN [big_b |-> Head(c), b |-> Tail(c)]

Steps(r) == (2 * (r + 1) - 1) * 6

kw_wrap(k, plaintext, room) ==
    LET b == Block(k)
        r == Len(plaintext) \div b
        s == Loop(Steps(r), Halves(k, plaintext \o Zeros(b)), LAMBDA x, i : WrapStep(k, x, i))
    IN  IF plaintext = <<>> \/ Len(plaintext) % b # 0 \/ r > MAX_R \/ room # Len(plaintext) + b
        THEN Err("InvalidLength")
        ELSE Ok(s.big_b \o Flatten(s.b))

\* The last two slots are the checksum.
ChecksumOk(k, b) == b[Len(b) - 1] = Zeros(Half(k)) /\ b[Len(b)] = Zeros(Half(k))

kw_unwrap(k, ciphertext, room) ==
    LET b == Block(k)
        r == Len(ciphertext) \div b - 1
        s == Loop(Steps(r), Halves(k, ciphertext), LAMBDA x, i : UnwrapStep(k, x, Steps(r) + 1 - i))
    IN  IF Len(ciphertext) < 2 * b \/ Len(ciphertext) % b # 0 \/ r > MAX_R
           \/ room # Len(ciphertext) - b
        THEN Err("InvalidLength")
        ELSE IF ~ChecksumOk(k, s.b) THEN Err("ChecksumMismatch")
        ELSE Ok(s.big_b \o Flatten(SubSeq(s.b, 1, Len(s.b) - 2)))

\* 0 for None.
wrapped_len(k, len) ==
    LET b == Block(k)
        padded == ((len + Half(k) + 1 + b - 1) \div b) * b
    IN  IF len <= b \/ len % b = 0 \/ padded \div b > MAX_R THEN 0 ELSE padded + b

KwpPadded(k, plaintext, padded_len) ==
    LET len == Len(plaintext)
    IN  Overwrite(Overwrite(Padded(plaintext, padded_len), len, LE(8 * len, 8)), len + Half(k), <<128>>)

kw_p_wrap(k, plaintext, room) ==
    IF wrapped_len(k, Len(plaintext)) = 0 \/ wrapped_len(k, Len(plaintext)) # room
    THEN Err("InvalidLength")
    ELSE kw_wrap(k, KwpPadded(k, plaintext, room - Block(k)), room)

\* As if the marker could be in any block.
unpadAnyBlock(p, block, half) ==
    LET nonzero   == {i \in 1 .. Len(p) : p[i] # 0}
        marker_at == CHOOSE i \in nonzero : \A j \in nonzero : j <= i
        len       == marker_at - 1 - half
    IN  IF /\ nonzero # {} /\ p[marker_at] = 128
           /\ marker_at - 1 > half + block
           /\ len % block # 0
           /\ Slice(p, len, half) = Padded(LE(8 * len, 8), half)
        THEN [ok |-> TRUE, len |-> len] ELSE [ok |-> FALSE, len |-> 0]

\* The last nonzero byte has to be the marker, past the length field of a
\* message of more than one block and in the last block; the length may not be
\* a whole number of blocks, and the half block before the marker has to be it.
unpad(p, block, half) ==
    LET nonzero   == {i \in 1 .. Len(p) : p[i] # 0}
        marker_at == CHOOSE i \in nonzero : \A j \in nonzero : j <= i
        len       == marker_at - 1 - half
    IN  IF /\ nonzero # {} /\ p[marker_at] = 128
           /\ marker_at - 1 > half + block
           /\ len % block # 0
           /\ marker_at - 1 > Len(p) - block - 1
           /\ Slice(p, len, half) = Padded(LE(8 * len, 8), half)
        THEN [ok |-> TRUE, len |-> len] ELSE [ok |-> FALSE, len |-> 0]

\* Ok has what is left in the buffer and the length.
kw_p_unwrap(k, ciphertext, room) ==
    LET b == Block(k)
        inner == kw_unwrap(k, ciphertext, room)
        u == unpad(inner.v, b, Half(k))
    IN  IF Len(ciphertext) < 3 * b \/ Len(ciphertext) % b # 0
           \/ Len(ciphertext) \div b - 1 > MAX_R \/ room # Len(ciphertext) - b
        THEN Err("InvalidLength")
        ELSE IF inner.st # "Ok" THEN [st |-> inner.st, buf |-> Zeros(room)]
        ELSE IF ~u.ok THEN [st |-> "ChecksumMismatch", buf |-> Zeros(room)]
        ELSE Ok([buf |-> Padded(SubSeq(inner.v, 1, u.len), room), len |-> u.len])
=============================================================================
