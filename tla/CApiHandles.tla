---------------------------- MODULE CApiHandles ----------------------------
(***************************************************************************)
(* A C program that uses the C API: one-shot calls with every kind of      *)
(* buffer, and the stateful handles (push and pull states, the stream-file *)
(* encryptor and decryptor, the hasher), each called in any order with     *)
(* good and bad arguments.  A behaviour uses one kind of handle.           *)
(***************************************************************************)
EXTENDS SealedForms, FiniteSets

(***************************************************************************)
(* The C API (dstu-core-capi).  An exported function checks its raw        *)
(* arguments, forms slices from them, calls the core and copies the result *)
(* into the caller's memory; guard_status turns a panic into a status.  A  *)
(* function is modelled by the set of answers a call may get: the status,  *)
(* the slices it held at the same time and the addresses it wrote.  A      *)
(* fixed-size field is one address long, as in StreamFile; a handle is the *)
(* value it wraps, or "NULL".  The void functions answer "SKIPPED" where   *)
(* they return without doing anything, the ones that return a pointer or   *)
(* a bool where they return NULL or false.                                 *)
(***************************************************************************)
CONSTANTS
    ADDR_MAX        \* usize::MAX as an address

NULL == 0
At(ptr, len) == [ptr |-> ptr, len |-> len]
Holding(ptr, data) == [ptr |-> ptr, len |-> Len(data), data |-> data]
Cells(b) == IF b.ptr = NULL THEN {} ELSE b.ptr .. b.ptr + b.len - 1

saturating_add(a, n) == IF a + n > ADDR_MAX THEN ADDR_MAX ELSE a + n

overlaps(a, b) ==
    /\ a.ptr # NULL /\ b.ptr # NULL /\ a.len # 0 /\ b.len # 0
    /\ a.ptr < saturating_add(b.ptr, b.len)
    /\ b.ptr < saturating_add(a.ptr, a.len)

\* slice_from_raw and slice_from_raw_mut return None.
NoSlice(b) == b.len # 0 /\ b.ptr = NULL

-----------------------------------------------------------------------------
(***************************************************************************)
(* Answers.  ins and outs are the byte arguments of the call; live says    *)
(* that the slices over ins are used while those over outs exist; made is  *)
(* << >>, the kind of a new handle, or a format and the plaintext opened.  *)
(***************************************************************************)
Answer(st, ins, outs, live, wrote, made) ==
    [st |-> st, ins |-> ins, outs |-> outs, live |-> live, wrote |-> wrote, made |-> made]

Refused(st) == Answer(st, {}, << >>, FALSE, {}, << >>)
NoCall == Refused("NoCall")

\* checks is a sequence of <<condition, status>>, in the order of the code.
guard(checks, answers) ==
    LET failed == SelectSeq(checks, LAMBDA c : c[1])
    IN  IF failed # << >> THEN {Refused(failed[1][2])} ELSE answers

NullCheck(c) == <<c, "NULL_POINTER">>

\* out[..n].copy_from_slice(..), which panics when out is shorter than n.
CopyOut(ins, out, n, made) ==
    IF n > out.len THEN Refused("PANIC")
    ELSE Answer("OK", ins, <<out>>, TRUE, {out.ptr + i : i \in 0 .. n - 1}, made)

\* A fixed-size output that is written whole.
Fill(ins, out, made) == CopyOut(ins, out, out.len, made)

-----------------------------------------------------------------------------
(***************************************************************************)
(* Keys: *_generate, *_from_bytes (checked or infallible), *_bytes,        *)
(* *_free.  A handle's value is "key", a public key's "public".            *)
(***************************************************************************)
Generate(out) ==
    guard(<<NullCheck(out = "NULL")>>,
          {Answer("OK", {}, << >>, FALSE, {}, <<"key">>), Refused("RANDOM")})

\* SigningKey, SecretKey and PublicKey refuse what is out of range.
FromBytesChecked(bytes, out, made) ==
    guard(<<NullCheck(bytes.ptr = NULL \/ out = "NULL")>>,
          {Answer("OK", {bytes}, << >>, FALSE, {}, <<made>>), Refused("INVALID_KEY")})

FromBytes(bytes, made) ==
    guard(<< <<bytes.ptr = NULL, "SKIPPED">> >>, {Answer("OK", {bytes}, << >>, FALSE, {}, <<made>>)})

Bytes(key, out) ==
    guard(<< <<key = "NULL" \/ out.ptr = NULL, "SKIPPED">> >>, {Fill({}, out, << >>)})

Free(key) == guard(<< <<key = "NULL", "SKIPPED">> >>, {Answer("OK", {}, << >>, FALSE, {}, << >>)})

PublicOf(key) == guard(<< <<key = "NULL", "SKIPPED">> >>, {Answer("OK", {}, << >>, FALSE, {}, <<"public">>)})

dstu_auth_key_generate(out) == Generate(out)
dstu_auth_key_from_bytes(bytes) == FromBytes(bytes, "key")
dstu_auth_key_bytes(key, out) == Bytes(key, out)
dstu_auth_key_free(key) == Free(key)
dstu_kdf_master_key_generate(out) == Generate(out)
dstu_kdf_master_key_from_bytes(bytes) == FromBytes(bytes, "key")
dstu_kdf_master_key_bytes(key, out) == Bytes(key, out)
dstu_kdf_master_key_free(key) == Free(key)
dstu_secretbox_key_generate(out) == Generate(out)
dstu_secretbox_key_from_bytes(bytes) == FromBytes(bytes, "key")
dstu_secretbox_key_bytes(key, out) == Bytes(key, out)
dstu_secretbox_key_free(key) == Free(key)
dstu_stream_key_generate(out) == Generate(out)
dstu_stream_key_from_bytes(bytes) == FromBytes(bytes, "key")
dstu_stream_key_bytes(key, out) == Bytes(key, out)
dstu_stream_key_free(key) == Free(key)
dstu_secretstream_key_generate(out) == Generate(out)
dstu_secretstream_key_from_bytes(bytes) == FromBytes(bytes, "key")
dstu_secretstream_key_bytes(key, out) == Bytes(key, out)
dstu_secretstream_key_free(key) == Free(key)
dstu_sign_key_generate(out) == Generate(out)
dstu_sign_key_from_bytes(d, out) == FromBytesChecked(d, out, "key")
dstu_sign_key_bytes(key, out) == Bytes(key, out)
dstu_sign_key_free(key) == Free(key)
dstu_sign_verifying_key(key) == PublicOf(key)
dstu_verifying_key_to_bytes(key, out) == Bytes(key, out)
dstu_verifying_key_from_bytes(bytes) == FromBytes(bytes, "public")
dstu_verifying_key_free(key) == Free(key)
dstu_sign257_key_generate(out) == Generate(out)
dstu_sign257_key_from_bytes(d, out) == FromBytesChecked(d, out, "key")
dstu_sign257_key_bytes(key, out) == Bytes(key, out)
dstu_sign257_key_free(key) == Free(key)
dstu_sign257_verifying_key(key) == PublicOf(key)
dstu_verifying_key257_to_bytes(key, out) == Bytes(key, out)
dstu_verifying_key257_from_bytes(bytes) == FromBytes(bytes, "public")
dstu_verifying_key257_free(key) == Free(key)
dstu_box_secretkey_generate(out) == Generate(out)
dstu_box_secretkey_from_bytes(bytes, out) == FromBytesChecked(bytes, out, "key")
dstu_box_secretkey_bytes(key, out) == Bytes(key, out)
dstu_box_secretkey_public_key(key) == PublicOf(key)
dstu_box_secretkey_free(key) == Free(key)
dstu_box_publickey_from_bytes(bytes, out) == FromBytesChecked(bytes, out, "public")
dstu_box_publickey_bytes(key, out) == Bytes(key, out)
dstu_box_publickey_free(key) == Free(key)
dstu_box384_secretkey_generate(out) == Generate(out)
dstu_box384_secretkey_from_bytes(bytes, out) == FromBytesChecked(bytes, out, "key")
dstu_box384_secretkey_bytes(key, out) == Bytes(key, out)
dstu_box384_secretkey_public_key(key) == PublicOf(key)
dstu_box384_secretkey_free(key) == Free(key)
dstu_box384_publickey_from_bytes(bytes, out) == FromBytesChecked(bytes, out, "public")
dstu_box384_publickey_bytes(key, out) == Bytes(key, out)
dstu_box384_publickey_free(key) == Free(key)
dstu_box512_secretkey_generate(out) == Generate(out)
dstu_box512_secretkey_from_bytes(bytes, out) == FromBytesChecked(bytes, out, "key")
dstu_box512_secretkey_bytes(key, out) == Bytes(key, out)
dstu_box512_secretkey_public_key(key) == PublicOf(key)
dstu_box512_secretkey_free(key) == Free(key)
dstu_box512_publickey_from_bytes(bytes, out) == FromBytesChecked(bytes, out, "public")
dstu_box512_publickey_bytes(key, out) == Bytes(key, out)
dstu_box512_publickey_free(key) == Free(key)

KeyCalls(key, out, bytes, buf) ==
    UNION {dstu_auth_key_generate(out), dstu_auth_key_from_bytes(bytes),
           dstu_auth_key_bytes(key, buf), dstu_auth_key_free(key),
           dstu_kdf_master_key_generate(out), dstu_kdf_master_key_from_bytes(bytes),
           dstu_kdf_master_key_bytes(key, buf), dstu_kdf_master_key_free(key),
           dstu_secretbox_key_generate(out), dstu_secretbox_key_from_bytes(bytes),
           dstu_secretbox_key_bytes(key, buf), dstu_secretbox_key_free(key),
           dstu_stream_key_generate(out), dstu_stream_key_from_bytes(bytes),
           dstu_stream_key_bytes(key, buf), dstu_stream_key_free(key),
           dstu_secretstream_key_generate(out), dstu_secretstream_key_from_bytes(bytes),
           dstu_secretstream_key_bytes(key, buf), dstu_secretstream_key_free(key)}

SignKeyCalls(key, out, bytes, buf) ==
    UNION {dstu_sign_key_generate(out), dstu_sign_key_from_bytes(bytes, out),
           dstu_sign_key_bytes(key, buf), dstu_sign_key_free(key),
           dstu_sign_verifying_key(key), dstu_verifying_key_to_bytes(key, buf),
           dstu_verifying_key_from_bytes(bytes), dstu_verifying_key_free(key),
           dstu_sign257_key_generate(out), dstu_sign257_key_from_bytes(bytes, out),
           dstu_sign257_key_bytes(key, buf), dstu_sign257_key_free(key),
           dstu_sign257_verifying_key(key), dstu_verifying_key257_to_bytes(key, buf),
           dstu_verifying_key257_from_bytes(bytes), dstu_verifying_key257_free(key)}

BoxKeyCalls(key, out, bytes, buf) ==
    UNION {dstu_box_secretkey_generate(out), dstu_box_secretkey_from_bytes(bytes, out),
           dstu_box_secretkey_bytes(key, buf), dstu_box_secretkey_public_key(key),
           dstu_box_secretkey_free(key), dstu_box_publickey_from_bytes(bytes, out),
           dstu_box_publickey_bytes(key, buf), dstu_box_publickey_free(key),
           dstu_box384_secretkey_generate(out), dstu_box384_secretkey_from_bytes(bytes, out),
           dstu_box384_secretkey_bytes(key, buf), dstu_box384_secretkey_public_key(key),
           dstu_box384_secretkey_free(key), dstu_box384_publickey_from_bytes(bytes, out),
           dstu_box384_publickey_bytes(key, buf), dstu_box384_publickey_free(key),
           dstu_box512_secretkey_generate(out), dstu_box512_secretkey_from_bytes(bytes, out),
           dstu_box512_secretkey_bytes(key, buf), dstu_box512_secretkey_public_key(key),
           dstu_box512_secretkey_free(key), dstu_box512_publickey_from_bytes(bytes, out),
           dstu_box512_publickey_bytes(key, buf), dstu_box512_publickey_free(key)}

-----------------------------------------------------------------------------
(***************************************************************************)
(* One-shot sealing and opening.  required is what the output must hold,   *)
(* sealed what the core returns, replies what it may answer.               *)
(***************************************************************************)
SealCall(handle, in, out, lenOut, required, sealed) ==
    guard(<< <<overlaps(in, out), "INVALID_ARGUMENT">>,
             NullCheck(handle = "NULL" \/ lenOut = "NULL"),
             NullCheck(NoSlice(in)),
             <<required.res # "Ok" \/ (required.res = "Ok" /\ out.len < required.val),
               "BUFFER_TOO_SMALL">>,
             NullCheck(NoSlice(out)) >>,
          {CopyOut({in}, out, Len(sealed), << >>), Refused("RANDOM")})

StatusOf(res) ==
    CASE res \in {"TagMismatch", "InvalidCiphertext", "Auth"} -> "TAG_MISMATCH"
      [] res \in {"UnsupportedVersion", "NotPassphraseFile", "UnsupportedFormat"} ->
            "UNSUPPORTED_VERSION"
      [] res = "Truncated" -> "TRUNCATED"
      [] res = "UnsupportedParams" -> "UNSUPPORTED_PARAMS"
      [] res = "EmptyPassphrase" -> "INVALID_LENGTH"

\* A failed authentication leaves the whole output zeroed.
OpenCall(format, handle, in, out, lenOut, short, required, replies) ==
    guard(<< <<overlaps(in, out), "INVALID_ARGUMENT">>,
             NullCheck(handle = "NULL" \/ lenOut = "NULL"),
             NullCheck(NoSlice(in)),
             <<short, "TRUNCATED">>,
             <<out.len < required, "BUFFER_TOO_SMALL">>,
             NullCheck(NoSlice(out)) >>,
          { IF r.res = "Ok"
            THEN CopyOut({in}, out, Len(r.val), <<format, r.val>>)
            ELSE IF StatusOf(r.res) = "TAG_MISMATCH"
            THEN [Fill({in}, out, << >>) EXCEPT !.st = "TAG_MISMATCH"]
            ELSE Refused(StatusOf(r.res)) : r \in replies })

saturating_sub(a, b) == IF a < b THEN 0 ELSE a - b

\* The sums of dstu_secretbox_seal and dstu_stream_encrypt are not checked in the
\* code; in is a slice by then, so at most isize::MAX, and they cannot wrap.
dstu_secretbox_seal(key, in, out, lenOut) ==
    SealCall(key, in, out, lenOut, Ok(in.len + SECRETBOX_OVERHEAD),
             SecretboxSeal(key, "nonce", in.data))

dstu_secretbox_open(key, in, out, lenOut) ==
    OpenCall("secretbox", key, in, out, lenOut, in.len < SECRETBOX_OVERHEAD,
             in.len - SECRETBOX_OVERHEAD, {SecretboxOpen(key, in.data)})

dstu_stream_encrypt(key, in, out, lenOut) ==
    SealCall(key, in, out, lenOut, Ok(in.len + STREAM_OVERHEAD),
             StreamEncrypt(key, "iv", in.data))

dstu_stream_decrypt(key, in, out, lenOut) ==
    OpenCall("stream", key, in, out, lenOut, in.len < STREAM_OVERHEAD,
             in.len - STREAM_OVERHEAD, {StreamDecrypt(key, in.data)})

BoxSeal(recipient, in, out, lenOut, sealed) ==
    SealCall(recipient, in, out, lenOut, Box!sealed_len(in.len), sealed)

BoxOpen(format, secret, in, out, lenOut, replies) ==
    OpenCall(format, secret, in, out, lenOut, FALSE,
             saturating_sub(in.len, Box!MIN_SEALED_LEN), replies)

BoxSealedLen(len, lenOut) ==
    guard(<<NullCheck(lenOut = "NULL"), <<len.res # "Ok", "INVALID_LENGTH">> >>,
          {Answer("OK", {}, << >>, FALSE, {}, << >>)})

BoxSealStream(recipient, prefixOut, out, started) ==
    guard(<<NullCheck(recipient = "NULL" \/ prefixOut.ptr = NULL \/ out = "NULL")>>,
          {CopyOut({}, prefixOut, Len(started.prefix), <<"encryptor">>), Refused("RANDOM")})

BoxOpenStream(secret, prefix, out, replies) ==
    guard(<<NullCheck(secret = "NULL" \/ prefix.ptr = NULL \/ out = "NULL")>>,
          { IF r.res = "Ok" THEN Answer("OK", {prefix}, << >>, FALSE, {}, <<"decryptor">>)
            ELSE Refused(StatusOf(r.res)) : r \in replies })

dstu_box_seal(recipient, in, out, lenOut) ==
    BoxSeal(recipient, in, out, lenOut, Box!seal(recipient, "seed", "header", in.data))
dstu_box_open(secret, in, out, lenOut) ==
    BoxOpen("cryptbox", secret, in, out, lenOut, Box!open(in.data, secret))
dstu_box_sealed_len(n, lenOut) == BoxSealedLen(Box!sealed_len(n), lenOut)
dstu_box_seal_stream(recipient, prefixOut, out) ==
    BoxSealStream(recipient, prefixOut, out, Box!seal_stream(recipient, "seed", "header"))
dstu_box_open_stream(secret, prefix, out) ==
    BoxOpenStream(secret, prefix, out, Box!open_stream(prefix.data, secret))

dstu_box384_seal(recipient, in, out, lenOut) ==
    BoxSeal(recipient, in, out, lenOut, Box384!seal(recipient, "seed", "header", in.data))
dstu_box384_open(secret, in, out, lenOut) ==
    BoxOpen("cryptbx3", secret, in, out, lenOut, Box384!open(in.data, secret))
dstu_box384_sealed_len(n, lenOut) == BoxSealedLen(Box384!sealed_len(n), lenOut)
dstu_box384_seal_stream(recipient, prefixOut, out) ==
    BoxSealStream(recipient, prefixOut, out, Box384!seal_stream(recipient, "seed", "header"))
dstu_box384_open_stream(secret, prefix, out) ==
    BoxOpenStream(secret, prefix, out, Box384!open_stream(prefix.data, secret))

dstu_box512_seal(recipient, in, out, lenOut) ==
    BoxSeal(recipient, in, out, lenOut, Box512!seal(recipient, "seed", "header", in.data))
dstu_box512_open(secret, in, out, lenOut) ==
    BoxOpen("cryptbx5", secret, in, out, lenOut, Box512!open(in.data, secret))
dstu_box512_sealed_len(n, lenOut) == BoxSealedLen(Box512!sealed_len(n), lenOut)
dstu_box512_seal_stream(recipient, prefixOut, out) ==
    BoxSealStream(recipient, prefixOut, out, Box512!seal_stream(recipient, "seed", "header"))
dstu_box512_open_stream(secret, prefix, out) ==
    BoxOpenStream(secret, prefix, out, Box512!open_stream(prefix.data, secret))

-----------------------------------------------------------------------------
(***************************************************************************)
(* Signatures, MACs, digests, subkeys and passwords: a fixed-size output,  *)
(* written whole, or a verdict.                                            *)
(***************************************************************************)
VoidInto(handle, in, out) ==
    guard(<< <<overlaps(in, out), "SKIPPED">>,
             <<handle = "NULL" \/ out.ptr = NULL, "SKIPPED">>, <<NoSlice(in), "SKIPPED">> >>,
          {Fill({in}, out, << >>)})

\* The input has a fixed size too: a NULL pointer is never an empty slice.
VoidFixedInto(handle, in, out) ==
    guard(<< <<overlaps(in, out), "SKIPPED">>,
             <<handle = "NULL" \/ in.ptr = NULL \/ out.ptr = NULL, "SKIPPED">> >>,
          {Fill({in}, out, << >>)})

Verdict(handle, in, fixed) ==
    guard(<< <<handle = "NULL" \/ fixed.ptr = NULL, "SKIPPED">>, <<NoSlice(in), "SKIPPED">> >>,
          {Answer("OK", {in, fixed}, << >>, TRUE, {}, << >>), Refused("SKIPPED")})

dstu_auth(key, in, tagOut) == VoidInto(key, in, tagOut)
dstu_auth_verify(key, in, tag) ==
    guard(<<NullCheck(key = "NULL" \/ tag.ptr = NULL), NullCheck(NoSlice(in))>>,
          {Answer("OK", {in, tag}, << >>, TRUE, {}, << >>), Refused("TAG_MISMATCH")})
dstu_kdf_derive_subkey(key, context, out) == VoidFixedInto(key, context, out)
dstu_generichash_256(in, out) == VoidInto("none", in, out)
dstu_generichash_512(in, out) == VoidInto("none", in, out)
dstu_sign(key, in, sigOut) == VoidInto(key, in, sigOut)
dstu_sign_digest(key, digest, sigOut) == VoidFixedInto(key, digest, sigOut)
dstu_verify(key, in, sig) == Verdict(key, in, sig)
dstu_verify_digest(key, digest, sig) == IF digest.ptr = NULL THEN {Refused("SKIPPED")}
                                        ELSE Verdict(key, digest, sig)
dstu_sign257(key, in, sigOut) == VoidInto(key, in, sigOut)
dstu_sign257_digest(key, digest, sigOut) == VoidFixedInto(key, digest, sigOut)
dstu_verify257(key, in, sig) == Verdict(key, in, sig)
dstu_verify257_digest(key, digest, sig) == dstu_verify_digest(key, digest, sig)

\* pwhash_status: what Argon2 may fail with; drawing a salt may fail as well.
DeriveErrors == {Refused("HASH_ERROR"), Refused("OUT_OF_MEMORY")}
PwHashErrors == DeriveErrors \cup {Refused("RANDOM")}

strength_from_raw(raw) == raw \in 0 .. 2

\* The PHC string and its NUL, in addresses, and the room the caller gives it.
PHC_LEN == 2
STRBYTES == 2

dstu_pwhash_hash_password(in, strength, out) ==
    guard(<< <<overlaps(in, out), "INVALID_ARGUMENT">>,
             <<~strength_from_raw(strength), "INVALID_ARGUMENT">>,
             NullCheck(out.ptr = NULL), NullCheck(NoSlice(in)) >>,
          {IF PHC_LEN > STRBYTES THEN Refused("BUFFER_TOO_SMALL")
           ELSE CopyOut({in}, out, PHC_LEN, << >>)} \cup PwHashErrors)

dstu_pwhash_verify_password(in, hash) == Verdict("none", in, hash)

dstu_pwhash_derive_key(in, salt, strength, out) ==
    guard(<< <<overlaps(in, out) \/ overlaps(salt, out), "INVALID_ARGUMENT">>,
             <<~strength_from_raw(strength), "INVALID_ARGUMENT">>,
             NullCheck(salt.ptr = NULL \/ out.ptr = NULL), NullCheck(NoSlice(in)) >>,
          {Fill({in, salt}, out, << >>)} \cup DeriveErrors)

dstu_passphrase_file_check_header(header) ==
    guard(<<NullCheck(header.ptr = NULL)>>,
          LET r == HeaderParse(header.data)
          IN  {IF r.res = "Ok" THEN Answer("OK", {header}, << >>, FALSE, {}, << >>)
               ELSE Refused(StatusOf(r.res))})

\* The passphrase is last read before the slice over prefix_out is formed.
dstu_passphrase_file_seal_stream(in, prefixOut, out) ==
    guard(<<NullCheck(prefixOut.ptr = NULL \/ out = "NULL"), NullCheck(NoSlice(in))>>,
          LET r == PassphraseSealStream(in.data, "salt", "header")
          IN  IF r.res # "Ok" THEN {Refused(StatusOf(r.res)), Refused("RANDOM")}
              ELSE {[CopyOut({in}, prefixOut, Len(r.val.prefix), <<"encryptor">>)
                       EXCEPT !.live = FALSE]} \cup PwHashErrors)

dstu_passphrase_file_open_stream(header, in, out) ==
    guard(<<NullCheck(header.ptr = NULL \/ out = "NULL"), NullCheck(NoSlice(in))>>,
          LET r == PassphraseOpenStream(header.data, in.data)
          IN  IF r.res # "Ok" THEN {Refused(StatusOf(r.res))}
              ELSE {Answer("OK", {header, in}, << >>, FALSE, {}, <<"decryptor">>)} \cup DeriveErrors)

\* Handles of the stateful kinds; CApiHandles models what they hold.
NewWithPrefix(key, prefixOut, out, n, kind) ==
    guard(<<NullCheck(key = "NULL" \/ prefixOut.ptr = NULL \/ out = "NULL")>>,
          {CopyOut({}, prefixOut, n, <<kind>>), Refused("RANDOM")})
dstu_secretstream_push_init(key, out, headerOut) ==
    NewWithPrefix(key, headerOut, out, 1, "push")
dstu_secretstream_file_encryptor_new(key, prefixOut, out) ==
    NewWithPrefix(key, prefixOut, out, Len(Prefix("header")), "encryptor")
dstu_secretstream_pull_init(key, header) ==
    IF key = "NULL" THEN {Refused("SKIPPED")} ELSE FromBytes(header, "pull")
dstu_secretstream_file_decryptor_new(key) ==
    guard(<< <<key = "NULL", "SKIPPED">> >>, {Answer("OK", {}, << >>, FALSE, {}, <<"decryptor">>)})
dstu_kupyna256_hasher_new == {Answer("OK", {}, << >>, FALSE, {}, <<"hasher">>)}
dstu_kupyna512_hasher_new == {Answer("OK", {}, << >>, FALSE, {}, <<"hasher">>)}
dstu_secretstream_push_free(state) == Free(state)
dstu_secretstream_pull_free(state) == Free(state)
dstu_secretstream_file_encryptor_free(enc) == Free(enc)
dstu_secretstream_file_decryptor_free(dec) == Free(dec)
dstu_kupyna256_hasher_free(hasher) == Free(hasher)
dstu_kupyna512_hasher_free(hasher) == Free(hasher)

HandleCalls(key, out, prefix, header) ==
    UNION {dstu_secretstream_push_init(key, out, header),
           dstu_secretstream_pull_init(key, header),
           dstu_secretstream_file_encryptor_new(key, prefix, out),
           dstu_secretstream_file_decryptor_new(key),
           dstu_kupyna256_hasher_new, dstu_kupyna512_hasher_new,
           dstu_secretstream_push_free(key), dstu_secretstream_pull_free(key),
           dstu_secretstream_file_encryptor_free(key), dstu_secretstream_file_decryptor_free(key),
           dstu_kupyna256_hasher_free(key), dstu_kupyna512_hasher_free(key)}

dstu_randombytes_buf(buf) ==
    guard(<<NullCheck(NoSlice(buf))>>, {Fill({}, buf, << >>), Refused("RANDOM")})
dstu_memzero(buf) ==
    guard(<< <<buf.ptr = NULL \/ buf.len = 0, "SKIPPED">> >>, {Fill({}, buf, << >>)})
dstu_selftest == {Answer("OK", {}, << >>, FALSE, {}, << >>), Refused("SELFTEST_FAILED")}

-----------------------------------------------------------------------------
CONSTANTS
    Handles,        \* what a behaviour uses, of "calls", "chunks", "encryptor",
                    \* "decryptor" and "hasher"
    Ptrs,           \* addresses of buffers, NULL among them
    OutLens,        \* capacities of output buffers
    Messages,       \* plaintexts
    Blobs,          \* what an open is given: genuine, damaged, foreign, cut
    Files,          \* stream files a decryptor is given
    Headers,        \* passphrase-file headers, good and bad
    ChunkTags,      \* tag bytes given to push
    MaxChunk,       \* bound on a chunk given to push
    MaxFed          \* bound on what a hasher is fed

VARIABLES
    use,            \* the kind of handle in use
    h,              \* the handle: what the Box it points to holds
    fed,            \* ghost: what the accepted calls were given
    made,           \* ghost: what came out of them
    failure,        \* ghost: the first error that ended the handle, or "none"
    last            \* the answer of the last call

vars == <<use, h, fed, made, failure, last>>

StreamKey == "key"

\* core_from_raw: the four tags; anything else is no tag.
core_from_raw(tag) == tag \in Tag

file_status(res) ==
    CASE res = "Ok" -> "OK"
      [] res = "UnsupportedVersion" -> "UNSUPPORTED_VERSION"
      [] res = "Truncated" -> "TRUNCATED"
      [] res = "ChunkTooLarge" -> "CHUNK_TOO_LARGE"
      [] res = "BadChunkLength" -> "BAD_CHUNK_LENGTH"
      [] res = "UnknownTag" -> "UNKNOWN_TAG"
      [] res = "TrailingData" -> "TRAILING_DATA"
      [] res = "Auth" -> "TAG_MISMATCH"
      [] res \in {"Finished", "CounterExhausted"} -> "FINALIZED"
      [] res = "InvalidLength" -> "INVALID_LENGTH"

StreamStatus(res) ==
    CASE res = "Ok" -> "OK"
      [] res = "InvalidLength" -> "INVALID_LENGTH"
      [] res \in {"StreamFinalized", "CounterExhausted"} -> "FINALIZED"
      [] res = "UnknownTag" -> "UNKNOWN_TAG"
      [] res = "TagMismatch" -> "TAG_MISMATCH"

\* The caller's buffers.
Ins(datas) == {Holding(p, d) : p \in Ptrs, d \in datas}
Outs == {At(p, n) : p \in Ptrs, n \in OutLens}
Fixed(n) == {At(p, n) : p \in Ptrs}
Pointers == {"NULL", "given"}

-----------------------------------------------------------------------------
Init ==
    /\ use \in Handles
    /\ fed = << >> /\ made = << >> /\ failure = "none" /\ last = NoCall
    /\ h \in CASE use = "calls" -> {"none"}
               [] use = "chunks" -> {[push |-> StreamInit(StreamKey, "header"),
                                      pull |-> StreamInit(StreamKey, "header")]}
               [] use = "encryptor" -> {StreamInit(StreamKey, "header")}
               [] use = "decryptor" ->
                    {[inner |-> NewDecryptor(StreamKey), last_error |-> "none", file |-> f] :
                       f \in Files}
               [] use = "hasher" -> {<< << >> >>}

\* A one-shot call.  The answer of any call is looked at and forgotten.
OneShot(answers) ==
    /\ last' \in answers
    /\ UNCHANGED <<use, h, fed, made, failure>>

Ready == use = "calls" /\ last = NoCall

Forget ==
    /\ last # NoCall
    /\ last' = NoCall
    /\ UNCHANGED <<use, h, fed, made, failure>>

CallKeys ==
    Ready /\ \E key \in {"NULL", "key"}, out \in Pointers, bytes \in Fixed(1), buf \in Fixed(1) :
        \/ OneShot(KeyCalls(key, out, bytes, buf))
        \/ OneShot(SignKeyCalls(key, out, bytes, buf))
        \/ OneShot(BoxKeyCalls(key, out, bytes, buf))
        \/ \E prefix \in Fixed(FILE_PREFIX) : OneShot(HandleCalls(key, out, prefix, buf))

CallSeal ==
    Ready /\ \E key \in {"NULL", "key"}, in \in Ins(Messages), out \in Outs, lenOut \in Pointers :
        \/ OneShot(dstu_secretbox_seal(key, in, out, lenOut))
        \/ OneShot(dstu_stream_encrypt(key, in, out, lenOut))
        \/ OneShot(dstu_box_seal(key, in, out, lenOut))
        \/ OneShot(dstu_box384_seal(key, in, out, lenOut))
        \/ OneShot(dstu_box512_seal(key, in, out, lenOut))

CallOpen ==
    Ready /\ \E key \in {"NULL", "key"}, in \in Ins(Blobs), out \in Outs, lenOut \in Pointers :
        \/ OneShot(dstu_secretbox_open(key, in, out, lenOut))
        \/ OneShot(dstu_stream_decrypt(key, in, out, lenOut))
        \/ OneShot(dstu_box_open(key, in, out, lenOut))
        \/ OneShot(dstu_box384_open(key, in, out, lenOut))
        \/ OneShot(dstu_box512_open(key, in, out, lenOut))

BoxPrefixes == {SubSeq(b, 1, KEM_PREFIX) : b \in {x \in Blobs : Len(x) >= KEM_PREFIX}}

CallBoxStream ==
    Ready /\ \E key \in {"NULL", "key"}, out \in Pointers :
        \/ \E n \in OutLens \cup {USIZE_MAX} :
               OneShot(dstu_box_sealed_len(n, out) \cup dstu_box384_sealed_len(n, out)
                           \cup dstu_box512_sealed_len(n, out))
        \/ \E prefixOut \in Fixed(KEM_PREFIX + FILE_PREFIX) :
               OneShot(dstu_box_seal_stream(key, prefixOut, out)
                           \cup dstu_box384_seal_stream(key, prefixOut, out)
                           \cup dstu_box512_seal_stream(key, prefixOut, out))
        \/ \E prefix \in Ins(BoxPrefixes) :
               OneShot(dstu_box_open_stream(key, prefix, out)
                           \cup dstu_box384_open_stream(key, prefix, out)
                           \cup dstu_box512_open_stream(key, prefix, out))

CallDigest ==
    Ready /\ \E key \in {"NULL", "key"}, in \in Ins(Messages), out \in Fixed(1), sig \in Fixed(2) :
        \/ OneShot(dstu_auth(key, in, out) \cup dstu_auth_verify(key, in, out))
        \/ OneShot(dstu_generichash_256(in, out) \cup dstu_generichash_512(in, sig))
        \/ OneShot(dstu_kdf_derive_subkey(key, out, sig))
        \/ OneShot(dstu_sign(key, in, sig) \cup dstu_sign257(key, in, sig))
        \/ OneShot(dstu_sign_digest(key, out, sig) \cup dstu_sign257_digest(key, out, sig))
        \/ OneShot(dstu_verify(key, in, sig) \cup dstu_verify257(key, in, sig))
        \/ OneShot(dstu_verify_digest(key, out, sig) \cup dstu_verify257_digest(key, out, sig))

CallPassword ==
    Ready /\ \E in \in Ins(Messages), out \in Pointers, strength \in 0 .. 3 :
        \/ \E buf \in Fixed(STRBYTES) : OneShot(dstu_pwhash_hash_password(in, strength, buf))
        \/ \E salt, buf \in Fixed(1) : OneShot(dstu_pwhash_derive_key(in, salt, strength, buf))
        \/ \E hash \in Fixed(2) : OneShot(dstu_pwhash_verify_password(in, hash))
        \/ \E header \in Ins(Headers) :
               OneShot(dstu_passphrase_file_check_header(header)
                           \cup dstu_passphrase_file_open_stream(header, in, out))
        \/ \E buf \in Fixed(HEADER_LEN + FILE_PREFIX) :
               OneShot(dstu_passphrase_file_seal_stream(in, buf, out))

CallBuffer ==
    /\ Ready
    /\ \/ \E buf \in Outs : OneShot(dstu_randombytes_buf(buf) \cup dstu_memzero(buf))
       \/ OneShot(dstu_selftest)

-----------------------------------------------------------------------------
(***************************************************************************)
(* The handles.  A call that the handle answers changes h only through the *)
(* core's own operation; every check before it leaves h alone.             *)
(***************************************************************************)
Kept == UNCHANGED <<h, fed, made, failure>>

\* Mutant: the overlap of the two outputs is not checked.
dstu_secretstream_pushTagUnchecked(push, state, tag, in, out, tagOut) ==
    guard(<< <<overlaps(in, out) \/ overlaps(in, tagOut), "INVALID_ARGUMENT">>,
             NullCheck(state = "NULL" \/ tagOut.ptr = NULL),
             NullCheck(NoSlice(in)), NullCheck(NoSlice(out)),
             <<~core_from_raw(tag), "INVALID_ARGUMENT">>,
             <<PushResult(push, out.len = in.len) # "Ok",
               StreamStatus(PushResult(push, out.len = in.len))>> >>,
          {Answer("OK", {in}, <<out, tagOut>>, TRUE, Cells(out) \cup Cells(tagOut), << >>)})

dstu_secretstream_push(push, state, tag, in, out, tagOut) ==
    guard(<< <<overlaps(in, out) \/ overlaps(in, tagOut) \/ overlaps(out, tagOut),
               "INVALID_ARGUMENT">>,
             NullCheck(state = "NULL" \/ tagOut.ptr = NULL),
             NullCheck(NoSlice(in)), NullCheck(NoSlice(out)),
             <<~core_from_raw(tag), "INVALID_ARGUMENT">>,
             <<PushResult(push, out.len = in.len) # "Ok",
               StreamStatus(PushResult(push, out.len = in.len))>> >>,
          {Answer("OK", {in}, <<out, tagOut>>, TRUE, Cells(out) \cup Cells(tagOut), << >>)})

Push ==
    /\ use = "chunks" /\ last = NoCall /\ UNCHANGED use
    /\ \E state \in Pointers, tag \in ChunkTags,
          in \in Ins({m \in Messages : Len(m) <= MaxChunk}), out \in Outs, tagOut \in Fixed(1) :
        /\ last' \in dstu_secretstream_push(h.push, state, tag, in, out, tagOut)
        /\ IF last'.st = "OK"
           THEN /\ h' = [h EXCEPT !.push = Advance(@, tag)]
                /\ fed' = Append(fed, Chunk(h.push, tag, in.data))
                /\ UNCHANGED <<made, failure>>
           ELSE Kept

\* A failed authentication zeroes plaintext_out, as the core's pull does.
dstu_secretstream_pull(pull, state, tagByte, chunk, in, auth, out, tagOut) ==
    LET res == PullResult(pull, tagByte, chunk.ciphertext, chunk.auth, TRUE, out.len = in.len)
    IN  guard(<< <<overlaps(in, out) \/ overlaps(auth, out), "INVALID_ARGUMENT">>,
                 NullCheck(state = "NULL" \/ auth.ptr = NULL \/ tagOut = "NULL"),
                 NullCheck(NoSlice(in)), NullCheck(NoSlice(out)),
                 <<res \notin {"Ok", "TagMismatch"}, StreamStatus(res)>> >>,
              {Answer(StreamStatus(res), {in, auth}, <<out>>, TRUE, Cells(out), << >>)})

Pull ==
    /\ use = "chunks" /\ last = NoCall /\ UNCHANGED use
    /\ \E state, tagOut \in Pointers, i \in 1 .. Len(fed), auth \in Fixed(1), out \in Outs, p \in Ptrs :
       \E tagByte \in {fed[i].tag, "Other"} :
        LET in == At(p, Len(fed[i].ciphertext.plaintext))
        IN  /\ last' \in dstu_secretstream_pull(h.pull, state, tagByte, fed[i], in, auth, out, tagOut)
            /\ IF last'.st = "OK"
               THEN /\ h' = [h EXCEPT !.pull = Advance(@, tagByte)]
                    /\ made' = Append(made, fed[i])
                    /\ UNCHANGED <<fed, failure>>
               ELSE Kept

\* seal_chunk and seal_final: what the record must have room for.
SealAnswer(enc, handle, in, out, lengthOk, room) ==
    LET res == SealResult(enc, in.data, out.len >= room)
    IN  guard(<< <<overlaps(in, out), "INVALID_ARGUMENT">>,
                 NullCheck(handle = "NULL"), NullCheck(NoSlice(in)), NullCheck(NoSlice(out)),
                 <<~lengthOk, "INVALID_LENGTH">>,
                 <<out.len < room, "BUFFER_TOO_SMALL">>,
                 <<res # "Ok", file_status(res)>> >>,
              {CopyOut({in}, out, in.len + RECORD_OVERHEAD, << >>)})

\* Mutant: seal_chunk takes a chunk of any length that fits.
dstu_secretstream_file_encryptor_seal_chunkAnyLength(enc, handle, in, out) ==
    SealAnswer(enc, handle, in, out, in.len <= CHUNK_BYTES, CHUNK_BYTES + RECORD_OVERHEAD)

dstu_secretstream_file_encryptor_seal_chunk(enc, handle, in, out) ==
    SealAnswer(enc, handle, in, out, in.len = CHUNK_BYTES, CHUNK_BYTES + RECORD_OVERHEAD)

dstu_secretstream_file_encryptor_seal_final(enc, handle, in, out) ==
    SealAnswer(enc, handle, in, out, in.len <= CHUNK_BYTES, in.len + RECORD_OVERHEAD)

Sealed(tag, plaintext) ==
    /\ h' = Advance(h, tag)
    /\ fed' = fed \o plaintext
    /\ made' = made \o Record(h, tag, plaintext)
    /\ UNCHANGED failure

SealChunk ==
    /\ use = "encryptor" /\ last = NoCall /\ UNCHANGED use
    /\ \E handle \in Pointers, in \in Ins(Messages), out \in Outs :
        /\ last' \in dstu_secretstream_file_encryptor_seal_chunk(h, handle, in, out)
        /\ IF last'.st = "OK" THEN Sealed("Message", in.data) ELSE Kept

SealFinal ==
    /\ use = "encryptor" /\ last = NoCall /\ UNCHANGED use
    /\ \E handle \in Pointers, in \in Ins(Messages), out \in Outs :
        /\ last' \in dstu_secretstream_file_encryptor_seal_final(h, handle, in, out)
        /\ IF last'.st = "OK" THEN Sealed("Final", in.data) ELSE Kept

-----------------------------------------------------------------------------
(***************************************************************************)
(* The decryptor handle: the core's decryptor and the message of the error *)
(* that failed it.                                                         *)
(***************************************************************************)
dstu_secretstream_file_decryptor_next_len(dec) == NextLen(dec.inner)
dstu_secretstream_file_decryptor_last_error(dec) == dec.last_error

\* Mutant: a later error replaces the message.
recordOverwrites(dec, r) ==
    [dec EXCEPT !.inner = r.dec,
                !.last_error = IF r.res \notin {"Ok", "InvalidLength"} THEN r.res ELSE @]

record(dec, r) ==
    [dec EXCEPT !.inner = r.dec,
                !.last_error = IF @ = "none" /\ r.res \notin {"Ok", "InvalidLength"}
                               THEN r.res ELSE @]

\* The checks of feed and finish before the core is called.
FeedChecks(handle, in, out) ==
    << <<overlaps(in, out), "INVALID_ARGUMENT">>, NullCheck(handle = "NULL"),
       NullCheck(NoSlice(in)), NullCheck(NoSlice(out)),
       <<out.len < CHUNK_BYTES, "BUFFER_TOO_SMALL">> >>

FinishChecks(handle, out) ==
    <<NullCheck(handle = "NULL"), NullCheck(NoSlice(out)),
      <<out.len < CHUNK_BYTES, "BUFFER_TOO_SMALL">> >>

\* What one call gives: the answer and the handle after it.  A refused call never
\* reaches the core.
Replied(checks, dec, ins, out, replies) ==
    LET refused == guard(checks, {})
    IN  IF refused # {} THEN {[answer |-> a, dec |-> dec, r |-> [res |-> "none"]] : a \in refused}
        ELSE { [answer |-> [CopyOut(ins, out, Len(r.out), << >>) EXCEPT !.st = file_status(r.res)],
                dec |-> record(dec, r), r |-> r] : r \in replies }

\* Mutant: the capacity is looked at after the core has taken the input.
dstu_secretstream_file_decryptor_feedCheckedLate(dec, handle, in, out) ==
    { [x EXCEPT !.answer = IF out.len < CHUNK_BYTES THEN Refused("BUFFER_TOO_SMALL") ELSE @] :
        x \in Replied(SubSeq(FeedChecks(handle, in, out), 1, 4), dec, {in}, out,
                      Feed(dec.inner, in.data, TRUE)) }

dstu_secretstream_file_decryptor_feed(dec, handle, in, out) ==
    Replied(FeedChecks(handle, in, out), dec, {in}, out,
            Feed(dec.inner, in.data, out.len >= CHUNK_BYTES))

dstu_secretstream_file_decryptor_finish(dec, handle, out) ==
    Replied(FinishChecks(handle, out), dec, {}, out,
            {Finish(dec.inner, out.len >= CHUNK_BYTES)})

Took(x, input) ==
    /\ last' = x.answer /\ h' = x.dec
    /\ fed' = IF x.r.res = "Ok" THEN fed \o input ELSE fed
    /\ made' = IF x.r.res = "Ok" THEN made \o x.r.out ELSE made
    /\ failure' = IF failure = "none" /\ x.r.res # "Ok"
                     /\ h.inner.state # "Done" /\ x.dec.inner.state = "Done"
                  THEN x.r.res ELSE failure

\* The caller feeds the next bytes of its file, as many as next_len asks for or
\* one more or one less.
FeedDecryptor ==
    /\ use = "decryptor" /\ last = NoCall /\ UNCHANGED use
    /\ \E handle \in Pointers, p \in Ptrs, out \in Outs,
          n \in {dstu_secretstream_file_decryptor_next_len(h) + d : d \in {-1, 0, 1}} \ {-1} :
        /\ Len(fed) + n <= Len(h.file)
        /\ LET input == SubSeq(h.file, Len(fed) + 1, Len(fed) + n)
           IN  \E x \in dstu_secretstream_file_decryptor_feed(h, handle, Holding(p, input), out) :
                   Took(x, input)

FinishDecryptor ==
    /\ use = "decryptor" /\ last = NoCall /\ UNCHANGED use
    /\ \E handle \in Pointers, out \in Outs :
       \E x \in dstu_secretstream_file_decryptor_finish(h, handle, out) : Took(x, << >>)

-----------------------------------------------------------------------------
(***************************************************************************)
(* The hasher handle: Some(hasher) until finalize takes it.  A hasher is   *)
(* what it was fed.                                                        *)
(***************************************************************************)
dstu_kupyna256_hasher_update(hasher, handle, in) ==
    guard(<< <<handle = "NULL", "SKIPPED">>, <<NoSlice(in), "SKIPPED">>,
             <<hasher = << >>, "SKIPPED">> >>,
          {Answer("OK", {in}, << >>, FALSE, {}, << >>)})
dstu_kupyna512_hasher_update(hasher, handle, in) ==
    dstu_kupyna256_hasher_update(hasher, handle, in)

dstu_kupyna256_hasher_finalize(hasher, handle, out) ==
    guard(<<NullCheck(handle = "NULL" \/ out.ptr = NULL), <<hasher = << >>, "FINALIZED">> >>,
          {Fill({}, out, << >>)})
dstu_kupyna512_hasher_finalize(hasher, handle, out) ==
    dstu_kupyna256_hasher_finalize(hasher, handle, out)

Update ==
    /\ use = "hasher" /\ last = NoCall /\ UNCHANGED use
    /\ \E handle \in Pointers, in \in Ins(Messages) :
        /\ Len(fed) + in.len <= MaxFed
        /\ \/ last' \in dstu_kupyna256_hasher_update(h, handle, in)
           \/ last' \in dstu_kupyna512_hasher_update(h, handle, in)
        /\ IF last'.st = "OK"
           THEN /\ h' = <<h[1] \o in.data>> /\ fed' = fed \o in.data
                /\ UNCHANGED <<made, failure>>
           ELSE Kept

\* Mutant: finalize leaves the hasher in the handle.
FinalizeKeepsHasher ==
    /\ use = "hasher" /\ last = NoCall /\ UNCHANGED use
    /\ \E handle \in Pointers, out \in Fixed(1) :
        /\ last' \in dstu_kupyna256_hasher_finalize(h, handle, out)
        /\ IF last'.st = "OK"
           THEN made' = Append(made, h[1]) /\ UNCHANGED <<h, fed, failure>>
           ELSE Kept

Finalize ==
    /\ use = "hasher" /\ last = NoCall /\ UNCHANGED use
    /\ \E handle \in Pointers, out \in Fixed(1) :
        /\ \/ last' \in dstu_kupyna256_hasher_finalize(h, handle, out)
           \/ last' \in dstu_kupyna512_hasher_finalize(h, handle, out)
        /\ IF last'.st = "OK"
           THEN h' = << >> /\ made' = Append(made, h[1]) /\ UNCHANGED <<fed, failure>>
           ELSE Kept

Next ==
    \/ CallKeys \/ CallSeal \/ CallOpen \/ CallBoxStream \/ CallDigest \/ CallPassword
    \/ CallBuffer \/ Forget
    \/ Push \/ Pull \/ SealChunk \/ SealFinal \/ FeedDecryptor \/ FinishDecryptor
    \/ Update \/ Finalize

Spec == Init /\ [][Next]_vars

-----------------------------------------------------------------------------
(***************************************************************************)
(* Properties.                                                             *)
(***************************************************************************)

\* No mutable slice a call holds shares a byte with another slice it holds at the
\* same time, which would be undefined behaviour in Rust: the overlap checks of
\* every function come before its slices and cover every pair it needs.
NoAliasing ==
    \A i \in DOMAIN last.outs :
        /\ \A j \in DOMAIN last.outs \ {i} : Cells(last.outs[i]) \cap Cells(last.outs[j]) = {}
        /\ last.live => \A in \in last.ins : Cells(last.outs[i]) \cap Cells(in) = {}

\* No call panics: the capacity a function asks for before it calls the core is
\* enough for whatever the core returns.
NoPanic == last.st # "PANIC"

\* A one-shot open that reports success was given exactly what the seal of that
\* same format makes of the returned plaintext under the caller's key; only the
\* unauthenticated stream opens anything.
OpensOnlyItsOwn ==
    Len(last.made) = 2 =>
        LET m == last.made[2]
            blob == (CHOOSE b \in last.ins : TRUE).data
        IN  CASE last.made[1] = "stream" -> Len(blob) = Len(m) + STREAM_OVERHEAD
              [] last.made[1] = "secretbox" ->
                     blob = SecretboxSeal("key", "nonce", m)
              [] last.made[1] = "cryptbox" -> blob = Box!seal("key", "seed", "header", m)
              [] last.made[1] = "cryptbx3" -> blob = Box384!seal("key", "seed", "header", m)
              [] last.made[1] = "cryptbx5" -> blob = Box512!seal("key", "seed", "header", m)

\* What a caller of pull accepts is what the caller of push sent, from the first
\* chunk on and in order, whatever refused calls came between.
PulledIsPushed ==
    use = "chunks" =>
        /\ Len(made) <= Len(fed)
        /\ \A i \in 1 .. Len(made) : made[i] = fed[i]

\* The records an encryptor handed out, once seal_final succeeded, open to the
\* plaintext its successful calls were given.
SealedStreamOpens ==
    (use = "encryptor" /\ h.finalized) =>
        Box!open_all(NewDecryptor(StreamKey), Prefix("header") \o made, << >>) = {Ok(fed)}

\* last_error keeps the error that failed the decryptor: the DSTU_ERR_FINALIZED of
\* later calls does not replace it.
FirstErrorKept ==
    (use = "decryptor" /\ failure # "none") =>
        dstu_secretstream_file_decryptor_last_error(h) = failure

\* A hasher gives one digest, of everything it was fed before.
DigestOnce == use = "hasher" => (Len(made) <= 1 /\ \A i \in 1 .. Len(made) : made[i] = fed)

\* No call is undefined behaviour or a panic.
CallsSafe == NoAliasing /\ NoPanic

\* Whatever calls came between, refused ones included: pull gives what was pushed,
\* a sealed stream opens to what went in, a hasher digests what it was fed, once,
\* and a failed decryptor keeps its reason.
HandlesDeliver == PulledIsPushed /\ SealedStreamOpens /\ DigestOnce /\ FirstErrorKept

\* A call refused for its arguments leaves the handle as it was, so the caller may
\* correct them and go on.
RefusedCallKeepsHandle ==
    [][last'.st \in {"NULL_POINTER", "INVALID_ARGUMENT", "BUFFER_TOO_SMALL", "INVALID_LENGTH",
                     "SKIPPED"}
         => h' = h /\ made' = made]_vars
=============================================================================
