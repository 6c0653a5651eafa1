---------------------------- MODULE CliCommands ----------------------------
(***************************************************************************)
(* What each command of uacrypt does to the file system. A run_* operator  *)
(* takes the file system, the parsed arguments and what the run meets      *)
(* outside of them, and gives the error, the file system it leaves and     *)
(* what it prints. Each lists its checks in the order of the code; the     *)
(* steps by which an output file is reserved, written beside its path and  *)
(* renamed, and what a failure between them leaves, are the module         *)
(* OutputFile, and the streaming of encrypt, decrypt, box-seal and         *)
(* box-open is the module StreamCommand.                                   *)
(*                                                                         *)
(* A file is a record whose field t says what its bytes are: a typed key   *)
(* line, some bytes, a signature, a ciphertext... A path may also hold a   *)
(* directory, a file that cannot be read, or a symbolic link.              *)
(***************************************************************************)
EXTENDS CliArgs

CONSTANTS
    Stdin,          \* what standard input holds, a file content
    Unprintable     \* paths with a control character in their name

Absent == [t |-> "none"]
Directory == [t |-> "dir"]
Link(to) == [t |-> "link", to |-> to]
Unreadable(file) == [t |-> "locked", of |-> file]
Bytes(id, len, lead) == [t |-> "bytes", v |-> [id |-> id, pub |-> "", good |-> TRUE], len |-> len, lead |-> lead]
NoBytes == Bytes(0, 0, 0)
Nothing == [t |-> "nothing"]

\* The lengths the commands tell apart: of a raw file, and of what they wrote. Any
\* other file is longer than every fixed length, no whole number of blocks, and short
\* enough for every mode.
Size(f) ==
    CASE f.t \in {"bytes", "sig", "cipher", "plain", "tag", "digest", "xor"} -> f.len
      [] OTHER -> 101

\* The first byte: the version of a stream file (2) or of a box (3), the type of a
\* passphrase file (80).
Lead(f) ==
    CASE f.t = "bytes" -> f.lead
      [] f.t = "enc" -> 2
      [] f.t = "box" -> 3
      [] f.t = "penc" -> 80
      [] OTHER -> 85

At(fs, p) == IF fs[p].t = "link" THEN fs[fs[p].to] ELSE fs[p]
IsFile(f) == f.t \notin {"none", "dir", "link", "nothing"}
CanRead(fs, p) == IsFile(At(fs, p)) /\ At(fs, p).t # "locked"
read(fs, p) == IF CanRead(fs, p) THEN "" ELSE "Io"

\* read_exact_file. A key, nonce, IV or tweak of the wrong length is WrongLengthKey
\* (exit 3), an input block, signature or tag WrongLengthData (exit 1).
read_exact_file(fs, p, len, error) ==
    FirstOf(<<read(fs, p), IF CanRead(fs, p) /\ Size(At(fs, p)) # len THEN error ELSE "">>)

\* read_key: the error, and the key when there is none.
read_key(fs, p, expected) ==
    FirstOf(<<read(fs, p), IF CanRead(fs, p) THEN read_key_error(At(fs, p), expected) ELSE "">>)
Key(fs, p) == At(fs, p)

SourceAt(fs, p) == IF p = "-" THEN Stdin ELSE At(fs, p)
open(fs, p) == IF p = "-" THEN "" ELSE read(fs, p)

(***************************************************************************)
(* Output paths.                                                           *)
(***************************************************************************)
\* canonicalize follows links and fails for what does not exist.
same_file(fs, a, b) ==
    LET final(p) == IF fs[p].t = "link" THEN fs[p].to ELSE p
    IN  /\ At(fs, a).t # "none" /\ At(fs, b).t # "none"
        /\ final(a) = final(b)

\* No output may be another output or one of the keys; stdout is neither.
check_outputs(fs, outputs, keys) ==
    LET clash(a, b) == a = b \/ same_file(fs, a, b)
    IN  IF \E i \in DOMAIN outputs :
              \/ \E j \in DOMAIN outputs : i < j /\ clash(outputs[i], outputs[j])
              \/ \E k \in keys : clash(outputs[i], k)
        THEN "SameOutputPath" ELSE ""
check_against(fs, out, keys) == IF out = "-" THEN "" ELSE check_outputs(fs, <<out>>, keys)

\* Only a regular file is looked at; a link is not followed.
refuse_key_file(fs, p) ==
    IF ~IsFile(fs[p]) THEN ""
    ELSE IF fs[p].t = "locked" THEN "OutputUncheckable"
    ELSE IF sniff_kind(fs[p]) # "none" THEN "OutputIsKeyFile" ELSE ""

IfNot(condition, error) == IF condition THEN "" ELSE error
\* randombytes_buf: the system's generator may fail.
Random(env) == IfNot(env.rng, "Random")

\* A --force that looks at nothing first.
createForceFirst(fs, p, force, env) ==
    IF force \/ fs[p].t = "none" THEN Random(env) ELSE "OutputExists"

\* OutputFile::create: the error, and the file system with the placeholder. The name
\* of the temp file beside p is drawn last (temp_path_beside).
create(fs, p, force, env) ==
    IF force THEN FirstOf(<<refuse_key_file(fs, p), Random(env)>>)
    ELSE IF fs[p].t = "none" THEN Random(env)
    ELSE IF At(fs, p).t = "dir" THEN "Io"
    ELSE FirstOf(<<refuse_key_file(fs, p), "OutputExists">>)
Reserved(fs, p, force) == IF force \/ p = "-" THEN fs ELSE [fs EXCEPT ![p] = NoBytes]

\* Output::create, and Sink::precheck, which decides the same without reserving.
Output(fs, out, force, env) ==
    IF out = "-" THEN IF env.tty THEN "BinaryToTerminal" ELSE "" ELSE create(fs, out, force, env)
precheck(fs, out, force, env) ==
    IF out = "-" THEN IF env.tty THEN "BinaryToTerminal" ELSE ""
    ELSE IF force THEN refuse_key_file(fs, out)
    ELSE IF fs[out].t = "none" THEN ""
    ELSE IF At(fs, out).t = "dir" THEN "Io"
    ELSE FirstOf(<<refuse_key_file(fs, out), "OutputExists">>)

Failed(fs, error) == [error |-> error, fs |-> fs, out |-> Nothing]
\* commit: a rename replaces a file or a link, not a directory.
Commit(fs, p, file) ==
    IF p = "-" THEN [error |-> "", fs |-> fs, out |-> file]
    ELSE IF fs[p].t = "dir" THEN Failed(fs, "Io")
    ELSE [error |-> "", fs |-> [fs EXCEPT ![p] = file], out |-> Nothing]
\* The end of a command with one output: the first failed check, or the commit.
Finish(fs, errors, p, file) ==
    IF FirstOf(errors) # "" THEN Failed(fs, FirstOf(errors)) ELSE Commit(fs, p, file)

\* write_new_key_file and write_key_output: an existing path is never replaced, and
\* create_new sees a link as existing.
write_new_key_file(fs, p) ==
    IF fs[p].t = "none" THEN "" ELSE "KeyFileExists"
write_key_output(fs, p) == IF p = "-" THEN "" ELSE write_new_key_file(fs, p)

(***************************************************************************)
(* Keys: keygen, sign-keygen, sign-keygen257, box-keygen*, sign-pubkey,    *)
(* box-pubkey and key-import.                                              *)
(***************************************************************************)
run_keygen(fs, s, env, kind) ==
    Finish(fs, <<Random(env), write_new_key_file(fs, Value(s, "--out"))>>,
           Value(s, "--out"), encode(kind, KeyBytes(env.fresh)))

SigningKinds == {"sign163secret", "sign257secret"}
BoxSecretKinds == {"box256secret", "box384secret", "box512secret"}
BoxPublicKinds == {"box256public", "box384public", "box512public"}

\* read_signing_key and read_box_secret_key, read_box_public_key: the typed line may
\* still hold bytes that are no scalar or no point.
ReadUsable(fs, p, kinds, error) ==
    FirstOf(<<read_key(fs, p, kinds),
              IF read_key(fs, p, kinds) = "" THEN IfNot(Key(fs, p).key.good, error) ELSE "">>)
read_signing_key(fs, p) == ReadUsable(fs, p, SigningKinds, "SignKeyInvalid")
read_box_secret_key(fs, p) == ReadUsable(fs, p, BoxSecretKinds, "BoxKeyInvalid")
read_box_public_key(fs, p) == ReadUsable(fs, p, BoxPublicKinds, "BoxKeyInvalid")

\* verifying_key_line and public_key_line.
PublicLine(line) == encode(PublicHalf(line.kind), PublicKey(line.kind, line.key))

run_pubkey(fs, s, error) ==
    LET k == Value(s, "--key") out == Value(s, "--out")
        e == FirstOf(<<error, write_key_output(fs, out)>>)
    IN  IF e # "" THEN Failed(fs, e) ELSE Commit(fs, out, PublicLine(Key(fs, k)))
run_sign_pubkey_command(fs, s) == run_pubkey(fs, s, read_signing_key(fs, Value(s, "--key")))
run_box_pubkey_command(fs, s) == run_pubkey(fs, s, read_box_secret_key(fs, Value(s, "--key")))

\* The raw length and the curve byte of a 0.4 key file, 0 when it has none.
raw_key_layout(kind) ==
    CASE kind = "sign163public" -> [len |-> 43, curve |-> 1]
      [] kind = "sign257public" -> [len |-> 67, curve |-> 2]
      [] OTHER -> [len |-> key_len(kind), curve |-> 0]

validate_imported_key(kind, key) ==
    CASE kind \in {"symmetric", "sign163public", "sign257public"} -> ""
      [] kind \in SigningKinds -> IfNot(key.good, "SignKeyInvalid")
      [] OTHER -> IfNot(key.good, "BoxKeyInvalid")

\* Only raw bytes have a raw length; a file of another kind has another length.
run_key_import_command(fs, s) ==
    LET kind == Value(s, "--kind") p == Value(s, "--in") out == Value(s, "--out")
        layout == raw_key_layout(kind)
        raw == At(fs, p)
        wrong == read_exact_file(fs, p, layout.len, "WrongLengthKey")
        key == IF raw.t = "bytes" THEN raw.v ELSE KeyBytes(0)
        e == FirstOf(<<wrong, IfNot(layout.curve \in {0, Lead(raw)}, "KeyImportCurveByte"),
                       validate_imported_key(kind, key), write_key_output(fs, out)>>)
    IN  IF e # "" THEN Failed(fs, e) ELSE Commit(fs, out, encode(kind, key))

(***************************************************************************)
(* sign, verify, hash.                                                     *)
(***************************************************************************)
Force(s) == bool_flag(s, "--force")
\* A command that needs more than one pass benchmarks: iterations.max(1) times the
\* same operation on the same input.
Benchmark(s) == Iterations(s) > 1

sign_digest(line, message) ==
    [t |-> "sig", by |-> PublicKey(line.kind, line.key), of |-> message,
     len |-> IF line.kind = "sign163secret" THEN 42 ELSE 66]

\* The input is read after the output is reserved.
run_sign_command(fs, s, env) ==
    LET k == Value(s, "--key") in == Value(s, "--in") out == Value(s, "--out")
        reserved == Reserved(fs, out, Force(s))
        e == FirstOf(<<read_signing_key(fs, k), check_against(fs, out, {k}),
                       Output(fs, out, Force(s), env)>>)
    IN  IF e # "" THEN Failed(fs, e)
        ELSE IF open(reserved, in) # "" THEN Failed(fs, open(reserved, in))
        ELSE Commit(fs, out, sign_digest(Key(fs, k), SourceAt(reserved, in)))

read_verifying_key(fs, p) == read_key(fs, p, {"sign163public", "sign257public"})
signature_len(line) == IF line.kind = "sign163public" THEN 42 ELSE 66

verify_digest(line, message, sig) ==
    /\ sig.t = "sig"
    /\ sig.by = line.key /\ sig.by.pub = line.kind
    /\ sig.of = message

\* A file longer than any signature is refused before --in is read, a shorter one of
\* the wrong length after it.
run_verify_command(fs, s) ==
    LET k == Value(s, "--key") in == Value(s, "--in") p == Value(s, "--sig")
        early == FirstOf(<<read_verifying_key(fs, k), read(fs, p)>>)
        e == FirstOf(<<early,
                       IF early = "" THEN IfNot(Size(At(fs, p)) <= 66, "WrongLengthData") ELSE "",
                       open(fs, in)>>)
    IN  IF e # "" THEN Failed(fs, e)
        ELSE IF Size(At(fs, p)) # signature_len(Key(fs, k)) THEN Failed(fs, "WrongLengthData")
        ELSE Failed(fs, IfNot(verify_digest(Key(fs, k), SourceAt(fs, in), At(fs, p)),
                              "SignVerifyFailed"))

\* parse_check_list: all lines or none.
parse_check_list(list) ==
    IF Size(list) = 0 THEN "HashCheckEmpty"
    ELSE IF list.t # "list" THEN "HashCheckMalformed"
    ELSE CASE list.form = "utf16" -> "HashCheckUtf16"
           [] list.form = "huge" -> "HashCheckTooLarge"
           [] list.form = "badline" -> "HashCheckMalformed"
           [] OTHER -> ""

check_list_entry_is_local_file(fs, p) == IsFile(At(fs, p))

EntryOk(fs, entry) ==
    /\ entry.path # "-"
    /\ check_list_entry_is_local_file(fs, entry.path)
    /\ open(fs, entry.path) = ""
    /\ SourceAt(fs, entry.path) = entry.of

run_hash_check(fs, p) ==
    LET list == SourceAt(fs, p)
        e == FirstOf(<<open(fs, p), IF open(fs, p) = "" THEN parse_check_list(list) ELSE "">>)
    IN  IF e # "" THEN Failed(fs, e)
        ELSE IF \E i \in DOMAIN list.lines : ~EntryOk(fs, list.lines[i])
        THEN Failed(fs, "HashCheckFailed")
        ELSE Failed(fs, "")

run_hash_command(fs, s) ==
    IF Given(s, "--check") THEN run_hash_check(fs, Value(s, "--check"))
    ELSE LET in == Value(s, "--in")
         IN  Finish(fs, <<IfNot(in \notin Unprintable, "HashPathUnprintable"), open(fs, in)>>, "-",
                    [t |-> "list", form |-> "good", lines |-> <<[of |-> SourceAt(fs, in), path |-> in]>>])

(***************************************************************************)
(* encrypt, decrypt, box-seal and box-open, of whole inputs.               *)
(***************************************************************************)
\* parse_file: one line of text, without a byte-order mark and its line end. A typed
\* key line is text as well.
Phrase(file) ==
    IF file.t = "text" THEN [words |-> file.words, key |-> 0]
    ELSE [words |-> file.kind, key |-> file.key.id]
parse_file(file) ==
    IfNot(file.t \in {"text", "line"} /\ file.ending # "lf lf"
          /\ (file.t = "text" => file.words # ""), "PassphraseFileInvalid")
read_passphrase(fs, p) ==
    FirstOf(<<read(fs, p), IF CanRead(fs, p) THEN parse_file(At(fs, p)) ELSE "">>)

\* The terminal gives env.typed; "" is no terminal to ask on.
Credential(fs, s) ==
    IF Given(s, "--key") THEN Value(s, "--key")
    ELSE IF Given(s, "--passphrase-file") THEN Value(s, "--passphrase-file") ELSE "-"
CredentialError(fs, s) ==
    IF Given(s, "--key") THEN read_key(fs, Value(s, "--key"), {"symmetric"})
    ELSE IF Given(s, "--passphrase-file") THEN read_passphrase(fs, Value(s, "--passphrase-file"))
    ELSE ""
Prompted(s, env) ==
    IF Given(s, "--key") \/ Given(s, "--passphrase-file") \/ env.typed # "" THEN ""
    ELSE "PassphraseNoTerminal"
PhraseOf(fs, s, env) ==
    IF Given(s, "--passphrase-file") THEN Phrase(At(fs, Value(s, "--passphrase-file")))
    ELSE [words |-> env.typed, key |-> 0]

run_secretstream_encrypt(fs, s, env) ==
    LET in == Value(s, "--in") out == Value(s, "--out")
        message == SourceAt(fs, in)
        errors == <<open(fs, in), Prompted(s, env), Random(env), Output(fs, out, Force(s), env)>>
    IN  Finish(fs, errors, out,
               IF Given(s, "--key") THEN [t |-> "enc", key |-> Key(fs, Value(s, "--key")).key, of |-> message]
               ELSE [t |-> "penc", phrase |-> PhraseOf(fs, s, env), of |-> message])

\* The first byte decides with the credential; then the prompt, the output, the records.
ByFirstByte(s, file, env) ==
    IF Size(file) = 0 THEN "SecretstreamTruncated"
    ELSE IF Lead(file) = 80
    THEN IF Given(s, "--key") THEN "DecryptKeyForPassphraseFile"
         ELSE IF file.t # "penc" THEN "SecretstreamTruncated" ELSE Prompted(s, env)
    ELSE IF Given(s, "--key") THEN ""
    ELSE IF Lead(file) = 2 THEN "DecryptNeedsKey" ELSE "SecretstreamUnsupportedVersion"

Records(fs, s, file, env) ==
    IF Given(s, "--key")
    THEN IF Lead(file) # 2 THEN "SecretstreamUnsupportedVersion"
         ELSE IF file.t # "enc" THEN "SecretstreamTruncated"
         ELSE IfNot(file.key = Key(fs, Value(s, "--key")).key, "SecretstreamVerifyFailed")
    ELSE IfNot(file.phrase = PhraseOf(fs, s, env), "PassphraseWrong")

run_secretstream_decrypt(fs, s, env) ==
    LET in == Value(s, "--in") out == Value(s, "--out")
        e == FirstOf(<<open(fs, in), IF open(fs, in) = "" THEN ByFirstByte(s, SourceAt(fs, in), env) ELSE "",
                       Output(fs, out, Force(s), env)>>)
        broken == Records(fs, s, SourceAt(fs, in), env)
    IN  IF e # "" THEN Failed(fs, e)
        ELSE IF broken # "" THEN Failed(fs, broken)
        ELSE Commit(fs, out, SourceAt(fs, in).of)

run_secretstream_command(fs, s, env, decrypt) ==
    LET out == Value(s, "--out")
        e == FirstOf(<<CredentialError(fs, s),
                       check_against(fs, out, {Credential(fs, s)} \ {"-"}),
                       precheck(fs, out, Force(s), env)>>)
    IN  IF e # "" THEN Failed(fs, e)
        ELSE IF decrypt THEN run_secretstream_decrypt(fs, s, env)
        ELSE run_secretstream_encrypt(fs, s, env)

Sealed(line, message) == [t |-> "box", to |-> line.key, curve |-> line.kind, of |-> message]

\* The benchmark reserves the output before it reads --in; the command itself prechecks.
run_box_seal_command(fs, s, env) ==
    LET k == Value(s, "--key") in == Value(s, "--in") out == Value(s, "--out")
        reserved == Reserved(fs, out, Force(s))
        e == FirstOf(<<read_box_public_key(fs, k), check_against(fs, out, {k}),
                       Output(fs, out, Force(s), env)>>)
        from == IF Benchmark(s) THEN reserved ELSE fs
    IN  IF e # "" THEN Failed(fs, e)
        ELSE IF FirstOf(<<open(from, in), Random(env)>>) # ""
        THEN Failed(fs, FirstOf(<<open(from, in), Random(env)>>))
        ELSE Commit(fs, out, Sealed(Key(fs, k), SourceAt(from, in)))

\* open, and open_stream with the records behind it: the length and the version, then the key.
BoxOpens(line, file) ==
    IF Size(file) = 0 THEN "BoxOpenTruncated"
    ELSE IF Lead(file) # 3 THEN "BoxOpenUnsupportedVersion"
    ELSE IF file.t # "box" THEN "BoxOpenTruncated"
    ELSE IfNot(/\ file.to = PublicKey(line.kind, line.key)
               /\ file.curve = PublicHalf(line.kind), "BoxOpenFailed")

run_box_open_command(fs, s, env) ==
    LET k == Value(s, "--key") in == Value(s, "--in") out == Value(s, "--out")
        reserved == Reserved(fs, out, Force(s))
        e == FirstOf(<<read_box_secret_key(fs, k), check_against(fs, out, {k}),
                       Output(fs, out, Force(s), env)>>)
        from == IF Benchmark(s) THEN reserved ELSE fs
    IN  IF e # "" THEN Failed(fs, e)
        ELSE IF open(from, in) # "" THEN Failed(fs, open(from, in))
        ELSE IF BoxOpens(Key(fs, k), SourceAt(from, in)) # ""
        THEN Failed(fs, BoxOpens(Key(fs, k), SourceAt(from, in)))
        ELSE Commit(fs, out, SourceAt(from, in).of)

(***************************************************************************)
(* The hazmat commands. What a primitive makes of a file is a term of the  *)
(* mode, the variant, the contents of the key, nonce and associated data   *)
(* files, and the input; the inverse operation with the same parameters    *)
(* takes the term apart, and with others gives another term.               *)
(***************************************************************************)
block_len(v) ==
    CASE v \in {"128-128", "128-256"} -> 16 [] v \in {"256-256", "256-512"} -> 32 [] v = "512-512" -> 64
variant_key_len(v) ==
    CASE v = "128-128" -> 16 [] v \in {"128-256", "256-256"} -> 32 [] v \in {"256-512", "512-512"} -> 64
ccm_tag_len(v) ==
    CASE v \in {"128-128", "128-256", "256-256"} -> 16 [] v = "256-512" -> 32 [] v = "512-512" -> 64

Variant(s) == Value(s, "--variant")
FileOf(fs, s, flag) == IF Given(s, flag) THEN At(fs, Value(s, flag)) ELSE NoBytes
Terms(fs, s, mode, iv) ==
    [mode |-> mode, variant |-> Variant(s), key |-> FileOf(fs, s, "--key"), iv |-> iv]
\* Of nothing, every cipher makes nothing.
Term(t, terms, of, len) ==
    IF len = 0 THEN NoBytes ELSE [t |-> t, with |-> terms, of |-> of, len |-> len]

\* A permutation of the inputs under the same parameters, and its inverse.
Forward(terms, f) ==
    IF f.t = "plain" THEN IF f.with = terms THEN f.of ELSE Term("cipher", terms, f, Size(f))
    ELSE Term("cipher", terms, f, Size(f))
Backward(terms, f) ==
    IF f.t = "cipher" THEN IF f.with = terms THEN f.of ELSE Term("plain", terms, f, Size(f))
    ELSE Term("plain", terms, f, Size(f))

read_variant_key(fs, s) ==
    read_exact_file(fs, Value(s, "--key"), variant_key_len(Variant(s)), "WrongLengthKey")

\* One input, one output, reserved after the keys are read and before the input is.
OneOutput(fs, s, env, keys, before, after(_), result(_)) ==
    LET in == Value(s, "--in") out == Value(s, "--out")
        from == Reserved(fs, out, Force(s))
        e == FirstOf(before \o <<check_outputs(fs, <<out>>, keys), create(fs, out, Force(s), env)>>)
    IN  IF e # "" THEN Failed(fs, e)
        ELSE IF read(from, in) # "" THEN Failed(fs, "Io")
        ELSE IF after(At(from, in)) # "" THEN Failed(fs, after(At(from, in)))
        ELSE Commit(fs, out, result(At(from, in)))

run_block_command(fs, s, env, decrypt) ==
    LET terms == Terms(fs, s, "kalyna-block", NoBytes)
    IN  OneOutput(fs, s, env, {Value(s, "--key")}, <<read_variant_key(fs, s)>>,
                  LAMBDA f : IfNot(Size(f) = block_len(Variant(s)), "WrongLengthData"),
                  LAMBDA f : IF decrypt THEN Backward(terms, f) ELSE Forward(terms, f))

run_xts_command(fs, s, env, decrypt) ==
    LET terms == Terms(fs, s, "kalyna-xts", FileOf(fs, s, "--tweak"))
        tweak == read_exact_file(fs, Value(s, "--tweak"), block_len(Variant(s)), "WrongLengthKey")
    IN  OneOutput(fs, s, env, {Value(s, "--key"), Value(s, "--tweak")}, <<read_variant_key(fs, s), tweak>>,
                  LAMBDA f : IfNot(Size(f) >= block_len(Variant(s)), "XtsInvalidLength"),
                  LAMBDA f : IF decrypt THEN Backward(terms, f) ELSE Forward(terms, f))

\* The blocks of a key that can be wrapped (kalyna_kw.rs).
MAX_R == 20
\* Wrapping adds one block, and unwrapping checks it.
run_kw_command(fs, s, env, unwrap) ==
    LET terms == Terms(fs, s, "kalyna-kw", NoBytes)
        block == block_len(Variant(s))
        extra == IF unwrap THEN 1 ELSE 0
        blocks(f) == Size(f) % block = 0 /\ (Size(f) \div block) - extra \in 1 .. MAX_R
        ours(f) == IF f.t = "cipher" THEN f.with = terms ELSE FALSE
    IN  OneOutput(fs, s, env, {Value(s, "--key")}, <<read_variant_key(fs, s)>>,
                  LAMBDA f : IF ~blocks(f) THEN "KwInvalidLength"
                             ELSE IfNot(~unwrap \/ ours(f), "KwChecksumMismatch"),
                  LAMBDA f : IF unwrap THEN f.of ELSE Term("cipher", terms, f, Size(f) + block))

\* The digest has no key, and streams or benchmarks to the same result.
run_digest_command(fs, s, env) ==
    OneOutput(fs, s, env, {}, <<>>, LAMBDA f : "",
              LAMBDA f : [t |-> "digest", of |-> f, len |-> IF Variant(s) = "256" THEN 32 ELSE 64])

\* Strumok adds keystream: the one command applies segment 1; the benchmark goes on
\* with the next segment in every pass, or starts over with --raw-schedule.
Xor(f, segments) ==
    LET base == IF f.t = "xor" THEN f.of ELSE f
        old == IF f.t = "xor" THEN f.segments ELSE {}
        new == (old \ segments) \union (segments \ old)
    IN  IF new = {} THEN base ELSE [t |-> "xor", of |-> base, segments |-> new, len |-> Size(base)]

run_strumok_command(fs, s, env) ==
    LET len == IF Variant(s) = "256" THEN 32 ELSE 64
        key == read_exact_file(fs, Value(s, "--key"), len, "WrongLengthKey")
        iv == read_exact_file(fs, Value(s, "--iv"), 32, "WrongLengthKey")
        passes == IF bool_flag(s, "--raw-schedule") \/ ~Benchmark(s) THEN 1 ELSE Iterations(s)
        segments == {<<FileOf(fs, s, "--key"), FileOf(fs, s, "--iv"), n>> : n \in 1 .. passes}
    IN  OneOutput(fs, s, env, {Value(s, "--key"), Value(s, "--iv")}, <<key, iv>>, LAMBDA f : "",
                  LAMBDA f : IF Size(f) = 0 THEN f ELSE Xor(f, segments))

\* A tag that forgets the associated data.
TagNoAad(terms, aad, cipher, len) ==
    [t |-> "tag", with |-> terms, aad |-> NoBytes, of |-> cipher, len |-> len]

\* The tag covers the associated data and the ciphertext; the caller checks its length.
Tag(terms, aad, cipher, len) == [t |-> "tag", with |-> terms, aad |-> aad, of |-> cipher, len |-> len]

\* All the outputs are reserved before anything but the key is read.
reserve_aead_outputs(fs, s, env, decrypt) ==
    LET key == Value(s, "--key") nonce == Value(s, "--nonce") tag == Value(s, "--tag")
        out == Value(s, "--out")
        new(p) == create(fs, p, Force(s), env)
    IN  IF decrypt THEN FirstOf(<<check_outputs(fs, <<out>>, {key, nonce, tag}), new(out)>>)
        ELSE FirstOf(<<check_outputs(fs, <<nonce, out, tag>>, {key}), new(out), new(nonce), new(tag)>>)

\* What seal_in_place and open_in_place refuse for its length: CCM an empty text and
\* more than 255 bytes of either part, GCM nothing but two empty parts.
AeadLengths(mode, aad, f) ==
    IF mode = "kalyna-ccm"
    THEN FirstOf(<<IfNot(Size(f) > 0, "EmptyInput"), IfNot(Size(f) <= 255, "PlaintextTooLong"),
                   IfNot(Size(aad) <= 255, "AadTooLong")>>)
    ELSE IfNot(Size(f) > 0 \/ Size(aad) > 0, "EmptyInput")

\* run_ccm_command and run_gcm_command, encrypting: three commits one after the other,
\* and the ones before a failed one stay.
run_aead_encrypt(fs, s, env, mode) ==
    LET out == Value(s, "--out") tag == Value(s, "--tag") nonce == Value(s, "--nonce")
        from == Reserved(Reserved(Reserved(fs, out, Force(s)), nonce, Force(s)), tag, Force(s))
        iv == Bytes(env.fresh, block_len(Variant(s)), 85)
        aad == FileOf(from, s, "--aad")
        in == At(from, Value(s, "--in"))
        e == FirstOf(<<read_variant_key(fs, s), reserve_aead_outputs(fs, s, env, FALSE), Random(env),
                       IF Given(s, "--aad") THEN read(from, Value(s, "--aad")) ELSE "",
                       read(from, Value(s, "--in"))>>)
        cipher == Term("cipher", Terms(fs, s, mode, iv), in, Size(in))
        len == IF mode = "kalyna-ccm" THEN ccm_tag_len(Variant(s)) ELSE block_len(Variant(s))
        first == Commit(fs, out, cipher)
        second == Commit(first.fs, tag, Tag(Terms(fs, s, mode, iv), aad, cipher, len))
    IN  IF e # "" THEN Failed(fs, e)
        ELSE IF AeadLengths(mode, aad, in) # "" THEN Failed(fs, AeadLengths(mode, aad, in))
        ELSE IF first.error # "" THEN first
        ELSE IF second.error # "" THEN second
        ELSE Commit(second.fs, nonce, iv)

run_aead_decrypt(fs, s, env, mode) ==
    LET out == Value(s, "--out")
        from == Reserved(fs, out, Force(s))
        aad == FileOf(from, s, "--aad")
        in == At(from, Value(s, "--in"))
        len == IF mode = "kalyna-ccm" THEN ccm_tag_len(Variant(s)) ELSE block_len(Variant(s))
        e == FirstOf(<<read_variant_key(fs, s), reserve_aead_outputs(fs, s, env, TRUE),
                       read_exact_file(from, Value(s, "--nonce"), block_len(Variant(s)), "WrongLengthKey"),
                       IF Given(s, "--aad") THEN read(from, Value(s, "--aad")) ELSE "",
                       read(from, Value(s, "--in")),
                       read_exact_file(from, Value(s, "--tag"), len, "WrongLengthData")>>)
        terms == Terms(fs, s, mode, FileOf(fs, s, "--nonce"))
    IN  IF e # "" THEN Failed(fs, e)
        ELSE IF AeadLengths(mode, aad, in) # "" THEN Failed(fs, AeadLengths(mode, aad, in))
        ELSE IF FileOf(fs, s, "--tag") # Tag(terms, aad, in, len)
        THEN Failed(fs, IF mode = "kalyna-ccm" THEN "CcmVerifyFailed" ELSE "GcmVerifyFailed")
        ELSE Commit(fs, out, Backward(terms, in))

run_aead_command(fs, s, env, mode, decrypt) ==
    IF decrypt THEN run_aead_decrypt(fs, s, env, mode) ELSE run_aead_encrypt(fs, s, env, mode)

\* compute reserves --out before it reads --in; verify asks for --tag after it.
run_gmac_command(fs, s, env, verify) ==
    LET key == Value(s, "--key") out == Value(s, "--out") in == Value(s, "--in")
        tag == FileOf(fs, s, "--tag")
        from == IF verify THEN fs ELSE Reserved(fs, out, Force(s))
        mac(f) == Tag(Terms(fs, s, "kalyna-gmac", NoBytes), NoBytes, f, block_len(Variant(s)))
        made == IF verify THEN ""
                ELSE IF ~Given(s, "--out") THEN "MissingFlag"
                ELSE FirstOf(<<check_outputs(fs, <<out>>, {key}), create(fs, out, Force(s), env)>>)
        e == FirstOf(<<read_variant_key(fs, s), made>>)
        tagError == IF ~verify THEN "" ELSE IF ~Given(s, "--tag") THEN "MissingFlag"
                    ELSE read(fs, Value(s, "--tag"))
    IN  IF e # "" THEN Failed(fs, e)
        ELSE IF FirstOf(<<read(from, in), tagError>>) # "" THEN Failed(fs, FirstOf(<<read(from, in), tagError>>))
        ELSE IF verify /\ Size(tag) \notin 8 .. block_len(Variant(s)) THEN Failed(fs, "GmacVerifyFailed")
        ELSE IF Size(At(from, in)) = 0 THEN Failed(fs, "EmptyInput")
        ELSE IF verify THEN Failed(fs, IfNot(tag = mac(At(from, in)), "GmacVerifyFailed"))
        ELSE Commit(fs, out, mac(At(from, in)))

(***************************************************************************)
(* Dispatch. Only words without dashes name a command; help texts are told *)
(* apart by the command they are about.                                    *)
(***************************************************************************)
COMMANDS ==
    ("keygen" :> OUT_ONLY_FLAGS) @@ ("encrypt" :> ENCRYPT_FLAGS) @@ ("decrypt" :> DECRYPT_FLAGS)
    @@ ("hash" :> HASH_FLAGS) @@ ("sign-keygen" :> OUT_ONLY_FLAGS) @@ ("sign-pubkey" :> PUBKEY_FLAGS)
    @@ ("sign" :> SIGN_FLAGS) @@ ("verify" :> VERIFY_FLAGS) @@ ("sign-keygen257" :> OUT_ONLY_FLAGS)
    @@ ("box-keygen" :> OUT_ONLY_FLAGS) @@ ("box-pubkey" :> PUBKEY_FLAGS) @@ ("box-seal" :> SIGN_FLAGS)
    @@ ("box-open" :> SIGN_FLAGS) @@ ("box-keygen384" :> OUT_ONLY_FLAGS)
    @@ ("box-keygen512" :> OUT_ONLY_FLAGS) @@ ("key-import" :> KEY_IMPORT_FLAGS)
    @@ ("hazmat" :> NO_FLAGS) @@ ("completions" :> NO_FLAGS) @@ ("man" :> NO_FLAGS)
HAZMAT_COMMANDS ==
    ("kalyna-block" :> BLOCK_FLAGS) @@ ("kalyna-ccm" :> KALYNA_AEAD_FLAGS)
    @@ ("kalyna-gcm" :> KALYNA_AEAD_FLAGS) @@ ("kalyna-gmac" :> GMAC_FLAGS)
    @@ ("kalyna-kw" :> KW_FLAGS) @@ ("kalyna-xts" :> XTS_FLAGS)
    @@ ("kupyna-digest" :> DIGEST_FLAGS) @@ ("strumok-crypt" :> STRUMOK_FLAGS)
HAZMAT_NAMES == DOMAIN HAZMAT_COMMANDS
SHELLS == {"bash", "zsh", "fish", "powershell"}
REMOVED_COMMANDS == {"sign-pubkey257", "sign257", "box-pubkey512", "box-seal512", "box-open512"}

subcommands(cmd) ==
    CASE cmd = "hazmat" -> HAZMAT_NAMES
      [] cmd = "completions" -> SHELLS
      [] cmd \in {"kalyna-block", "kalyna-ccm", "kalyna-gcm", "kalyna-xts"} -> {"encrypt", "decrypt"}
      [] cmd = "kalyna-gmac" -> {"compute", "verify"}
      [] cmd = "kalyna-kw" -> {"wrap", "unwrap"}
      [] OTHER -> {}

is_help_flag(a) == a \in {Flag("--help"), Dash("-h")}
is_version_flag(a) == a \in {Flag("--version"), Dash("-V")}
AsksHelp(args) == \E i \in DOMAIN args : is_help_flag(args[i])
Helped(fs, about) == [error |-> "", fs |-> fs, out |-> [t |-> "help", about |-> about]]

unknown_command(cmd) ==
    CASE cmd = "kalyna-cmac" -> "RemovedForgeableCmac"
      [] cmd \in HAZMAT_NAMES -> "MovedToHazmat"
      [] cmd \in REMOVED_COMMANDS -> "RemovedCommand"
      [] OTHER -> "UnknownCommand"

\* "check --help once, then parse and run".
dispatch_simple(fs, cmd, args, parsed, result(_)) ==
    IF AsksHelp(args) THEN Helped(fs, cmd)
    ELSE IF parsed.error # "" THEN Failed(fs, parsed.error)
    ELSE result(parsed)

dispatch_sign_command(fs, cmd, rest, env) ==
    LET simple(parsed, result(_)) == dispatch_simple(fs, cmd, rest, parsed, result)
    IN  CASE cmd = "sign-keygen" ->
               simple(parse_keygen_args(rest), LAMBDA s : run_keygen(fs, s, env, "sign163secret"))
          [] cmd = "sign-keygen257" ->
               simple(parse_keygen_args(rest), LAMBDA s : run_keygen(fs, s, env, "sign257secret"))
          [] cmd = "sign-pubkey" ->
               simple(parse_pubkey_args(rest), LAMBDA s : run_sign_pubkey_command(fs, s))
          [] cmd = "sign" -> simple(parse_sign_args(rest), LAMBDA s : run_sign_command(fs, s, env))
          [] OTHER -> simple(parse_verify_args(rest), LAMBDA s : run_verify_command(fs, s))

dispatch_box_command(fs, cmd, rest, env) ==
    LET simple(parsed, result(_)) == dispatch_simple(fs, cmd, rest, parsed, result)
        kind == CASE cmd = "box-keygen" -> "box256secret"
                  [] cmd = "box-keygen384" -> "box384secret"
                  [] OTHER -> "box512secret"
    IN  CASE cmd \in {"box-keygen", "box-keygen384", "box-keygen512"} ->
               simple(parse_keygen_args(rest), LAMBDA s : run_keygen(fs, s, env, kind))
          [] cmd = "box-pubkey" ->
               simple(parse_pubkey_args(rest), LAMBDA s : run_box_pubkey_command(fs, s))
          [] cmd = "box-seal" ->
               simple(parse_sign_args(rest), LAMBDA s : run_box_seal_command(fs, s, env))
          [] OTHER -> simple(parse_sign_args(rest), LAMBDA s : run_box_open_command(fs, s, env))

\* The modes with a subcommand, dispatch_kalyna_mode's four and the two before them.
dispatch_kalyna_mode(fs, cmd, rest, env) ==
    LET sub == rest[1].name
        args == Tail(rest)
        back == sub \in {"decrypt", "verify", "unwrap"}
        simple(parsed, result(_)) == dispatch_simple(fs, cmd, rest, parsed, result)
    IN  IF AsksHelp(rest) THEN Helped(fs, cmd)
        ELSE IF rest = <<>> THEN Failed(fs, "MissingSubcommand")
        ELSE IF rest[1] # Word(sub) \/ sub \notin subcommands(cmd) THEN Failed(fs, "UnknownCommand")
        ELSE CASE cmd = "kalyna-block" ->
                    simple(parse_block_args(args), LAMBDA s : run_block_command(fs, s, env, back))
               [] cmd = "kalyna-ccm" ->
                    simple(parse_aead_args(args), LAMBDA s : run_aead_command(fs, s, env, cmd, back))
               [] cmd = "kalyna-gcm" ->
                    simple(parse_aead_args(args), LAMBDA s : run_aead_command(fs, s, env, cmd, back))
               [] cmd = "kalyna-gmac" ->
                    simple(parse_gmac_args(args), LAMBDA s : run_gmac_command(fs, s, env, back))
               [] cmd = "kalyna-kw" -> simple(parse_kw_args(args), LAMBDA s : run_kw_command(fs, s, env, back))
               [] OTHER -> simple(parse_xts_args(args), LAMBDA s : run_xts_command(fs, s, env, back))

run_hazmat_command(fs, args, env) ==
    IF args = <<>> THEN Helped(fs, "hazmat")
    ELSE IF is_help_flag(args[1]) THEN Helped(fs, "hazmat")
    ELSE LET cmd == args[1].name
             rest == Tail(args)
         IN  CASE cmd = "kupyna-digest" ->
                    dispatch_simple(fs, cmd, rest, parse_digest_args(rest), LAMBDA s : run_digest_command(fs, s, env))
               [] cmd = "strumok-crypt" ->
                    dispatch_simple(fs, cmd, rest, parse_strumok_args(rest), LAMBDA s : run_strumok_command(fs, s, env))
               [] cmd \in HAZMAT_NAMES \ {"kupyna-digest", "strumok-crypt"} ->
                    dispatch_kalyna_mode(fs, cmd, rest, env)
               [] cmd = "kalyna-cmac" -> Failed(fs, "RemovedForgeableCmac")
               [] OTHER -> Failed(fs, "UnknownCommand")

run_help_command(fs, rest) ==
    IF rest = <<>> THEN Helped(fs, "")
    ELSE IF Len(rest) > 1 THEN Failed(fs, "UnexpectedArgument")
    ELSE IF is_help_flag(rest[1]) \/ rest[1] = Word("help") THEN Helped(fs, "")
    ELSE IF rest[1].name \in DOMAIN COMMANDS THEN Helped(fs, rest[1].name)
    ELSE Failed(fs, unknown_command(rest[1].name))

run_completions_command(fs, rest) ==
    IF AsksHelp(rest) THEN Helped(fs, "completions")
    ELSE IF rest = <<>> THEN Failed(fs, "MissingSubcommand")
    ELSE IF Len(rest) > 1 THEN Failed(fs, "UnexpectedArgument")
    ELSE IF rest[1].name \notin SHELLS THEN Failed(fs, "UnknownCommand")
    ELSE [error |-> "", fs |-> fs, out |-> [t |-> "script", about |-> rest[1].name]]

run_man_command(fs, rest) ==
    IF AsksHelp(rest) THEN Helped(fs, "man")
    ELSE IF rest # <<>> THEN Failed(fs, "UnexpectedArgument")
    ELSE [error |-> "", fs |-> fs, out |-> [t |-> "page", about |-> "uacrypt"]]

run(fs, args, env) ==
    IF args = <<>> THEN Helped(fs, "")
    ELSE IF is_help_flag(args[1]) THEN Helped(fs, "")
    ELSE IF is_version_flag(args[1]) THEN Helped(fs, "version")
    ELSE LET cmd == args[1].name
             rest == Tail(args)
             simple(parsed, result(_)) == dispatch_simple(fs, cmd, rest, parsed, result)
         IN  CASE cmd = "hazmat" -> run_hazmat_command(fs, rest, env)
               [] cmd = "hash" -> simple(parse_hash_args(rest), LAMBDA s : run_hash_command(fs, s))
               [] cmd = "keygen" ->
                    simple(parse_keygen_args(rest), LAMBDA s : run_keygen(fs, s, env, "symmetric"))
               [] cmd = "encrypt" ->
                    simple(parse_encrypt_args(rest), LAMBDA s : run_secretstream_command(fs, s, env, FALSE))
               [] cmd = "decrypt" ->
                    simple(parse_decrypt_args(rest), LAMBDA s : run_secretstream_command(fs, s, env, TRUE))
               [] cmd \in {"sign-keygen", "sign-keygen257", "sign-pubkey", "sign", "verify"} ->
                    dispatch_sign_command(fs, cmd, rest, env)
               [] cmd \in {"box-keygen", "box-keygen384", "box-keygen512", "box-pubkey", "box-seal", "box-open"} ->
                    dispatch_box_command(fs, cmd, rest, env)
               [] cmd = "key-import" ->
                    simple(parse_key_import_args(rest), LAMBDA s : run_key_import_command(fs, s))
               [] cmd = "help" -> run_help_command(fs, rest)
               [] cmd = "completions" -> run_completions_command(fs, rest)
               [] cmd = "man" -> run_man_command(fs, rest)
               [] OTHER -> Failed(fs, unknown_command(cmd))

\* Every wrong length counted as a bad key file.
WrongLengthCodeOne(error) == 3
\* WrongLength: a key, nonce, tweak or IV is the file's fault, the rest is data.
WrongLengthCode(error) == IF error = "WrongLengthKey" THEN 3 ELSE 1

\* exit_code, and 0 for success (main). StdoutIncomplete has the code of the error in it.
exit_code(error) ==
    CASE error = "" -> 0
      [] error \in {"WrongLengthKey", "WrongLengthData"} -> WrongLengthCode(error)
      [] error \in {"EmptyInput", "PlaintextTooLong", "AadTooLong", "CcmVerifyFailed", "GcmVerifyFailed",
                    "GmacVerifyFailed", "KwInvalidLength", "KwChecksumMismatch", "XtsInvalidLength",
                    "SecretstreamTruncated", "SecretstreamVerifyFailed", "SecretstreamUnknownTag",
                    "SecretstreamTrailingData", "SecretstreamChunkTooLarge", "SecretstreamUnsupportedVersion",
                    "SecretstreamBadChunkLength", "SignVerifyFailed", "BoxOpenTruncated", "BoxOpenFailed",
                    "BoxOpenUnsupportedVersion", "HashCheckTooLarge", "HashCheckEmpty", "HashCheckUtf16",
                    "HashCheckMalformed", "HashCheckFailed", "PassphraseFormatUnsupported",
                    "PassphraseParamsUnsupported", "PassphraseWrong"} -> 1
      [] error \in {"UnknownCommand", "RemovedCommand", "RemovedForgeableCmac", "MovedToHazmat",
                    "MissingSubcommand", "UnknownVariant", "MissingFlag", "UnknownFlag", "RepeatedFlag",
                    "MissingValue", "FlagTakesNoValue", "UnexpectedArgument", "InvalidIterations",
                    "UnknownKeyKind", "SameOutputPath", "MissingOneOf", "ExclusiveFlags",
                    "HashPathUnprintable", "StdioNotAccepted", "SecretKeyToStdout", "ForceWithStdout",
                    "BinaryToTerminal", "PassphraseNoTerminal", "PassphraseMintty", "PassphraseEmpty",
                    "PassphraseMismatch", "DecryptNeedsKey", "DecryptKeyForPassphraseFile",
                    "PassphraseFlagOnDecrypt"} -> 2
      [] error \in {"Io", "KeyFileExists", "OutputExists", "OutputIsKeyFile", "OutputUncheckable",
                    "Random", "SignKeyInvalid", "KeyFileNotTyped", "KeyFileMalformed", "KeyCheckMismatch",
                    "KeyKindMismatch", "KeyImportCurveByte", "BoxKeyInvalid", "PassphraseFileInvalid",
                    "PassphraseDerive"} -> 3

=============================================================================
