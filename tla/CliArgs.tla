------------------------------ MODULE CliArgs ------------------------------
(***************************************************************************)
(* The command line of uacrypt: the flag tables, ArgScanner::scan and its  *)
(* accessors, and one parse_*_args per command. An argument is a record:   *)
(* how many dashes it starts with, its text up to the first '=', and the   *)
(* value behind it. An error is the name of the CliError variant, "" when  *)
(* there is none.                                                          *)
(***************************************************************************)
EXTENDS Naturals, Sequences, Integers, FiniteSets, TLC

(***************************************************************************)
(* Typed key files (keyfile.rs): one text line <prefix>:<key>:<check> that *)
(* says what the key is. A line is a record of what the reader tells       *)
(* apart: the byte-order mark an editor may add, the prefix, how many key  *)
(* bytes the hex stands for and whether it is lower-case hex, the check    *)
(* value and what ends the line. Key bytes are symbolic; the check value   *)
(* is a hash of the prefix and the key, so it is the pair itself.          *)
(***************************************************************************)
\* ALL_KINDS, with key_len in bytes and is_secret.
Kind(len, secret) == [len |-> len, secret |-> secret]

ALL_KINDS ==
    [ symmetric       |-> Kind(32, TRUE),
      sign163secret   |-> Kind(21, TRUE),
      sign163public   |-> Kind(42, FALSE),
      sign257secret   |-> Kind(33, TRUE),
      sign257public   |-> Kind(66, FALSE),
      box256secret    |-> Kind(32, TRUE),
      box256public    |-> Kind(32, FALSE),
      box384secret    |-> Kind(48, TRUE),
      box384public    |-> Kind(48, FALSE),
      box512secret    |-> Kind(64, TRUE),
      box512public    |-> Kind(64, FALSE) ]

Kinds == DOMAIN ALL_KINDS

key_len(kind) == ALL_KINDS[kind].len

is_secret(kind) == ALL_KINDS[kind].secret

\* Key bytes: the bytes themselves, or the public key that a secret of that kind has.
KeyBytes(id) == [id |-> id, pub |-> "", good |-> TRUE]

PublicHalf(kind) ==
    CASE kind = "sign163secret" -> "sign163public"
      [] kind = "sign257secret" -> "sign257public"
      [] kind = "box256secret"  -> "box256public"
      [] kind = "box384secret"  -> "box384public"
      [] kind = "box512secret"  -> "box512public"

PublicKey(kind, key) == [id |-> key.id, pub |-> PublicHalf(kind), good |-> TRUE]

check_value(kind, key) == <<kind, key>>

encode(kind, key) ==
    [t |-> "line", bom |-> FALSE, kind |-> kind, bytes |-> key_len(kind), hex |-> TRUE,
     key |-> key, check |-> check_value(kind, key), ending |-> "lf"]

\* sniff_kind: is there a prefix and a colon at the start of the file (after one
\* byte-order mark)? Nothing behind the colon is looked at.
sniff_kind(text) == IF text.t = "line" THEN text.kind ELSE "none"

\* decode: at most one line end is stripped, so a second one is a wrong length.
decode_error(text) ==
    IF text.t # "line" THEN "NotTyped"
    ELSE IF text.bom THEN "NotTyped"
    ELSE IF text.bytes # key_len(text.kind) \/ text.ending = "lf lf" THEN "Malformed"
    ELSE IF ~text.hex THEN "Malformed"
    ELSE IF text.check # check_value(text.kind, text.key) THEN "CheckMismatch"
    ELSE ""

\* read_key's error for the content of the file at a path, or "" for a key of an
\* expected kind.
DecodedAs(error) ==
    CASE error = "NotTyped"      -> "KeyFileNotTyped"
      [] error = "Malformed"     -> "KeyFileMalformed"
      [] error = "CheckMismatch" -> "KeyCheckMismatch"
      [] error = ""              -> ""

read_key_error(text, expected) ==
    IF decode_error(text) # "" THEN DecodedAs(decode_error(text))
    ELSE IF text.kind \notin expected THEN "KeyKindMismatch"
    ELSE ""

-----------------------------------------------------------------------------
Word(w) == [dashes |-> 0, name |-> w, inline |-> FALSE, value |-> ""]
Dash(w) == [dashes |-> 1, name |-> w, inline |-> FALSE, value |-> ""]
Flag(f) == [dashes |-> 2, name |-> f, inline |-> FALSE, value |-> ""]
FlagValue(f, v) == [dashes |-> 2, name |-> f, inline |-> TRUE, value |-> v]

\* The first of a sequence of checks that fails: Rust's chain of `?`.
FirstOf(errors) ==
    LET failed == SelectSeq(errors, LAMBDA e : e # "")
    IN  IF failed = <<>> THEN "" ELSE failed[1]

KALYNA_VARIANTS == {"128-128", "128-256", "256-256", "256-512", "512-512"}
BIT_VARIANTS == {"256", "512"}

Flags(values, bools, hidden, choices) ==
    [values |-> values, bools |-> bools, hidden |-> hidden, choices |-> choices]
NoChoices == [f \in {} |-> {}]

NO_FLAGS == Flags({}, {}, {}, NoChoices)
OUT_ONLY_FLAGS == Flags({"--out"}, {}, {}, NoChoices)
PUBKEY_FLAGS == Flags({"--key", "--out"}, {}, {}, NoChoices)
ENCRYPT_FLAGS ==
    Flags({"--key", "--passphrase-file", "--in", "--out"}, {"--passphrase", "--force"}, {}, NoChoices)
DECRYPT_FLAGS == [ENCRYPT_FLAGS EXCEPT !.hidden = {"--passphrase"}]
HASH_FLAGS == Flags({"--in", "--check"}, {}, {}, NoChoices)
SIGN_FLAGS ==
    Flags({"--key", "--in", "--out", "--iterations"}, {"--force"}, {"--iterations"}, NoChoices)
VERIFY_FLAGS ==
    Flags({"--key", "--in", "--sig", "--iterations"}, {}, {"--iterations"}, NoChoices)
KEY_IMPORT_FLAGS == Flags({"--kind", "--in", "--out"}, {}, {}, "--kind" :> Kinds)
BLOCK_FLAGS ==
    Flags({"--variant", "--key", "--in", "--out", "--iterations"}, {"--raw-schedule", "--force"},
          {}, "--variant" :> KALYNA_VARIANTS)
KALYNA_AEAD_FLAGS ==
    Flags({"--variant", "--key", "--nonce", "--aad", "--in", "--out", "--tag", "--iterations"},
          {"--force"}, {}, "--variant" :> KALYNA_VARIANTS)
GMAC_FLAGS ==
    [KALYNA_AEAD_FLAGS EXCEPT
        !.values = {"--variant", "--key", "--in", "--out", "--tag", "--iterations"}]
KW_FLAGS ==
    [KALYNA_AEAD_FLAGS EXCEPT !.values = {"--variant", "--key", "--in", "--out", "--iterations"}]
XTS_FLAGS ==
    [KALYNA_AEAD_FLAGS EXCEPT
        !.values = {"--variant", "--key", "--tweak", "--in", "--out", "--iterations"}]
DIGEST_FLAGS ==
    Flags({"--variant", "--in", "--out", "--iterations"}, {"--force"}, {},
          "--variant" :> BIT_VARIANTS)
STRUMOK_FLAGS ==
    Flags({"--variant", "--key", "--iv", "--in", "--out", "--iterations"},
          {"--raw-schedule", "--force"}, {}, "--variant" :> BIT_VARIANTS)

(***************************************************************************)
(* ArgScanner.                                                             *)
(***************************************************************************)
NoArgs == [error |-> "", values |-> [f \in {} |-> ""], bools |-> {}]
Refused(error) == [NoArgs EXCEPT !.error = error]

\* A single dash taken for a flag.
ValueAtNoDash(args, i) ==
    IF args[i].inline THEN args[i].value
    ELSE IF i < Len(args) /\ args[i + 1].dashes = 0 /\ args[i + 1].name # "-" THEN args[i + 1].name
    ELSE ""

\* The next argument whatever it is.
ValueAtAnyNext(args, i) ==
    IF args[i].inline THEN args[i].value ELSE IF i < Len(args) THEN args[i + 1].name ELSE ""

\* The value of the flag at position i: behind its '=', or the next argument
\* unless that starts with "--".
ValueAt(args, i) ==
    IF args[i].inline THEN args[i].value
    ELSE IF i < Len(args) /\ args[i + 1].dashes < 2 THEN args[i + 1].name
    ELSE ""

\* One turn of scan's loop, at position i with what was found before it.
RECURSIVE ScanFrom(_, _, _, _)
ScanFrom(args, flags, i, found) ==
    IF i > Len(args) THEN found
    ELSE LET a == args[i]
             value == ValueAt(args, i)
         IN  IF a.dashes = 2 /\ a.name \in flags.bools
             THEN IF a.inline THEN Refused("FlagTakesNoValue")
                  ELSE IF a.name \in found.bools THEN Refused("RepeatedFlag")
                  ELSE ScanFrom(args, flags, i + 1, [found EXCEPT !.bools = @ \union {a.name}])
             ELSE IF a.dashes = 2 /\ a.name \in flags.values
             THEN IF value = "" THEN Refused("MissingValue")
                  ELSE IF a.name \in DOMAIN found.values THEN Refused("RepeatedFlag")
                  ELSE ScanFrom(args, flags, IF a.inline THEN i + 1 ELSE i + 2,
                                [found EXCEPT !.values = @ @@ (a.name :> value)])
             ELSE Refused(IF a.dashes > 0 THEN "UnknownFlag" ELSE "UnexpectedArgument")

scan(args, flags) == ScanFrom(args, flags, 1, NoArgs)

Given(s, flag) == flag \in DOMAIN s.values
\* The value of a flag; "" when it was not given.
Value(s, flag) == IF Given(s, flag) THEN s.values[flag] ELSE ""
bool_flag(s, flag) == flag \in s.bools

\* The errors of the accessors. path, path_opt, input, output, secret_key_path.
path_opt(s, flag) == IF Value(s, flag) = "-" THEN "StdioNotAccepted" ELSE ""
path(s, flag) == FirstOf(<<path_opt(s, flag), IF Given(s, flag) THEN "" ELSE "MissingFlag">>)
input(s, flag) == IF Value(s, flag) = "-" THEN "" ELSE path(s, flag)
output(s, flag) == IF Value(s, flag) = "-" THEN "" ELSE path(s, flag)
secret_key_path(s, flag) == IF Value(s, flag) = "-" THEN "SecretKeyToStdout" ELSE path(s, flag)
output_and_force(s) ==
    FirstOf(<<output(s, "--out"),
              IF bool_flag(s, "--force") /\ Value(s, "--out") = "-" THEN "ForceWithStdout" ELSE "">>)
OneOf(s, flag, names, unknown) ==
    IF ~Given(s, flag) THEN "MissingFlag" ELSE IF Value(s, flag) \in names THEN "" ELSE unknown
variant(s, names) == OneOf(s, "--variant", names, "UnknownVariant")
key_kind(s) == OneOf(s, "--kind", Kinds, "UnknownKeyKind")
\* Three numbers stand for what the commands tell apart: 0 counts as 1, and more than 1
\* is a benchmark.
Numbers == ("0" :> 0) @@ ("1" :> 1) @@ ("2" :> 2)
iterations(s) ==
    IF ~Given(s, "--iterations") \/ Value(s, "--iterations") \in DOMAIN Numbers THEN ""
    ELSE "InvalidIterations"
Iterations(s) == IF Given(s, "--iterations") THEN Numbers[Value(s, "--iterations")] ELSE 1

(***************************************************************************)
(* parse_*_args: scan, then the accessors in the order of the fields.      *)
(***************************************************************************)
Parsed(s, errors) == [s EXCEPT !.error = FirstOf(<<s.error>> \o errors)]

\* parse_keygen_args, parse_sign_keygen_args, parse_box_keygen_args.
parse_keygen_args(args) ==
    LET s == scan(args, OUT_ONLY_FLAGS) IN Parsed(s, <<secret_key_path(s, "--out")>>)

\* parse_sign_pubkey_args, parse_box_pubkey_args.
parse_pubkey_args(args) ==
    LET s == scan(args, PUBKEY_FLAGS) IN Parsed(s, <<path(s, "--key"), output(s, "--out")>>)

\* parse_sign_args, parse_box_seal_args, parse_box_open_args.
parse_sign_args(args) ==
    LET s == scan(args, SIGN_FLAGS)
    IN  Parsed(s, <<path(s, "--key"), input(s, "--in"), output_and_force(s), iterations(s)>>)

parse_verify_args(args) ==
    LET s == scan(args, VERIFY_FLAGS)
    IN  Parsed(s, <<path(s, "--key"), input(s, "--in"), path(s, "--sig"), iterations(s)>>)

parse_key_import_args(args) ==
    LET s == scan(args, KEY_IMPORT_FLAGS)
        out == IF Value(s, "--kind") \in Kinds /\ is_secret(Value(s, "--kind"))
               THEN secret_key_path(s, "--out") ELSE output(s, "--out")
    IN  Parsed(s, <<key_kind(s), path(s, "--in"), out>>)

parse_hash_args(args) ==
    LET s == scan(args, HASH_FLAGS)
        both == Given(s, "--in") /\ Given(s, "--check")
        none == ~Given(s, "--in") /\ ~Given(s, "--check")
    IN  Parsed(s, <<IF both THEN "ExclusiveFlags" ELSE IF none THEN "MissingOneOf" ELSE "">>)

parse_encrypt_args(args) ==
    LET s == scan(args, ENCRYPT_FLAGS)
        given == {f \in {"--key", "--passphrase-file"} : Given(s, f)}
                 \union ({"--passphrase"} \intersect s.bools)
    IN  Parsed(s, <<path_opt(s, "--key"), path_opt(s, "--passphrase-file"),
                    IF given = {} THEN "MissingOneOf"
                    ELSE IF Cardinality(given) > 1 THEN "ExclusiveFlags" ELSE "",
                    input(s, "--in"), output_and_force(s)>>)

parse_decrypt_args(args) ==
    LET s == scan(args, DECRYPT_FLAGS)
    IN  Parsed(s, <<IF bool_flag(s, "--passphrase") THEN "PassphraseFlagOnDecrypt" ELSE "",
                    path_opt(s, "--key"), path_opt(s, "--passphrase-file"),
                    IF Given(s, "--key") /\ Given(s, "--passphrase-file")
                    THEN "ExclusiveFlags" ELSE "",
                    input(s, "--in"), output_and_force(s)>>)

parse_block_args(args) ==
    LET s == scan(args, BLOCK_FLAGS)
    IN  Parsed(s, <<variant(s, KALYNA_VARIANTS), path(s, "--key"), path(s, "--in"),
                    path(s, "--out"), iterations(s)>>)

\* parse_ccm_args, parse_gcm_args.
parse_aead_args(args) ==
    LET s == scan(args, KALYNA_AEAD_FLAGS)
    IN  Parsed(s, <<variant(s, KALYNA_VARIANTS), path(s, "--key"), path(s, "--nonce"),
                    path_opt(s, "--aad"), path(s, "--in"), path(s, "--out"), path(s, "--tag"),
                    iterations(s)>>)

parse_gmac_args(args) ==
    LET s == scan(args, GMAC_FLAGS)
    IN  Parsed(s, <<variant(s, KALYNA_VARIANTS), path(s, "--key"), path(s, "--in"),
                    path_opt(s, "--out"), path_opt(s, "--tag"), iterations(s)>>)

parse_kw_args(args) ==
    LET s == scan(args, KW_FLAGS)
    IN  Parsed(s, <<variant(s, KALYNA_VARIANTS), path(s, "--key"), path(s, "--in"),
                    path(s, "--out"), iterations(s)>>)

parse_xts_args(args) ==
    LET s == scan(args, XTS_FLAGS)
    IN  Parsed(s, <<variant(s, KALYNA_VARIANTS), path(s, "--key"), path(s, "--tweak"),
                    path(s, "--in"), path(s, "--out"), iterations(s)>>)

parse_digest_args(args) ==
    LET s == scan(args, DIGEST_FLAGS)
    IN  Parsed(s, <<variant(s, BIT_VARIANTS), path(s, "--in"), path(s, "--out"), iterations(s)>>)

parse_strumok_args(args) ==
    LET s == scan(args, STRUMOK_FLAGS)
    IN  Parsed(s, <<variant(s, BIT_VARIANTS), path(s, "--key"), path(s, "--iv"),
                    path(s, "--in"), path(s, "--out"), iterations(s)>>)

-----------------------------------------------------------------------------
(***************************************************************************)
(* The name the command line suggests for a mistyped one: lib.rs, suggest  *)
(* and edit_distance, over words as sequences of letters.                  *)
(***************************************************************************)
Least(a, b) == IF a <= b THEN a ELSE b

\* Mutant: the exchange of two letters is counted from the column beside it.
CellNextColumn(a, b, i, j, before_prev, prev, cur) ==
    LET cost == IF a[i] # b[j] THEN 1 ELSE 0
        d == Least(Least(prev[j + 1] + 1, cur[j] + 1), prev[j] + cost)
    IN  IF i >= 2 /\ j >= 2 /\ a[i] = b[j - 1] /\ a[i - 1] = b[j]
        THEN Least(d, before_prev[j] + 1) ELSE d

\* The cell (i, j) of the table, from the two rows before it and the row so far.
Cell(a, b, i, j, before_prev, prev, cur) ==
    LET cost == IF a[i] # b[j] THEN 1 ELSE 0
        d == Least(Least(prev[j + 1] + 1, cur[j] + 1), prev[j] + cost)
    IN  IF i >= 2 /\ j >= 2 /\ a[i] = b[j - 1] /\ a[i - 1] = b[j]
        THEN Least(d, before_prev[j - 1] + 1) ELSE d

RECURSIVE Row(_, _, _, _, _, _)
Row(a, b, i, before_prev, prev, cur) ==
    IF Len(cur) = Len(b) + 1 THEN cur
    ELSE Row(a, b, i, before_prev, prev,
             Append(cur, Cell(a, b, i, Len(cur), before_prev, prev, cur)))

\* Only three rows are kept: before_prev and prev move up as a row is finished.
RECURSIVE Rows(_, _, _, _, _)
Rows(a, b, i, before_prev, prev) ==
    IF i > Len(a) THEN prev[Len(b) + 1]
    ELSE Rows(a, b, i + 1, prev, Row(a, b, i, before_prev, prev, <<i>>))

edit_distance(a, b) ==
    Rows(a, b, 1, [j \in 1 .. Len(b) + 1 |-> 0], [j \in 1 .. Len(b) + 1 |-> j - 1])

RECURSIVE trim_start(_)
trim_start(w) == IF w # <<>> /\ w[1] = "-" THEN trim_start(Tail(w)) ELSE w

\* The position of the first of the nearest candidates, 0 when none is near enough.
suggest(w, candidates) ==
    LET limit == IF Len(trim_start(w)) \div 3 > 1 THEN Len(trim_start(w)) \div 3 ELSE 1
        dist == [c \in DOMAIN candidates |-> edit_distance(w, candidates[c])]
        near == {c \in DOMAIN candidates : dist[c] <= limit}
    IN  IF near = {} THEN 0
        ELSE CHOOSE c \in near : \A o \in near : dist[c] < dist[o] \/ (dist[c] = dist[o] /\ c <= o)
=============================================================================
