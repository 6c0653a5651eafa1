------------------------------ MODULE Commands ------------------------------
(***************************************************************************)
(* A session of uacrypt: command after command over one file system, with  *)
(* the user editing a data file or saving what was printed in between.     *)
(* A command line is its words (the command and its subcommand) and its    *)
(* groups, a flag with its value each; an execution is atomic here (the    *)
(* module OutputFile takes it apart).                                      *)
(***************************************************************************)
EXTENDS CliCommands

CONSTANTS
    Families,       \* name -> [start |-> file systems, lines |-> command lines,
                    \*          steps |-> how many commands and edits a session has]
    Contents,       \* what an edited or another input may hold
    Dashed,         \* paths whose name starts with "--"
    FirstId         \* the ids of what the sessions make: larger than any in start

VARIABLES
    files,          \* path -> content
    family,         \* the session, chosen at the start
    last,           \* the last command line, its exit code, error and output
    ran             \* steps so far

vars == <<files, family, last, ran>>

NoLine == [words |-> <<>>, groups |-> <<>>, env |-> [rng |-> TRUE, tty |-> FALSE, typed |-> ""]]
New == "new"        \* a path no session names

RECURSIVE Flat(_)
Flat(groups) == IF groups = <<>> THEN <<>> ELSE Head(groups) \o Flat(Tail(groups))
Args(line) == [i \in DOMAIN line.words |-> Word(line.words[i])] \o Flat(line.groups)
Env(line, fresh) ==
    [rng |-> line.env.rng, tty |-> line.env.tty, typed |-> line.env.typed, fresh |-> fresh]
\* main: the process as the shell sees it.
Process(fs, line, fresh) == run(fs, Args(line), Env(line, fresh))
Outcome(line, r) == [line |-> line, error |-> r.error, code |-> exit_code(r.error), out |-> r.out]

Init ==
    /\ family \in DOMAIN Families
    /\ files \in Families[family].start
    /\ last = Outcome(NoLine, Failed(files, ""))
    /\ ran = 0

Exec(line) ==
    /\ ran < Families[family].steps
    /\ ran' = ran + 1
    /\ \E r \in {Process(files, line, FirstId + ran)} :
          /\ files' = r.fs
          /\ last' = Outcome(line, r)
    /\ UNCHANGED family

\* The user redirects what the last command printed to a new file.
Save(p) ==
    /\ last.out.t \notin {"nothing", "help", "script", "page"}
    /\ files[p].t = "none" /\ p # New
    /\ files' = [files EXCEPT ![p] = last.out]
    /\ last' = [last EXCEPT !.out = Nothing]
    /\ UNCHANGED <<family, ran>>

\* The user edits a file of their own.
Edit(p) ==
    /\ ran < Families[family].steps
    /\ ran' = ran + 1
    /\ files[p] \in Contents
    /\ \E d \in Contents \ {files[p]} : files' = [files EXCEPT ![p] = d]
    /\ last' = Outcome(NoLine, Failed(files', ""))
    /\ UNCHANGED family

Next ==
    \/ \E line \in Families[family].lines : Exec(line)
    \/ \E p \in DOMAIN files : Save(p)
    \/ \E p \in DOMAIN files : Edit(p)

Spec == Init /\ [][Next]_vars

(***************************************************************************)
(* Properties.                                                             *)
(***************************************************************************)
\* The values of a flag on a command line, whichever way it is written.
Named(line, flag) ==
    UNION {IF line.groups[i][1].name # flag THEN {}
           ELSE IF line.groups[i][1].inline THEN {line.groups[i][1].value}
           ELSE IF Len(line.groups[i]) = 1 THEN {}
           ELSE {line.groups[i][2].name} : i \in DOMAIN line.groups}
Has(line, flag) == \E i \in DOMAIN line.groups : line.groups[i] = <<Flag(flag)>>
Outputs(line) ==
    Named(line, "--out")
    \union IF \E i \in DOMAIN line.words : line.words[i] \in {"kalyna-ccm", "kalyna-gcm"}
              THEN IF \E i \in DOMAIN line.words : line.words[i] = "encrypt"
                   THEN Named(line, "--tag") \union Named(line, "--nonce") ELSE {}
              ELSE {}
AllFlags ==
    UNION {fl.values : fl \in {COMMANDS[c] : c \in DOMAIN COMMANDS}
                              \union {HAZMAT_COMMANDS[c] : c \in HAZMAT_NAMES}}
Executed == ran' = ran + 1 /\ last'.line # NoLine

\* A command changes a path only when it succeeded, the path is one of its outputs, and
\* the path was free or --force was given; a file that holds a typed key is never
\* changed, whatever it is named by (refuse_key_file, create_private_new,
\* check_outputs). The one exception is the commit of a second output onto a directory.
FilesKept ==
    [][Executed =>
        \A p \in DOMAIN files : files'[p] # files[p] =>
            /\ last'.code = 0 \/ \E q \in Outputs(last'.line) : files[q].t = "dir"
            /\ p \in Outputs(last'.line)
            /\ files[p].t = "none" \/ Has(last'.line, "--force")
            /\ files[p].t # "line"]_vars

\* Which of the paths hold the intact typed key of a kind, with these bytes.
Holds(p, kind, key) ==
    /\ At(files, p).t = "line"
    /\ At(files, p).kind = kind /\ At(files, p).key = key
    /\ decode_error(At(files, p)) = ""
Arg(flag, p) == <<Flag(flag), IF p \in Dashed THEN Flag(p) ELSE Word(p)>>
\* A command that should give content at New, or fail and leave everything as it is;
\* one that cannot tell (Blind) gives something else.
Question(words, groups, should, content) ==
    [words |-> words, groups |-> groups, should |-> should, content |-> content, sealed |-> TRUE]
Opens(words, groups, should, content) ==
    Question(words, Append(groups, Arg("--out", New)), should, content)
Blind(q) == [q EXCEPT !.sealed = FALSE]
Agrees(q, r) ==
    /\ (r.error = "" /\ r.fs = [files EXCEPT ![New] = q.content]) = q.should
    /\ q.sealed /\ ~q.should => r.error # "" /\ r.fs = files

\* What to ask about a file that some command wrote: its counterpart, with every path
\* as the key, the nonce, the data and the associated data.
StreamQuestions(p, f, k) ==
    LET args == <<Arg("--key", k), Arg("--in", p)>>
        c == At(files, k)
    IN  CASE f.t = "enc" -> {Opens(<<"decrypt">>, args, Holds(k, "symmetric", f.key), f.of)}
          [] f.t = "penc" ->
                {Opens(<<"decrypt">>, <<Arg("--passphrase-file", k), Arg("--in", p)>>,
                       c.t \in {"text", "line"} /\ Phrase(c) = f.phrase /\ c.ending # "lf lf", f.of)}
          [] f.t = "box" ->
                {Opens(<<"box-open">>, args,
                       c.t = "line" /\ \E kind \in BoxSecretKinds :
                          /\ PublicHalf(kind) = f.curve /\ PublicKey(kind, c.key) = f.to
                          /\ Holds(k, kind, c.key), f.of)}
          [] OTHER -> {}

SignatureQuestions(p, f, k, m) ==
    {Question(<<"verify">>, <<Arg("--key", k), Arg("--in", m), Arg("--sig", p)>>,
              Holds(k, f.by.pub, f.by) /\ CanRead(files, m) /\ At(files, m) = f.of, Absent)}

IsRaw(p, content) == CanRead(files, p) /\ At(files, p) = content
CipherQuestions(p, f, k, n) ==
    LET args == <<Arg("--variant", f.with.variant), Arg("--key", k), Arg("--in", p)>>
        key == IsRaw(k, f.with.key)
        decrypt == <<"hazmat", f.with.mode, "decrypt">>
    IN  CASE f.with.mode = "kalyna-kw" ->
                {Opens(<<"hazmat", "kalyna-kw", "unwrap">>, args, key, f.of)}
          [] f.with.mode = "kalyna-block" -> {Blind(Opens(decrypt, args, key, f.of))}
          [] f.with.mode = "kalyna-xts" ->
                {Blind(Opens(decrypt, Append(args, Arg("--tweak", n)), key /\ IsRaw(n, f.with.iv), f.of))}
          [] OTHER -> {}

\* For a tag, with at most one of the four wrong.
TagQuestions(p, f, k, m, n, a) ==
    LET c == At(files, m)
        args == <<Arg("--variant", f.with.variant), Arg("--key", k), Arg("--in", m), Arg("--tag", p)>>
        right == <<IsRaw(k, f.with.key), IsRaw(m, f.of), IsRaw(n, f.with.iv),
                   IF a = "none" THEN f.aad = NoBytes ELSE IsRaw(a, f.aad)>>
        aad == IF a = "none" THEN <<>> ELSE <<Arg("--aad", a)>>
    IN  CASE f.with.mode = "kalyna-gmac" ->
                {Question(<<"hazmat", "kalyna-gmac", "verify">>, args, right[1] /\ right[2], Absent)}
          [] Cardinality({i \in 1 .. 4 : ~right[i]}) > 1 -> {}
          [] OTHER ->
                {Opens(<<"hazmat", f.with.mode, "decrypt">>, args \o <<Arg("--nonce", n)>> \o aad,
                       \A i \in 1 .. 4 : right[i], IF c.t = "cipher" THEN c.of ELSE NoBytes)}

Questions(p) ==
    LET f == At(files, p)
        paths == DOMAIN files \ ({New} \union Dashed)
    IN  CASE f.t = "sig" -> UNION {SignatureQuestions(p, f, k, m) : k, m \in paths}
          [] f.t = "cipher" -> UNION {CipherQuestions(p, f, k, n) : k, n \in paths}
          [] f.t = "tag" -> UNION {TagQuestions(p, f, k, m, n, a) :
                                      k, m, n \in paths, a \in paths \union {"none"}}
          [] OTHER -> UNION {StreamQuestions(p, f, k) : k \in paths}

\* What one command wrote, its counterpart takes back: decrypt, box-open, kalyna-ccm,
\* kalyna-gcm and kalyna-kw give the original for the right key, nonce and associated
\* data and refuse any other file in the place of one of them; verify and
\* kalyna-gmac verify say yes exactly to the file that was signed, with the key that
\* belongs to it.
CounterpartsAgree ==
    \A q \in UNION {Questions(p) : p \in DOMAIN files \ {New}} :
        \E r \in {Process(files, [NoLine EXCEPT !.words = q.words, !.groups = q.groups], 0)} :
            Agrees(q, r)

\* Exit codes 2 and 3 are never about the data: whatever else the --in file held, the
\* command would have failed in the same way, and a command that accepted or rejected
\* the data (0, 1) would not have failed for a usage, file or key reason on other data.
\* Only decrypt asks for another credential by the first byte of its input.
BlameIsRight ==
    [][Executed /\ last'.line.words # <<"key-import">> =>
        \A p \in Named(last'.line, "--in") \intersect DOMAIN files, d \in Contents :
            LET line == last'.line
                others == UNION {Named(line, f) : f \in AllFlags \ {"--in"}} \intersect DOMAIN files
                target == IF files[p].t = "link" THEN files[p].to ELSE p
                other == Process([files EXCEPT ![target] = d], line, FirstId + ran).error
                credential == {"DecryptNeedsKey", "DecryptKeyForPassphraseFile", "PassphraseNoTerminal"}
            IN  /\ CanRead(files, p)
                /\ \A q \in others : q # p /\ ~same_file(files, p, q) /\ files[q].t # "dir"
                /\ {other, last'.error} \intersect credential = {}
                => IF last'.code \in {2, 3} THEN other = last'.error ELSE exit_code(other) \in {0, 1}]_vars

\* The same command line written differently: its groups in another order, or every
\* value behind an '='.
Turned(line) == [line EXCEPT !.groups = [i \in DOMAIN @ |-> @[Len(@) + 1 - i]]]
Inlined(line) ==
    [line EXCEPT !.groups =
        [i \in DOMAIN @ |-> IF Len(@[i]) = 2 THEN <<FlagValue(@[i][1].name, @[i][2].name)>> ELSE @[i]]]
\* Every path that starts with "--" named by a link to it instead.
Aliased(line) ==
    LET alias(p) == IF p \in Dashed THEN CHOOSE q \in DOMAIN files : files[q] = Link(p) ELSE p
    IN  [line EXCEPT !.groups =
            [i \in DOMAIN @ |-> IF Len(@[i]) = 2 THEN Arg(@[i][1].name, alias(@[i][2].name)) ELSE @[i]]]
\* A flag that takes a value is followed by nothing, or by what starts with "--".
Forgotten(group) ==
    /\ group[1].dashes = 2 /\ ~group[1].inline /\ group[1].name \in AllFlags
    /\ Len(group) = 2 => group[2].dashes = 2

\* ArgScanner::scan and the parse_*_args: the order of the flags never changes what a
\* command does, and a command line refused in one order is refused in every order. The
\* form --flag=value changes nothing either, but for a value that starts with "--": as an
\* argument of its own it is taken for a forgotten value and refused as a usage error,
\* whatever else the line holds (unless it asks for help), and behind the '=' it is the
\* path it spells, just as if the file had been named by a link without dashes (hash
\* prints the name it was given).
FlagOrderIrrelevant ==
    [][Executed =>
        LET line == last'.line
            on(other) == Process(files, other, FirstId + ran)
            same(other) ==
                /\ on(other).fs = files' /\ on(other).out = last'.out
                /\ exit_code(on(other).error) = last'.code
        IN  /\ same(Turned(line))
            /\ IF ~\E i \in DOMAIN line.groups : Forgotten(line.groups[i])
               THEN same(Inlined(line))
               ELSE \/ last'.out.t = "help"
                    \/ /\ last'.code = 2 /\ files' = files
                       /\ LET spelt == on(Inlined(line)) linked == on(Aliased(line))
                          IN  /\ spelt.error = linked.error /\ spelt.fs = linked.fs
                              /\ spelt.out.t # "list" => spelt.out = linked.out]_vars

=============================================================================
