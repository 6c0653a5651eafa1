--------------------------- MODULE StreamCommand ----------------------------
(***************************************************************************)
(* One run of "encrypt", "decrypt", "box-seal" or "box-open": credential,  *)
(* checks, input, passphrase prompt, reservation of the output, streaming  *)
(* to a file or to stdout, and the end, with signals and another process   *)
(* in between.  How an output file is reserved, committed and taken back   *)
(* step by step is the module OutputFile; here each is one step.  What the *)
(* stream decryptor makes of an input is the module StreamFileReader; here *)
(* an input is how many pieces come out of it and how it ends.             *)
(***************************************************************************)
EXTENDS Naturals

CONSTANTS
    Commands,       \* the command lines, a subset of Command
    MaxTouched      \* bound on the changes another process makes at --out

\* What the first byte of --in says it is.
Containers == {"stream", "passphrase", "box", "other", "none"}
\* How an input ends: well, or by the error of the codec that refuses it.
Ends == {"final", "truncated", "auth", "format"}
\* header: what is in front of the records, of a passphrase or box file.
\* right: the credential is the one --in was encrypted for.
Input == [container : Containers, header : {"good", "short", "bad"}, right : BOOLEAN,
          pieces : Nat, end : Ends]

\* sink: --out, with what stdout is.  nohup: SIGINT was ignored by the parent.
Command ==
    [op : {"encrypt", "decrypt", "box-seal", "box-open"},
     cred : {"key", "passphrase-file", "terminal"},
     input : Input, sink : {"file", "pipe", "tty"}, force : BOOLEAN, nohup : BOOLEAN]

ASSUME StreamCommandAssumption ==
    /\ Commands \subseteq Command
    /\ MaxTouched \in Nat
    /\ \A c \in Commands :
          /\ c.op \in {"box-seal", "box-open"} => c.cred = "key"
          /\ c.force => c.sink = "file"       \* CliError::ForceWithStdout
          /\ c.input.container = "stream" => c.input.header = "good"
          /\ c.input.container = "box" /\ c.input.header = "bad" => ~c.input.right
          \* Under another key the first record already fails, and an unknown
          \* version byte fails as one.
          /\ ~c.input.right => c.input.pieces = 0 /\ c.input.end # "final"
          /\ c.input.container \in {"box", "other"} /\ c.op = "decrypt" =>
                ~c.input.right /\ c.input.end = "format"

\* What may be at the output path: "reserved" is this command's placeholder,
\* "ours" its finished output, the rest are other people's.
Others == {"none", "file", "key", "dir", "dangling", "unreadable"}

VARIABLES
    cmd,            \* the command line and the input it names
    pc,             \* the next step
    out,            \* what is at the output path
    touched,        \* changes another process made there since precheck
    reserved,       \* the Output exists
    sigint,         \* disposition of SIGINT: "default", "ignored" or "handler"
    previous,       \* the one an Ignored guard will put back
    echo,           \* the terminal echoes
    asked,          \* prompts answered so far
    answer,         \* the last answer: "none", "empty", "same", "other", "fail", "ctrl-c"
    left,           \* pieces of the message not written yet
    held,           \* pieces in stdout's BufWriter
    printed,        \* pieces that reached stdout
    written,        \* the written flag of Output::Stdout
    error,          \* the error so far, "none" while there is none
    incomplete,     \* it is wrapped in StdoutIncomplete
    status          \* "running", "ok", "error", "SIGINT" or "SIGTERM"

vars == <<cmd, pc, out, touched, reserved, sigint, previous, echo, asked, answer,
          left, held, printed, written, error, incomplete, status>>
promptVars == <<sigint, previous, echo, asked, answer>>
streamVars == <<left, held, printed, written>>
endVars == <<error, incomplete, status>>

Sealing == cmd.op \in {"encrypt", "box-seal"}
\* Sealing writes a prefix first and then at least the Final record.
Pieces == IF Sealing THEN cmd.input.pieces + 2 ELSE cmd.input.pieces

Init ==
    /\ cmd \in Commands
    /\ pc = "credential"
    /\ out \in Others
    /\ touched = 0
    /\ reserved = FALSE
    /\ sigint = IF cmd.nohup THEN "ignored" ELSE "default"
    /\ previous = "default"
    /\ echo = TRUE
    /\ asked = 0 /\ answer = "none"
    /\ left = Pieces /\ held = 0 /\ printed = 0 /\ written = FALSE
    /\ error = "none" /\ incomplete = FALSE /\ status = "running"

At(step) == status = "running" /\ pc = step
Goto(step) == pc' = step
\* An early return, before there is an Output.
Fail(e) ==
    /\ error' = e
    /\ status' = "error"
    /\ UNCHANGED <<pc, incomplete>>

-----------------------------------------------------------------------------
(***************************************************************************)
(* Before the output exists.                                               *)
(***************************************************************************)
\* read_key, read_file: a file that is missing, damaged or of the wrong kind.
ReadCredential ==
    /\ At("credential")
    /\ \/ Goto("precheck") /\ UNCHANGED endVars
       \/ /\ cmd.cred = "key"
          /\ \E e \in {"Io", "KeyKindMismatch"} : Fail(e)
       \/ /\ cmd.cred = "passphrase-file"
          /\ \E e \in {"Io", "PassphraseFileInvalid"} : Fail(e)
    /\ UNCHANGED <<cmd, out, touched, reserved, promptVars, streamVars>>

\* refuse_key_file: only a regular file is opened.
KeyFileRefusal ==
    CASE out = "key" -> "OutputIsKeyFile"
      [] out = "unreadable" -> "OutputUncheckable"
      [] OTHER -> "none"

\* Mutant: a dangling symlink counts as no file, as Path::exists would say.
PrecheckRefusalFollowsLinks ==
    IF cmd.sink = "tty" THEN "BinaryToTerminal"
    ELSE IF cmd.sink = "pipe" \/ out = "dangling" THEN "none"
    ELSE IF cmd.force \/ KeyFileRefusal # "none" THEN KeyFileRefusal
    ELSE IF out = "none" THEN "none"
    ELSE IF out = "dir" THEN "Io"
    ELSE "OutputExists"

PrecheckRefusal ==
    IF cmd.sink = "tty" THEN "BinaryToTerminal"
    ELSE IF cmd.sink = "pipe" THEN "none"
    ELSE IF cmd.force THEN KeyFileRefusal
    ELSE IF out = "none" THEN "none"
    ELSE IF out = "dir" THEN "Io"
    ELSE IF KeyFileRefusal # "none" THEN KeyFileRefusal
    ELSE "OutputExists"

\* check_against, which refuses --out naming the credential's file, and precheck.
Precheck ==
    /\ At("precheck")
    /\ \/ cmd.sink = "file" /\ cmd.cred # "terminal" /\ Fail("SameOutputPath")
       \/ IF PrecheckRefusal # "none" THEN Fail(PrecheckRefusal)
          ELSE Goto("open") /\ UNCHANGED endVars
    /\ UNCHANGED <<cmd, out, touched, reserved, promptVars, streamVars>>

\* Source::open, open_sized.  Decrypting reads the first byte next.
OpenInput ==
    /\ At("open")
    /\ \/ Fail("Io")
       \/ /\ UNCHANGED endVars
          /\ Goto(CASE cmd.op = "encrypt" /\ cmd.cred = "terminal" -> "canPrompt"
                    [] cmd.op = "encrypt" /\ cmd.cred # "terminal" -> "derive"
                    [] cmd.op = "box-seal" -> "create"
                    [] OTHER -> "firstByte")
    /\ UNCHANGED <<cmd, out, touched, reserved, promptVars, streamVars>>

\* The match of run_secretstream_decrypt, with read_exact_or_truncated and
\* Header::parse; and the prefix of box-open.
DecryptRefusal ==
    LET c == cmd.input.container
        h == cmd.input.header
    IN  CASE cmd.op = "box-open" ->
                IF c = "none" \/ (c = "box" /\ h = "short") THEN "BoxOpenTruncated"
                ELSE IF c # "box" THEN "BoxOpenUnsupportedVersion"
                ELSE "none"
          [] cmd.op # "box-open" /\ c = "none" -> "SecretstreamTruncated"
          [] cmd.op # "box-open" /\ c = "passphrase" ->
                IF cmd.cred = "key" THEN "DecryptKeyForPassphraseFile"
                ELSE IF h = "short" THEN "SecretstreamTruncated"
                ELSE IF h = "bad" THEN "PassphraseFormatUnsupported"
                ELSE "none"
          [] cmd.op # "box-open" /\ c = "stream" ->
                IF cmd.cred = "key" THEN "none" ELSE "DecryptNeedsKey"
          [] OTHER ->
                IF cmd.cred = "key" THEN "none" ELSE "SecretstreamUnsupportedVersion"

FirstByte ==
    /\ At("firstByte")
    /\ \/ Fail("Io")
       \/ IF DecryptRefusal # "none" THEN Fail(DecryptRefusal)
          ELSE /\ Goto(IF cmd.cred = "terminal" THEN "canPrompt"
                       ELSE IF cmd.cred = "passphrase-file" \/ cmd.op = "box-open" THEN "derive"
                       ELSE "create")
               /\ UNCHANGED endVars
    /\ UNCHANGED <<cmd, out, touched, reserved, promptVars, streamVars>>

-----------------------------------------------------------------------------
(***************************************************************************)
(* from_terminal.  rpassword (external) turns the echo off, reads, raises  *)
(* SIGINT itself when Ctrl-C was typed, and turns the echo on again.       *)
(***************************************************************************)
CanPrompt ==
    /\ At("canPrompt")
    /\ \/ \E e \in {"PassphraseNoTerminal", "PassphraseMintty"} : Fail(e)
       \/ Goto("ignore") /\ UNCHANGED endVars
    /\ UNCHANGED <<cmd, out, touched, reserved, promptVars, streamVars>>

\* Mutant: the prompt is read under the disposition the command was started with.
IgnoreNothing ==
    /\ At("ignore")
    /\ previous' = sigint
    /\ Goto("echoOff")
    /\ UNCHANGED <<cmd, out, touched, reserved, sigint, echo, asked, answer, streamVars,
                   endVars>>

\* sigint::Ignored::new.
Ignore ==
    /\ At("ignore")
    /\ previous' = sigint
    /\ sigint' = "ignored"
    /\ Goto("echoOff")
    /\ UNCHANGED <<cmd, out, touched, reserved, echo, asked, answer, streamVars, endVars>>

EchoOff ==
    /\ At("echoOff")
    /\ echo' = FALSE
    /\ Goto("typing")
    /\ UNCHANGED <<cmd, out, touched, reserved, sigint, previous, asked, answer,
                   streamVars, endVars>>

Type ==
    /\ At("typing")
    /\ answer' \in {"empty", "same", "other", "fail", "ctrl-c"}
    /\ asked' = asked + 1
    \* The SIGINT rpassword raises ends the process unless it is ignored.
    /\ IF answer' = "ctrl-c" /\ sigint = "default"
       THEN status' = "SIGINT" /\ UNCHANGED <<pc, error, incomplete>>
       ELSE Goto("echoOn") /\ UNCHANGED endVars
    /\ UNCHANGED <<cmd, out, touched, reserved, sigint, previous, echo, streamVars>>

EchoOn ==
    /\ At("echoOn")
    /\ echo' = TRUE
    /\ Goto("restore")
    /\ UNCHANGED <<cmd, out, touched, reserved, sigint, previous, asked, answer,
                   streamVars, endVars>>

\* Mutant: the guard is forgotten and SIGINT stays ignored.
RestoreNothing ==
    /\ At("restore")
    /\ Goto("answered")
    /\ UNCHANGED <<cmd, out, touched, reserved, promptVars, streamVars, endVars>>

\* Drop of Ignored.
Restore ==
    /\ At("restore")
    /\ sigint' = previous
    /\ Goto("answered")
    /\ UNCHANGED <<cmd, out, touched, reserved, previous, echo, asked, answer, streamVars,
                   endVars>>

\* Mutant: an interrupted prompt is taken for an answer.
AnsweredAnyhow ==
    /\ At("answered")
    /\ IF answer = "fail" THEN Fail("Io")
       ELSE IF asked = 1 /\ answer = "empty" THEN Fail("PassphraseEmpty")
       ELSE IF asked = 2 /\ answer \notin {"same", "ctrl-c"} THEN Fail("PassphraseMismatch")
       ELSE /\ Goto(IF Sealing /\ asked = 1 THEN "ignore" ELSE "derive")
            /\ UNCHANGED endVars
    /\ UNCHANGED <<cmd, out, touched, reserved, promptVars, streamVars>>

\* Mutant: two answers that differ are asked for once more.
AnsweredAskAgain ==
    /\ At("answered")
    /\ IF answer = "ctrl-c" /\ sigint = "default"
       THEN status' = "SIGINT" /\ UNCHANGED <<pc, asked, error, incomplete>>
       ELSE IF answer \in {"ctrl-c", "fail"} THEN Fail("Io") /\ UNCHANGED asked
       ELSE IF asked = 1 /\ answer = "empty" THEN Fail("PassphraseEmpty") /\ UNCHANGED asked
       ELSE IF asked = 2 /\ answer # "same"
       THEN Goto("ignore") /\ asked' = 0 /\ UNCHANGED endVars
       ELSE /\ Goto(IF Sealing /\ asked = 1 THEN "ignore" ELSE "derive")
            /\ UNCHANGED <<asked, endVars>>
    /\ UNCHANGED <<cmd, out, touched, reserved, sigint, previous, echo, answer, streamVars>>

\* What ask and from_terminal make of the answer.  reraise returns when the
\* parent had SIGINT ignored.
Answered ==
    /\ At("answered")
    /\ IF answer = "ctrl-c" /\ sigint = "default"
       THEN status' = "SIGINT" /\ UNCHANGED <<pc, error, incomplete>>
       ELSE IF answer \in {"ctrl-c", "fail"} THEN Fail("Io")
       ELSE IF asked = 1 /\ answer = "empty" THEN Fail("PassphraseEmpty")
       ELSE IF asked = 2 /\ answer # "same" THEN Fail("PassphraseMismatch")
       ELSE /\ Goto(IF Sealing /\ asked = 1 THEN "ignore" ELSE "derive")
            /\ UNCHANGED endVars
    /\ UNCHANGED <<cmd, out, touched, reserved, promptVars, streamVars>>

-----------------------------------------------------------------------------
(***************************************************************************)
(* FileEncryptor::init, seal_stream, open_stream: a random number, Argon2, *)
(* the KEM.  box-seal does it with the output already reserved.            *)
(***************************************************************************)
DeriveErrors ==
    IF cmd.op = "box-open" THEN IF cmd.input.right THEN {} ELSE {"BoxOpenFailed"}
    ELSE IF cmd.cred = "key" THEN {"Random"}
    ELSE IF cmd.op = "encrypt" THEN {"Random", "PassphraseDerive"}
    ELSE {"PassphraseDerive", "Io"} \cup
         (IF cmd.input.end = "truncated" /\ cmd.input.pieces = 0
          THEN {"SecretstreamTruncated"} ELSE {})

Derive ==
    /\ At("derive")
    /\ \/ Goto(IF reserved THEN "stream" ELSE "create") /\ UNCHANGED endVars
       \/ ~reserved /\ \E e \in DeriveErrors : Fail(e)
       \/ /\ reserved
          /\ error' \in DeriveErrors
          /\ Goto("finish")
          /\ UNCHANGED <<incomplete, status>>
    /\ UNCHANGED <<cmd, out, touched, reserved, promptVars, streamVars>>

\* OutputFile::create refuses what create_new refuses: anything that is there.
CreateRefusal ==
    IF cmd.sink = "tty" THEN "BinaryToTerminal"
    ELSE IF cmd.sink = "pipe" THEN "none"
    ELSE IF cmd.force THEN KeyFileRefusal
    ELSE IF out = "dir" THEN "Io"
    ELSE IF out # "none" THEN IF KeyFileRefusal # "none" THEN KeyFileRefusal ELSE "OutputExists"
    ELSE "none"

\* Output::create.  The first registration installs the signal handlers; a
\* SIGINT ignored by the parent stays ignored.
Create ==
    /\ At("create")
    /\ \/ /\ CreateRefusal # "none"
          /\ Fail(CreateRefusal)
          /\ UNCHANGED <<out, reserved, sigint>>
       \/ /\ cmd.sink = "file"
          /\ \E e \in {"Io", "Random"} : Fail(e)
          /\ UNCHANGED <<out, reserved, sigint>>
       \/ /\ CreateRefusal = "none"
          /\ reserved' = TRUE
          /\ out' = IF cmd.sink = "file" /\ ~cmd.force THEN "reserved" ELSE out
          /\ sigint' = IF cmd.sink = "file" /\ sigint = "default" THEN "handler" ELSE sigint
          /\ Goto(IF cmd.op = "box-seal" THEN "derive" ELSE "stream")
          /\ UNCHANGED endVars
    /\ UNCHANGED <<cmd, touched, previous, echo, asked, answer, streamVars>>

-----------------------------------------------------------------------------
(***************************************************************************)
(* write_stream_records and decrypt_stream_records over Output::write_all. *)
(***************************************************************************)
\* Mutant: written is set once the write has succeeded.
WriteStdoutFlagLast(n) ==
    \/ /\ held' \in {0, held + n}
       /\ printed' = printed + (held + n - held')
       /\ written' = (written \/ n > 0)
       /\ Goto("stream")
       /\ UNCHANGED error
    \/ /\ \E k \in 0 .. held + n :
             printed' = printed + k /\ held' = IF k < held THEN held - k ELSE 0
       /\ error' = "Io"
       /\ Goto("finish")
       /\ UNCHANGED written

\* BufWriter keeps the bytes or writes everything through; a failing write
\* may have written some of it, and what was held stays for the next try.
WriteStdout(n) ==
    /\ written' = (written \/ n > 0)
    /\ \/ /\ held' \in {0, held + n}
          /\ printed' = printed + (held + n - held')
          /\ Goto("stream")
          /\ UNCHANGED error
       \/ /\ \E k \in 0 .. held + n :
                printed' = printed + k /\ held' = IF k < held THEN held - k ELSE 0
          /\ error' = "Io"
          /\ Goto("finish")

\* The next piece: the prefix, a record, or the plaintext of a verified one.
WritePiece ==
    /\ At("stream")
    /\ left > 0
    /\ left' = left - 1
    /\ IF cmd.sink = "pipe" THEN WriteStdout(1)
       ELSE /\ \/ Goto("stream") /\ UNCHANGED error
               \/ Goto("finish") /\ error' = "Io"
            /\ UNCHANGED <<held, printed, written>>
    /\ UNCHANGED <<cmd, out, touched, reserved, promptVars, incomplete, status>>

\* From<FileError>, then decrypt's PassphraseWrong or box-open's stream_error.
StreamError(end) ==
    IF cmd.op = "box-open"
    THEN IF end = "truncated" THEN "BoxOpenTruncated" ELSE "BoxOpenFailed"
    ELSE IF end = "truncated" THEN "SecretstreamTruncated"
    ELSE IF end = "auth"
    THEN IF cmd.input.container = "passphrase" THEN "PassphraseWrong"
         ELSE "SecretstreamVerifyFailed"
    ELSE "SecretstreamBadFormat"

\* Mutant: the end of the input is taken for the end of the message.
EndOfInputIsFinal ==
    /\ At("stream")
    /\ \/ /\ left = 0
          /\ error' = IF Sealing \/ cmd.input.end \in {"final", "truncated"} THEN error
                      ELSE StreamError(cmd.input.end)
       \/ error' = "Io"
    /\ Goto("finish")
    /\ UNCHANGED <<cmd, out, touched, reserved, promptVars, streamVars, incomplete, status>>

\* The input has no more pieces, or it cannot be read.
EndOfInput ==
    /\ At("stream")
    /\ \/ /\ left = 0
          /\ error' = IF Sealing \/ cmd.input.end = "final" THEN error
                      ELSE StreamError(cmd.input.end)
       \/ error' = "Io"
    /\ Goto("finish")
    /\ UNCHANGED <<cmd, out, touched, reserved, promptVars, streamVars, incomplete, status>>

-----------------------------------------------------------------------------
(***************************************************************************)
(* Output::finish.  An OutputFile is committed, or its Drop takes it back; *)
(* a BufWriter that is dropped still tries to write what it holds.         *)
(***************************************************************************)
Released == IF out = "reserved" THEN "none" ELSE out

FinishFile ==
    /\ At("finish")
    /\ cmd.sink = "file"
    /\ \/ /\ error = "none" /\ out # "dir"
          /\ out' = "ours" /\ status' = "ok"
          /\ UNCHANGED error
       \/ /\ error' = IF error = "none" THEN "Io" ELSE error
          /\ out' = Released /\ status' = "error"
    /\ reserved' = FALSE
    /\ UNCHANGED <<cmd, pc, touched, promptVars, streamVars, incomplete>>

FinishStdout ==
    /\ At("finish")
    /\ cmd.sink = "pipe"
    /\ \/ /\ error = "none"
          /\ printed' = printed + held /\ status' = "ok"
          /\ UNCHANGED <<error, incomplete>>
       \/ /\ error' = IF error = "none" THEN "Io" ELSE error
          /\ printed' \in printed .. printed + held
          /\ incomplete' = written /\ status' = "error"
    /\ held' = 0
    /\ reserved' = FALSE
    /\ UNCHANGED <<cmd, pc, out, touched, promptVars, left, written>>

-----------------------------------------------------------------------------
\* SIGTERM or SIGHUP, or a SIGINT that is not ignored, from outside.  Once it
\* is installed, the handler removes the placeholder and the temp file.
Signal(s) ==
    /\ status = "running"
    /\ s = "SIGINT" => sigint # "ignored"
    /\ status' = s
    /\ out' = Released
    /\ UNCHANGED <<cmd, pc, touched, reserved, promptVars, streamVars, error, incomplete>>

\* Another process puts something at the output path, or removes it.
Touch ==
    /\ touched < MaxTouched
    /\ status = "running" /\ pc # "credential" /\ pc # "precheck"
    /\ out \in Others
    /\ out' \in Others \ {out}
    /\ touched' = touched + 1
    /\ UNCHANGED <<cmd, pc, reserved, promptVars, streamVars, endVars>>

CommandStep ==
    \/ ReadCredential \/ Precheck \/ OpenInput \/ FirstByte \/ CanPrompt \/ Ignore
    \/ EchoOff \/ Type \/ EchoOn \/ Restore \/ Answered \/ Derive \/ Create
    \/ WritePiece \/ EndOfInput \/ FinishFile \/ FinishStdout

Ended == status # "running" /\ UNCHANGED vars

Next == CommandStep \/ (\E s \in {"SIGINT", "SIGTERM"} : Signal(s)) \/ Touch \/ Ended

\* The process is scheduled and the user answers the prompt, with anything.
Spec == Init /\ [][Next]_vars /\ WF_vars(CommandStep)

-----------------------------------------------------------------------------
(***************************************************************************)
(* CliError::exit_code.                                                    *)
(***************************************************************************)
Rejected == {"SecretstreamTruncated", "SecretstreamVerifyFailed", "SecretstreamBadFormat",
             "SecretstreamUnsupportedVersion", "PassphraseWrong",
             "PassphraseFormatUnsupported", "BoxOpenTruncated", "BoxOpenFailed",
             "BoxOpenUnsupportedVersion"}
Usage == {"SameOutputPath", "BinaryToTerminal", "PassphraseNoTerminal", "PassphraseMintty",
          "PassphraseEmpty", "PassphraseMismatch", "DecryptNeedsKey",
          "DecryptKeyForPassphraseFile"}
FileOrKey == {"Io", "OutputExists", "OutputIsKeyFile", "OutputUncheckable", "Random",
              "KeyKindMismatch", "PassphraseFileInvalid", "PassphraseDerive"}

\* StdoutIncomplete has the exit code of the error inside it.
ExitCode ==
    CASE status = "ok" -> 0
      [] error \in Rejected -> 1
      [] error \in Usage -> 2
      [] error \in FileOrKey -> 3

(***************************************************************************)
(* Output::finish: stdout cannot be taken back, so a command that failed   *)
(* after something reached stdout says StdoutIncomplete, and one that      *)
(* reports success has written the whole message.                          *)
(***************************************************************************)
StdoutReported ==
    /\ status = "error" /\ printed > 0 => incomplete
    /\ status = "ok" /\ cmd.sink = "pipe" => printed = Pieces

(***************************************************************************)
(* sigint.rs: a Ctrl-C at the prompt, or any other end of the command but  *)
(* a SIGTERM or SIGHUP, leaves the terminal echoing; and SIGINT is ignored *)
(* only by a living Ignored guard or by the parent, so a Ctrl-C outside    *)
(* the prompt is never lost.                                               *)
(***************************************************************************)
EchoRestored ==
    /\ status \in {"ok", "error", "SIGINT"} => echo
    /\ sigint = "ignored" => cmd.nohup \/ pc \in {"echoOff", "typing", "echoOn", "restore"}

(***************************************************************************)
(* Sink::precheck: nobody types a passphrase only to hear that --out is    *)
(* refused, unless the path changed in the meantime: precheck refuses      *)
(* whatever Output::create would.                                          *)
(***************************************************************************)
PromptNotWasted ==
    /\ error \in {"OutputExists", "OutputIsKeyFile", "OutputUncheckable",
                  "BinaryToTerminal"}
    /\ asked > 0
    => touched > 0

(***************************************************************************)
(* docs/CLI.md: "A script can therefore tell 'this file was forged' (1)    *)
(* from 'I typed the command wrong' (2)".  An intact input is never        *)
(* reported as rejected under its own credential, and a rejected one never *)
(* becomes an output.                                                      *)
(***************************************************************************)
RightInput ==
    /\ cmd.input.right /\ cmd.input.header = "good" /\ cmd.input.end = "final"
    /\ cmd.input.container = IF cmd.op = "box-open" THEN "box"
                             ELSE IF cmd.cred = "key" THEN "stream" ELSE "passphrase"

ExitCodeTells ==
    status \in {"ok", "error"} =>
        IF Sealing \/ RightInput THEN ExitCode # 1
        ELSE ExitCode # 0 /\ out # "ours"

(***************************************************************************)
(* The command ends, whatever fails, once the prompt is answered; and a    *)
(* Ctrl-C at the prompt (from_terminal) ends it by the signal, or by an    *)
(* error where the parent ignores SIGINT: it is never an answer.           *)
(***************************************************************************)
CommandEnds ==
    /\ <>(status # "running")
    /\ [](answer = "ctrl-c" => <>[](status \in {"SIGINT", "SIGTERM", "error"}))
=============================================================================
