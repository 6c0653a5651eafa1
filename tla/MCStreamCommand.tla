-------------------------- MODULE MCStreamCommand ---------------------------
(* Command lines for StreamCommand: every credential, sink and input. *)
EXTENDS StreamCommand

MCPlain == [container : {"other"}, header : {"good"}, right : {FALSE}, pieces : {0},
            end : {"truncated"}]
\* A plaintext has no container: only its length matters to encrypt and box-seal.
MCPlaintexts == {[p EXCEPT !.right = TRUE, !.pieces = n, !.end = "final"] :
                    p \in MCPlain, n \in {0, 1}}
\* Streams that are intact, cut, changed or malformed at once or after two pieces.
MCOpened(c) == [container : {c}, header : {"good"}, right : {TRUE}, pieces : {0, 2},
                end : Ends]
MCRefused(c) == [container : {c}, header : {"good", "short", "bad"}, right : {FALSE},
                 pieces : {0}, end : {"auth"}]
MCForeign == [container : {"other", "none"}, header : {"good"}, right : {FALSE},
              pieces : {0}, end : {"format"}]
MCStreams(c) == MCOpened(c) \cup MCRefused(c) \cup MCForeign
MCDecrypted == {i \in MCStreams("stream") \cup MCStreams("passphrase") :
                   i.container = "stream" => i.header = "good"}

MCSinks == {<<"file", FALSE>>, <<"file", TRUE>>, <<"pipe", FALSE>>, <<"tty", FALSE>>}
MCLines(ops, creds, inputs, nohups) ==
    {[op |-> o, cred |-> c, input |-> i, sink |-> s[1], force |-> s[2], nohup |-> h] :
        o \in ops, c \in creds, i \in inputs, s \in MCSinks, h \in nohups}

MCCommands ==
    UNION {MCLines({"encrypt"}, {"key", "passphrase-file"}, MCPlaintexts, {FALSE}),
           MCLines({"encrypt"}, {"terminal"}, MCPlaintexts, BOOLEAN),
           MCLines({"box-seal"}, {"key"}, MCPlaintexts, {FALSE}),
           MCLines({"decrypt"}, {"key", "passphrase-file"}, MCDecrypted, {FALSE}),
           MCLines({"decrypt"}, {"terminal"}, MCDecrypted, BOOLEAN),
           MCLines({"box-open"}, {"key"}, MCStreams("box"), {FALSE})}
=============================================================================
