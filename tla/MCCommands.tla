----------------------------- MODULE MCCommands -----------------------------
(***************************************************************************)
(* Sessions for TLC, one family per group of commands. Every family has a  *)
(* few file systems to start from and the command lines of its commands    *)
(* over a handful of paths, wrong ones included: the key as the output,    *)
(* the input as the key, a link, a directory, a file that cannot be read.  *)
(***************************************************************************)
EXTENDS Commands

Files(a, b, c, d) ==
    [a |-> a, b |-> b, c |-> c, d |-> d, ln |-> Link("a"), new |-> Absent]

Data1 == Bytes(1, 32, 85)
Data2 == Bytes(2, 40, 2)
\* The longest text of CCM and the shortest it refuses, the longest key that kalyna-kw
\* wraps under a block of 32 bytes and the shortest it refuses.
Longest(mode) == IF mode = "ccm" THEN Bytes(4, 255, 85) ELSE Bytes(5, 640, 85)
TooLong(mode) == IF mode = "ccm" THEN Bytes(6, 256, 85) ELSE Bytes(7, 672, 85)
MCContents == {Data1, Data2, NoBytes, TooLong("ccm"), TooLong("kw")}
MCDashed == {"--x"}
MCStdin == Bytes(3, 32, 85)
MCUnprintable == {"d"}

Secret(kind, id) == encode(kind, KeyBytes(id))
Public(kind, id) == encode(PublicHalf(kind), PublicKey(kind, KeyBytes(id)))

On(p) == Arg("--in", p)
To(p) == Arg("--out", p)
With(p) == Arg("--key", p)
Forced == <<Flag("--force")>>
MayForce(groups) == {groups, Append(groups, Forced)}
Lines(words, groupings) == {[NoLine EXCEPT !.words = words, !.groups = g] : g \in groupings}
Terminal(lines) == {[l EXCEPT !.env.tty = TRUE, !.env.typed = "pw"] : l \in lines}
NoRandom(lines) == {[l EXCEPT !.env.rng = FALSE] : l \in lines}

Sealing(keys, ins, outs) ==
    UNION {MayForce(<<With(k), On(i), To(o)>>) : k \in keys, i \in ins, o \in outs}

\* sign-keygen*, sign-pubkey, sign, verify.
SignLines ==
    Lines(<<"sign-keygen">>, {<<To("b")>>}) \union Lines(<<"sign-keygen257">>, {<<To("b")>>, <<To("ln")>>, <<To("-")>>})
    \union Lines(<<"sign-pubkey">>, {<<With(k), To(o)>> : k \in {"a", "b", "ln"}, o \in {"c", "-"}})
    \union Lines(<<"sign">>, Sealing({"a", "b"}, {"d", "-"}, {"c", "ln"})
                             \union {<<With("ln"), On("d"), To("a"), Forced>>, <<With("a"), On("c"), To("c")>>,
                                     <<With("a"), On("d"), To("-"), Arg("--iterations", "2")>>})
    \union Lines(<<"verify">>, {<<With("b"), On("d"), Arg("--sig", s)>> : s \in {"c", "a"}})
    \union NoRandom(Lines(<<"sign-keygen">>, {<<To("c")>>}))
SignFamily ==
    [start |-> {Files(Secret("sign163secret", 11), Public("sign163secret", 11), Absent, Data1),
                Files(Secret("sign257secret", 12), Absent, Directory, Data2),
                Files([Secret("sign163secret", 13) EXCEPT !.key.good = FALSE, !.check[2].good = FALSE],
                      [Secret("sign163secret", 11) EXCEPT !.ending = "lf lf"], Absent, NoBytes)},
     lines |-> SignLines, steps |-> 3]

\* box-keygen*, box-pubkey, box-seal, box-open.
BoxLines ==
    Lines(<<"box-keygen">>, {<<To("b")>>}) \union Lines(<<"box-keygen384">>, {<<To("b")>>})
    \union Lines(<<"box-keygen512">>, {<<To("c")>>})
    \union Lines(<<"box-pubkey">>, {<<With(k), To(o)>> : k \in {"a", "b"}, o \in {"c", "-"}})
    \union Lines(<<"box-seal">>, Sealing({"b", "c"}, {"d"}, {"c", "d"})
                                 \union {<<With("b"), On("c"), To("c"), Arg("--iterations", "2")>>})
    \union Lines(<<"box-open">>, Sealing({"a", "ln"}, {"c", "d"}, {"d"})
                                 \union {<<With("a"), On("d"), To("ln"), Forced>>,
                                         <<With("a"), On("c"), To("-"), Arg("--iterations", "0")>>})
    \union NoRandom(Lines(<<"box-seal">>, {<<With("b"), On("d"), To("-")>>}))
    \union Terminal(Lines(<<"box-seal">>, {<<With("b"), On("d"), To("-")>>}))
BoxFamily ==
    [start |-> {Files(Secret("box256secret", 21), Public("box256secret", 21), Absent, Data1),
                Files(Secret("box384secret", 22), Absent, Public("box384secret", 22), Bytes(5, 90, 3)),
                Files(Secret("box256secret", 21), Public("box256secret", 24),
                      [t |-> "box", to |-> PublicKey("box256secret", KeyBytes(24)), curve |-> "box256public", of |-> Data1], Data2),
                Files([Secret("box512secret", 23) EXCEPT !.hex = FALSE], Public("box512secret", 23),
                      Unreadable(Data1), Data2)},
     lines |-> BoxLines, steps |-> 3]

\* keygen, encrypt and decrypt with a key or a passphrase.
Text(words, ending) == [t |-> "text", words |-> words, ending |-> ending]
Phrases(p) == Arg("--passphrase-file", p)
StreamLines ==
    Lines(<<"keygen">>, {<<To(o)>> : o \in {"c", "a", "-"}})
    \union Lines(<<"encrypt">>, Sealing({"a", "c"}, {"d", "-"}, {"d", "b"}))
    \union Lines(<<"encrypt">>, {<<Phrases(k), On("d"), To("c")>> : k \in {"a", "b"}}
                                \union {<<On("d"), To("-")>>, <<With("a"), Phrases("b"), On("d"), To("c")>>})
    \union Terminal(Lines(<<"encrypt">>, {<<<<Flag("--passphrase")>>, On("d"), To("c")>>,
                                          <<With("a"), On("d"), To("-")>>}))
    \union Lines(<<"decrypt">>, Sealing({"a", "ln"}, {"b", "d"}, {"d"})
                                \union {<<Phrases("b"), On("c"), To("-")>>, <<On("d"), To("ln")>>,
                                        <<On("c"), To("c"), Forced>>, <<<<Flag("--passphrase")>>, On("c"), To("-")>>})
    \union Terminal(Lines(<<"decrypt">>, {<<On("c"), To("d"), Forced>>}))
    \union NoRandom(Lines(<<"encrypt">>, {<<With("a"), On("d"), To("c")>>}))
StreamFamily ==
    [start |-> {Files(Secret("symmetric", 31), Text("pw", "lf"), Absent, Data1),
                Files([Secret("symmetric", 32) EXCEPT !.bom = TRUE], Text("pw", "lf lf"), Secret("symmetric", 32), Data2),
                Files([Secret("symmetric", 31) EXCEPT !.check[2].id = 33], Text("pw", "none"),
                      [t |-> "enc", key |-> KeyBytes(31), of |-> Data1], Data1),
                Files(Secret("symmetric", 31), Text("other", "lf"),
                      Absent, [t |-> "penc", phrase |-> [words |-> "pw", key |-> 0], of |-> Data1]),
                Files(Text("other", "lf"), Text("pw", "none"), Absent, NoBytes)},
     lines |-> StreamLines, steps |-> 3]

\* hash and hash --check.
HashLines ==
    Lines(<<"hash">>, {<<On(p)>> : p \in {"a", "c", "d", "ln", "-"}}
                      \union {<<Arg("--check", p)>> : p \in {"b", "c", "-"}}
                      \union {<<>>, <<On("a"), Arg("--check", "b")>>})
List(form, lines) == [t |-> "list", form |-> form, lines |-> lines]
HashFamily ==
    [start |-> {Files(Data1, Absent, Absent, Data2),
                Files(Data1, List("good", <<[of |-> Data1, path |-> "ln"], [of |-> Data1, path |-> "a"]>>),
                      Unreadable(Data1), Data1),
                Files(Data1, List("huge", <<>>), NoBytes, Data1),
                Files(Directory, List("utf16", <<>>), List("badline", <<>>), NoBytes)},
     lines |-> HashLines, steps |-> 3]


\* key-import: raw keys of version 0.4, a signing key with its curve byte.
Raw(kind, id, len, lead) ==
    [Bytes(id, len, lead) EXCEPT !.v.pub = IF is_secret(kind) THEN "" ELSE kind]
As(kind) == Arg("--kind", kind)
ImportLines ==
    Lines(<<"key-import">>,
          {<<As(k), On(i), To(o)>> : k \in {"symmetric", "sign163public", "box256secret", "sign163secret"},
                                     i \in {"a", "b"}, o \in {"c", "ln", "-"}}
          \union {<<As("sign257public"), On("b"), To("c")>>, <<As("other"), On("a"), To("c")>>})
    \union Lines(<<"sign">>, {<<With("c"), On("d"), To("b"), Forced>>})
    \union Lines(<<"verify">>, {<<With("c"), On("d"), Arg("--sig", "b")>>})
ImportFamily ==
    [start |-> {Files(Raw("symmetric", 41, 32, 85), Raw("sign163public", 42, 43, 1), Absent, Data1),
                Files([Raw("box256secret", 43, 32, 85) EXCEPT !.v.good = FALSE],
                      Raw("sign257public", 44, 67, 2), Absent, Data1),
                Files(Raw("sign163secret", 42, 21, 85), Raw("sign163public", 42, 43, 2), Absent, Data2)},
     lines |-> ImportLines, steps |-> 2]

\* hazmat kalyna-ccm, kalyna-gcm and kalyna-gmac.
Of(v) == Arg("--variant", v)
AeadLine(v, i, o, t, n) == <<Of(v), With("a"), On(i), To(o), Arg("--tag", t), Arg("--nonce", n)>>
AeadLines(mode) ==
    Lines(<<"hazmat", mode, "encrypt">>,
          MayForce(AeadLine("128-128", "b", "c", "d", "e"))
          \union {Append(AeadLine("128-128", "b", "c", "d", "e"), Arg("--aad", p)) : p \in {"b", "f", "c"}}
          \union {AeadLine("256-256", "f", "c", "d", "e"), AeadLine("128-128", "b", "c", "d", "c"),
                  Append(AeadLine("128-128", "b", "b", "d", "e"), Forced),
                  Append(AeadLine("128-128", "b", "c", "a", "e"), Forced)})
    \union Lines(<<"hazmat", mode, "decrypt">>,
                 MayForce(AeadLine("128-128", "c", "b", "d", "e"))
                 \union {Append(AeadLine("128-128", "c", "f", "d", "e"), Forced),
                         Append(AeadLine("128-128", "c", "d", "d", "e"), Forced)})
AeadStart ==
    LET fs(a, b, d, f) == [a |-> a, b |-> b, c |-> Absent, d |-> d, e |-> Absent, f |-> f, new |-> Absent]
    IN  {fs(Bytes(51, 16, 85), Data1, Absent, NoBytes),
         fs(Bytes(51, 16, 85), NoBytes, Directory, Data2),
         fs(Bytes(51, 16, 85), Longest("ccm"), Absent, Longest("ccm")),
         fs(Bytes(51, 16, 85), TooLong("ccm"), Absent, TooLong("ccm")),
         fs(Bytes(51, 16, 85), Data1, Absent, TooLong("ccm")),
         fs(Bytes(52, 32, 85), Data1, Secret("symmetric", 53), Absent)}
CcmFamily ==
    [start |-> AeadStart, lines |-> AeadLines("kalyna-ccm"), steps |-> 2]
GcmFamily ==
    [start |-> AeadStart, lines |-> AeadLines("kalyna-gcm") \union NoRandom(AeadLines("kalyna-gcm")), steps |-> 2]

GmacLines ==
    LET args == <<Of("128-128"), With("a"), On("b")>>
    IN  Lines(<<"hazmat", "kalyna-gmac", "compute">>,
              MayForce(Append(args, To("c"))) \union {args, Append(args, To("ln")), Append(args, To("b"))})
        \union Lines(<<"hazmat", "kalyna-gmac", "verify">>,
                     {args, Append(args, Arg("--tag", "c")), Append(args, Arg("--tag", "d"))})
GmacFamily ==
    [start |-> {Files(Bytes(54, 16, 85), Data1, Absent, Bytes(55, 16, 85)),
                Files(Bytes(54, 16, 85), NoBytes, Absent, Bytes(55, 4, 85))},
     lines |-> GmacLines, steps |-> 3]

\* hazmat kalyna-block, kalyna-xts, kalyna-kw, kupyna-digest and strumok-crypt.
RawLines ==
    LET args(i, o) == {<<Of("256-256"), With("a"), On(i), To(o)>>,
                       <<Of("256-256"), With("a"), On(i), To(o), Forced>>}
        io == {<<"b", "c">>, <<"c", "d">>, <<"b", "b">>, <<"c", "a">>}
        all == UNION {args(p[1], p[2]) : p \in io}
        bits == {[g EXCEPT ![1] = Of("256")] : g \in all}
    IN  UNION {Lines(<<"hazmat", "kalyna-block", sub>>, all) \union Lines(<<"hazmat", "kalyna-xts", sub>>,
                     {Append(g, Arg("--tweak", "a")) : g \in all}) : sub \in {"encrypt", "decrypt"}}
        \union UNION {Lines(<<"hazmat", "kalyna-kw", sub>>, all) : sub \in {"wrap", "unwrap"}}
        \union Lines(<<"hazmat", "strumok-crypt">>,
                     UNION {{Append(g, Arg("--iv", "a")),
                             g \o <<Arg("--iv", "a"), Arg("--iterations", "2")>>,
                             g \o <<Arg("--iv", "a"), Arg("--iterations", "2"), <<Flag("--raw-schedule")>>>>} : g \in bits})
        \union Lines(<<"hazmat", "kupyna-digest">>,
                     {<<Of(v), On(i), To("d")>> : v \in {"256", "512", "128"}, i \in {"b", "d"}})
RawFamily ==
    [start |-> {Files(Bytes(61, 32, 85), Data1, Absent, Absent),
                Files(Bytes(61, 32, 85), Longest("kw"), TooLong("kw"), Absent),
                Files(Bytes(61, 32, 85), Bytes(62, 16, 85), Bytes(63, 64, 85), Data2)},
     lines |-> RawLines \union NoRandom({l \in RawLines : l.words[2] \in {"kalyna-block", "kupyna-digest"}}), steps |-> 2]

\* Dispatch, help, and command lines the scanner refuses.
Bad == {<<<<Flag("--bogus")>>>>, <<On("a"), On("a")>>, <<<<FlagValue("--force", "x")>>, On("a")>>,
        <<On("a"), <<Dash("-x")>>>>, <<On("a"), <<Word("a")>>>>, <<Forced, Forced>>,
        <<<<FlagValue("--in", "")>>>>, <<On("--x")>>, <<<<Flag("--out")>>, On("b")>>, <<On("b"), <<Flag("--key")>>>>, <<On("-")>>, <<On("b"), <<Flag("--help")>>>>, <<<<Dash("-h")>>>>}
ArgLines ==
    UNION {Lines(w, Bad \union {<<>>}) :
             w \in {<<"hash">>, <<"encrypt">>, <<"sign">>, <<"verify">>, <<"keygen">>, <<"hazmat", "kalyna-kw", "wrap">>,
                    <<"hazmat", "strumok-crypt">>, <<"key-import">>, <<"box-open">>, <<"decrypt">>}}
    \union Lines(<<"sign">>, {<<With("a"), On("b"), To("c"), Arg("--iterations", "x")>>,
                              <<With("a"), On("--x"), To("c")>>, <<With("--x"), On("b"), To("c")>>,
                              <<With("a"), On("b"), <<Flag("--out")>>>>, <<With("a"), <<Flag("--in")>>, To("c")>>,
                              <<With("a"), On("b"), To("-"), Forced>>, <<With("-"), On("b"), To("c")>>})
    \union UNION {Lines(w, {<<>>, <<<<Flag("--help")>>>>}) :
                    w \in {<<>>, <<"help">>, <<"help", "sign">>, <<"help", "sing">>, <<"help", "sign", "hash">>, <<"hazmat">>,
                           <<"hazmat", "kalyna-cmac">>, <<"hazmat", "kalyna-ccm">>, <<"hazmat", "kalyna-ccm", "open">>,
                           <<"hazmat", "kupyna">>, <<"kalyna-cmac">>, <<"kalyna-gcm">>, <<"sign257">>, <<"sing">>,
                           <<"completions">>, <<"completions", "bash">>, <<"completions", "sh">>,
                           <<"completions", "bash", "zsh">>, <<"man">>, <<"man", "sign">>}}
    \union Lines(<<>>, {<<<<Flag("--version")>>>>, <<<<Dash("-V")>>>>})
ArgFamily ==
    [start |-> {Files(Secret("sign163secret", 71), Data1, Absent, Absent)
                @@ ("--x" :> Data2) @@ ("lx" :> Link("--x"))}, lines |-> ArgLines, steps |-> 1]

MCFamilies ==
    [sign |-> SignFamily, box |-> BoxFamily, stream |-> StreamFamily, hash |-> HashFamily,
     import |-> ImportFamily, ccm |-> CcmFamily, gcm |-> GcmFamily, gmac |-> GmacFamily,
     raw |-> RawFamily, args |-> ArgFamily]

=============================================================================
