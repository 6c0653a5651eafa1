---------------------------- MODULE MCOutputFile ----------------------------
(***************************************************************************)
(* Small instances of OutputFile for TLC.                                  *)
(***************************************************************************)
EXTENDS OutputFile

CONSTANTS p1, p2, a, b, c

AnyFile == {Absent, OldFile, OldKey}
Nothing == {Absent}

Writes(outs, force, signals) ==
    [outs |-> outs, force |-> force, key |-> FALSE, signals |-> signals]
WritesKey(path, signals) ==
    [outs |-> <<path>>, force |-> FALSE, key |-> TRUE, signals |-> signals]

\* One process, any command: kalyna-ccm and kalyna-gcm encrypt have three outputs.
OneCommand ==
    [{p1} -> {Writes(outs, force, TRUE) : outs \in {<<a>>, <<a, b, c>>}, force \in BOOLEAN}
                 \cup {WritesKey(a, TRUE)}]
\* Two processes on the same path, neither with --force nor interrupted.
TwoWithoutForce == [{p1, p2} -> {Writes(<<a>>, FALSE, FALSE), WritesKey(a, FALSE)}]
AnyCommand == OneCommand \cup TwoWithoutForce
\* Three outputs, no interruption.
ThreeOutputs == [{p1} -> {Writes(<<a, b, c>>, FALSE, FALSE)}]
\* Two processes on the same path, one with --force.
OneWithForce == {[p \in {p1, p2} |-> Writes(<<a>>, p = p2, FALSE)]}
=============================================================================
