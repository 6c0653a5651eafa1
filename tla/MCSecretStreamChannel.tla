----------------------- MODULE MCSecretStreamChannel ------------------------
(***************************************************************************)
(* Two streams and a header no stream has, two keys, one puller: wrong     *)
(* key, wrong header and chunks spliced from the other stream all occur.   *)
(* Keys are interchangeable, and so are the streams.                       *)
(***************************************************************************)
EXTENDS SecretStreamChannel, TLC

CONSTANTS s1, s2, h0, k1, k2, p1

MCStreams == {s1, s2}
MCHeaders == {s1, s2, h0}
MCKeys == {k1, k2}
MCPullers == {p1}
MCPlaintexts == {<<7>>}
MCSymmetry == Permutations({k1, k2}) \cup Permutations({s1, s2})
=============================================================================
