------------------------- MODULE MCStreamFileWriter -------------------------
(***************************************************************************)
(* Chunks of three bytes, so that a read can be short in two ways, and     *)
(* inputs on both sides of the one- and two-chunk boundaries.              *)
(***************************************************************************)
EXTENDS StreamFileWriter

CONSTANTS k1, h1

MCInputs == {[i \in 1 .. n |-> i] : n \in 0 .. 7}
=============================================================================
