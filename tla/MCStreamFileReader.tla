------------------------- MODULE MCStreamFileReader -------------------------
(***************************************************************************)
(* Chunks of two bytes.  One file holds an empty message, a message of one *)
(* full Final chunk, or a full chunk and a short Final; the other file is  *)
(* there for its records to be mixed in.                                   *)
(***************************************************************************)
EXTENDS StreamFileReader, TLC

CONSTANTS k1, k2, s1, s2

MCStreams == {s1, s2}
MCPlaintexts == (s1 :> {<< >>, <<1, 2>>, <<1, 2, 3>>}) @@ (s2 :> {<<8, 9, 7>>})
=============================================================================
