--------------------------- MODULE MCBindingStream ---------------------------
(***************************************************************************)
(* Chunks of two bytes: writes below and above a chunk, so that the        *)
(* buffer is empty, partly filled or full before a write and a write seals *)
(* none, one or two records.  Every binding writes a stream for the next   *)
(* one in a ring of them.                                                  *)
(***************************************************************************)
EXTENDS BindingStream

Ring == <<"go", "python", "java", "node", "cpp", "ruby", "dotnet", "php">>
MCPairs == {<<Ring[i], Ring[(i % 8) + 1]>> : i \in 1 .. 8}
MCForms == {"key", "box", "passphrase"}
MCSizes == {1, 3}
MCCaps == {1, 3}
=============================================================================
