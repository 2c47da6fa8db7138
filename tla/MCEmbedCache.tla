---------------------------- MODULE MCEmbedCache ----------------------------
(* Model-checking instances of EmbedCache: vectors are at the addresses 1 to *)
(* MaxSlices, one per cached text and two per goroutine.                     *)
EXTENDS EmbedCache

CONSTANT MaxSlices

Addresses == 1 .. MaxSlices
=============================================================================
