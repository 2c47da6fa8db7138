--------------------------- MODULE MCHomeMigration ---------------------------
(* Model-checking instances of HomeMigration.                                 *)
EXTENDS HomeMigration, TLC

Symmetric == Permutations(Memories) \cup Permutations(Procs)
=============================================================================
