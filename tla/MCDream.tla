------------------------------- MODULE MCDream -------------------------------
(* Model-checking instances of Dream: the sets of traits memories may have,   *)
(* and what else may happen in a behaviour.                                   *)
EXTENDS Dream

IdleStale == {{}, {"idle", "stale", "often"}}
Mixed == {{"idle"}, {"often"}}

Quiet == {{}}
Users == {{"invalidate", "delete", "crash", "readfail"}}
QuietOrDisturbed == {{}, {"confidence", "crash", "lock"}}

\* Decay and boost in undisturbed cycles, merges alone in disturbed ones.
SplitInit == Init /\ (env # {} => \A i \in Ids : trait[i] = {})

SplitSpec == SplitInit /\ [][Next]_vars /\ Fairness
=============================================================================
