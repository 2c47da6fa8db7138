----------------------------- MODULE MCRetriever -----------------------------
(* Model-checking instances of Retriever: every table of N memories over the  *)
(* given ranks, similarities, types and signals, and every request on it, but *)
(* that what a call does not look at has one value only.                      *)
EXTENDS Retriever

\* Alpha is for the hybrid mode, the blend for HybridSearch; a text search needs
\* neither embedder nor index; a search by embedding no text search; with the
\* index the scan of the table is there too, as its fallback.  Bound: where two
\* searches are fused there is no blend, which reorders what was found in the
\* same way in every mode.
Needed(r) ==
    /\ r.mode # "hybrid" => \A a \in Alphas : r.alpha <= a
    /\ r.mode = "vector" \/ (r.mode = "hybrid" /\ r.embedder = "up") =>
          \A b \in Blends : r.blend <= b
    /\ r.mode = "fts" => r.embedder = "none"
    /\ r.mode \in {"semantic", "vector"} => r.fts5
    /\ r.mode = "vector" \/ r.vecOn

\* The query of the index does not look at the similarities of the table, nor the
\* scan of the table at those of the index.  Bound: in the modes that do more than
\* a search by embedding the two agree.
IndexAlone == request.mode = "vector" /\ request.vecOn

Indexed(i) ==
    IF IndexAlone THEN 0 .. MaxSim
                  ELSE {IF request.mode = "vector" THEN 0 ELSE mems[i].sim}

\* Validity is for the mode "vector", the rank for FTS5 queries, the similarity
\* for searches by embedding, the signal for the blend.
Looked(m) ==
    /\ request.mode # "vector" => m.valid
    /\ request.mode \in {"semantic", "vector"} \/ ~request.fts5 => m.bm25 = 0
    /\ request.mode = "fts" \/ request.embedder # "up" \/ IndexAlone => m.sim = 0
    /\ request.blend = 0 => \A s \in Signals : m.signal <= s

MCInit ==
    /\ request \in {r \in Requests : Needed(r)}
    /\ mems \in [Ids -> {m \in Memory : Looked(m)}]
    /\ index \in [Ids -> 0 .. MaxSim] /\ \A i \in Ids : index[i] \in Indexed(i)
    /\ Init

MCSpec == MCInit /\ [][Next]_vars
=============================================================================
