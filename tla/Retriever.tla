------------------------------ MODULE Retriever ------------------------------
(***************************************************************************)
(* HybridSearch of internal/retriever: a full-text search, an embedding    *)
(* search, the fusion of their ranks (RRF) and the blend with a memory's   *)
(* own signals, and the access tracking of what is returned; and the       *)
(* store's SearchByEmbedding as programs that use the library call it      *)
(* (mode "vector").  Between the statements other processes may delete or  *)
(* expire memories.                                                        *)
(*                                                                         *)
(* How well a memory matches the query is part of its row: `bm25` is FTS5's *)
(* rank (the lower the better, 0 for no match), `sim` its cosine similarity *)
(* (0 without an embedding).  `valid` says whether it was valid at the     *)
(* call, `signal` is its weighted signal.  An expired memory may still have *)
(* an embedding: SupersedeBySource leaves it.  The vector index is a table  *)
(* of its own and need not agree with the memory table: it is rebuilt, at   *)
(* every open, from the valid memories alone, a row that cannot be written  *)
(* is passed over, new content leaves the old embedding in it, and a memory *)
(* deleted or expired since may still be there.  `index` is the similarity  *)
(* each memory's row of it has when it is queried, 0 without a row.         *)
(* Scores are fractions, written as a numerator and a denominator.          *)
(***************************************************************************)
EXTENDS Integers, Sequences, FiniteSets, SequencesExt

CONSTANTS
    N,            \* memories, identified by 1 .. N
    Types,        \* memory types
    MaxRank, MaxSim, Signals,
    Modes, Limits,    \* search modes and limits callers ask for
    Thresholds,       \* least similarities; 1 stands for the retriever's 0.0
    MaxRows,      \* rows a search without the index reads (10000)
    RrfK,         \* RRF constant (60)
    Alphas, Blends,   \* numerators of alpha and blend
    Unit          \* their denominator

ASSUME UnitAssumption ==
    /\ {N, MaxRank, MaxSim} \subseteq Nat /\ {MaxRows, RrfK, Unit} \subseteq Nat \ {0}
    /\ Signals \subseteq Nat
    /\ Alphas \subseteq 0 .. Unit /\ Blends \subseteq 0 .. Unit
    /\ Limits \subseteq Nat \ {0} /\ Thresholds \subseteq Nat \ {0}
    /\ Modes \subseteq {"hybrid", "fts", "semantic", "vector"}

Ids == 1 .. N

\* Calls of HybridSearch and the retriever they are made on; `fts5` says whether
\* an FTS5 query works.  In mode "vector" the caller has the query's embedding
\* and gives a threshold; no other asks for valid memories only.
Requests ==
    {r \in [mode : Modes, limit : Limits, type : Types \cup {"any"}, alpha : Alphas,
            blend : Blends, embedder : {"none", "down", "up"}, vecOn : BOOLEAN,
            validOnly : BOOLEAN, threshold : Thresholds \cup {1}, fts5 : BOOLEAN] :
        IF r.mode = "vector" THEN r.embedder = "up" /\ r.type = "any"
                             ELSE ~r.validOnly /\ r.threshold = 1}

VARIABLES
    mems,      \* the memory table
    index,     \* similarities in the vector index
    present,   \* ids still in it
    expired,   \* ids of the memories that are no longer valid
    request,   \* the call
    fts, sem,  \* what the two searches returned, best first
    searched,  \* what the search by embedding looked in: kept for the properties
    results, access,
    pc

vars == <<mems, index, present, expired, request, fts, sem, searched, results, access, pc>>
tables == <<mems, index, present, expired, request>>

Memory == [type : Types, bm25 : 0 .. MaxRank, sim : 0 .. MaxSim, signal : Signals,
           valid : BOOLEAN]

TypeOK ==
    /\ mems \in [Ids -> Memory] /\ index \in [Ids -> 0 .. MaxSim]
    /\ present \subseteq Ids /\ expired \subseteq Ids
    /\ request \in Requests
    /\ \A s \in {fts, sem, results} : s \in Seq(Ids) /\ Len(s) <= N
    /\ access \in [Ids -> Nat]
    /\ searched \in {"nothing", "index", "table"}
    /\ pc \in {"start", "embed", "query", "fetch", "fuse", "touch", "done", "error"}

Init ==
    /\ request \in Requests
    /\ mems \in [Ids -> Memory] /\ index \in [Ids -> 0 .. MaxSim]
    /\ present = Ids
    /\ expired = {i \in Ids : ~mems[i].valid}
    /\ fts = <<>> /\ sem = <<>> /\ results = <<>>
    /\ searched = "nothing"
    /\ access = [i \in Ids |-> 0]
    /\ pc = IF request.mode = "vector" THEN "query" ELSE "start"

Kept(i) == request.type \in {"any", mems[i].type}
Capped(s) == SubSeq(s, 1, IF Len(s) < request.limit THEN Len(s) ELSE request.limit)
Found(s) == {s[k] : k \in DOMAIN s}
-----------------------------------------------------------------------------
Frac(n, d) == [num |-> n, den |-> d]
Above(a, b) == a.num * b.den > b.num * a.den
Same(a, b) == a.num * b.den = b.num * a.den

\* The orders that put the higher score first.  Nothing is said of equal scores:
\* neither ORDER BY nor sort.Slice is stable.
Descending(S, score) ==
    {s \in SetToSeqs(S) :
        \A h, k \in DOMAIN s : h < k => ~Above(score[s[k]], score[s[h]])}

\* searchFTS: ORDER BY rank DESC.
SearchFTS ==
    LET hits == {i \in present : mems[i].bm25 > 0 /\ Kept(i)}
    IN  {Capped(s) : s \in Descending(hits, [i \in hits |-> Frac(mems[i].bm25, 1)])}

\* fallbackLikeSearch, when the FTS5 query fails: the memories that contain the
\* query as it stands, whichever those are, in the order of their last update.
LikeSearch == {Capped(s) : s \in UNION {SetToSeqs(S) :
                                S \in SUBSET {i \in present : Kept(i)}}}

TextSearch == IF request.fts5 THEN SearchFTS ELSE LikeSearch

\* Seeded fault: the least similar first.
NearestLast(S, sim) ==
    LET near == {i \in S : sim[i] >= request.threshold}
    IN  Descending(near, [i \in near |-> Frac(-sim[i], 1)])

\* What both ways of SearchByEmbedding look for, most similar first: ids only,
\* and of any type.
Nearest(S, sim) ==
    LET near == {i \in S : sim[i] >= request.threshold}
    IN  Descending(near, [i \in near |-> Frac(sim[i], 1)])

\* Seeded fault: the zero a map returns for an absent memory is its rank.
RankZero(s, i) == IF i \in Found(s) THEN CHOOSE k \in DOMAIN s : s[k] = i ELSE 0

\* Rank in a list; a memory that is not in it comes after all that are.
Rank(s, i) == IF i \in Found(s) THEN CHOOSE k \in DOMAIN s : s[k] = i ELSE Len(s) + 1

\* Seeded fault: the two weights are swapped.
RRFSwapped(semantic, text, alpha, i) ==
    LET s == RrfK + Rank(semantic, i)
        f == RrfK + Rank(text, i)
    IN  Frac(alpha * s + (Unit - alpha) * f, Unit * s * f)

\* alpha / (k + semantic rank) + (1 - alpha) / (k + FTS rank)
RRF(semantic, text, alpha, i) ==
    LET s == RrfK + Rank(semantic, i)
        f == RrfK + Rank(text, i)
    IN  Frac(alpha * f + (Unit - alpha) * s, Unit * s * f)

\* applyReranking's score: rrf * (1 - blend) + signal * blend.
Blended(score, i) ==
    Frac(score.num * (Unit - request.blend) + mems[i].signal * request.blend * score.den,
         score.den * Unit)

\* RRFScore over what the searches returned, then applyReranking; both sort by
\* score, ties by id.
Fused(semantic, text, alpha, S) ==
    LET score == [i \in S |-> Blended(RRF(semantic, text, alpha, i), i)]
    IN  {s \in Descending(S, score) :
            \A h, k \in DOMAIN s :
                h < k /\ Same(score[s[h]], score[s[k]]) => s[h] < s[k]}
-----------------------------------------------------------------------------
Return(answers, next) ==
    /\ results' \in answers
    /\ pc' = next
    /\ UNCHANGED <<tables, searched, access>>

\* hybridSearchFTS: mode "fts", or "hybrid" without an embedder.
FtsOnly ==
    /\ pc = "start"
    /\ request.mode = "fts" \/ (request.mode = "hybrid" /\ request.embedder = "none")
    /\ fts' \in TextSearch
    /\ UNCHANGED sem
    /\ Return(Fused(<<>>, fts', 0, Found(fts')), "touch")

\* No embedder, a failing one, or a failing search by embedding.
SemanticFails ==
    /\ request.mode \in {"semantic", "vector"}
    /\ (pc = "start" /\ request.embedder # "up") \/ pc \in {"query", "fetch"}
    /\ sem' = <<>>
    /\ UNCHANGED fts
    /\ Return({<<>>}, "error")

\* hybridSearchSemantic embeds the query.
SemanticEmbed ==
    /\ pc = "start" /\ request.mode = "semantic" /\ request.embedder = "up"
    /\ pc' = "query"
    /\ UNCHANGED <<tables, fts, sem, searched, results, access>>

\* hybridSearchFull: the text search, then the embedding of the query.
HybridText ==
    /\ pc = "start" /\ request.mode = "hybrid" /\ request.embedder # "none"
    /\ fts' \in TextSearch
    /\ pc' = "embed"
    /\ UNCHANGED <<tables, sem, searched, results, access>>

\* The embedding, or the search by it, fails: the text search is run again.
HybridFallback ==
    /\ request.mode = "hybrid"
    /\ (pc = "embed" /\ request.embedder = "down") \/ pc \in {"query", "fetch"}
    /\ fts' \in TextSearch
    /\ sem' = <<>>
    /\ Return(Fused(<<>>, fts', 0, Found(fts')), "touch")

\* The text search fails both ways, the first time or when it is run again.
TextFails ==
    /\ \/ pc = "start" /\ request.mode \in {"fts", "hybrid"}
       \/ /\ request.mode = "hybrid"
          /\ (pc = "embed" /\ request.embedder = "down") \/ pc \in {"query", "fetch"}
    /\ fts' = <<>> /\ sem' = <<>>
    /\ Return({<<>>}, "error")

HybridEmbed ==
    /\ pc = "embed" /\ request.embedder = "up"
    /\ pc' = "query"
    /\ UNCHANGED <<tables, fts, sem, searched, results, access>>

\* SearchByEmbedding's first statement: the k-NN query of the vector index,
\* which knows nothing of validity, or, without it or when it fails, the
\* embeddings of the table compared.
Query(S, sim, by) ==
    /\ pc = "query"
    /\ \E s \in Nearest(S, sim) : sem' = Capped(s)
    /\ searched' = by
    /\ pc' = "fetch"
    /\ UNCHANGED <<tables, fts, results, access>>

QueryVec == request.vecOn /\ Query(Ids, index, "index")

Sims == [i \in Ids |-> mems[i].sim]

\* The rows of the table the caller asks for.
Asked == present \ (IF request.validOnly THEN expired ELSE {})

\* What a scan that reads MaxRows rows at most sees of S: every row that has an
\* embedding or, if there are more, any MaxRows of them.
Scans(S) ==
    {T \in SUBSET S : /\ Cardinality(T) <= MaxRows
                      /\ \/ {i \in S : mems[i].sim > 0} \subseteq T
                         \/ Cardinality(T) = MaxRows}

QueryBrute == \E T \in Scans(Asked) : Query(T, Sims, "table")

\* What is left of the memories found, in the order in which they were.
Only(S) == Descending(S, [i \in S |-> Frac(-Rank(sem, i), 1)])

\* Seeded fault: neither way asks again for valid memories.
FetchAny ==
    /\ pc = "fetch"
    /\ sem' \in Only({i \in Found(sem) : i \in present})
    /\ UNCHANGED fts
    /\ CASE request.mode = "semantic" ->
               Return(Fused(sem', <<>>, Unit, {i \in Found(sem') : Kept(i)}), "touch")
         [] request.mode = "hybrid" -> Return({results}, "fuse")
         [] request.mode = "vector" -> Return({sem'}, "done")

\* The second one: the rows of the ids found.  Those deleted since are gone.
\* After a query of the index those not valid are left out if the caller asks;
\* of the others the semantic mode keeps those of the type asked for.
FetchRows ==
    /\ pc = "fetch"
    /\ sem' \in Only({i \in Found(sem) :
                        /\ i \in present
                        /\ searched = "index" /\ request.validOnly => i \notin expired})
    /\ UNCHANGED fts
    /\ CASE request.mode = "semantic" ->
               Return(Fused(sem', <<>>, Unit, {i \in Found(sem') : Kept(i)}), "touch")
         [] request.mode = "hybrid" -> Return({results}, "fuse")
         [] request.mode = "vector" -> Return({sem'}, "done")

\* Seeded fault: only what the text search found is fused.
FuseText ==
    /\ pc = "fuse"
    /\ UNCHANGED <<fts, sem>>
    /\ Return(Fused(sem, fts, request.alpha, Found(fts)), "touch")

\* Seeded fault: what the embedding search found is appended.
FuseAppend ==
    /\ pc = "fuse"
    /\ UNCHANGED <<fts, sem>>
    /\ Return({s \o sem : s \in Fused(<<>>, fts, request.alpha, Found(fts))}, "touch")

Fuse ==
    /\ pc = "fuse"
    /\ UNCHANGED <<fts, sem>>
    /\ Return(Fused(sem, fts, request.alpha, Found(fts) \cup Found(sem)), "touch")

\* trackAccess, not asked for, or TouchBatch, whose errors are dropped and
\* which counts the memories that are still there.
Touch ==
    /\ pc = "touch" /\ pc' = "done"
    /\ access' \in {[i \in Ids |-> IF i \in Found(results) \cap present
                                     THEN access[i] + 1 ELSE access[i]], access}
    /\ UNCHANGED <<tables, fts, sem, searched, results>>

\* Another process deletes a memory during the call.
Delete ==
    /\ pc \in {"embed", "query", "fetch", "fuse", "touch"}
    /\ \E i \in present : present' = present \ {i}
    /\ UNCHANGED <<mems, index, expired, request, fts, sem, searched, results, access, pc>>

\* Another process expires one.  The mode "vector" alone looks at that.
Expire ==
    /\ request.mode = "vector" /\ pc \in {"query", "fetch"}
    /\ \E i \in present \ expired : expired' = expired \cup {i}
    /\ UNCHANGED <<mems, index, present, request, fts, sem, searched, results, access, pc>>

Next == FtsOnly \/ SemanticFails \/ SemanticEmbed \/ HybridText \/ HybridFallback
            \/ TextFails \/ HybridEmbed \/ QueryVec \/ QueryBrute \/ FetchRows \/ Fuse \/ Touch
            \/ Delete \/ Expire

Spec == Init /\ [][Next]_vars
-----------------------------------------------------------------------------
(* Properties.                                                             *)

Position(i) == CHOOSE k \in DOMAIN results : results[k] = i

\* The fusion respects both searches: with no blend, a memory that both
\* searches rank above another, or return without returning the other, comes
\* before it.
FusionMonotone ==
    pc = "done" /\ request.mode = "hybrid" /\ request.blend = 0
        /\ request.embedder = "up" /\ request.alpha \in 1 .. Unit - 1 =>
      \A i, j \in Found(results) :
          (/\ i \in Found(fts) /\ (j \in Found(fts) => Rank(fts, i) < Rank(fts, j))
           /\ i \in Found(sem) /\ (j \in Found(sem) => Rank(sem, i) < Rank(sem, j)))
          => Position(i) < Position(j)

\* At either end of alpha the memories of one search come first and in its
\* order, the others after them.
AlphaEnds ==
    pc = "done" /\ request.mode = "hybrid" /\ request.blend = 0
        /\ request.embedder = "up" =>
      /\ request.alpha = 0 => IsPrefix(fts, results)
      /\ request.alpha = Unit => IsPrefix(sem, results)

\* A hybrid search returns what either search found, each memory once.
NothingDropped ==
    pc = "done" /\ request.mode = "hybrid" =>
        /\ Found(results) = Found(fts) \cup Found(sem)
        /\ Len(results) = Cardinality(Found(results))

\* Asked for valid memories only, SearchByEmbedding returns none that was
\* expired when it was called, although the index may have it, and with the
\* index none that was when the rows were fetched (store.go:816-834, 853-866):
\* nothing expires between the fetch and the return.
ValidOnly ==
    pc = "done" /\ request.mode = "vector" /\ request.validOnly =>
        /\ \A i \in Found(results) : mems[i].valid
        /\ searched = "index" => Found(results) \cap expired = {}

\* The memories at least as similar as i.
Ahead(sim, i) == {j \in Ids \ {i} : sim[j] >= sim[i]}

\* The similar ones among those asked for that the search did not return.
Missing(sim) == {i \in Asked \ Found(results) : sim[i] >= request.threshold}

\* A memory the caller asked for is missing from an undisturbed search only
\* where others, as many as the limit and as similar at least, took its place.
\* With the index that holds for what is in it, under the similarity it has
\* there, and expired memories of it can take the place of valid ones.  With
\* the table the results are then full; but where the scan may not read the
\* whole table, as many are missing at most as it leaves unread, unless the
\* results are full (store.go:859-860).
CrowdedOut ==
    pc = "done" /\ request.mode = "vector" /\ present = Ids
        /\ expired = {i \in Ids : ~mems[i].valid} =>
      /\ searched = "index" =>
            \A i \in Missing(index) : Cardinality(Ahead(index, i)) >= request.limit
      /\ searched = "table" =>
            IF Cardinality(Asked) <= MaxRows
              THEN \A i \in Missing(Sims) :
                      Len(results) = request.limit
                        /\ Cardinality(Ahead(Sims, i)) >= request.limit
              ELSE \/ Len(results) = request.limit
                   \/ Cardinality(Missing(Sims)) + MaxRows <= Cardinality(Asked)

\* "Ranked by BM25 (FTS)": the text search returns no memory before, or instead of,
\* one that matches the query better.
BestMatchFirst ==
    pc = "done" /\ request.mode = "fts" /\ request.fts5 =>
        \A k \in DOMAIN fts, i \in Ids :
            mems[i].bm25 > 0 /\ Kept(i) /\ mems[i].bm25 < mems[fts[k]].bm25
                => i \in Found(SubSeq(fts, 1, k - 1))
=============================================================================
