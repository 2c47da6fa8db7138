---------------------------- MODULE MCAlgorithms -----------------------------
(* The algorithms that keep no state, on every small input: the traversal on   *)
(* every set of at most MaxRel relations between N memories, the pairing on    *)
(* every similarity of M memories, the metrics on every list of K vectors and  *)
(* labels, the context on every MaxLines lines, or fewer, of a few characters.  *)
(* A step adds an edge to one of the first two inputs, or chooses one of the   *)
(* others.                                                                     *)
EXTENDS Traversal, Consolidate, Metrics, FormatContext

CONSTANTS N, Types, MaxRel, Depths, M, K, Labels, MaxLines, MaxRunes

\* What a caller may pass.  Searches start from memory 1, or from 1 and 2.
ASSUME InputsAssumption ==
    /\ N \in Nat /\ N >= 2 /\ IsFiniteSet(Types) /\ Depths \subseteq Nat
    /\ M \in Nat /\ K \in Nat /\ MaxLines \in Nat /\ MaxRunes \in Nat

VARIABLES rel, similar, sample, lines

Ids == 1 .. N
PairsUpTo(n) == {{i, j} : i, j \in 1 .. n} \ {{i} : i \in 1 .. n}

\* What a caller of the metrics may pass: vectors, and labels or none.
Samples ==
    UNION {[n : {n}, sim : [PairsUpTo(n) -> -Unit .. Unit],
            labels : {Nil} \cup UNION {[1 .. k -> Labels] : k \in 0 .. K}] : n \in 0 .. K}

\* A line starts with "- [", whatever follows.
Line == {<<1>> \o runes : runes \in UNION {[1 .. k -> 1 .. 4] : k \in 0 .. MaxRunes}}

Init == rel = {} /\ similar = {} /\ sample = Nil /\ lines = <<>>

Fresh == rel = {} /\ similar = {} /\ sample = Nil /\ lines = <<>>

Relate ==
    /\ similar = {} /\ sample = Nil /\ lines = <<>> /\ Cardinality(rel) < MaxRel
    /\ \E i, j \in Ids, t \in Types : /\ <<i, j, t>> \notin rel
                                      /\ rel' = rel \cup {<<i, j, t>>}
    /\ UNCHANGED <<similar, sample, lines>>

Resemble ==
    /\ rel = {} /\ sample = Nil /\ lines = <<>>
    /\ \E q \in PairsUpTo(M) \ similar : similar' = similar \cup {q}
    /\ UNCHANGED <<rel, sample, lines>>

Measure ==
    /\ Fresh
    /\ sample' \in Samples
    /\ UNCHANGED <<rel, similar, lines>>

Write ==
    /\ Fresh
    /\ lines' \in UNION {[1 .. k -> Line] : k \in 1 .. MaxLines}
    /\ UNCHANGED <<rel, similar, sample>>

Next == Relate \/ Resemble \/ Measure \/ Write
Spec == Init /\ [][Next]_<<rel, similar, sample, lines>>

\* The recursive query finds every memory within reach, at its distance along
\* the shortest path for the relation it is reached over, and nothing else.
WalksShortest ==
    \A depth \in Depths, starts \in {{1}, {1, 2}} :
        TraverseRelations(rel, starts, depth) = Shortest(rel, Ids, starts, depth)

\* ORDER BY dist: the rows of a distance come in any order.
Searched(starts, limit) ==
    {AddRelated(starts, rows, Ids, limit) :
        rows \in {s \in SetToSeqs(TraverseRelations(rel, ToSet(starts), 2)) :
                      \A h, k \in DOMAIN s : h < k => s[h].dist <= s[k].dist}}

\* Following relations never takes a search past its limit, and drops none of
\* its own results.
RelatedWithinLimit ==
    \A limit \in 1 .. N : \A s \in Searched(<<1>>, limit) :
        Len(s) <= limit /\ IsPrefix(<<1>>, s)

\* ConsolidateDuplicates pairs a memory with the first kept one it resembles:
\* the pairs are disjoint stars, and no memory is both kept and merged.
PairsFirstCome == FirstCome([i \in 1 .. M |-> i], similar)

Orders == IF sample = Nil \/ sample.labels = Nil THEN {<<>>}
          ELSE SetToSeqs(ToSet(sample.labels))

Measured(max, order) ==
    ComputeMetrics(sample.sim, [i \in 1 .. sample.n |-> i], sample.labels, max, order)

\* The metrics are what their names say of the vectors and labels kept, in
\* whatever order Go's map gives the labels: each pair of vectors counts once.
MetricsByPairs ==
    sample # Nil =>
        \A max \in 0 .. K, order \in Orders : \A m \in Measured(max, order) :
            LET in == Capped([i \in 1 .. sample.n |-> i], sample.labels,
                             IF max = 0 THEN MaxEmbeddings ELSE max)
            IN  ByPairs(sample.sim, Len(in.vectors),
                        IF in.labels = Nil THEN <<>> ELSE in.labels, m)

\* "Keep embeddings and labels in sync": a list cut at the cap never fails
\* for the labels that go with it, however many were given.
CapInSync ==
    sample # Nil =>
        \A max \in 1 .. K, order \in Orders :
            sample.n > max => Measured(max, order) # {}

\* A context cut to its budget is made of whole characters, one of them at
\* least and no more of them than the budget, and all of them if it allows for
\* as many, unless one of those up to the cut is longer than a byte: the walk
\* back never has to give up (retriever.go:109-126).
WholeRunes ==
    lines # <<>> =>
        LET text == Join(lines) IN
        \A budget \in 0 .. Bytes(text) + 1 :
            LET limit == IF budget = 0 THEN DefaultBudget ELSE budget IN
            \E k \in 1 .. Len(text) :
                /\ FormatContext(lines, budget) = Bytes(SubSeq(text, 1, k))
                /\ k <= limit
                /\ k < Len(text) /\ k < limit => \E j \in 1 .. k + 1 : text[j] > 1
=============================================================================
