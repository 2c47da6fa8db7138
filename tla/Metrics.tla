------------------------------- MODULE Metrics -------------------------------
(***************************************************************************)
(* Embedding quality metrics (internal/metrics) over a list of vectors,     *)
(* numbered by position.  `sim` gives the cosine similarity of two of them  *)
(* in units of 1/Unit; averages are fractions.                              *)
(***************************************************************************)
EXTENDS Integers, Sequences, FiniteSets, SequencesExt, Selection

CONSTANTS
    Unit,           \* similarity 1.0
    MaxEmbeddings,  \* vectors measured unless the caller says how many (10000)
    Nil             \* no labels given

ASSUME UnitAssumption == Unit \in Nat \ {0} /\ MaxEmbeddings \in Nat \ {0}

\* The pairs a loop over i and a loop over j > i visit in the list s.
LaterPairs(s) == {<<s[q[1]], s[q[2]]>> : q \in {p \in (DOMAIN s) \X (DOMAIN s) : p[1] < p[2]}}

Total(sim, pairs) == SumFunction([q \in pairs |-> sim[{q[1], q[2]}]])

Average(sim, pairs) ==
    [num |-> Total(sim, pairs), den |-> IF pairs = {} THEN 1 ELSE Cardinality(pairs)]

Minus(a, b) == [num |-> a.num * b.den - b.num * a.den, den |-> a.den * b.den]
Zero == [num |-> 0, den |-> 1]

\* Average similarity, clamped to 0 .. 1.
Anisotropy(sim, vectors) ==
    LET mean == Average(sim, LaterPairs(vectors))
    IN  [mean EXCEPT !.num = IF @ < 0 THEN 0
                             ELSE IF @ > Unit * mean.den THEN Unit * mean.den ELSE @]

\* The loop starts from the least it can be for the greatest, and conversely.
SimilarityRange(sim, vectors) ==
    IF Len(vectors) <= 1 THEN 0
    ELSE LET found == {sim[{q[1], q[2]}] : q \in LaterPairs(vectors)}
         IN  Max(found \cup {-Unit}) - Min(found \cup {Unit})

Group(labels, l) ==
    Picked([i \in DOMAIN labels |-> i], {i \in DOMAIN labels : labels[i] = l})

IntraPairs(labels, labelList) ==
    UNION {LaterPairs(Group(labels, labelList[k])) : k \in DOMAIN labelList}

\* Seeded fault: a group is compared with the next one only.
InterPairsNext(labels, labelList) ==
    UNION {ToSet(Group(labels, labelList[q[1]])) \X ToSet(Group(labels, labelList[q[2]])) :
              q \in {p \in (DOMAIN labelList) \X (DOMAIN labelList) : p[1] + 1 = p[2]}}

InterPairs(labels, labelList) ==
    UNION {ToSet(Group(labels, labelList[q[1]])) \X ToSet(Group(labels, labelList[q[2]])) :
              q \in {p \in (DOMAIN labelList) \X (DOMAIN labelList) : p[1] < p[2]}}

\* `labelList` are the labels in the order Go's map happens to give them.
\* The result is a set: empty for an error.
DiscriminationGap(sim, vectors, labels, labelList) ==
    IF labels \in {Nil, <<>>} THEN {Zero}
    ELSE IF Len(labels) # Len(vectors) THEN {}
    ELSE IF Cardinality(ToSet(labels)) <= 1 THEN {Zero}
    ELSE {Minus(Average(sim, IntraPairs(labels, labelList)),
                Average(sim, InterPairs(labels, labelList)))}

First(s, n) == SubSeq(s, 1, IF n < Len(s) THEN n ELSE Len(s))

\* Seeded fault: fewer labels than the cap leave the vectors at the cap.
CappedVectorsOnly(vectors, labels, cap) ==
    [vectors |-> First(vectors, cap),
     labels  |-> IF labels # Nil /\ Len(vectors) > cap THEN First(labels, cap) ELSE labels]

\* More vectors than the cap are cut, and the labels with them; if there are
\* fewer labels than the cap, as many vectors as labels stay.
Capped(vectors, labels, cap) ==
    IF Len(vectors) <= cap THEN [vectors |-> vectors, labels |-> labels]
    ELSE IF labels = Nil THEN [vectors |-> First(vectors, cap), labels |-> Nil]
    ELSE [vectors |-> First(First(vectors, cap), Len(labels)), labels |-> First(labels, cap)]

\* What is left of the input, and the three metrics of it.
ComputeMetrics(sim, vectors, labels, max, labelList) ==
    LET in == Capped(vectors, labels, IF max <= 0 THEN MaxEmbeddings ELSE max)
        list == Picked(labelList, ToSet(in.labels))
    IN  {[anisotropy |-> Anisotropy(sim, in.vectors),
          range      |-> SimilarityRange(sim, in.vectors),
          gap        |-> gap] :
            gap \in DiscriminationGap(sim, in.vectors, in.labels, list)}
-----------------------------------------------------------------------------
(* The same without the loops, on vectors 1 .. n with labels.               *)

Equal(a, b) == a.num * b.den = b.num * a.den

MeanOver(sim, P) ==
    [num |-> SumFunction([q \in P |-> sim[q]]),
     den |-> IF P = {} THEN 1 ELSE Cardinality(P)]

\* Every pair of different vectors counts once: for the spread, and for the
\* gap on the side its labels decide.
ByPairs(sim, n, labels, metrics) ==
    LET all   == {q \in SUBSET (1 .. n) : Cardinality(q) = 2}
        same  == {q \in all : \A i, j \in q : labels[i] = labels[j]}
        mean  == MeanOver(sim, all)
    IN  /\ Equal(metrics.anisotropy, IF mean.num < 0 THEN Zero ELSE mean)
        /\ \A q, r \in all : sim[q] - sim[r] <= metrics.range
        /\ all # {} => \E q, r \in all : sim[q] - sim[r] = metrics.range
        /\ all = {} => metrics.range = 0
        /\ Equal(metrics.gap,
                 IF labels = <<>> \/ all \ same = {} THEN Zero
                 ELSE Minus(MeanOver(sim, same), MeanOver(sim, all \ same)))
=============================================================================
