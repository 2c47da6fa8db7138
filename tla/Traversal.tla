------------------------------ MODULE Traversal ------------------------------
(***************************************************************************)
(* TraverseRelations, the recursive query that walks relations both ways   *)
(* from a set of memories, and the search of the retriever that adds what  *)
(* it reaches to its results.  A relation is <<source, target, type>>.     *)
(***************************************************************************)
EXTENDS Integers, Sequences, FiniteSets, SequencesExt, Selection

CONSTANT MaxDepth   \* hard cap on the depth of a walk (5)

ASSUME MaxDepthAssumption == MaxDepth \in Nat \ {0}

\* Seeded fault: relations are followed from source to target only.
StepForward(rel, S) == {<<r[2], r[3]>> : r \in {x \in rel : x[1] \in S}}

\* One step of the walk from the memories in S: <<memory, relation type>>.
Step(rel, S) == {<<r[2], r[3]>> : r \in {x \in rel : x[1] \in S}}
                    \cup {<<r[1], r[3]>> : r \in {x \in rel : x[2] \in S}}

Nodes(reached) == {x[1] : x \in reached}

\* The recursive common table expression: what each level adds.
Levels(rel, starts, depth) ==
    LET reached[d \in 0 .. depth] ==
          IF d = 0 THEN starts ELSE Nodes(Step(rel, reached[d - 1]))
    IN  [d \in 1 .. depth |-> Step(rel, reached[d - 1])]

Least(S) == CHOOSE d \in S : \A e \in S : d <= e

\* Seeded fault: the hard cap on the depth is missing.
DepthUncapped(maxDepth) == maxDepth

Depth(maxDepth) == IF maxDepth > MaxDepth THEN MaxDepth ELSE maxDepth

\* Grouped by memory and type, with the least distance, starts left out.
TraverseRelations(rel, starts, maxDepth) ==
    LET level == Levels(rel, starts, Depth(maxDepth))
        depths == 1 .. Depth(maxDepth)
    IN  {[target |-> x[1], type |-> x[2], dist |-> Least({d \in depths : x \in level[d]})] :
            x \in {y \in UNION {level[d] : d \in depths} : y[1] \notin starts}}

\* The same said with paths: a memory is reached over a relation at the length
\* of a shortest path whose last step is that relation.  Paths longer than the
\* cap do not matter.
Adjacent(rel, i, j) == \E r \in rel : {r[1], r[2]} = {i, j}

Distance(rel, ids, starts, i) ==
    LET Path(p) == /\ p[1] \in starts /\ p[Len(p)] = i
                   /\ \A k \in 1 .. Len(p) - 1 : Adjacent(rel, p[k], p[k + 1])
        lengths == {n \in 1 .. MaxDepth + 1 : \E p \in [1 .. n -> ids] : Path(p)}
    IN  IF lengths = {} THEN MaxDepth + 1 ELSE Least(lengths) - 1

Shortest(rel, ids, starts, maxDepth) ==
    {x \in [target : ids \ starts, type : {r[3] : r \in rel},
            dist : (1 .. maxDepth) \cap (1 .. MaxDepth)] :
        LET from == {i \in ids : \E r \in rel : /\ {r[1], r[2]} = {i, x.target}
                                               /\ r[3] = x.type}
        IN  from # {} /\ x.dist = 1 + Least({Distance(rel, ids, starts, i) : i \in from})}

\* Seeded fault: the limit bounds what is added, not the whole.
AddRelatedLimit(found, rows, present, limit) ==
    LET related == Picked([k \in DOMAIN rows |-> rows[k].target], present \ ToSet(found))
    IN  found \o SubSeq(related, 1, IF limit < Len(related) THEN limit ELSE Len(related))

\* Retriever.Search: memories reached that are not results already are put
\* behind the results, nearest first, as far as the limit allows.  `rows` is
\* what the query returned, a row for each memory and type.
AddRelated(found, rows, present, limit) ==
    LET related == Picked([k \in DOMAIN rows |-> rows[k].target], present \ ToSet(found))
        room == limit - Cardinality(ToSet(found))
    IN  found \o SubSeq(related, 1, IF room < Len(related) THEN room ELSE Len(related))
=============================================================================
