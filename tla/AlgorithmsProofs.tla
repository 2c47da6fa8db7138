-------------------------- MODULE AlgorithmsProofs --------------------------
(***************************************************************************)
(* Theorems about the algorithms that keep no state, on inputs of any size: *)
(* any number of memories, relations, vectors, labels and characters, and  *)
(* any cap, depth and budget.                                              *)
(***************************************************************************)
EXTENDS MCAlgorithms, ConsolidateProofs, FiniteSetTheorems

(* What the inputs are.                                                    *)
Inputs ==
    /\ rel \in SUBSET (Ids \X Ids \X Types)
    /\ sample = Nil \/ sample \in Samples
    /\ lines = <<>> \/ \E k \in 1 .. MaxLines : lines \in [1 .. k -> Line]

LEMMA AlwaysInputs == Spec => []Inputs
  <1>1. Init => Inputs
    BY DEF Init, Inputs
  <1>2. Inputs /\ [Next]_<<rel, similar, sample, lines>> => Inputs'
    <2> SUFFICES ASSUME Inputs, [Next]_<<rel, similar, sample, lines>>
                 PROVE  Inputs'
      OBVIOUS
    <2> HIDE DEF Ids, Samples, Line
    <2>1. CASE Relate
      BY <2>1 DEF Relate, Inputs
    <2>2. CASE Resemble
      BY <2>2 DEF Resemble, Inputs
    <2>3. CASE Measure
      BY <2>3 DEF Measure, Inputs
    <2>4. CASE Write
      BY <2>4 DEF Write, Inputs
    <2>5. CASE UNCHANGED <<rel, similar, sample, lines>>
      BY <2>5 DEF Inputs
    <2>6. QED
      BY <2>1, <2>2, <2>3, <2>4, <2>5 DEF Next
  <1>3. QED
    BY <1>1, <1>2, PTL DEF Spec
-----------------------------------------------------------------------------
(* Whatever the similarities, ConsolidateDuplicates merges a memory into the *)
(* first one kept that it resembles (store.go).                            *)
THEOREM AlwaysFirstCome == Spec => []PairsFirstCome
  <1>1. PairsFirstCome
    <2> DEFINE rows == [i \in 1 .. M |-> i]
    <2>1. rows \in [1 .. M -> Nat] /\ \A i, j \in DOMAIN rows : rows[i] = rows[j] => i = j
      OBVIOUS
    <2>2. rows \in Seq(Nat)
      BY <2>1, InputsAssumption, IsASeq
    <2> HIDE DEF rows
    <2>3. FirstCome(rows, similar)
      BY <2>1, <2>2, PairsAreFirstCome
    <2>4. QED
      BY <2>3 DEF PairsFirstCome, rows
  <1>2. QED
    BY <1>1, PTL
-----------------------------------------------------------------------------
(* How much of a list is left of it.                                       *)
LEMMA FirstLength ==
    ASSUME NEW T, NEW s \in Seq(T), NEW n \in Nat
    PROVE  /\ First(s, n) \in Seq(T)
           /\ Len(First(s, n)) = IF n < Len(s) THEN n ELSE Len(s)
  <1> DEFINE m == IF n < Len(s) THEN n ELSE Len(s)
  <1>1. m \in Nat /\ m <= Len(s) /\ Len(s) \in Nat
    OBVIOUS
  <1>2. \A i \in 1 .. m : s[i] \in T
    BY <1>1
  <1> HIDE DEF m
  <1>3. SubSeq(s, 1, m) \in Seq(T) /\ Len(SubSeq(s, 1, m)) = m
    BY <1>1, <1>2, SubSeqProperties
  <1>4. QED
    BY <1>3 DEF First, m

(* Past the cap, as many labels are kept as vectors.                       *)
LEMMA CappedLengths ==
    ASSUME NEW V, NEW vectors \in Seq(V), NEW L, NEW labels \in Seq(L), NEW cap \in Nat,
           Len(vectors) > cap, labels # Nil
    PROVE  Len(Capped(vectors, labels, cap).vectors) = Len(Capped(vectors, labels, cap).labels)
  <1> DEFINE short == First(vectors, cap)
  <1>1. short \in Seq(V) /\ Len(short) = cap
    BY FirstLength
  <1> HIDE DEF short
  <1>2. Len(First(short, Len(labels))) = IF Len(labels) < cap THEN Len(labels) ELSE cap
    BY <1>1, FirstLength
  <1>3. Len(First(labels, cap)) = IF cap < Len(labels) THEN cap ELSE Len(labels)
    BY FirstLength
  <1>4. Len(labels) \in Nat /\ ~ (Len(vectors) <= cap)
    OBVIOUS
  <1>5. Capped(vectors, labels, cap) =
           [vectors |-> First(short, Len(labels)), labels |-> First(labels, cap)]
    BY <1>4 DEF Capped, short
  <1>6. QED
    BY <1>2, <1>3, <1>4, <1>5

(* Metrics over more vectors than the cap never fail for the labels given, *)
(* however many there are (metrics.go).                                    *)
THEOREM NeverOutOfStep == Spec => []CapInSync
  <1>1. Inputs => CapInSync
    <2> SUFFICES ASSUME Inputs, sample # Nil, NEW max \in 1 .. K, NEW order, sample.n > max
                 PROVE  Measured(max, order) # {}
      BY DEF CapInSync
    <2>1. PICK n \in 0 .. K :
             sample \in [n : {n}, sim : [PairsUpTo(n) -> -Unit .. Unit],
                         labels : {Nil} \cup UNION {[1 .. k -> Labels] : k \in 0 .. K}]
      BY DEF Inputs, Samples
    <2> DEFINE vectors == [i \in 1 .. sample.n |-> i]
               labels == sample.labels
               in == Capped(vectors, labels, max)
    <2>2. n \in Nat /\ max \in Nat /\ max > 0 /\ sample.n = n
      BY <2>1, InputsAssumption
    <2>3. vectors \in Seq(Nat) /\ Len(vectors) = n
      <3>1. vectors \in [1 .. n -> Nat]
        BY <2>2
      <3>2. QED
        BY <2>2, <3>1, IsASeq
    <2>4. labels = Nil \/ labels \in Seq(Labels)
      <3>1. labels = Nil \/ \E k \in 0 .. K : labels \in [1 .. k -> Labels]
        BY <2>1
      <3>2. \A k \in 0 .. K : k \in Nat
        BY InputsAssumption
      <3>3. QED
        BY <3>1, <3>2, IsASeq
    <2> HIDE DEF vectors
    <2>5. in.labels = Nil \/ Len(in.vectors) = Len(in.labels)
      <3>1. CASE labels = Nil
        BY <2>2, <2>3, <3>1 DEF Capped
      <3>2. CASE labels # Nil
        BY <2>2, <2>3, <2>4, <3>2, CappedLengths
      <3>3. QED
        BY <3>1, <3>2
    <2> HIDE DEF in, labels
    <2>6. \A list : DiscriminationGap(sample.sim, in.vectors, in.labels, list) # {}
      BY <2>5 DEF DiscriminationGap
    <2>7. ComputeMetrics(sample.sim, vectors, labels, max, order) # {}
      <3>1. (IF max <= 0 THEN MaxEmbeddings ELSE max) = max
        BY <2>2
      <3>2. QED
        BY <2>6, <3>1 DEF ComputeMetrics, in
    <2>8. QED
      BY <2>7 DEF Measured, vectors, labels
  <1>2. QED
    BY <1>1, AlwaysInputs, PTL
-----------------------------------------------------------------------------
(* One end of a relation of type t is j, the other is i.                   *)
Linked(rels, j, i, t) == \E r \in rels : {r[1], r[2]} = {j, i} /\ r[3] = t

(* A path of n memories from one of starts to i.                           *)
PathTo(rels, ids, starts, i, n) ==
    \E p \in [1 .. n -> ids] :
        /\ p[1] \in starts /\ p[n] = i
        /\ \A k \in 1 .. n - 1 : Adjacent(rels, p[k], p[k + 1])

(* One step of the walk goes over the relations of the memories it is at.  *)
LEMMA StepIs ==
    ASSUME NEW rels, NEW S, NEW i, NEW t
    PROVE  <<i, t>> \in Step(rels, S) <=> \E j \in S : Linked(rels, j, i, t)
  <1>1. ASSUME <<i, t>> \in Step(rels, S)
        PROVE  \E j \in S : Linked(rels, j, i, t)
    <2>1. CASE \E r \in rels : r[1] \in S /\ <<i, t>> = <<r[2], r[3]>>
      BY <2>1 DEF Linked
    <2>2. CASE \E r \in rels : r[2] \in S /\ <<i, t>> = <<r[1], r[3]>>
      BY <2>2 DEF Linked
    <2>3. QED
      BY <1>1, <2>1, <2>2 DEF Step
  <1>2. ASSUME NEW j \in S, Linked(rels, j, i, t)
        PROVE  <<i, t>> \in Step(rels, S)
    <2>1. PICK r \in rels : {r[1], r[2]} = {j, i} /\ r[3] = t
      BY <1>2 DEF Linked
    <2>2. (r[1] = j /\ r[2] = i) \/ (r[2] = j /\ r[1] = i)
      BY <2>1
    <2>3. QED
      BY <2>1, <2>2 DEF Step
  <1>3. QED
    BY <1>1, <1>2

(* The memories next to one of S.                                          *)
Neighbours(rels, ids, S) == {i \in ids : \E j \in S : Adjacent(rels, j, i)}

LEMMA NodesAre ==
    ASSUME NEW ids, NEW rels, NEW S, \A r \in rels : r[1] \in ids /\ r[2] \in ids
    PROVE  Nodes(Step(rels, S)) = Neighbours(rels, ids, S)
  <1>1. ASSUME NEW i \in Nodes(Step(rels, S))
        PROVE  i \in ids /\ \E j \in S : Adjacent(rels, j, i)
    <2>1. PICK x \in Step(rels, S) : i = x[1]
      BY DEF Nodes
    <2>2. \E r \in rels : (r[1] \in S /\ x = <<r[2], r[3]>>) \/ (r[2] \in S /\ x = <<r[1], r[3]>>)
      BY DEF Step
    <2>3. PICK r \in rels : (r[1] \in S /\ i = r[2]) \/ (r[2] \in S /\ i = r[1])
      BY <2>1, <2>2
    <2>4. QED
      BY <2>3 DEF Adjacent
  <1>2. ASSUME NEW i \in ids, NEW j \in S, Adjacent(rels, j, i)
        PROVE  i \in Nodes(Step(rels, S))
    <2>1. PICK r \in rels : {r[1], r[2]} = {j, i}
      BY <1>2 DEF Adjacent
    <2>2. (r[1] = j /\ r[2] = i) \/ (r[2] = j /\ r[1] = i)
      BY <2>1
    <2> DEFINE x == <<i, r[3]>>
    <2>3. x \in Step(rels, S)
      BY <2>2 DEF Step
    <2>4. x[1] = i
      OBVIOUS
    <2> HIDE DEF x
    <2>5. QED
      BY <2>3, <2>4 DEF Nodes
  <1>3. QED
    BY <1>1, <1>2 DEF Neighbours

(* The walk is a run of steps.                                             *)
IsWalk(rels, ids, starts, n) ==
    \E f \in [0 .. n -> SUBSET ids] :
        /\ f[0] = starts
        /\ \A d \in 1 .. n : f[d] = Nodes(Step(rels, f[d - 1]))
        /\ Levels(rels, starts, n) = [d \in 1 .. n |-> Step(rels, f[d - 1])]

LEMMA WalkRun ==
    ASSUME NEW ids, NEW rels, \A r \in rels : r[1] \in ids /\ r[2] \in ids,
           NEW starts \in SUBSET ids, NEW n \in Nat
    PROVE  IsWalk(rels, ids, starts, n)
  <1> DEFINE Out == SUBSET ids
             Turn(q) == Nodes(Step(rels, q))
             Body(f, k) == IF k = 0 THEN starts ELSE Turn(f[k - 1])
             step == [x \in (1 .. n) \X Out |-> Turn(x[2])]
             walk == CHOOSE f : f = [k \in 0 .. n |-> Body(f, k)]
  <1>1. starts \in Out
    OBVIOUS
  <1>2. \A q \in Out : Turn(q) \in Out
    <2>1. ASSUME NEW q \in SUBSET ids
          PROVE  Nodes(Step(rels, q)) \in SUBSET ids
      <3>1. Nodes(Step(rels, q)) = Neighbours(rels, ids, q)
        BY NodesAre
      <3>2. QED
        BY <3>1 DEF Neighbours
    <2>2. QED
      BY <2>1
  <1> HIDE DEF Out, Turn
  <1>3. step \in [(1 .. n) \X Out -> Out]
    BY <1>2
  <1>4. PICK f \in [0 .. n -> Out] :
            f[0] = starts /\ \A k \in 1 .. n : f[k] = step[<<k, f[k - 1]>>]
    <2> HIDE DEF step, Body, walk
    <2>1. HasRun(n, Out, starts, step)
      BY <1>1, <1>3, Recursion
    <2>2. QED
      BY <2>1 DEF HasRun
  <1>5. f = [k \in 0 .. n |-> Body(f, k)]
    <2>1. \A k \in 0 .. n : k # 0 => k \in 1 .. n /\ f[k - 1] \in Out
      OBVIOUS
    <2>2. \A k \in 0 .. n : f[k] = Body(f, k)
      BY <1>4, <2>1
    <2>3. QED
      BY <2>2
  <1>6. walk = [k \in 0 .. n |-> Body(walk, k)]
    BY <1>5
  <1>7. walk \in [0 .. n -> Out]
    <2> DEFINE G == {k \in 0 .. n : walk[k] \in Out}
    <2> HIDE DEF walk
    <2>1. 0 \in G
      BY <1>1, <1>6
    <2>2. ASSUME NEW k \in 1 .. n, k - 1 \in G PROVE k \in G
      BY <1>2, <1>6, <2>2
    <2>3. \A k \in 0 .. n : k \in G
      <3> HIDE DEF G
      <3>1. QED
        BY <2>1, <2>2, UpTo
    <2>4. \A k \in 0 .. n : walk[k] \in Out
      BY <2>3
    <2>5. QED
      BY <1>6, <2>4
  <1>8. Levels(rels, starts, n) = [d \in 1 .. n |-> Step(rels, walk[d - 1])]
    BY DEF Levels, Turn
  <1>9. walk[0] = starts /\ \A k \in 1 .. n : walk[k] = Turn(walk[k - 1])
    <2> HIDE DEF walk
    <2>1. \A k \in 0 .. n : walk[k] = Body(walk, k)
      BY <1>6
    <2>2. QED
      BY <2>1
  <1>10. QED
    <2> HIDE DEF walk
    <2>1. QED
      BY <1>7, <1>8, <1>9 DEF Out, IsWalk, Turn

LEMMA PathStarts ==
    ASSUME NEW ids, NEW rels, NEW starts, NEW i \in ids
    PROVE  PathTo(rels, ids, starts, i, 1) <=> i \in starts
  <1>1. ASSUME i \in starts PROVE PathTo(rels, ids, starts, i, 1)
    <2> DEFINE p == [k \in 1 .. 1 |-> i]
    <2>1. p \in [1 .. 1 -> ids] /\ p[1] = i
      OBVIOUS
    <2> HIDE DEF p
    <2>2. QED
      BY <1>1, <2>1 DEF PathTo
  <1>2. PathTo(rels, ids, starts, i, 1) => i \in starts
    BY DEF PathTo
  <1>3. QED
    BY <1>1, <1>2

(* A path goes on over a relation of its last memory.                      *)
LEMMA PathGrows ==
    ASSUME NEW ids, NEW rels, NEW starts, NEW i \in ids, NEW n \in Nat \ {0}
    PROVE  PathTo(rels, ids, starts, i, n + 1) <=>
              \E j \in ids : PathTo(rels, ids, starts, j, n) /\ Adjacent(rels, j, i)
  <1>1. ASSUME PathTo(rels, ids, starts, i, n + 1)
        PROVE  \E j \in ids : PathTo(rels, ids, starts, j, n) /\ Adjacent(rels, j, i)
    <2>1. PICK p \in [1 .. n + 1 -> ids] :
             /\ p[1] \in starts /\ p[n + 1] = i
             /\ \A k \in 1 .. (n + 1) - 1 : Adjacent(rels, p[k], p[k + 1])
      BY <1>1 DEF PathTo
    <2> DEFINE q == [k \in 1 .. n |-> p[k]]
    <2>2. q \in [1 .. n -> ids] /\ \A k \in 1 .. n : q[k] = p[k]
      OBVIOUS
    <2> HIDE DEF q
    <2>3. /\ n \in 1 .. n /\ 1 \in 1 .. n /\ n \in 1 .. (n + 1) - 1 /\ n \in 1 .. n + 1
          /\ \A k \in 1 .. n - 1 : k \in 1 .. n /\ k + 1 \in 1 .. n /\ k \in 1 .. (n + 1) - 1
      OBVIOUS
    <2>4. PathTo(rels, ids, starts, p[n], n)
      BY <2>1, <2>2, <2>3 DEF PathTo
    <2>5. p[n] \in ids /\ Adjacent(rels, p[n], i)
      BY <2>1, <2>3
    <2>6. QED
      BY <2>4, <2>5
  <1>2. ASSUME NEW j \in ids, PathTo(rels, ids, starts, j, n), Adjacent(rels, j, i)
        PROVE  PathTo(rels, ids, starts, i, n + 1)
    <2>1. PICK p \in [1 .. n -> ids] :
             /\ p[1] \in starts /\ p[n] = j
             /\ \A k \in 1 .. n - 1 : Adjacent(rels, p[k], p[k + 1])
      BY <1>2 DEF PathTo
    <2> DEFINE q == [k \in 1 .. n + 1 |-> IF k = n + 1 THEN i ELSE p[k]]
    <2>2. /\ q \in [1 .. n + 1 -> ids] /\ q[n + 1] = i
          /\ \A k \in 1 .. n : q[k] = p[k]
      OBVIOUS
    <2> HIDE DEF q
    <2>3. \A k \in 1 .. (n + 1) - 1 : k = n \/ (k \in 1 .. n - 1 /\ k \in 1 .. n /\ k + 1 \in 1 .. n)
      OBVIOUS
    <2>4. \A k \in 1 .. (n + 1) - 1 : Adjacent(rels, q[k], q[k + 1])
      BY <1>2, <2>1, <2>2, <2>3
    <2>5. QED
      BY <2>1, <2>2, <2>4 DEF PathTo
  <1>3. QED
    BY <1>1, <1>2

(* A walk is at the memories that paths of its length lead to.             *)
Reachable(rels, ids, starts, n) == {i \in ids : PathTo(rels, ids, starts, i, n)}

LEMMA WalkFollowsPaths ==
    ASSUME NEW ids, NEW rels, \A r \in rels : r[1] \in ids /\ r[2] \in ids,
           NEW starts \in SUBSET ids, NEW n \in Nat
    PROVE  \A d \in 1 .. n : Levels(rels, starts, n)[d] =
                                Step(rels, Reachable(rels, ids, starts, d))
  <1> DEFINE R(d) == Reachable(rels, ids, starts, d)
  <1>1. PICK f \in [0 .. n -> SUBSET ids] :
           /\ f[0] = starts
           /\ \A d \in 1 .. n : f[d] = Nodes(Step(rels, f[d - 1]))
           /\ Levels(rels, starts, n) = [d \in 1 .. n |-> Step(rels, f[d - 1])]
    <2>1. IsWalk(rels, ids, starts, n)
      BY WalkRun
    <2>2. QED
      BY <2>1 DEF IsWalk
  <1> DEFINE G == {d \in 0 .. n : f[d] = R(d + 1)}
  <1>2. 0 \in G
    <2>1. starts = R(1)
      <3>1. \A i \in ids : PathTo(rels, ids, starts, i, 1) <=> i \in starts
        BY PathStarts
      <3>2. QED
        BY <3>1 DEF Reachable
    <2>2. 0 + 1 = 1 /\ 0 \in 0 .. n
      OBVIOUS
    <2> HIDE DEF R
    <2>3. QED
      BY <1>1, <2>1, <2>2
  <1>3. ASSUME NEW d \in 1 .. n, d - 1 \in G
        PROVE  d \in G
    <2>1. d \in Nat \ {0} /\ d \in 0 .. n /\ (d - 1) + 1 = d
      OBVIOUS
    <2>2. f[d - 1] = R(d)
      BY <1>3, <2>1
    <2>3. R(d) \in SUBSET ids
      BY DEF Reachable
    <2>4. Nodes(Step(rels, R(d))) = Neighbours(rels, ids, R(d))
      <3> HIDE DEF R
      <3>1. QED
        BY NodesAre
    <2>5. \A i \in ids : PathTo(rels, ids, starts, i, d + 1) <=>
             \E j \in ids : PathTo(rels, ids, starts, j, d) /\ Adjacent(rels, j, i)
      BY <2>1, PathGrows
    <2>6. Nodes(Step(rels, R(d))) = R(d + 1)
      BY <2>4, <2>5 DEF Reachable, Neighbours
    <2> HIDE DEF R
    <2>7. QED
      BY <1>1, <2>1, <2>2, <2>6
  <1>4. \A d \in 0 .. n : d \in G
    <2> HIDE DEF G
    <2>1. QED
      BY <1>2, <1>3, UpTo
  <1>5. ASSUME NEW d \in 1 .. n
        PROVE  Levels(rels, starts, n)[d] = Step(rels, R(d))
    <2>1. d - 1 \in 0 .. n /\ (d - 1) + 1 = d
      OBVIOUS
    <2>2. f[d - 1] = R(d)
      BY <1>4, <2>1
    <2> HIDE DEF R
    <2>3. QED
      BY <1>1, <2>2
  <1>6. QED
    BY <1>5

LEMMA LeastIs ==
    ASSUME NEW S \in SUBSET Nat, S # {}
    PROVE  Least(S) \in S /\ \A e \in S : Least(S) <= e
  <1>1. \E d \in S : \A e \in S : d <= e
    BY LeastNat
  <1>2. QED
    BY <1>1 DEF Least

(* A memory's distance is the length of its shortest path, up to the cap.  *)
LEMMA DistanceIs ==
    ASSUME NEW ids, NEW rels, NEW starts, NEW i
    PROVE  LET d == Distance(rels, ids, starts, i)
           IN  /\ d \in Nat
               /\ d <= MaxDepth => PathTo(rels, ids, starts, i, d + 1)
               /\ \A n \in 1 .. MaxDepth + 1 : PathTo(rels, ids, starts, i, n) => d <= n - 1
  <1> DEFINE Lengths == {n \in 1 .. MaxDepth + 1 : PathTo(rels, ids, starts, i, n)}
             D == Distance(rels, ids, starts, i)
  <1>1. D = IF Lengths = {} THEN MaxDepth + 1 ELSE Least(Lengths) - 1
    <2>1. ASSUME NEW n \in 1 .. MaxDepth + 1
          PROVE  PathTo(rels, ids, starts, i, n) <=>
                   \E p \in [1 .. n -> ids] :
                      /\ p[1] \in starts /\ p[Len(p)] = i
                      /\ \A k \in 1 .. Len(p) - 1 : Adjacent(rels, p[k], p[k + 1])
      <3>1. n \in Nat
        BY MaxDepthAssumption
      <3>2. \A p \in [1 .. n -> ids] : Len(p) = n
        BY <3>1, IsASeq
      <3>3. QED
        BY <3>2 DEF PathTo
    <2>2. Lengths = {n \in 1 .. MaxDepth + 1 :
                       \E p \in [1 .. n -> ids] :
                          /\ p[1] \in starts /\ p[Len(p)] = i
                          /\ \A k \in 1 .. Len(p) - 1 : Adjacent(rels, p[k], p[k + 1])}
      BY <2>1
    <2> HIDE DEF Lengths
    <2>3. QED
      BY <2>2 DEF Distance
  <1>2. CASE Lengths = {}
    <2>1. D = MaxDepth + 1
      BY <1>1, <1>2
    <2> HIDE DEF D
    <2>2. QED
      BY <1>2, <2>1, MaxDepthAssumption DEF D
  <1>3. CASE Lengths # {}
    <2>1. Lengths \in SUBSET Nat
      BY MaxDepthAssumption
    <2>2. Least(Lengths) \in Lengths /\ \A e \in Lengths : Least(Lengths) <= e
      <3> HIDE DEF Lengths
      <3>1. QED
        BY <1>3, <2>1, LeastIs
    <2> DEFINE l == Least(Lengths)
    <2>3. /\ l \in 1 .. MaxDepth + 1 /\ PathTo(rels, ids, starts, i, l)
          /\ \A n \in 1 .. MaxDepth + 1 : PathTo(rels, ids, starts, i, n) => l <= n
      BY <2>2
    <2>4. D = l - 1
      BY <1>1, <1>3
    <2> HIDE DEF l, D
    <2>5. D \in Nat /\ D + 1 = l /\ \A n \in 1 .. MaxDepth + 1 : l <= n => D <= n - 1
      BY <2>3, <2>4, MaxDepthAssumption
    <2>6. QED
      BY <2>3, <2>5 DEF D
  <1>4. QED
    BY <1>2, <1>3

(* The levels of a walk at which i is reached over a relation of type t,   *)
(* the memories such a relation joins to it, and how far away they are.    *)
LevelsAt(rels, starts, n, i, t) == {d \in 1 .. n : <<i, t>> \in Levels(rels, starts, n)[d]}
LinkedTo(rels, ids, i, t) == {j \in ids : Linked(rels, j, i, t)}
Distances(rels, ids, starts, i, t) ==
    {Distance(rels, ids, starts, j) : j \in LinkedTo(rels, ids, i, t)}

(* Whether i is first reached over such a relation at level m.             *)
IsFirst(rels, ids, starts, n, i, t, m) ==
    (/\ LevelsAt(rels, starts, n, i, t) # {}
     /\ m = Least(LevelsAt(rels, starts, n, i, t)))
        <=> (/\ LinkedTo(rels, ids, i, t) # {}
             /\ m = 1 + Least(Distances(rels, ids, starts, i, t)))

(* Of the memories a relation of type t joins to i, the nearest decides at *)
(* which level of the walk i is first reached over such a relation.        *)
LEMMA FirstReached ==
    ASSUME NEW ids, NEW rels, \A r \in rels : r[1] \in ids /\ r[2] \in ids,
           NEW starts \in SUBSET ids, NEW n \in 0 .. MaxDepth,
           NEW i \in ids, NEW t, NEW m \in 1 .. n
    PROVE  IsFirst(rels, ids, starts, n, i, t, m)
  <1> DEFINE levels == Levels(rels, starts, n)
             at     == {d \in 1 .. n : <<i, t>> \in levels[d]}
             from   == {j \in ids : Linked(rels, j, i, t)}
             dist(j) == Distance(rels, ids, starts, j)
             dists  == {dist(j) : j \in from}
  <1>1. n \in Nat /\ MaxDepth \in Nat /\ m \in Nat /\ m <= MaxDepth /\ m >= 1
    BY MaxDepthAssumption
  <1>2. ASSUME NEW d \in 1 .. n
        PROVE  d \in at <=> \E j \in from : PathTo(rels, ids, starts, j, d)
    <2> DEFINE R == Reachable(rels, ids, starts, d)
    <2>1. levels[d] = Step(rels, R)
      BY <1>1, WalkFollowsPaths
    <2>2. <<i, t>> \in Step(rels, R) <=> \E j \in R : Linked(rels, j, i, t)
      BY StepIs
    <2> HIDE DEF levels
    <2>3. QED
      BY <2>1, <2>2 DEF Reachable
  <1>3. \A j \in ids :
           /\ dist(j) \in Nat
           /\ dist(j) <= MaxDepth => PathTo(rels, ids, starts, j, dist(j) + 1)
           /\ \A k \in 1 .. MaxDepth + 1 : PathTo(rels, ids, starts, j, k) => dist(j) <= k - 1
    BY DistanceIs
  <1>4. at \in SUBSET Nat /\ dists \in SUBSET Nat /\ (dists = {} <=> from = {})
    <2> HIDE DEF dist
    <2>1. QED
      BY <1>3
  <1> HIDE DEF at, from, dist
  <1>5. at # {} => Least(at) \in at /\ \A e \in at : Least(at) <= e
    BY <1>4, LeastIs
  <1>6. from # {} => /\ \E j \in from : Least(dists) = dist(j)
                     /\ \A j \in from : Least(dists) <= dist(j)
    <2>1. from # {} => Least(dists) \in dists /\ \A e \in dists : Least(dists) <= e
      <3> HIDE DEF dists
      <3>1. QED
        BY <1>4, LeastIs
    <2>2. QED
      BY <2>1
  <1>7. \A j \in from : j \in ids
    BY DEF from
  <1>8. \A d \in at : d \in 1 .. n
    BY DEF at
  <1> HIDE DEF dists
  <1> DEFINE q == Least(dists)
  <1>9. ASSUME at # {}, m = Least(at)
        PROVE  from # {} /\ m = 1 + Least(dists)
    <2>1. m \in at /\ \A e \in at : m <= e
      BY <1>5, <1>9
    <2>2. PICK j \in from : PathTo(rels, ids, starts, j, m)
      BY <1>2, <2>1
    <2>3. dist(j) \in Nat /\ dist(j) <= m - 1
      BY <1>1, <1>3, <1>7, <2>2
    <2>4. PICK h \in from : q = dist(h) /\ dist(h) <= dist(j)
      BY <1>6, <2>2
    <2>5. dist(h) \in Nat /\ dist(h) <= m - 1 /\ dist(h) <= MaxDepth
      BY <1>1, <1>3, <1>7, <2>3, <2>4
    <2>6. PathTo(rels, ids, starts, h, dist(h) + 1) /\ dist(h) + 1 \in 1 .. n
      BY <1>1, <1>3, <1>7, <2>5
    <2>7. dist(h) + 1 \in at
      BY <1>2, <2>6
    <2>8. m <= dist(h) + 1
      BY <2>1, <2>7
    <2>9. QED
      BY <1>1, <2>2, <2>4, <2>5, <2>8
  <1>10. ASSUME from # {}, m = 1 + Least(dists)
         PROVE  at # {} /\ m = Least(at)
    <2>1. PICK h \in from : q = dist(h) /\ \A j \in from : q <= dist(j)
      BY <1>6, <1>10
    <2>2. dist(h) \in Nat /\ dist(h) + 1 = m /\ dist(h) <= MaxDepth
      BY <1>1, <1>3, <1>7, <1>10, <2>1
    <2>3. PathTo(rels, ids, starts, h, m)
      BY <1>3, <1>7, <2>2
    <2>4. m \in at
      BY <1>2, <2>3
    <2>5. ASSUME NEW e \in at PROVE m <= e
      <3>1. e \in 1 .. n /\ e \in 1 .. MaxDepth + 1
        BY <1>1, <1>8
      <3>2. PICK j \in from : PathTo(rels, ids, starts, j, e)
        BY <1>2, <3>1
      <3>3. dist(j) \in Nat /\ dist(j) <= e - 1 /\ dist(h) <= dist(j)
        BY <1>3, <1>7, <2>1, <3>1, <3>2
      <3>4. QED
        BY <2>2, <3>1, <3>3
    <2>6. Least(at) \in 1 .. n /\ Least(at) <= m /\ m <= Least(at)
      BY <1>5, <1>8, <2>4, <2>5
    <2>7. QED
      BY <1>1, <2>4, <2>6
  <1>11. QED
    <2>1. /\ LevelsAt(rels, starts, n, i, t) = at
          /\ LinkedTo(rels, ids, i, t) = from
          /\ Distances(rels, ids, starts, i, t) = dists
      BY DEF at, from, dists, dist, levels, LevelsAt, LinkedTo, Distances
    <2>2. QED
      BY <1>9, <1>10, <2>1 DEF IsFirst

LEMMA TraversalIsShortest ==
    ASSUME NEW ids, NEW types, NEW rels \in SUBSET (ids \X ids \X types),
           NEW starts \in SUBSET ids, NEW depth \in Nat
    PROVE  TraverseRelations(rels, starts, depth) = Shortest(rels, ids, starts, depth)
  <1> DEFINE n == Depth(depth)
             levels == Levels(rels, starts, n)
             at(i, t) == LevelsAt(rels, starts, n, i, t)
             from(i, t) == LinkedTo(rels, ids, i, t)
             dists(i, t) == Distances(rels, ids, starts, i, t)
             rec(i, t, m) == [target |-> i, type |-> t, dist |-> m]
             A == TraverseRelations(rels, starts, depth)
             B == Shortest(rels, ids, starts, depth)
  <1>11. \A r \in rels : r[1] \in ids /\ r[2] \in ids /\ r[3] \in types
    OBVIOUS
  <1>1. n \in 0 .. MaxDepth /\ n \in Nat /\ (1 .. depth) \cap (1 .. MaxDepth) = 1 .. n
    BY MaxDepthAssumption DEF Depth
  <1>2. \A i \in ids, t \in types : \A m \in 1 .. n :
           (at(i, t) # {} /\ m = Least(at(i, t)))
              <=> (from(i, t) # {} /\ m = 1 + Least(dists(i, t)))
    <2> SUFFICES ASSUME NEW i \in ids, NEW t \in types, NEW m \in 1 .. n
                 PROVE  (at(i, t) # {} /\ m = Least(at(i, t)))
                           <=> (from(i, t) # {} /\ m = 1 + Least(dists(i, t)))
      OBVIOUS
    <2>1. n \in 0 .. MaxDepth
      BY <1>1
    <2> HIDE DEF n
    <2>2. IsFirst(rels, ids, starts, n, i, t, m)
      <3> HIDE DEF levels, at, from, dists, rec, A, B
      <3>1. QED
        BY <1>11, <2>1, FirstReached
    <2>3. QED
      BY <2>2 DEF IsFirst
  <1>3. \A d \in 1 .. n : levels[d] \in SUBSET (ids \X types)
    <2> TAKE d \in 1 .. n
    <2> DEFINE R == Reachable(rels, ids, starts, d)
    <2>1. levels[d] = Step(rels, R)
      <3> HIDE DEF n
      <3>1. QED
        BY <1>1, <1>11, WalkFollowsPaths
    <2>2. R \in SUBSET ids
      BY DEF Reachable
    <2> HIDE DEF R, levels
    <2>3. Step(rels, R) \in SUBSET (ids \X types)
      BY <1>11, <2>2 DEF Step
    <2>4. QED
      BY <2>1, <2>3
  <1>10. \A i, t : at(i, t) = {d \in 1 .. n : <<i, t>> \in levels[d]}
    BY DEF LevelsAt
  <1> HIDE DEF levels, at
  <1>4. A = {rec(y[1], y[2], Least({d \in 1 .. n : y \in levels[d]})) :
                y \in {y \in UNION {levels[d] : d \in 1 .. n} : y[1] \notin starts}}
    BY DEF TraverseRelations, levels
  <1>5. B = {x \in [target : ids \ starts, type : {r[3] : r \in rels},
                    dist : (1 .. depth) \cap (1 .. MaxDepth)] :
                /\ from(x.target, x.type) # {}
                /\ x.dist = 1 + Least(dists(x.target, x.type))}
    BY DEF Shortest, LinkedTo, Distances, Linked
  <1> HIDE DEF A, B, n, at, from, dists
  <1>6. ASSUME NEW x \in A
        PROVE  x \in B
    <2>1. PICK y \in UNION {levels[d] : d \in 1 .. n} :
             /\ y[1] \notin starts
             /\ x = rec(y[1], y[2], Least({d \in 1 .. n : y \in levels[d]}))
      BY <1>4
    <2>2. y \in ids \X types
      BY <1>3
    <2> DEFINE i == y[1]
               t == y[2]
               m == Least(at(i, t))
    <2>3. i \in ids /\ t \in types /\ y = <<i, t>> /\ i \notin starts
      BY <2>1, <2>2
    <2>4. x = rec(i, t, m)
      BY <1>10, <2>1, <2>3
    <2>5. at(i, t) # {}
      BY <1>10, <2>3
    <2>6. m \in 1 .. n
      <3>1. at(i, t) \in SUBSET Nat
        <4>1. \A d \in at(i, t) : d \in 1 .. n
          BY <1>10
        <4>2. QED
          BY <1>1, <4>1
      <3> HIDE DEF i, t
      <3>2. Least(at(i, t)) \in at(i, t)
        BY <2>5, <3>1, LeastIs
      <3>3. QED
        BY <1>10, <3>2
    <2> HIDE DEF i, t, m
    <2>7. from(i, t) # {} /\ m = 1 + Least(dists(i, t))
      BY <1>2, <2>3, <2>5, <2>6 DEF m
    <2>8. t \in {r[3] : r \in rels}
      BY <2>7 DEF from, LinkedTo, Linked
    <2>9. QED
      BY <1>1, <1>5, <2>3, <2>4, <2>6, <2>7, <2>8
  <1>7. ASSUME NEW x \in B
        PROVE  x \in A
    <2> DEFINE i == x.target
               t == x.type
               m == x.dist
    <2>1. /\ i \in ids \ starts /\ t \in {r[3] : r \in rels} /\ m \in 1 .. n
          /\ x = rec(i, t, m)
          /\ from(i, t) # {} /\ m = 1 + Least(dists(i, t))
      BY <1>1, <1>5
    <2>2. t \in types
      BY <2>1
    <2> HIDE DEF i, t, m
    <2>3. at(i, t) # {} /\ m = Least(at(i, t))
      BY <1>2, <2>1, <2>2
    <2> DEFINE y == <<i, t>>
    <2>4. /\ y \in UNION {levels[d] : d \in 1 .. n} /\ y[1] = i /\ y[2] = t
          /\ {d \in 1 .. n : y \in levels[d]} = at(i, t)
      BY <1>10, <2>3
    <2> HIDE DEF y
    <2>5. QED
      BY <1>4, <2>1, <2>3, <2>4
  <1>8. A = B
    BY <1>6, <1>7
  <1>9. QED
    BY <1>8 DEF A, B

(* The recursive query of TraverseRelations finds every memory within reach *)
(* and the cap, over every type of relation at its shortest distance, and  *)
(* nothing else (store.go).                                                *)
THEOREM AlwaysShortest == Spec => []WalksShortest
  <1>1. Inputs => WalksShortest
    <2> SUFFICES ASSUME Inputs, NEW depth \in Depths, NEW starts \in {{1}, {1, 2}}
                 PROVE  TraverseRelations(rel, starts, depth) = Shortest(rel, Ids, starts, depth)
      BY DEF WalksShortest
    <2>1. starts \in SUBSET Ids /\ depth \in Nat
      BY InputsAssumption DEF Ids
    <2>2. rel \in SUBSET (Ids \X Ids \X Types)
      BY DEF Inputs
    <2>3. QED
      BY <2>1, <2>2, TraversalIsShortest
  <1>2. QED
    BY <1>1, AlwaysInputs, PTL
-----------------------------------------------------------------------------
(* What following relations adds goes behind the results and stays within  *)
(* the limit, whatever rows the query returned.                            *)
LEMMA AddedWithin ==
    ASSUME NEW T, NEW found \in Seq(T), Len(found) = Cardinality(ToSet(found)),
           NEW limit \in Nat, Len(found) <= limit,
           NEW n \in Nat, NEW R, NEW rows \in [1 .. n -> R],
           \A x \in R : x.target \in T, NEW present
    PROVE  /\ Len(AddRelated(found, rows, present, limit)) <= limit
           /\ IsPrefix(found, AddRelated(found, rows, present, limit))
  <1> DEFINE targets == [k \in DOMAIN rows |-> rows[k].target]
             free == present \ ToSet(found)
             related == Picked(targets, free)
             room == limit - Cardinality(ToSet(found))
             cut == IF room < Len(related) THEN room ELSE Len(related)
             added == SubSeq(related, 1, cut)
             all == found \o added
  <1>1. related \in Seq(T)
    <2>1. targets \in [1 .. n -> T] /\ targets \in Seq(T)
      BY IsASeq
    <2> HIDE DEF targets, free
    <2>2. related \in Seq(free \cap T)
      BY <2>1, PickedType
    <2>3. \A q \in Seq(free \cap T) : q \in Seq(T)
      BY SeqMonotonic
    <2> HIDE DEF related
    <2>4. QED
      BY <2>2, <2>3
  <1>2. AddRelated(found, rows, present, limit) = all
    BY DEF AddRelated
  <1> HIDE DEF related
  <1>3. room \in Nat /\ cut \in Nat /\ cut <= room /\ cut <= Len(related) /\ room = limit - Len(found)
    BY <1>1
  <1>4. added \in Seq(T) /\ Len(added) = cut
    <2> HIDE DEF cut
    <2>1. \A i \in 1 .. cut : related[i] \in T
      BY <1>1, <1>3
    <2>2. QED
      BY <1>3, <2>1, SubSeqProperties
  <1> HIDE DEF added, room
  <1>5. Len(all) = Len(found) + cut /\ \A i \in 1 .. Len(found) : all[i] = found[i]
    <2> HIDE DEF cut
    <2>1. QED
      BY <1>3, <1>4, ConcatProperties
  <1>6. all \in Seq(T)
    BY <1>4
  <1> HIDE DEF all, cut
  <1>7. Len(all) <= limit /\ Len(found) <= Len(all)
    BY <1>3, <1>5
  <1>8. SubSeq(found, 1, Len(found)) = SubSeq(all, 1, Len(found))
    BY <1>5, <1>6, <1>7
  <1>9. QED
    BY <1>2, <1>7, <1>8 DEF IsPrefix

(* A query returns finitely many rows.                                     *)
LEMMA TraversedRows ==
    ASSUME Inputs, NEW starts \in SUBSET Ids, NEW depth \in Nat
    PROVE  LET rows == TraverseRelations(rel, starts, depth)
           IN  /\ Cardinality(rows) \in Nat
               /\ \A x \in rows : x.target \in Ids
  <1> DEFINE rows == TraverseRelations(rel, starts, depth)
             D == 1 .. MaxDepth
             T == Ids \X (Types \X D)
             f == [x \in rows |-> <<x.target, <<x.type, x.dist>>>>]
  <1>1. \A x \in rows : /\ x.target \in Ids /\ x.type \in Types /\ x.dist \in D
                        /\ x = [target |-> x.target, type |-> x.type, dist |-> x.dist]
    <2>1. rel \in SUBSET (Ids \X Ids \X Types)
      BY DEF Inputs
    <2>2. rows = Shortest(rel, Ids, starts, depth)
      BY <2>1, TraversalIsShortest
    <2>3. {r[3] : r \in rel} \subseteq Types
      BY <2>1
    <2> HIDE DEF rows
    <2>4. QED
      BY <2>2, <2>3 DEF Shortest
  <1>2. f \in Injection(rows, T)
    <2> HIDE DEF rows, D
    <2>1. f \in [rows -> T]
      BY <1>1
    <2>2. ASSUME NEW x \in rows, NEW y \in rows, f[x] = f[y]
          PROVE  x = y
      <3>1. x.target = y.target /\ x.type = y.type /\ x.dist = y.dist
        BY <2>2
      <3>2. QED
        BY <1>1, <3>1
    <2> HIDE DEF f
    <2>3. QED
      BY <2>1, <2>2 DEF Injection, IsInjective
  <1>3. \A n \in Nat : IsFiniteSet(1 .. n)
    <2> TAKE n \in Nat
    <2>1. 1 \in Int /\ n \in Int
      OBVIOUS
    <2>2. QED
      BY <2>1, FS_Interval, Zenon
  <1>4. IsFiniteSet(T)
    <2>1. IsFiniteSet(Ids) /\ IsFiniteSet(D) /\ IsFiniteSet(Types)
      BY <1>3, InputsAssumption, MaxDepthAssumption DEF Ids
    <2> HIDE DEF D
    <2>2. IsFiniteSet(Types \X D)
      BY <2>1, FS_Product
    <2>3. QED
      BY <2>1, <2>2, FS_Product
  <1>5. IsFiniteSet(rows)
    <2> HIDE DEF f, T, rows
    <2>1. QED
      BY <1>2, <1>4, FS_Injection
  <1> HIDE DEF rows
  <1>6. Cardinality(rows) \in Nat
    BY <1>5, FS_CardinalityType
  <1>7. QED
    BY <1>1, <1>6 DEF rows

(* A search that follows relations keeps to its limit and to its own       *)
(* results, in whatever order the rows of a distance come (retriever.go).  *)
THEOREM AlwaysWithinLimit == Spec => []RelatedWithinLimit
  <1>1. Inputs => RelatedWithinLimit
    <2> DEFINE found == <<1>>
               R == TraverseRelations(rel, {1}, 2)
    <2>1. 1 \in Ids /\ found \in Seq(Ids) /\ Len(found) = 1 /\ ToSet(found) = {1}
      BY InputsAssumption DEF Ids, ToSet
    <2>2. Cardinality(ToSet(found)) = 1
      BY <2>1, FS_Singleton
    <2> SUFFICES ASSUME Inputs, NEW limit \in 1 .. N, NEW s \in Searched(found, limit)
                 PROVE  Len(s) <= limit /\ IsPrefix(found, s)
      BY DEF RelatedWithinLimit
    <2>3. Cardinality(R) \in Nat /\ \A x \in R : x.target \in Ids
      BY <2>1, TraversedRows
    <2>4. PICK rows \in SetToSeqs(TraverseRelations(rel, ToSet(found), 2)) :
             s = AddRelated(found, rows, Ids, limit)
      BY DEF Searched
    <2>5. rows \in [1 .. Cardinality(R) -> R]
      BY <2>1, <2>4 DEF SetToSeqs
    <2>6. limit \in Nat /\ 1 <= limit
      BY InputsAssumption
    <2> HIDE DEF R, found
    <2>7. Len(s) <= limit /\ IsPrefix(found, s)
      BY <2>1, <2>2, <2>3, <2>4, <2>5, <2>6, AddedWithin
    <2>8. QED
      BY <2>7
  <1>2. QED
    BY <1>1, AlwaysInputs, PTL
-----------------------------------------------------------------------------
(* The bytes before each character of a text, and after the last.          *)
Offsets(text, f) ==
    /\ f \in [0 .. Len(text) -> Nat] /\ f[0] = 0
    /\ \A k \in 1 .. Len(text) : f[k] = f[k - 1] + text[k]

HasOffsets(text) == \E f : Offsets(text, f) /\ Bytes(text) = f[Len(text)]

LEMMA BytesRun ==
    ASSUME NEW text \in Seq(Nat)
    PROVE  HasOffsets(text)
  <1> DEFINE n == Len(text)
             Body(f, k) == IF k = 0 THEN 0 ELSE f[k - 1] + text[k]
             step == [x \in (1 .. n) \X Nat |-> x[2] + text[x[1]]]
             sum == CHOOSE f : f = [k \in 0 .. n |-> Body(f, k)]
  <1>1. n \in Nat /\ \A k \in 1 .. n : text[k] \in Nat
    OBVIOUS
  <1>2. step \in [(1 .. n) \X Nat -> Nat]
    BY <1>1
  <1>3. PICK f \in [0 .. n -> Nat] :
            f[0] = 0 /\ \A k \in 1 .. n : f[k] = step[<<k, f[k - 1]>>]
    <2> HIDE DEF step, Body, sum, n
    <2>1. HasRun(n, Nat, 0, step)
      BY <1>1, <1>2, Recursion
    <2>2. QED
      BY <2>1 DEF HasRun
  <1>4. f = [k \in 0 .. n |-> Body(f, k)]
    <2>1. \A k \in 0 .. n : k # 0 => k \in 1 .. n /\ f[k - 1] \in Nat
      BY <1>1
    <2>2. \A k \in 0 .. n : f[k] = Body(f, k)
      BY <1>3, <2>1
    <2>3. QED
      BY <2>2
  <1>5. sum = [k \in 0 .. n |-> Body(sum, k)]
    BY <1>4
  <1> HIDE DEF sum, n
  <1>6. sum[0] = 0 /\ \A k \in 1 .. n : sum[k] = sum[k - 1] + text[k]
    <2>1. \A k \in 0 .. n : sum[k] = Body(sum, k)
      BY <1>5
    <2>2. QED
      BY <1>1, <2>1
  <1>7. sum \in [0 .. n -> Nat]
    <2> DEFINE G == {k \in 0 .. n : sum[k] \in Nat}
    <2>1. 0 \in G
      BY <1>1, <1>6
    <2>2. ASSUME NEW k \in 1 .. n, k - 1 \in G PROVE k \in G
      <3>1. k \in 0 .. n /\ sum[k - 1] \in Nat /\ text[k] \in Nat
        BY <1>1, <2>2
      <3>2. sum[k] = sum[k - 1] + text[k]
        BY <1>6
      <3>3. sum[k] \in Nat
        BY <3>1, <3>2
      <3>4. QED
        BY <3>1, <3>3
    <2>3. \A k \in 0 .. n : k \in G
      <3> HIDE DEF G
      <3>1. QED
        BY <1>1, <2>1, <2>2, UpTo
    <2>4. \A k \in 0 .. n : sum[k] \in Nat
      BY <2>3
    <2>5. QED
      BY <1>5, <2>4
  <1>8. Bytes(text) = sum[n]
    BY DEF Bytes, sum, n
  <1>9. QED
    BY <1>6, <1>7, <1>8 DEF HasOffsets, Offsets, n

(* The bytes of the first characters are the offset of the next.           *)
LEMMA BytesOfPrefix ==
    ASSUME NEW text \in Seq(Nat), NEW f, Offsets(text, f), NEW j \in 0 .. Len(text)
    PROVE  Bytes(SubSeq(text, 1, j)) = f[j]
  <1> DEFINE q == SubSeq(text, 1, j)
  <1>1. j \in Nat /\ Len(text) \in Nat /\ j <= Len(text)
    OBVIOUS
  <1>2. q \in Seq(Nat) /\ Len(q) = j /\ \A k \in 1 .. j : q[k] = text[k]
    <2>1. \A k \in 1 .. j : text[k] \in Nat
      BY <1>1
    <2>2. QED
      BY <1>1, <2>1, SubSeqProperties
  <1> HIDE DEF q
  <1>3. PICK g : Offsets(q, g) /\ Bytes(q) = g[j]
    BY <1>2, BytesRun DEF HasOffsets
  <1> DEFINE G == {k \in 0 .. j : g[k] = f[k]}
  <1>4. 0 \in G
    BY <1>1, <1>3 DEF Offsets
  <1>5. ASSUME NEW k \in 1 .. j, k - 1 \in G
        PROVE  k \in G
    <2>1. k \in 0 .. j /\ k \in 1 .. Len(text) /\ g[k - 1] = f[k - 1]
      BY <1>1, <1>5
    <2>2. f[k] = f[k - 1] + text[k]
      BY <2>1 DEF Offsets
    <2>3. g[k] = g[k - 1] + q[k]
      BY <1>2, <1>3 DEF Offsets
    <2>4. QED
      BY <1>2, <2>1, <2>2, <2>3
  <1>6. j \in G
    <2>1. \A k \in 0 .. j : k \in G
      <3> HIDE DEF G
      <3>1. QED
        BY <1>1, <1>4, <1>5, UpTo
    <2>2. QED
      BY <1>1, <2>1
  <1>7. QED
    BY <1>3, <1>6 DEF q

(* No character is empty.                                                  *)
LEMMA OffsetsRise ==
    ASSUME NEW text \in Seq(1 .. 4), NEW f, Offsets(text, f)
    PROVE  \A h, k \in 0 .. Len(text) : h < k => f[h] < f[k]
  <1> DEFINE n == Len(text)
             G == {k \in 0 .. n : \A h \in 0 .. n : h < k => f[h] < f[k]}
  <1>1. /\ n \in Nat /\ \A k \in 1 .. n : text[k] \in 1 .. 4
        /\ \A k \in 0 .. n : f[k] \in Nat
    BY DEF Offsets
  <1>2. 0 \in G
    BY <1>1
  <1>3. ASSUME NEW k \in 1 .. n, k - 1 \in G
        PROVE  k \in G
    <2>1. k - 1 \in 0 .. n /\ k \in 0 .. n /\ \A h \in 0 .. n : h < k - 1 => f[h] < f[k - 1]
      BY <1>1, <1>3
    <2>2. f[k] = f[k - 1] + text[k]
      BY DEF Offsets
    <2>3. f[k - 1] < f[k]
      BY <1>1, <2>1, <2>2
    <2>4. ASSUME NEW h \in 0 .. n, h < k PROVE f[h] < f[k]
      <3>1. h = k - 1 \/ h < k - 1
        BY <1>1, <2>4
      <3>2. QED
        BY <1>1, <2>1, <2>3, <3>1
    <2>5. QED
      BY <2>1, <2>4
  <1>4. \A k \in 0 .. n : k \in G
    <2> HIDE DEF G
    <2>1. QED
      BY <1>1, <1>2, <1>3, UpTo
  <1>5. QED
    BY <1>4

(* So there are no fewer bytes than characters, and as many if all are one *)
(* byte long.                                                              *)
LEMMA OffsetsCount ==
    ASSUME NEW text \in Seq(1 .. 4), NEW f, Offsets(text, f)
    PROVE  \A k \in 0 .. Len(text) :
              k <= f[k] /\ ((\A j \in 1 .. k : text[j] = 1) => f[k] = k)
  <1> DEFINE n == Len(text)
             G == {k \in 0 .. n :
                     k <= f[k] /\ ((\A j \in 1 .. k : text[j] = 1) => f[k] = k)}
  <1>1. /\ n \in Nat /\ \A k \in 1 .. n : text[k] \in 1 .. 4
        /\ f[0] = 0 /\ \A k \in 0 .. n : f[k] \in Nat
    BY DEF Offsets
  <1>2. 0 \in G
    BY <1>1
  <1>3. ASSUME NEW k \in 1 .. n, k - 1 \in G
        PROVE  k \in G
    <2>1. /\ k - 1 \in 0 .. n /\ k \in 0 .. n /\ k - 1 <= f[k - 1]
          /\ (\A j \in 1 .. k - 1 : text[j] = 1) => f[k - 1] = k - 1
      BY <1>1, <1>3
    <2>2. f[k] = f[k - 1] + text[k] /\ text[k] >= 1 /\ f[k - 1] \in Nat
      BY <1>1, <2>1 DEF Offsets
    <2>3. k <= f[k]
      BY <1>1, <2>1, <2>2
    <2>4. ASSUME \A j \in 1 .. k : text[j] = 1
          PROVE  f[k] = k
      <3>1. k \in 1 .. k /\ \A j \in 1 .. k - 1 : j \in 1 .. k
        BY <1>1
      <3>2. f[k - 1] = k - 1 /\ text[k] = 1
        BY <2>1, <2>4, <3>1
      <3>3. QED
        BY <2>1, <2>2, <3>2
    <2>5. QED
      BY <2>1, <2>3, <2>4
  <1>4. \A k \in 0 .. n : k \in G
    <2> HIDE DEF G
    <2>1. QED
      BY <1>1, <1>2, <1>3, UpTo
  <1>5. QED
    BY <1>4

(* A text that starts with a character of one byte is cut behind a whole   *)
(* character, and early only for one that is longer.                       *)
Text == {t \in Seq(1 .. 4) : Len(t) >= 1 /\ t[1] = 1}

IsWhole(text, limit, bytes) ==
    \E k \in 1 .. Len(text) :
        /\ bytes = Bytes(SubSeq(text, 1, k))
        /\ k <= limit
        /\ k < Len(text) /\ k < limit => \E j \in 1 .. k + 1 : text[j] > 1

LEMMA CutWhole ==
    ASSUME NEW text \in Text, NEW limit \in Nat \ {0}
    PROVE  IsWhole(text, limit, TruncateToValidUTF8(text, limit))
  <1> DEFINE n == Len(text)
             kept == TruncateToValidUTF8(text, limit)
  <1>1. text \in Seq(1 .. 4) /\ n \in Nat /\ n >= 1 /\ text[1] = 1 /\ text \in Seq(Nat)
    <2>1. text \in Seq(1 .. 4) /\ n >= 1 /\ text[1] = 1
      BY DEF Text
    <2>2. text \in Seq(Nat)
      BY <2>1, SeqMonotonic
    <2>3. QED
      BY <2>1, <2>2
  <1>2. PICK f : Offsets(text, f) /\ Bytes(text) = f[n]
    BY <1>1, BytesRun DEF HasOffsets
  <1>3. \A j \in 0 .. n : Bytes(SubSeq(text, 1, j)) = f[j]
    BY <1>1, <1>2, BytesOfPrefix
  <1>4. \A h, k \in 0 .. n : h < k => f[h] < f[k]
    BY <1>1, <1>2, OffsetsRise
  <1>5. /\ \A k \in 0 .. n : f[k] \in Nat
        /\ f[0] = 0 /\ f[1] = 1
    <2>1. 1 \in 1 .. n /\ 1 - 1 = 0
      BY <1>1
    <2>2. f \in [0 .. n -> Nat] /\ f[0] = 0 /\ f[1] = f[1 - 1] + text[1]
      BY <1>2, <2>1 DEF Offsets
    <2>3. f[1] = 1
      BY <1>1, <2>1, <2>2
    <2>4. QED
      BY <2>2, <2>3
  <1>6. /\ \A k \in 1 .. n : text[k] \in 1 .. 4
        /\ \A k \in 0 .. n :
              k <= f[k] /\ ((\A j \in 1 .. k : text[j] = 1) => f[k] = k)
    BY <1>1, <1>2, OffsetsCount
  <1> HIDE DEF n
  <1>7. CASE f[n] <= limit
    <2>1. kept = f[n]
      BY <1>2, <1>7 DEF TruncateToValidUTF8
    <2>2. n \in 1 .. n /\ n \in 0 .. n /\ ~(n < n) /\ n <= limit
      <3>1. n \in 1 .. n /\ n \in 0 .. n /\ ~(n < n)
        BY <1>1
      <3>2. n <= f[n] /\ f[n] \in Nat
        BY <1>5, <1>6, <3>1
      <3>3. QED
        BY <1>1, <1>7, <3>1, <3>2
    <2> HIDE DEF kept
    <2>3. QED
      BY <1>3, <1>7, <2>1, <2>2 DEF IsWhole, n, kept
  <1>8. CASE ~(f[n] <= limit)
    <2> DEFINE Fit == {k \in 1 .. n : f[k] <= limit}
               Rest == {n - k : k \in Fit}
    <2>1. 1 \in Fit
      BY <1>1, <1>5
    <2>2. Rest \in SUBSET Nat /\ Rest # {}
      BY <1>1, <2>1
    <2>3. PICK r \in Rest : \A y \in Rest : r <= y
      <3> HIDE DEF Rest
      <3>1. QED
        BY <2>2, LeastNat
    <2>4. PICK k \in Fit : r = n - k
      OBVIOUS
    <2>5. \A h \in Fit : h <= k
      <3> TAKE h \in Fit
      <3>1. n - h \in Rest
        OBVIOUS
      <3>2. n - k <= n - h /\ h \in 1 .. n /\ k \in 1 .. n
        BY <2>3, <2>4, <3>1
      <3>3. QED
        BY <1>1, <3>2
    <2>6. k \in 1 .. n /\ f[k] <= limit /\ k # n /\ k < n /\ k + 1 \in 1 .. n
      BY <1>1, <1>8, <2>4
    <2>7. f[k + 1] > limit
      <3>1. k + 1 \notin Fit
        BY <2>5, <2>6
      <3>2. f[k + 1] \in Nat
        BY <1>5, <2>6
      <3>3. QED
        BY <2>6, <3>1, <3>2
    <2> DEFINE starts == RuneStarts(text) \cap 1 .. limit
    <2>8. RuneStarts(text) = {f[h - 1] : h \in 1 .. n}
      <3>1. \A h \in 1 .. n : Bytes(SubSeq(text, 1, h - 1)) = f[h - 1]
        <4>1. \A h \in 1 .. n : h - 1 \in 0 .. n
          BY <1>1
        <4>2. QED
          BY <1>3, <4>1
      <3>2. DOMAIN text = 1 .. n
        BY <1>1 DEF n
      <3>3. QED
        BY <3>1, <3>2 DEF RuneStarts
    <2>9. f[k] \in starts
      <3>1. f[k] \in Nat /\ f[0] < f[k]
        BY <1>1, <1>4, <1>5, <2>6
      <3>2. f[k] \in 1 .. limit
        BY <1>5, <2>6, <3>1
      <3>3. (k + 1) - 1 = k
        BY <2>6
      <3>4. f[k] \in {f[h - 1] : h \in 1 .. n}
        BY <2>6, <3>3
      <3>5. QED
        BY <2>8, <3>2, <3>4
    <2>10. ASSUME NEW y \in starts
           PROVE  y \in Nat /\ f[k] >= y
      <3>1. PICK h \in 1 .. n : y = f[h - 1]
        BY <2>8
      <3>2. h - 1 \in 0 .. n /\ y \in 1 .. limit
        BY <1>1
      <3>3. h - 1 # 0
        BY <1>5, <3>1, <3>2
      <3>4. h - 1 \in 1 .. n
        BY <1>1, <3>2, <3>3
      <3>5. h - 1 \in Fit
        BY <3>1, <3>2, <3>4
      <3>6. h - 1 <= k
        BY <2>5, <3>5
      <3>7. h - 1 = k \/ h - 1 < k
        BY <2>6, <3>4, <3>6
      <3>8. k \in 0 .. n
        BY <1>1, <2>6
      <3>9. f[h - 1] = f[k] \/ f[h - 1] < f[k]
        BY <1>4, <3>2, <3>7, <3>8
      <3>10. QED
        BY <1>5, <3>1, <3>2, <3>8, <3>9
    <2>11. f[k] \in Nat
      BY <2>9, <2>10
    <2> HIDE DEF starts
    <2>12. Max(starts) = f[k]
      <3>1. \E x \in starts : \A y \in starts : x >= y
        BY <2>9, <2>10
      <3>2. Max(starts) \in starts /\ \A y \in starts : Max(starts) >= y
        BY <3>1 DEF Max
      <3>3. Max(starts) \in Nat /\ Max(starts) >= f[k] /\ f[k] >= Max(starts)
        BY <2>9, <2>10, <3>2
      <3>4. QED
        BY <2>11, <3>3
    <2>13. kept = f[k]
      BY <1>2, <1>8, <2>9, <2>12 DEF TruncateToValidUTF8, starts
    <2>14. k \in 0 .. n /\ k + 1 \in 0 .. n
      BY <1>1, <2>6
    <2> HIDE DEF kept, Fit, Rest
    <2>15. k \in Nat /\ k <= limit
      <3>1. k <= f[k] /\ f[k] \in Nat
        BY <1>5, <1>6, <2>14
      <3>2. QED
        BY <1>1, <2>6, <3>1
    <2>16. ASSUME k < limit
           PROVE  \E j \in 1 .. k + 1 : text[j] > 1
      <3>1. \A j \in 1 .. k + 1 : j \in 1 .. n
        BY <1>1, <2>6
      <3>2. ASSUME \A j \in 1 .. k + 1 : ~ (text[j] > 1)
            PROVE  FALSE
        <4>1. \A j \in 1 .. k + 1 : text[j] = 1
          BY <1>6, <3>1, <3>2
        <4>2. f[k + 1] = k + 1
          BY <1>6, <2>14, <4>1
        <4>3. QED
          BY <2>7, <2>15, <2>16, <4>2
      <3>3. QED
        BY <3>2
    <2>17. QED
      BY <1>3, <2>6, <2>13, <2>14, <2>15, <2>16 DEF IsWhole, n, kept
  <1>9. QED
    BY <1>7, <1>8

(* Lines joined are a text again.                                          *)
LEMMA Concatenated ==
    ASSUME NEW a, a \in Text \/ a = <<>>, NEW b \in Text
    PROVE  a \o b \in Text
  <1> DEFINE c == a \o b
             W == 1 .. 4
  <1>1. a \in Seq(W) /\ b \in Seq(W) /\ Len(b) >= 1 /\ b[1] = 1
    <2>1. <<>> \in Seq(W) /\ \A t \in Text : t \in Seq(W)
      <3>1. \A t \in Text : t \in Seq(W)
        BY DEF Text
      <3>2. QED
        BY <3>1
    <2>2. a \in Seq(W)
      <3> HIDE DEF W
      <3>1. QED
        BY <2>1
    <2>3. QED
      BY <2>2 DEF Text
  <1>2. Len(a) = 0 \/ (Len(a) >= 1 /\ a[1] = 1)
    BY DEF Text
  <1> HIDE DEF W
  <1>3. c \in Seq(W) /\ Len(c) = Len(a) + Len(b)
    BY <1>1, ConcatProperties
  <1>4. \A k \in 1 .. Len(c) : c[k] = IF k <= Len(a) THEN a[k] ELSE b[k - Len(a)]
    BY <1>1, <1>3, ConcatProperties
  <1> HIDE DEF c
  <1>5. Len(a) \in Nat /\ Len(b) \in Nat /\ Len(c) >= 1 /\ 1 \in 1 .. Len(c)
    BY <1>1, <1>3
  <1>6. c[1] = 1
    BY <1>1, <1>2, <1>4, <1>5
  <1>7. QED
    BY <1>3, <1>5, <1>6 DEF Text, W, c

LEMMA JoinedLines ==
    ASSUME NEW in \in Seq(Text), in # <<>>
    PROVE  Join(in) \in Text
  <1> DEFINE n == Len(in)
             Out == Text \cup {<<>>}
             Turn(k, q) == q \o (IF k = 1 THEN <<>> ELSE <<1>>) \o in[k]
             Body(f, k) == IF k = 0 THEN <<>> ELSE Turn(k, f[k - 1])
             step == [x \in (1 .. n) \X Out |-> Turn(x[1], x[2])]
             text == CHOOSE f : f = [k \in 0 .. n |-> Body(f, k)]
  <1>1. n \in Nat /\ n # 0 /\ \A k \in 1 .. n : in[k] \in Text
    OBVIOUS
  <1>2. ASSUME NEW k \in 1 .. n, NEW q \in Out
        PROVE  Turn(k, q) \in Text
    <2>1. <<1>> \in Text
      <3>1. <<1>> \in Seq(1 .. 4) /\ Len(<<1>>) >= 1 /\ <<1>>[1] = 1
        OBVIOUS
      <3>2. QED
        BY <3>1 DEF Text
    <2>2. q \o <<1>> \in Text /\ q \o <<>> = q
      <3>1. q \in Seq(1 .. 4)
        <4>1. q \in Text => q \in Seq(1 .. 4)
          BY DEF Text
        <4>2. q = <<>> => q \in Seq(1 .. 4)
          OBVIOUS
        <4>3. QED
          BY <4>1, <4>2
      <3>2. QED
        BY <2>1, <3>1, Concatenated
    <2>3. in[k] \in Text
      BY <1>1
    <2>4. QED
      BY <2>2, <2>3, Concatenated
  <1> HIDE DEF Out, Turn, n
  <1>3. <<>> \in Out /\ \A q \in Text : q \in Out
    BY DEF Out
  <1>4. step \in [(1 .. n) \X Out -> Out]
    BY <1>2, <1>3
  <1>5. PICK f \in [0 .. n -> Out] :
            f[0] = <<>> /\ \A k \in 1 .. n : f[k] = step[<<k, f[k - 1]>>]
    <2> HIDE DEF step, Body, text
    <2>1. HasRun(n, Out, <<>>, step)
      BY <1>1, <1>3, <1>4, Recursion
    <2>2. QED
      BY <2>1 DEF HasRun
  <1>6. f = [k \in 0 .. n |-> Body(f, k)]
    <2>1. \A k \in 0 .. n : k # 0 => k \in 1 .. n /\ f[k - 1] \in Out
      BY <1>1
    <2>2. \A k \in 0 .. n : f[k] = Body(f, k)
      BY <1>5, <2>1
    <2>3. QED
      BY <2>2
  <1>7. text = [k \in 0 .. n |-> Body(text, k)]
    BY <1>6
  <1> HIDE DEF text
  <1>8. text[0] = <<>> /\ \A k \in 1 .. n : text[k] = Turn(k, text[k - 1])
    <2>1. \A k \in 0 .. n : text[k] = Body(text, k)
      BY <1>7
    <2>2. QED
      BY <1>1, <2>1
  <1> DEFINE G == {k \in 0 .. n : text[k] \in Out}
  <1>9. \A k \in 0 .. n : k \in G
    <2>1. 0 \in G
      BY <1>1, <1>3, <1>8
    <2>2. ASSUME NEW k \in 1 .. n, k - 1 \in G PROVE k \in G
      BY <1>2, <1>3, <1>8, <2>2
    <2> HIDE DEF G
    <2>3. QED
      BY <1>1, <2>1, <2>2, UpTo
  <1>10. text[n] \in Text
    <2>1. n \in 1 .. n /\ n - 1 \in 0 .. n
      BY <1>1
    <2>2. QED
      BY <1>2, <1>8, <1>9, <2>1
  <1>11. Join(in) = text[n]
    BY DEF Join, text, Turn, n
  <1>12. QED
    BY <1>10, <1>11

(* A context of any number of lines, cut to its budget, ends with a whole  *)
(* character, and holds as many of them as the budget but where one takes  *)
(* more than a byte (retriever.go).                                        *)
THEOREM AlwaysWholeRunes == Spec => []WholeRunes
  <1>1. Inputs => WholeRunes
    <2> DEFINE text == Join(lines)
               limit(budget) == IF budget <= 0 THEN DefaultBudget ELSE budget
    <2> SUFFICES ASSUME Inputs, lines # <<>>, NEW budget \in 0 .. Bytes(text) + 1
                 PROVE  IsWhole(text, IF budget = 0 THEN DefaultBudget ELSE budget,
                                FormatContext(lines, budget))
      BY DEF WholeRunes, IsWhole
    <2>1. Line \subseteq Text
      <3>1. ASSUME NEW k \in 0 .. MaxRunes, NEW runes \in [1 .. k -> 1 .. 4]
            PROVE  <<1>> \o runes \in Text
        <4>1. k \in Nat
          BY InputsAssumption
        <4>2. runes \in Seq(1 .. 4) /\ Len(runes) = k
          BY <4>1, IsASeq
        <4> DEFINE a == <<1>>
                   c == a \o runes
        <4>3. a \in Seq(1 .. 4) /\ Len(a) = 1 /\ a[1] = 1
          OBVIOUS
        <4> HIDE DEF a
        <4>4. c \in Seq(1 .. 4) /\ Len(c) = 1 + k /\ c[1] = 1
          BY <4>1, <4>2, <4>3, ConcatProperties
        <4> HIDE DEF c
        <4>5. c \in Text
          BY <4>1, <4>4 DEF Text
        <4>6. QED
          BY <4>5 DEF c, a
      <3>2. QED
        BY <3>1 DEF Line
    <2>2. lines \in Seq(Text)
      <3>1. PICK k \in 1 .. MaxLines : lines \in [1 .. k -> Line]
        BY DEF Inputs
      <3>2. k \in Nat /\ lines \in [1 .. k -> Text]
        BY <2>1, <3>1, InputsAssumption
      <3>3. QED
        BY <3>2, IsASeq
    <2>3. text \in Text
      BY <2>2, JoinedLines
    <2> HIDE DEF text
    <2>4. limit(budget) \in Nat \ {0}
      BY BudgetAssumption
    <2>5. budget <= 0 <=> budget = 0
      OBVIOUS
    <2>6. FormatContext(lines, budget) = TruncateToValidUTF8(text, limit(budget))
      BY DEF FormatContext, text
    <2>7. IsWhole(text, limit(budget), TruncateToValidUTF8(text, limit(budget)))
      <3> HIDE DEF limit
      <3>1. QED
        BY <2>3, <2>4, CutWhole
    <2>8. QED
      BY <2>5, <2>6, <2>7
  <1>2. QED
    BY <1>1, AlwaysInputs, PTL
-----------------------------------------------------------------------------
(* Induction over the subsets of a finite set: what holds of a set as soon *)
(* as it holds of the set without any one of its elements holds of all.    *)
LEMMA Grow ==
    ASSUME NEW S, IsFiniteSet(S), NEW G,
           \A T \in SUBSET S : (\A x \in T : T \ {x} \in G) => T \in G
    PROVE  \A T \in SUBSET S : T \in G
  <1> DEFINE n == Cardinality(S)
             H == {k \in 0 .. n : \A T \in SUBSET S : Cardinality(T) = k => T \in G}
  <1>1. n \in Nat
    BY FS_CardinalityType
  <1>2. \A T \in SUBSET S : IsFiniteSet(T) /\ Cardinality(T) \in 0 .. n
    <2>1. ASSUME NEW T \in SUBSET S PROVE IsFiniteSet(T) /\ Cardinality(T) \in 0 .. n
      <3>1. IsFiniteSet(T) /\ Cardinality(T) <= n
        BY FS_Subset
      <3>2. Cardinality(T) \in Nat
        BY <3>1, FS_CardinalityType
      <3>3. QED
        BY <1>1, <3>1, <3>2
    <2>2. QED
      BY <2>1
  <1>3. 0 \in H
    <2>1. ASSUME NEW T \in SUBSET S, Cardinality(T) = 0 PROVE T \in G
      <3>1. T = {}
        BY <1>2, <2>1, FS_EmptySet
      <3>2. QED
        BY <3>1
    <2>2. QED
      BY <1>1, <2>1
  <1>4. ASSUME NEW k \in 1 .. n, k - 1 \in H PROVE k \in H
    <2>1. ASSUME NEW T \in SUBSET S, Cardinality(T) = k, NEW x \in T PROVE T \ {x} \in G
      <3>1. Cardinality(T \ {x}) = k - 1
        BY <1>2, <2>1, FS_RemoveElement
      <3>2. T \ {x} \in SUBSET S
        OBVIOUS
      <3>3. QED
        BY <1>4, <3>1, <3>2
    <2>2. QED
      BY <2>1
  <1>5. \A k \in 0 .. n : k \in H
    <2> HIDE DEF n, H
    <2>1. QED
      BY <1>1, <1>3, <1>4, UpTo
  <1>6. QED
    BY <1>2, <1>5

(* Sums over the subsets of S: any element may come last.                  *)
Totals(f, S, sum) ==
    /\ sum \in [SUBSET S -> Int] /\ sum[{}] = 0
    /\ \A T \in SUBSET S : \A x \in T : sum[T] = f[x] + sum[T \ {x}]

HasTotals(f, S) == \E sum : Totals(f, S, sum) /\ SumFunction(f) = sum[S]

(* The sum FoldFunction takes, in the order it chooses, is such a sum.     *)
LEMMA SumRun ==
    ASSUME NEW S, IsFiniteSet(S), NEW f \in [S -> Int]
    PROVE  HasTotals(f, S)
  <1> DEFINE One(T) == CHOOSE x \in T : TRUE
             Body(sum, T) == IF T = {} THEN 0 ELSE f[One(T)] + sum[T \ {One(T)}]
             iter == CHOOSE sum : sum = [T \in SUBSET S |-> Body(sum, T)]
             n == Cardinality(S)
             Runs(k, sum) == \A T \in SUBSET S : Cardinality(T) <= k => sum[T] = Body(sum, T)
             H == {k \in 0 .. n : \E sum \in [SUBSET S -> Int] : Runs(k, sum)}
  <1>1. SumFunction(f) = iter[S]
    BY DEF SumFunction, SumFunctionOnSet, FoldFunctionOnSet, MapThenFoldSet
  <1>2. n \in Nat
    BY FS_CardinalityType
  <1>3. \A T \in SUBSET S : IsFiniteSet(T) /\ Cardinality(T) \in Nat /\ Cardinality(T) <= n
    BY FS_Subset, FS_CardinalityType
  <1>4. \A T \in SUBSET S : T # {} => One(T) \in T
    OBVIOUS
  <1> HIDE DEF One
  <1>5. \A T \in SUBSET S : T # {} =>
           /\ T \ {One(T)} \in SUBSET S /\ f[One(T)] \in Int
           /\ Cardinality(T \ {One(T)}) = Cardinality(T) - 1 /\ Cardinality(T) # 0
    BY <1>3, <1>4, FS_RemoveElement, FS_EmptySet
  <1>6. 0 \in H
    <2> DEFINE zero == [T \in SUBSET S |-> 0]
    <2>1. zero \in [SUBSET S -> Int]
      OBVIOUS
    <2>2. Runs(0, zero)
      BY <1>3, FS_EmptySet
    <2> HIDE DEF zero, Runs
    <2>3. QED
      BY <1>2, <2>1, <2>2
  <1>7. ASSUME NEW k \in 1 .. n, k - 1 \in H PROVE k \in H
    <2>1. PICK sum \in [SUBSET S -> Int] : Runs(k - 1, sum)
      BY <1>7
    <2> DEFINE next == [T \in SUBSET S |-> IF Cardinality(T) = k THEN Body(sum, T) ELSE sum[T]]
    <2>2. k \in Nat /\ k # 0 /\ k - 1 \in Nat
      BY <1>2
    <2>3. \A T \in SUBSET S : Body(sum, T) \in Int
      <3>1. ASSUME NEW T \in SUBSET S, T # {}
            PROVE  f[One(T)] + sum[T \ {One(T)}] \in Int
        <4>1. f[One(T)] \in Int /\ T \ {One(T)} \in SUBSET S
          BY <1>5, <3>1
        <4>2. sum[T \ {One(T)}] \in Int
          BY <4>1
        <4>3. QED
          BY <4>1, <4>2
      <3>2. QED
        BY <3>1
    <2>4. next \in [SUBSET S -> Int]
      BY <2>3
    <2>5. ASSUME NEW T \in SUBSET S, Cardinality(T) <= k PROVE next[T] = Body(next, T)
      <3>1. CASE T = {}
        <4>1. Cardinality(T) = 0
          BY <3>1, FS_EmptySet
        <4>2. sum[T] = Body(sum, T)
          BY <2>1, <2>2, <4>1
        <4>3. QED
          BY <2>2, <3>1, <4>1, <4>2
      <3>2. CASE T # {}
        <4> DEFINE U == T \ {One(T)}
        <4>1. U \in SUBSET S /\ Cardinality(U) = Cardinality(T) - 1
          BY <1>5, <3>2
        <4>2. Cardinality(U) # k
          BY <1>3, <2>2, <2>5, <4>1
        <4>3. next[U] = sum[U]
          BY <4>1, <4>2
        <4>4. Body(next, T) = Body(sum, T)
          BY <4>3
        <4>5. Cardinality(T) # k => sum[T] = Body(sum, T)
          BY <1>3, <2>1, <2>2, <2>5
        <4> HIDE DEF Body
        <4>6. next[T] = Body(sum, T)
          BY <4>5
        <4>7. QED
          BY <4>4, <4>6
      <3>3. QED
        BY <3>1, <3>2
    <2>6. Runs(k, next)
      BY <2>5
    <2> HIDE DEF next, Runs
    <2>7. QED
      BY <2>4, <2>6
  <1>8. n \in H
    <2> HIDE DEF n, H
    <2>1. QED
      BY <1>2, <1>6, <1>7, UpTo
  <1>9. PICK sum \in [SUBSET S -> Int] : Runs(n, sum)
    BY <1>8
  <1>10. sum = [T \in SUBSET S |-> Body(sum, T)]
    <2>1. \A T \in SUBSET S : sum[T] = Body(sum, T)
      BY <1>3, <1>9
    <2> HIDE DEF Body
    <2>2. QED
      BY <2>1
  <1>11. iter = [T \in SUBSET S |-> Body(iter, T)]
    <2> HIDE DEF Body
    <2>1. QED
      BY <1>10
  <1> HIDE DEF iter
  <1>12. \A T \in SUBSET S : iter[T] = Body(iter, T)
    <2> HIDE DEF Body
    <2>1. QED
      BY <1>11
  <1>13. \A T \in SUBSET S : iter[T] \in Int
    <2> DEFINE G == {T \in SUBSET S : iter[T] \in Int}
    <2>1. ASSUME NEW T \in SUBSET S, \A x \in T : T \ {x} \in G PROVE T \in G
      <3>1. CASE T = {}
        <4>1. iter[T] = 0
          BY <1>12, <3>1
        <4>2. QED
          BY <4>1
      <3>2. CASE T # {}
        <4>1. iter[T] = f[One(T)] + iter[T \ {One(T)}]
          BY <1>12, <3>2
        <4>2. iter[T \ {One(T)}] \in Int
          BY <1>4, <2>1, <3>2
        <4>3. QED
          BY <1>5, <3>2, <4>1, <4>2
      <3>3. QED
        BY <3>1, <3>2
    <2> HIDE DEF G
    <2>2. \A T \in SUBSET S : T \in G
      BY <2>1, Grow
    <2>3. QED
      BY <2>2 DEF G
  <1>14. \A T \in SUBSET S : \A x \in T : iter[T] = f[x] + iter[T \ {x}]
    <2> DEFINE G == {T \in SUBSET S : \A x \in T : iter[T] = f[x] + iter[T \ {x}]}
    <2>1. ASSUME NEW T \in SUBSET S, \A x \in T : T \ {x} \in G PROVE T \in G
      <3>1. ASSUME NEW x \in T PROVE iter[T] = f[x] + iter[T \ {x}]
        <4> DEFINE y == One(T)
        <4>1. y \in T /\ iter[T] = f[y] + iter[T \ {y}]
          BY <1>4, <1>12, <3>1
        <4> HIDE DEF y
        <4>2. CASE x = y
          BY <4>1, <4>2
        <4>3. CASE x # y
          <5> DEFINE U == (T \ {x}) \ {y}
          <5>1. U = (T \ {y}) \ {x} /\ U \in SUBSET S
            OBVIOUS
          <5>2. iter[T \ {y}] = f[x] + iter[(T \ {y}) \ {x}]
            BY <2>1, <4>1, <4>3
          <5>3. iter[T \ {x}] = f[y] + iter[U]
            BY <2>1, <4>1, <4>3
          <5>4. f[x] \in Int /\ f[y] \in Int /\ iter[U] \in Int
            BY <1>13, <4>1, <5>1
          <5> HIDE DEF U
          <5>5. QED
            BY <4>1, <5>1, <5>2, <5>3, <5>4
        <4>4. QED
          BY <4>2, <4>3
      <3>2. QED
        BY <3>1
    <2> HIDE DEF G
    <2>2. \A T \in SUBSET S : T \in G
      BY <2>1, Grow
    <2>3. QED
      BY <2>2 DEF G
  <1>15. iter[{}] = 0
    BY <1>12
  <1>16. iter \in [SUBSET S -> Int]
    BY <1>11, <1>13
  <1>17. QED
    BY <1>1, <1>14, <1>15, <1>16 DEF Totals, HasTotals

(* A sum does not change when its terms are given other names.             *)
LEMMA SumMoved ==
    ASSUME NEW S, IsFiniteSet(S), NEW f \in [S -> Int],
           NEW R, IsFiniteSet(R), NEW g \in [R -> Int],
           NEW b \in [S -> R],
           \A x, y \in S : b[x] = b[y] => x = y,
           \A z \in R : \E x \in S : b[x] = z,
           \A x \in S : f[x] = g[b[x]]
    PROVE  SumFunction(f) = SumFunction(g)
  <1>1. PICK A : Totals(f, S, A) /\ SumFunction(f) = A[S]
    BY SumRun DEF HasTotals
  <1>2. PICK B : Totals(g, R, B) /\ SumFunction(g) = B[R]
    BY SumRun DEF HasTotals
  <1> DEFINE Image(T) == {b[x] : x \in T}
             G == {T \in SUBSET S : A[T] = B[Image(T)]}
  <1>3. ASSUME NEW T \in SUBSET S, \A x \in T : T \ {x} \in G PROVE T \in G
    <2>1. CASE T = {}
      <3>1. Image(T) = {}
        BY <2>1
      <3>2. QED
        BY <1>1, <1>2, <2>1, <3>1 DEF Totals
    <2>2. CASE T # {}
      <3>1. PICK x \in T : TRUE
        BY <2>2
      <3>2. Image(T \ {x}) = Image(T) \ {b[x]}
        OBVIOUS
      <3>3. b[x] \in Image(T) /\ Image(T) \in SUBSET R
        OBVIOUS
      <3>4. A[T \ {x}] = B[Image(T \ {x})]
        BY <1>3
      <3>5. A[T] = f[x] + A[T \ {x}]
        BY <1>1 DEF Totals
      <3> HIDE DEF Image
      <3>6. B[Image(T)] = g[b[x]] + B[Image(T) \ {b[x]}]
        BY <1>2, <3>3 DEF Totals
      <3>7. QED
        BY <3>2, <3>4, <3>5, <3>6
    <2>3. QED
      BY <2>1, <2>2
  <1>4. S \in G
    <2> HIDE DEF G
    <2>1. \A T \in SUBSET S : T \in G
      BY <1>3, Grow
    <2>2. QED
      BY <2>1
  <1>5. Image(S) = R
    OBVIOUS
  <1>6. QED
    BY <1>1, <1>2, <1>4, <1>5

(* A sum of terms up to u is at most u times their number.                 *)
LEMMA SumBounded ==
    ASSUME NEW S, IsFiniteSet(S), NEW f \in [S -> Int], NEW u \in Nat,
           \A x \in S : f[x] <= u
    PROVE  SumFunction(f) \in Int /\ SumFunction(f) <= u * Cardinality(S)
  <1>1. PICK A : Totals(f, S, A) /\ SumFunction(f) = A[S]
    BY SumRun DEF HasTotals
  <1> DEFINE G == {T \in SUBSET S : A[T] <= u * Cardinality(T)}
  <1>2. ASSUME NEW T \in SUBSET S, \A x \in T : T \ {x} \in G PROVE T \in G
    <2>1. CASE T = {}
      <3>1. Cardinality({}) = 0 /\ A[{}] = 0 /\ u * 0 = 0
        BY <1>1, FS_EmptySet DEF Totals
      <3>2. QED
        BY <2>1, <3>1
    <2>2. CASE T # {}
      <3>1. PICK x \in T : TRUE
        BY <2>2
      <3>2. A[T \ {x}] \in Int /\ A[T] = f[x] + A[T \ {x}]
        BY <1>1 DEF Totals
      <3>3. IsFiniteSet(T) /\ Cardinality(T) \in Nat /\ Cardinality(T \ {x}) = Cardinality(T) - 1
        BY FS_Subset, FS_CardinalityType, FS_RemoveElement
      <3>4. A[T \ {x}] <= u * (Cardinality(T) - 1)
        BY <1>2, <3>3
      <3>5. u * (Cardinality(T) - 1) + u = u * Cardinality(T)
        BY <3>3
      <3>6. f[x] <= u /\ f[x] \in Int
        OBVIOUS
      <3>7. A[T] <= u * Cardinality(T)
        BY <3>2, <3>3, <3>4, <3>5, <3>6
      <3>8. QED
        BY <3>7
    <2>3. QED
      BY <2>1, <2>2
  <1>3. S \in G
    <2> HIDE DEF G
    <2>1. \A T \in SUBSET S : T \in G
      BY <1>2, Grow
    <2>2. QED
      BY <2>1
  <1>4. QED
    BY <1>1, <1>3 DEF Totals
-----------------------------------------------------------------------------
(* Members of q come in the order they have in s.                          *)
Follows(s, q) ==
    \A h, j \in DOMAIN q : h < j =>
        \A a, b \in DOMAIN s : s[a] = q[h] /\ s[b] = q[j] => a < b

(* What is picked from a list without repetitions keeps its order.         *)
LEMMA PickedFollows ==
    ASSUME NEW T, NEW s \in Seq(T), NEW S, \A a, b \in DOMAIN s : s[a] = s[b] => a = b
    PROVE  Follows(s, Picked(s, S))
  <1> DEFINE n == Len(s)
             Out == Seq(S \cap T)
  <1>1. n \in Nat /\ DOMAIN s = 1 .. n
    OBVIOUS
  <1>2. PICK f \in [0 .. n -> Out] :
           /\ f[0] = <<>> /\ Picked(s, S) = f[n]
           /\ \A k \in 1 .. n :
                 f[k] = IF s[k] \in S THEN Append(f[k - 1], s[k]) ELSE f[k - 1]
    <2>1. IsPicked(T, s, S)
      BY PickedRun
    <2>2. QED
      BY <2>1 DEF IsPicked
  <1> DEFINE G == {k \in 0 .. n : /\ \A h \in DOMAIN f[k] : \E c \in 1 .. k : f[k][h] = s[c]
                                  /\ Follows(s, f[k])}
  <1>3. 0 \in G
    BY <1>1, <1>2 DEF Follows
  <1>4. ASSUME NEW k \in 1 .. n, k - 1 \in G
        PROVE  k \in G
    <2> DEFINE q == f[k - 1]
               r == Append(q, s[k])
    <2>1. q \in Seq(S \cap T) /\ k \in 0 .. n
      BY <1>1, <1>2
    <2>2. (\A h \in DOMAIN q : \E c \in 1 .. k - 1 : q[h] = s[c]) /\ Follows(s, q)
      BY <1>4
    <2>3. f[k] = IF s[k] \in S THEN r ELSE q
      BY <1>2
    <2> HIDE DEF q
    <2>4. /\ DOMAIN q = 1 .. Len(q) /\ DOMAIN r = 1 .. Len(q) + 1 /\ Len(q) \in Nat
          /\ r[Len(q) + 1] = s[k] /\ \A h \in 1 .. Len(q) : r[h] = q[h]
      BY <2>1
    <2> HIDE DEF r
    <2>5. \A h \in DOMAIN r : \E c \in 1 .. k : r[h] = s[c]
      BY <1>1, <2>2, <2>4
    <2>6. ASSUME NEW h \in DOMAIN r, NEW j \in DOMAIN r, h < j,
                 NEW a \in DOMAIN s, NEW b \in DOMAIN s, s[a] = r[h], s[b] = r[j]
          PROVE  a < b
      <3>1. h \in 1 .. Len(q) /\ r[h] = q[h]
        BY <2>4, <2>6
      <3>2. CASE j \in 1 .. Len(q)
        BY <2>2, <2>4, <2>6, <3>1, <3>2 DEF Follows
      <3>3. CASE j = Len(q) + 1
        <4>1. s[b] = s[k] /\ k \in DOMAIN s
          BY <1>1, <2>4, <2>6, <3>3
        <4>2. b = k
          BY <4>1
        <4>3. PICK c \in 1 .. k - 1 : q[h] = s[c]
          BY <2>2, <2>4, <3>1
        <4>4. c \in DOMAIN s /\ s[a] = s[c]
          BY <1>1, <2>6, <3>1, <4>3
        <4>5. a = c
          BY <4>4
        <4>6. QED
          BY <1>1, <4>2, <4>3, <4>5
      <3>4. QED
        BY <2>4, <3>2, <3>3
    <2>7. Follows(s, r)
      BY <2>6 DEF Follows
    <2>8. \A h \in DOMAIN q : \E c \in 1 .. k : q[h] = s[c]
      BY <1>1, <2>2
    <2>9. QED
      BY <2>1, <2>2, <2>3, <2>5, <2>7, <2>8
  <1>5. n \in G
    <2>1. \A k \in 0 .. n : k \in G
      <3> HIDE DEF G, n
      <3>1. QED
        BY <1>1, <1>3, <1>4, UpTo
    <2>2. QED
      BY <1>1, <2>1
  <1>6. QED
    BY <1>2, <1>5

(* The pairs the loops over all m vectors visit.                           *)
Upward(m) == {p \in (1 .. m) \X (1 .. m) : p[1] < p[2]}

(* The list of the numbers up to m.                                        *)
LEMMA Counted ==
    ASSUME NEW m \in Nat, NEW v \in Seq(Nat), Len(v) = m, \A i \in 1 .. m : v[i] = i
    PROVE  LaterPairs(v) = Upward(m)
  <1>1. DOMAIN v = 1 .. m
    OBVIOUS
  <1>2. ASSUME NEW p \in LaterPairs(v) PROVE p \in Upward(m)
    <2>1. PICK q \in (DOMAIN v) \X (DOMAIN v) : q[1] < q[2] /\ p = <<v[q[1]], v[q[2]]>>
      BY DEF LaterPairs
    <2>2. QED
      BY <1>1, <2>1 DEF Upward
  <1>3. ASSUME NEW p \in Upward(m) PROVE p \in LaterPairs(v)
    <2>1. p \in (DOMAIN v) \X (DOMAIN v) /\ p[1] < p[2] /\ p = <<p[1], p[2]>>
      BY <1>1 DEF Upward
    <2>2. p = <<v[p[1]], v[p[2]]>>
      BY <1>1, <2>1
    <2>3. QED
      BY <2>1, <2>2 DEF LaterPairs
  <1>4. QED
    BY <1>2, <1>3

(* The vectors of a label, in the order of the vectors.                    *)
LEMMA GroupIs ==
    ASSUME NEW m \in Nat, NEW labels, DOMAIN labels = 1 .. m, NEW l
    PROVE  /\ ToSet(Group(labels, l)) = {i \in 1 .. m : labels[i] = l}
           /\ LaterPairs(Group(labels, l)) =
                 {p \in Upward(m) : labels[p[1]] = l /\ labels[p[2]] = l}
  <1> DEFINE v == [i \in DOMAIN labels |-> i]
             S == {i \in DOMAIN labels : labels[i] = l}
             q == Group(labels, l)
  <1>1. v \in Seq(Nat) /\ DOMAIN v = 1 .. m /\ \A i \in 1 .. m : v[i] = i
    <2>1. v \in [1 .. m -> Nat]
      OBVIOUS
    <2>2. QED
      BY <2>1, IsASeq
  <1> HIDE DEF v
  <1>2. q = Picked(v, S)
    BY DEF Group, v
  <1>3. q \in Seq(S \cap Nat) /\ Members(q) = Members(v) \cap S
    BY <1>1, <1>2, PickedType
  <1>4. Members(v) = 1 .. m
    BY <1>1 DEF Members
  <1>5. Members(q) = S
    BY <1>3, <1>4
  <1>6. Follows(v, q)
    BY <1>1, <1>2, PickedFollows
  <1> HIDE DEF q
  <1>7. \A h \in DOMAIN q : q[h] \in S /\ q[h] \in 1 .. m
    BY <1>5 DEF Members
  <1>8. \A h, j \in DOMAIN q : h < j => q[h] < q[j]
    <2>1. ASSUME NEW h \in DOMAIN q, NEW j \in DOMAIN q, h < j PROVE q[h] < q[j]
      <3>1. v[q[h]] = q[h] /\ v[q[j]] = q[j] /\ q[h] \in DOMAIN v /\ q[j] \in DOMAIN v
        BY <1>1, <1>7
      <3>2. QED
        BY <1>6, <2>1, <3>1 DEF Follows
    <2>2. QED
      BY <2>1
  <1>9. DOMAIN q \in SUBSET Nat
    BY <1>3
  <1>10. ASSUME NEW p \in LaterPairs(q)
         PROVE  p \in Upward(m) /\ labels[p[1]] = l /\ labels[p[2]] = l
    <2>1. PICK x \in (DOMAIN q) \X (DOMAIN q) : x[1] < x[2] /\ p = <<q[x[1]], q[x[2]]>>
      BY DEF LaterPairs
    <2>2. q[x[1]] < q[x[2]]
      BY <1>8, <2>1
    <2>3. q[x[1]] \in S /\ q[x[2]] \in S /\ q[x[1]] \in 1 .. m /\ q[x[2]] \in 1 .. m
      BY <1>7, <2>1
    <2>4. QED
      BY <2>1, <2>2, <2>3 DEF Upward
  <1>11. ASSUME NEW p \in Upward(m), labels[p[1]] = l, labels[p[2]] = l
         PROVE  p \in LaterPairs(q)
    <2>1. p[1] \in 1 .. m /\ p[2] \in 1 .. m /\ p[1] < p[2] /\ p = <<p[1], p[2]>>
      BY DEF Upward
    <2>2. p[1] \in Members(q) /\ p[2] \in Members(q)
      BY <1>5, <1>11, <2>1
    <2>3. PICK h \in DOMAIN q, j \in DOMAIN q : q[h] = p[1] /\ q[j] = p[2]
      BY <2>2 DEF Members
    <2>4. h < j
      BY <1>8, <1>9, <2>1, <2>3
    <2> DEFINE x == <<h, j>>
    <2>5. x \in (DOMAIN q) \X (DOMAIN q) /\ x[1] < x[2] /\ p = <<q[x[1]], q[x[2]]>>
      BY <2>1, <2>3, <2>4
    <2>6. QED
      BY <2>5 DEF LaterPairs
  <1>12. ToSet(q) = {i \in 1 .. m : labels[i] = l}
    BY <1>5 DEF ToSet, Members
  <1>13. QED
    BY <1>10, <1>11, <1>12 DEF q

(* An order of the labels of a list: each of them once.                    *)
LabelOrder(labels, m, list) ==
    /\ \A i \in 1 .. m : \E k \in DOMAIN list : list[k] = labels[i]
    /\ \A h, k \in DOMAIN list : list[h] = list[k] => h = k
    /\ DOMAIN list \in SUBSET Nat

(* Pairs of vectors with one label, and with labels in the list's order.   *)
Alike(m, labels) == {p \in Upward(m) : labels[p[1]] = labels[p[2]]}
Unlike(m, labels, list) ==
    {p \in (1 .. m) \X (1 .. m) : \E h, k \in DOMAIN list :
        h < k /\ labels[p[1]] = list[h] /\ labels[p[2]] = list[k]}

(* The loops within labels visit the later pairs whose labels agree.       *)
LEMMA IntraIs ==
    ASSUME NEW m \in Nat, NEW labels, DOMAIN labels = 1 .. m, NEW list,
           LabelOrder(labels, m, list)
    PROVE  IntraPairs(labels, list) = Alike(m, labels)
  <1>1. ASSUME NEW p \in IntraPairs(labels, list) PROVE p \in Alike(m, labels)
    <2>1. PICK k \in DOMAIN list : p \in LaterPairs(Group(labels, list[k]))
      BY DEF IntraPairs
    <2>2. p \in {x \in Upward(m) : labels[x[1]] = list[k] /\ labels[x[2]] = list[k]}
      BY <2>1, GroupIs
    <2>3. QED
      BY <2>2 DEF Alike
  <1>2. ASSUME NEW p \in Alike(m, labels) PROVE p \in IntraPairs(labels, list)
    <2>1. p \in Upward(m) /\ p[1] \in 1 .. m /\ labels[p[1]] = labels[p[2]]
      BY DEF Alike, Upward
    <2>2. PICK k \in DOMAIN list : list[k] = labels[p[1]]
      BY <2>1 DEF LabelOrder
    <2>3. p \in {x \in Upward(m) : labels[x[1]] = list[k] /\ labels[x[2]] = list[k]}
      BY <2>1, <2>2
    <2>4. p \in LaterPairs(Group(labels, list[k]))
      BY <2>3, GroupIs
    <2>5. QED
      BY <2>4 DEF IntraPairs
  <1>3. QED
    BY <1>1, <1>2

(* The loops between labels visit those of an earlier and a later label.   *)
LEMMA InterIs ==
    ASSUME NEW m \in Nat, NEW labels, DOMAIN labels = 1 .. m, NEW list
    PROVE  InterPairs(labels, list) = Unlike(m, labels, list)
  <1> DEFINE Of(l) == {i \in 1 .. m : labels[i] = l}
  <1>1. \A l : ToSet(Group(labels, l)) = Of(l)
    <2>1. TAKE l
    <2>2. QED
      BY GroupIs
  <1>2. ASSUME NEW p \in InterPairs(labels, list) PROVE p \in Unlike(m, labels, list)
    <2>1. PICK q \in (DOMAIN list) \X (DOMAIN list) :
             /\ q[1] < q[2]
             /\ p \in ToSet(Group(labels, list[q[1]])) \X ToSet(Group(labels, list[q[2]]))
      BY DEF InterPairs
    <2>2. p \in Of(list[q[1]]) \X Of(list[q[2]])
      BY <1>1, <2>1
    <2>3. QED
      BY <2>1, <2>2 DEF Unlike
  <1>3. ASSUME NEW p \in Unlike(m, labels, list) PROVE p \in InterPairs(labels, list)
    <2>1. p \in (1 .. m) \X (1 .. m)
      BY DEF Unlike
    <2>2. PICK h \in DOMAIN list, k \in DOMAIN list :
             h < k /\ labels[p[1]] = list[h] /\ labels[p[2]] = list[k]
      BY DEF Unlike
    <2> DEFINE q == <<h, k>>
    <2>3. q \in (DOMAIN list) \X (DOMAIN list) /\ q[1] < q[2] /\ q[1] = h /\ q[2] = k
      BY <2>2
    <2>4. p \in Of(list[q[1]]) \X Of(list[q[2]])
      BY <2>1, <2>2, <2>3
    <2> HIDE DEF q, Of
    <2>5. p \in ToSet(Group(labels, list[q[1]])) \X ToSet(Group(labels, list[q[2]]))
      BY <1>1, <2>4
    <2>6. QED
      BY <2>3, <2>5 DEF InterPairs
  <1>4. QED
    BY <1>2, <1>3

(* What the similarities are.                                              *)
Similarities(n) == [PairsUpTo(n) -> -Unit .. Unit]

(* P has one of the two ordered pairs of every set in Q, and no other.     *)
Orients(m, P, Q) ==
    /\ P \in SUBSET ((1 .. m) \X (1 .. m))
    /\ \A p \in P : p[1] # p[2]
    /\ \A p, r \in P : {p[1], p[2]} = {r[1], r[2]} => p = r
    /\ Q = {{p[1], p[2]} : p \in P}

(* Then both have the same average, which is at most Unit.                 *)
LEMMA MeansAgree ==
    ASSUME NEW m \in Nat, NEW n \in Nat, m <= n, NEW sim \in Similarities(n),
           NEW P, NEW Q, Orients(m, P, Q)
    PROVE  /\ Average(sim, P) = MeanOver(sim, Q)
           /\ \E u \in Int, d \in Nat \ {0} :
                 Average(sim, P) = [num |-> u, den |-> d] /\ u <= Unit * d
  <1> DEFINE b == [p \in P |-> {p[1], p[2]}]
             f == [p \in P |-> sim[{p[1], p[2]}]]
             g == [q \in Q |-> sim[q]]
  <1>1. P \in SUBSET ((1 .. m) \X (1 .. m))
    BY DEF Orients
  <1>2. IsFiniteSet(P)
    <2>1. IsFiniteSet(1 .. m)
      BY FS_Interval
    <2>2. IsFiniteSet((1 .. m) \X (1 .. m))
      BY <2>1, FS_Product
    <2>3. QED
      BY <1>1, <2>2, FS_Subset
  <1>3. \A p \in P : {p[1], p[2]} \in PairsUpTo(n)
    <2>1. ASSUME NEW p \in P PROVE {p[1], p[2]} \in PairsUpTo(n)
      <3>1. p[1] \in 1 .. n /\ p[2] \in 1 .. n /\ p[1] # p[2]
        BY <1>1 DEF Orients
      <3>2. \A i \in 1 .. n : {p[1], p[2]} # {i}
        BY <3>1
      <3>3. QED
        BY <3>1, <3>2 DEF PairsUpTo
    <2>2. QED
      BY <2>1
  <1>4. Q = {b[p] : p \in P}
    BY DEF Orients
  <1>5. b \in [P -> Q] /\ (\A x, y \in P : b[x] = b[y] => x = y) /\ \A z \in Q : \E x \in P : b[x] = z
    BY <1>4 DEF Orients
  <1>6. IsFiniteSet(Q) /\ Cardinality(Q) = Cardinality(P)
    <2> HIDE DEF b
    <2>1. b \in Bijection(P, Q)
      BY <1>5 DEF Bijection, Injection, Surjection, IsInjective
    <2>2. ExistsBijection(P, Q)
      BY <2>1 DEF ExistsBijection
    <2>3. QED
      BY <1>2, <2>2, FS_Bijection
  <1>7. \A z \in PairsUpTo(n) : sim[z] \in Int /\ sim[z] <= Unit
    BY UnitAssumption DEF Similarities
  <1>8. \A z \in Q : z \in PairsUpTo(n)
    BY <1>3 DEF Orients
  <1>9. f \in [P -> Int] /\ g \in [Q -> Int] /\ \A x \in P : f[x] <= Unit
    BY <1>3, <1>7, <1>8
  <1>10. \A x \in P : f[x] = g[b[x]]
    BY <1>5
  <1> HIDE DEF b, f, g
  <1>11. SumFunction(f) = SumFunction(g)
    BY <1>2, <1>5, <1>6, <1>9, <1>10, SumMoved
  <1>12. SumFunction(f) \in Int /\ SumFunction(f) <= Unit * Cardinality(P)
    BY <1>2, <1>9, SumBounded, UnitAssumption
  <1>13. P = {} <=> Q = {}
    BY <1>5
  <1> DEFINE d == IF P = {} THEN 1 ELSE Cardinality(P)
  <1>14. Average(sim, P) = [num |-> SumFunction(f), den |-> d]
    BY DEF Average, Total, f
  <1>15. MeanOver(sim, Q) = [num |-> SumFunction(g), den |-> d]
    BY <1>6, <1>13 DEF MeanOver, g
  <1>16. Cardinality(P) \in Nat /\ (P # {} => Cardinality(P) # 0) /\ (P = {} => Cardinality(P) = 0)
    BY <1>2, FS_CardinalityType, FS_EmptySet
  <1>17. d \in Nat \ {0} /\ SumFunction(f) <= Unit * d
    <2>1. CASE P # {}
      BY <1>12, <1>16, <2>1
    <2>2. CASE P = {}
      <3>1. Unit * 0 = 0 /\ Unit * 1 = Unit /\ Unit \in Nat
        BY UnitAssumption
      <3>2. QED
        BY <1>12, <1>16, <2>2, <3>1
    <2>3. QED
      BY <2>1, <2>2
  <1>18. QED
    BY <1>11, <1>12, <1>14, <1>15, <1>17

(* The sets of two vectors, and those whose labels agree.                  *)
TwoOf(m) == {q \in SUBSET (1 .. m) : Cardinality(q) = 2}
Same(m, labels) == {q \in TwoOf(m) : \A i, j \in q : labels[i] = labels[j]}

(* The sets of two.                                                        *)
LEMMA TwoAre ==
    ASSUME NEW m \in Nat
    PROVE  /\ \A q : q \in TwoOf(m) <=> \E i, j \in 1 .. m : i < j /\ q = {i, j}
  <1>1. ASSUME NEW i \in 1 .. m, NEW j \in 1 .. m, i < j PROVE {i, j} \in TwoOf(m)
    <2>1. IsFiniteSet({i}) /\ Cardinality({i}) = 1
      BY FS_Singleton
    <2>2. Cardinality({i} \cup {j}) = 2
      <3>1. j \notin {i}
        BY <1>1
      <3>2. QED
        BY <2>1, <3>1, FS_AddElement
    <2>3. {i} \cup {j} = {i, j}
      OBVIOUS
    <2>4. QED
      BY <2>2, <2>3 DEF TwoOf
  <1>2. ASSUME NEW q \in TwoOf(m) PROVE \E i, j \in 1 .. m : i < j /\ q = {i, j}
    <2>1. q \in SUBSET (1 .. m) /\ Cardinality(q) = 2
      BY DEF TwoOf
    <2>2. IsFiniteSet(q)
      <3>1. IsFiniteSet(1 .. m)
        BY FS_Interval
      <3>2. QED
        BY <2>1, <3>1, FS_Subset
    <2>3. PICK a \in q : TRUE
      <3>1. q # {}
        BY <2>1, FS_EmptySet
      <3>2. QED
        BY <3>1
    <2>4. IsFiniteSet(q \ {a}) /\ Cardinality(q \ {a}) = 1
      BY <2>1, <2>2, FS_RemoveElement
    <2>5. PICK c : q \ {a} = {c}
      BY <2>4, FS_Singleton
    <2>6. q = {a, c} /\ a # c /\ a \in 1 .. m /\ c \in 1 .. m
      BY <2>1, <2>3, <2>5
    <2>7. CASE a < c
      BY <2>6, <2>7
    <2>8. CASE c < a
      <3>1. q = {c, a}
        BY <2>6
      <3>2. QED
        BY <2>6, <2>8, <3>1
    <2>9. QED
      BY <2>6, <2>7, <2>8
  <1>3. QED
    BY <1>1, <1>2

(* The loops over all vectors visit every set of two once.                 *)
LEMMA AllOriented ==
    ASSUME NEW m \in Nat
    PROVE  Orients(m, Upward(m), TwoOf(m))
  <1>1. \A p \in Upward(m) : p[1] \in 1 .. m /\ p[2] \in 1 .. m /\ p[1] < p[2] /\ p = <<p[1], p[2]>>
    BY DEF Upward
  <1>2. ASSUME NEW p \in Upward(m), NEW r \in Upward(m), {p[1], p[2]} = {r[1], r[2]}
        PROVE  p = r
    <2>1. p[1] = r[1] /\ p[2] = r[2]
      BY <1>1, <1>2
    <2>2. QED
      BY <1>1, <2>1
  <1>3. ASSUME NEW q \in TwoOf(m) PROVE \E p \in Upward(m) : q = {p[1], p[2]}
    <2>1. PICK i \in 1 .. m, j \in 1 .. m : i < j /\ q = {i, j}
      BY TwoAre
    <2> DEFINE p == <<i, j>>
    <2>2. p \in Upward(m) /\ q = {p[1], p[2]}
      BY <2>1 DEF Upward
    <2>3. QED
      BY <2>2
  <1>4. \A p \in Upward(m) : {p[1], p[2]} \in TwoOf(m)
    BY <1>1, TwoAre
  <1>5. TwoOf(m) = {{p[1], p[2]} : p \in Upward(m)}
    BY <1>3, <1>4
  <1>6. \A p \in Upward(m) : p[1] # p[2]
    BY <1>1
  <1>7. Upward(m) \in SUBSET ((1 .. m) \X (1 .. m))
    BY DEF Upward
  <1>8. QED
    BY <1>2, <1>5, <1>6, <1>7 DEF Orients

(* The pairs within a label ...                                            *)
LEMMA SameOriented ==
    ASSUME NEW m \in Nat, NEW labels
    PROVE  Orients(m, Alike(m, labels), Same(m, labels))
  <1>1. Orients(m, Upward(m), TwoOf(m))
    BY AllOriented
  <1>2. \A p \in Upward(m) :
           {p[1], p[2]} \in Same(m, labels) <=> labels[p[1]] = labels[p[2]]
    BY <1>1 DEF Orients, Same
  <1>3. \A q \in Same(m, labels) : \E p \in Upward(m) : q = {p[1], p[2]}
    BY <1>1 DEF Orients, Same
  <1>4. Same(m, labels) = {{p[1], p[2]} : p \in Alike(m, labels)}
    BY <1>2, <1>3 DEF Alike
  <1>5. Alike(m, labels) \in SUBSET Upward(m)
    BY DEF Alike
  <1>6. QED
    BY <1>1, <1>4, <1>5 DEF Orients

(* ... and those between labels, the lesser label in the list's order first. *)
LEMMA OthersOriented ==
    ASSUME NEW m \in Nat, NEW labels, NEW list, LabelOrder(labels, m, list)
    PROVE  Orients(m, Unlike(m, labels, list), TwoOf(m) \ Same(m, labels))
  <1> DEFINE P == Unlike(m, labels, list)
             Q == TwoOf(m) \ Same(m, labels)
  <1>1. ASSUME NEW p \in P
        PROVE  p[1] \in 1 .. m /\ p[2] \in 1 .. m /\ p = <<p[1], p[2]>> /\ labels[p[1]] # labels[p[2]]
    <2>1. p \in (1 .. m) \X (1 .. m)
      BY DEF Unlike
    <2>2. PICK h \in DOMAIN list, k \in DOMAIN list :
             h < k /\ labels[p[1]] = list[h] /\ labels[p[2]] = list[k]
      BY DEF Unlike
    <2>3. h # k
      BY <2>2 DEF LabelOrder
    <2>4. list[h] # list[k]
      BY <2>3 DEF LabelOrder
    <2>5. QED
      BY <2>1, <2>2, <2>4
  <1>2. ASSUME NEW p \in P, NEW r \in P, {p[1], p[2]} = {r[1], r[2]}
        PROVE  p = r
    <2>1. PICK h \in DOMAIN list, k \in DOMAIN list :
             h < k /\ labels[p[1]] = list[h] /\ labels[p[2]] = list[k]
      BY DEF Unlike
    <2>2. PICK x \in DOMAIN list, y \in DOMAIN list :
             x < y /\ labels[r[1]] = list[x] /\ labels[r[2]] = list[y]
      BY DEF Unlike
    <2>3. p[1] # r[2]
      <3>1. SUFFICES ASSUME p[1] = r[2] PROVE FALSE
        OBVIOUS
      <3>2. p[2] = r[1]
        BY <1>1, <1>2, <3>1
      <3>3. list[h] = list[y] /\ list[k] = list[x]
        BY <2>1, <2>2, <3>1, <3>2
      <3>4. h = y /\ k = x
        BY <3>3 DEF LabelOrder
      <3>5. h \in Nat /\ k \in Nat
        BY DEF LabelOrder
      <3>6. QED
        BY <2>1, <2>2, <3>4, <3>5
    <2>4. p[1] = r[1] /\ p[2] = r[2]
      BY <1>2, <2>3
    <2>5. QED
      BY <1>1, <2>4
  <1>3. ASSUME NEW p \in P PROVE {p[1], p[2]} \in Q
    <2>1. p[1] \in 1 .. m /\ p[2] \in 1 .. m /\ labels[p[1]] # labels[p[2]]
      BY <1>1
    <2>2. p[1] < p[2] \/ p[2] < p[1]
      BY <2>1
    <2>3. {p[1], p[2]} = {p[2], p[1]}
      OBVIOUS
    <2>4. {p[1], p[2]} \in TwoOf(m)
      BY <2>1, <2>2, <2>3, TwoAre
    <2>5. {p[1], p[2]} \notin Same(m, labels)
      BY <2>1 DEF Same
    <2>6. QED
      BY <2>4, <2>5
  <1>4. ASSUME NEW q \in Q PROVE \E p \in P : q = {p[1], p[2]}
    <2>1. PICK i \in 1 .. m, j \in 1 .. m : i < j /\ q = {i, j}
      BY TwoAre
    <2>2. labels[i] # labels[j]
      BY <2>1 DEF Same
    <2>3. PICK h \in DOMAIN list : list[h] = labels[i]
      BY DEF LabelOrder
    <2>4. PICK k \in DOMAIN list : list[k] = labels[j]
      BY DEF LabelOrder
    <2>5. h \in Nat /\ k \in Nat /\ h # k
      BY <2>2, <2>3, <2>4 DEF LabelOrder
    <2>6. CASE h < k
      <3> DEFINE p == <<i, j>>
      <3>1. p \in P /\ q = {p[1], p[2]}
        BY <2>1, <2>3, <2>4, <2>6 DEF Unlike
      <3>2. QED
        BY <3>1
    <2>7. CASE k < h
      <3> DEFINE p == <<j, i>>
      <3>1. p \in P /\ q = {p[1], p[2]}
        BY <2>1, <2>3, <2>4, <2>7 DEF Unlike
      <3>2. QED
        BY <3>1
    <2>8. QED
      BY <2>5, <2>6, <2>7
  <1>5. Q = {{p[1], p[2]} : p \in P}
    <2> HIDE DEF P, Q
    <2>1. QED
      BY <1>3, <1>4
  <1>6. P \in SUBSET ((1 .. m) \X (1 .. m))
    BY DEF Unlike
  <1>7. QED
    <2> HIDE DEF P, Q
    <2>1. Orients(m, P, Q)
      BY <1>1, <1>2, <1>5, <1>6 DEF Orients
    <2>2. QED
      BY <2>1 DEF P, Q
-----------------------------------------------------------------------------
(* The greatest and the least of a set of similarities, and the starting   *)
(* value of the loop, which never is one more.                             *)
LEMMA Extremes ==
    ASSUME NEW S \in SUBSET (-Unit .. Unit), S # {}
    PROVE  \E hi, lo \in S : /\ \A x \in S : lo <= x /\ x <= hi
                             /\ Max(S \cup {-Unit}) = hi /\ Min(S \cup {Unit}) = lo
  <1>1. Unit \in Nat /\ 1 <= Unit
    BY UnitAssumption
  <1>2. \A x \in S : x \in Int /\ -Unit <= x /\ x <= Unit
    BY <1>1
  <1>3. PICK hi \in S : \A x \in S : x <= hi
    <2> DEFINE Below == {Unit - x : x \in S}
    <2>1. Below \in SUBSET Nat /\ Below # {}
      BY <1>1, <1>2
    <2>2. PICK d \in Below : \A y \in Below : d <= y
      <3> HIDE DEF Below
      <3>1. QED
        BY <2>1, LeastNat
    <2>3. PICK h \in S : d = Unit - h
      OBVIOUS
    <2>4. \A x \in S : Unit - h <= Unit - x
      BY <2>2, <2>3
    <2>5. QED
      BY <1>1, <1>2, <2>4
  <1>4. PICK lo \in S : \A x \in S : lo <= x
    <2> DEFINE Over == {Unit + x : x \in S}
    <2>1. Over \in SUBSET Nat /\ Over # {}
      BY <1>1, <1>2
    <2>2. PICK d \in Over : \A y \in Over : d <= y
      <3> HIDE DEF Over
      <3>1. QED
        BY <2>1, LeastNat
    <2>3. PICK l \in S : d = Unit + l
      OBVIOUS
    <2>4. \A x \in S : Unit + l <= Unit + x
      BY <2>2, <2>3
    <2>5. QED
      BY <1>1, <1>2, <2>4
  <1>5. Max(S \cup {-Unit}) = hi
    <2> DEFINE U == S \cup {-Unit}
    <2>1. hi \in U /\ \A y \in U : hi >= y
      BY <1>3, <1>1, <1>2
    <2>2. \A x \in U : x \in Int
      BY <1>1, <1>2
    <2>3. \A x \in U : (\A y \in U : x >= y) => x = hi
      BY <2>1, <2>2
    <2> HIDE DEF U
    <2>4. QED
      BY <2>1, <2>3 DEF Max, U
  <1>6. Min(S \cup {Unit}) = lo
    <2> DEFINE U == S \cup {Unit}
    <2>1. lo \in U /\ \A y \in U : lo <= y
      BY <1>4, <1>1, <1>2
    <2>2. \A x \in U : x \in Int
      BY <1>1, <1>2
    <2>3. \A x \in U : (\A y \in U : x <= y) => x = lo
      BY <2>1, <2>2
    <2> HIDE DEF U
    <2>4. QED
      BY <2>1, <2>3 DEF Min, U
  <1>7. QED
    BY <1>3, <1>4, <1>5, <1>6

(* The vectors measured: the numbers up to m.                              *)
Counts(v, m) == v \in Seq(Nat) /\ Len(v) = m /\ \A i \in 1 .. m : v[i] = i

(* The range is the greatest difference between two similarities.          *)
LEMMA RangeIs ==
    ASSUME NEW m \in Nat, NEW n \in Nat, m <= n, NEW sim \in Similarities(n),
           NEW v, Counts(v, m)
    PROVE  LET all   == TwoOf(m)
               range == SimilarityRange(sim, v)
           IN  /\ \A q, r \in all : sim[q] - sim[r] <= range
               /\ all # {} => \E q, r \in all : sim[q] - sim[r] = range
               /\ all = {} => range = 0
  <1> DEFINE all == TwoOf(m)
             found == {sim[{q[1], q[2]}] : q \in LaterPairs(v)}
  <1>1. LaterPairs(v) = Upward(m)
    BY Counted DEF Counts
  <1>2. all = {{q[1], q[2]} : q \in Upward(m)}
    BY AllOriented DEF Orients
  <1>3. found = {sim[q] : q \in all}
    BY <1>1, <1>2
  <1>4. \A q \in all : sim[q] \in -Unit .. Unit
    <2>1. ASSUME NEW q \in all PROVE q \in PairsUpTo(n)
      <3>1. PICK i \in 1 .. m, j \in 1 .. m : i < j /\ q = {i, j}
        BY TwoAre
      <3>2. i \in 1 .. n /\ j \in 1 .. n /\ \A h \in 1 .. n : q # {h}
        BY <3>1
      <3>3. QED
        BY <3>1, <3>2 DEF PairsUpTo
    <2>2. QED
      BY <2>1 DEF Similarities
  <1>5. CASE Len(v) <= 1
    <2>1. all = {}
      <3>1. \A i, j \in 1 .. m : ~ (i < j)
        BY <1>5 DEF Counts
      <3>2. QED
        BY <3>1, TwoAre
    <2>2. SimilarityRange(sim, v) = 0
      BY <1>5 DEF SimilarityRange
    <2>3. QED
      BY <2>1, <2>2
  <1>6. CASE ~ (Len(v) <= 1)
    <2>1. all # {}
      <3>1. 1 \in 1 .. m /\ 2 \in 1 .. m /\ 1 < 2
        BY <1>6 DEF Counts
      <3>2. {1, 2} \in all
        BY <3>1, TwoAre
      <3>3. QED
        BY <3>2
    <2>2. found \in SUBSET (-Unit .. Unit) /\ found # {}
      BY <1>3, <1>4, <2>1
    <2>3. SimilarityRange(sim, v) = Max(found \cup {-Unit}) - Min(found \cup {Unit})
      BY <1>6 DEF SimilarityRange
    <2> HIDE DEF found, all
    <2>4. PICK hi \in found, lo \in found :
             /\ \A x \in found : lo <= x /\ x <= hi
             /\ Max(found \cup {-Unit}) = hi /\ Min(found \cup {Unit}) = lo
      BY <2>2, Extremes
    <2>5. SimilarityRange(sim, v) = hi - lo
      BY <2>3, <2>4
    <2>6. ASSUME NEW q \in all, NEW r \in all PROVE sim[q] - sim[r] <= hi - lo
      <3>1. sim[q] \in found /\ sim[r] \in found
        BY <1>3
      <3>2. lo <= sim[r] /\ sim[q] <= hi
        BY <2>4, <3>1
      <3>3. \A x \in found : x \in Int
        BY <2>2, UnitAssumption
      <3>4. QED
        BY <3>1, <3>2, <3>3
    <2>7. \E q, r \in all : sim[q] - sim[r] = hi - lo
      BY <1>3
    <2>8. QED
      BY <2>1, <2>5, <2>6, <2>7 DEF all
  <1>7. QED
    BY <1>5, <1>6

(* The anisotropy is the mean of all pairs, or 0: it never is above Unit.  *)
LEMMA AnisotropyIs ==
    ASSUME NEW m \in Nat, NEW n \in Nat, m <= n, NEW sim \in Similarities(n),
           NEW v, Counts(v, m)
    PROVE  LET mean == MeanOver(sim, TwoOf(m))
           IN  Equal(Anisotropy(sim, v), IF mean.num < 0 THEN Zero ELSE mean)
  <1> DEFINE mean == MeanOver(sim, TwoOf(m))
  <1>1. LaterPairs(v) = Upward(m)
    BY Counted DEF Counts
  <1>2. Average(sim, LaterPairs(v)) = mean
    BY <1>1, AllOriented, MeansAgree
  <1>3. PICK u \in Int, d \in Nat \ {0} :
            mean = [num |-> u, den |-> d] /\ u <= Unit * d
    BY AllOriented, MeansAgree
  <1> HIDE DEF mean
  <1>4. Unit * d \in Int
    BY UnitAssumption
  <1>5. ~ (u > Unit * d)
    BY <1>3, <1>4
  <1>6. Anisotropy(sim, v) = [num |-> IF u < 0 THEN 0 ELSE u, den |-> d]
    BY <1>2, <1>3, <1>5 DEF Anisotropy
  <1>7. CASE u < 0
    <2>1. (0 * 1 = 0 * d)
      BY <1>3
    <2>2. QED
      BY <1>3, <1>6, <1>7, <2>1 DEF Equal, Zero, mean
  <1>8. CASE ~ (u < 0)
    <2>1. Anisotropy(sim, v) = mean
      BY <1>3, <1>6, <1>8
    <2>2. QED
      BY <1>3, <1>8, <2>1 DEF Equal, mean
  <1>9. QED
    BY <1>7, <1>8

(* A list has finitely many labels.                                        *)
LEMMA FiniteLabels ==
    ASSUME NEW m \in Nat, NEW labels, DOMAIN labels = 1 .. m, labels = [i \in 1 .. m |-> labels[i]]
    PROVE  IsFiniteSet(ToSet(labels))
  <1> DEFINE S == ToSet(labels)
  <1>1. S = {labels[i] : i \in 1 .. m}
    BY DEF ToSet
  <1>2. labels \in Surjection(1 .. m, S)
    BY <1>1 DEF Surjection
  <1>3. IsFiniteSet(1 .. m)
    BY FS_Interval
  <1> HIDE DEF S
  <1>4. IsFiniteSet(S)
    BY <1>2, <1>3, FS_Surjection
  <1>5. QED
    BY <1>4 DEF S

(* There is one label at most if every pair has the same twice.            *)
LEMMA OneLabel ==
    ASSUME NEW m \in Nat, NEW L, NEW labels \in Seq(L), Len(labels) = m
    PROVE  Cardinality(ToSet(labels)) <= 1 <=> TwoOf(m) \ Same(m, labels) = {}
  <1> DEFINE S == ToSet(labels)
  <1>1. DOMAIN labels = 1 .. m
    OBVIOUS
  <1>2. S = {labels[i] : i \in 1 .. m}
    BY <1>1 DEF ToSet
  <1>3. IsFiniteSet(S) /\ Cardinality(S) \in Nat
    BY <1>1, FiniteLabels, FS_CardinalityType
  <1>4. ASSUME Cardinality(S) <= 1, NEW q \in TwoOf(m) PROVE q \in Same(m, labels)
    <2>1. PICK i \in 1 .. m, j \in 1 .. m : i < j /\ q = {i, j}
      BY TwoAre
    <2>2. labels[i] \in S /\ labels[j] \in S
      BY <1>2
    <2> HIDE DEF S
    <2>3. Cardinality(S) # 0
      BY <1>3, <2>2, FS_EmptySet
    <2>4. Cardinality(S) = 1
      BY <1>3, <1>4, <2>3
    <2>5. PICK x : S = {x}
      BY <1>3, <2>4, FS_Singleton
    <2>6. labels[i] = labels[j]
      BY <2>2, <2>5
    <2>7. QED
      BY <2>1, <2>6 DEF Same
  <1>5. ASSUME TwoOf(m) \ Same(m, labels) = {} PROVE Cardinality(S) <= 1
    <2>1. ASSUME NEW i \in 1 .. m, NEW j \in 1 .. m PROVE labels[i] = labels[j]
      <3>1. CASE i = j
        BY <3>1
      <3>2. CASE i # j
        <4>1. {i, j} = {j, i} /\ (i < j \/ j < i)
          BY <3>2
        <4>2. {i, j} \in TwoOf(m)
          BY <4>1, TwoAre
        <4>3. {i, j} \in Same(m, labels)
          BY <1>5, <4>2
        <4>4. QED
          BY <4>3 DEF Same
      <3>3. QED
        BY <3>1, <3>2
    <2>2. CASE S = {}
      <3>1. Cardinality(S) = 0
        BY <2>2, FS_EmptySet
      <3>2. QED
        BY <3>1
    <2>3. CASE S # {}
      <3>1. PICK x \in S : TRUE
        BY <2>3
      <3>2. S = {x}
        BY <1>2, <2>1
      <3> HIDE DEF S
      <3>3. Cardinality(S) = 1
        BY <1>3, <3>2, FS_Singleton
      <3>4. QED
        BY <3>3
    <2>4. QED
      BY <2>2, <2>3
  <1>6. QED
    BY <1>4, <1>5 DEF Same

(* An order of more labels, cut down to those of a list, is one of them.   *)
LEMMA ListOrders ==
    ASSUME NEW S, IsFiniteSet(S), NEW order \in SetToSeqs(S),
           NEW m \in Nat, NEW labels, DOMAIN labels = 1 .. m, ToSet(labels) \in SUBSET S
    PROVE  LabelOrder(labels, m, Picked(order, ToSet(labels)))
  <1> DEFINE c == Cardinality(S)
             list == Picked(order, ToSet(labels))
  <1>1. c \in Nat
    BY FS_CardinalityType
  <1>2. order \in [1 .. c -> S] /\ \A a, b \in 1 .. c : order[a] = order[b] => a = b
    BY DEF SetToSeqs
  <1>3. order \in Seq(S) /\ DOMAIN order = 1 .. c
    BY <1>1, <1>2, IsASeq
  <1>4. Members(order) = S
    <2>1. order \in Injection(1 .. c, S)
      BY <1>2 DEF Injection, IsInjective
    <2>2. Cardinality(1 .. c) = c
      BY <1>1, FS_Interval
    <2>3. order \in Surjection(1 .. c, S)
      BY <2>1, <2>2, FS_Injection
    <2>4. QED
      BY <1>3, <2>3 DEF Members, Surjection
  <1>5. list \in Seq(ToSet(labels) \cap S) /\ Members(list) = Members(order) \cap ToSet(labels)
    BY <1>3, PickedType
  <1>6. Follows(order, list)
    BY <1>2, <1>3, PickedFollows
  <1>7. Members(list) = ToSet(labels) /\ DOMAIN list \in SUBSET Nat
    BY <1>4, <1>5
  <1> HIDE DEF list
  <1>8. ASSUME NEW i \in 1 .. m PROVE \E k \in DOMAIN list : list[k] = labels[i]
    <2>1. labels[i] \in Members(list)
      BY <1>7 DEF ToSet
    <2>2. QED
      BY <2>1 DEF Members
  <1>9. ASSUME NEW h \in DOMAIN list, NEW k \in DOMAIN list, list[h] = list[k]
        PROVE  ~ (h < k)
    <2>1. list[h] \in Members(order)
      BY <1>4, <1>5, <1>7 DEF Members
    <2>2. PICK a \in DOMAIN order : order[a] = list[h]
      BY <2>1 DEF Members
    <2>3. h < k => a < a
      BY <1>6, <1>9, <2>2 DEF Follows
    <2>4. a \in Nat
      BY <1>1, <1>3
    <2>5. QED
      BY <2>3, <2>4
  <1>10. \A h, k \in DOMAIN list : list[h] = list[k] => h = k
    BY <1>7, <1>9
  <1>11. QED
    BY <1>7, <1>8, <1>10 DEF LabelOrder, list

(* The gap is the difference between the means within labels and between.  *)
GapIs(sim, m, labels, gap) ==
    Equal(gap, IF labels = <<>> \/ TwoOf(m) \ Same(m, labels) = {} THEN Zero
               ELSE Minus(MeanOver(sim, Same(m, labels)),
                          MeanOver(sim, TwoOf(m) \ Same(m, labels))))

(* It is what the loops over the labels compute.                           *)
LEMMA GapByPairs ==
    ASSUME NEW m \in Nat, NEW n \in Nat, m <= n, NEW sim \in Similarities(n),
           NEW v, Counts(v, m), NEW L, NEW labels \in Seq(L) \cup {Nil}, NEW list,
           labels # Nil /\ Len(labels) = m => LabelOrder(labels, m, list),
           NEW gap \in DiscriminationGap(sim, v, labels, list)
    PROVE  GapIs(sim, m, IF labels = Nil THEN <<>> ELSE labels, gap)
  <1>1. Equal(Zero, Zero)
    BY DEF Equal, Zero
  <1>2. CASE labels \in {Nil, <<>>}
    <2>1. gap = Zero /\ (IF labels = Nil THEN <<>> ELSE labels) = <<>>
      BY <1>2 DEF DiscriminationGap
    <2>2. QED
      BY <1>1, <2>1 DEF GapIs
  <1>3. CASE labels \notin {Nil, <<>>}
    <2>1. Len(labels) = m /\ labels \in Seq(L) /\ (IF labels = Nil THEN <<>> ELSE labels) = labels
      BY <1>3 DEF DiscriminationGap, Counts
    <2>2. DOMAIN labels = 1 .. m
      BY <2>1
    <2>3. LabelOrder(labels, m, list)
      BY <1>3, <2>1
    <2>4. CASE Cardinality(ToSet(labels)) <= 1
      <3>1. gap = Zero
        BY <1>3, <2>1, <2>4 DEF DiscriminationGap, Counts
      <3>2. TwoOf(m) \ Same(m, labels) = {}
        BY <2>1, <2>4, OneLabel
      <3>3. QED
        BY <1>1, <2>1, <3>1, <3>2 DEF GapIs
    <2>5. CASE ~ (Cardinality(ToSet(labels)) <= 1)
      <3>1. gap = Minus(Average(sim, IntraPairs(labels, list)),
                        Average(sim, InterPairs(labels, list)))
        BY <1>3, <2>1, <2>5 DEF DiscriminationGap, Counts
      <3>2. TwoOf(m) \ Same(m, labels) # {}
        BY <2>1, <2>5, OneLabel
      <3>3. Average(sim, IntraPairs(labels, list)) = MeanOver(sim, Same(m, labels))
        <4>1. IntraPairs(labels, list) = Alike(m, labels)
          BY <2>2, <2>3, IntraIs
        <4>2. QED
          BY <4>1, SameOriented, MeansAgree
      <3>4. Average(sim, InterPairs(labels, list)) = MeanOver(sim, TwoOf(m) \ Same(m, labels))
        <4>1. InterPairs(labels, list) = Unlike(m, labels, list)
          BY <2>2, InterIs
        <4>2. Orients(m, Unlike(m, labels, list), TwoOf(m) \ Same(m, labels))
          BY <2>3, OthersOriented
        <4>3. QED
          BY <4>1, <4>2, MeansAgree
      <3>5. gap = Minus(MeanOver(sim, Same(m, labels)),
                        MeanOver(sim, TwoOf(m) \ Same(m, labels)))
        BY <3>1, <3>3, <3>4
      <3>6. Equal(gap, gap)
        BY DEF Equal
      <3>7. QED
        BY <1>3, <2>1, <3>2, <3>5, <3>6 DEF GapIs
    <2>6. QED
      BY <2>4, <2>5
  <1>4. QED
    BY <1>2, <1>3

(* What is left of the list of all vectors.                                *)
LEMMA FirstCounts ==
    ASSUME NEW n \in Nat, NEW v, Counts(v, n), NEW k \in Nat
    PROVE  \E m \in Nat : m <= n /\ Counts(First(v, k), m)
  <1> DEFINE m == IF k < Len(v) THEN k ELSE Len(v)
             w == First(v, k)
  <1>1. v \in Seq(Nat) /\ Len(v) = n /\ \A i \in 1 .. n : v[i] = i
    BY DEF Counts
  <1>2. m \in Nat /\ m <= n
    BY <1>1
  <1>3. \A i \in 1 .. m : v[i] = i /\ v[i] \in Nat
    BY <1>1, <1>2
  <1>4. w = SubSeq(v, 1, m)
    BY DEF First
  <1> HIDE DEF m
  <1>5. SubSeq(v, 1, m) \in Seq(Nat) /\ Len(SubSeq(v, 1, m)) = m
        /\ \A i \in 1 .. m : SubSeq(v, 1, m)[i] = v[i]
    BY <1>1, <1>2, <1>3, SubSeqProperties
  <1>6. Counts(w, m)
    BY <1>3, <1>4, <1>5 DEF Counts
  <1>7. QED
    BY <1>2, <1>6

(* What is left of a list is of its members.                               *)
LEMMA FirstMembers ==
    ASSUME NEW L, NEW s \in Seq(L), NEW k \in Nat
    PROVE  First(s, k) \in Seq(L) /\ ToSet(First(s, k)) \in SUBSET ToSet(s)
  <1> DEFINE m == IF k < Len(s) THEN k ELSE Len(s)
  <1>1. m \in Nat /\ m <= Len(s) /\ Len(s) \in Nat /\ DOMAIN s = 1 .. Len(s)
    OBVIOUS
  <1>2. \A i \in 1 .. m : i \in DOMAIN s /\ s[i] \in L
    BY <1>1
  <1>3. First(s, k) = SubSeq(s, 1, m)
    BY DEF First
  <1> HIDE DEF m
  <1>4. /\ SubSeq(s, 1, m) \in Seq(L) /\ Len(SubSeq(s, 1, m)) = m
        /\ \A i \in 1 .. m : SubSeq(s, 1, m)[i] = s[i]
    BY <1>1, <1>2, SubSeqProperties
  <1>5. DOMAIN SubSeq(s, 1, m) = 1 .. m
    BY <1>4
  <1> DEFINE q == SubSeq(s, 1, m)
  <1>6. QED
    <2> HIDE DEF q
    <2>1. \A i \in DOMAIN q : i \in DOMAIN s /\ q[i] = s[i]
      BY <1>2, <1>4, <1>5 DEF q
    <2>2. ToSet(q) \in SUBSET ToSet(s)
      BY <2>1 DEF ToSet
    <2>3. QED
      BY <1>3, <1>4, <2>2 DEF q

(* What is left of the vectors is counted from 1, and what is left of the  *)
(* labels is labels of the list.                                           *)
LEMMA CappedIs ==
    ASSUME NEW n \in Nat, NEW v, Counts(v, n), NEW L, NEW labels \in Seq(L) \cup {Nil},
           NEW cap \in Nat
    PROVE  LET in == Capped(v, labels, cap)
           IN  /\ \E m \in Nat : m <= n /\ Counts(in.vectors, m)
               /\ labels = Nil => in.labels = Nil
               /\ labels # Nil => in.labels \in Seq(L) /\ ToSet(in.labels) \in SUBSET ToSet(labels)
  <1> DEFINE in == Capped(v, labels, cap)
  <1>1. Len(v) = n
    BY DEF Counts
  <1>2. CASE Len(v) <= cap
    <2>1. in.vectors = v /\ in.labels = labels
      BY <1>2 DEF Capped
    <2>2. n <= n
      OBVIOUS
    <2>3. labels # Nil => labels \in Seq(L)
      OBVIOUS
    <2> HIDE DEF in
    <2>4. QED
      BY <2>1, <2>2, <2>3 DEF in
  <1>3. CASE ~ (Len(v) <= cap) /\ labels = Nil
    <2>1. in.vectors = First(v, cap) /\ in.labels = Nil
      BY <1>3 DEF Capped
    <2>2. \E m \in Nat : m <= n /\ Counts(First(v, cap), m)
      BY FirstCounts
    <2> HIDE DEF in
    <2>3. QED
      BY <1>3, <2>1, <2>2 DEF in
  <1>4. CASE ~ (Len(v) <= cap) /\ labels # Nil
    <2>1. in.vectors = First(First(v, cap), Len(labels)) /\ in.labels = First(labels, cap)
      BY <1>4 DEF Capped
    <2>2. PICK k \in Nat : k <= n /\ Counts(First(v, cap), k)
      BY FirstCounts
    <2>3. labels \in Seq(L) /\ Len(labels) \in Nat
      BY <1>4
    <2>4. PICK m \in Nat : m <= k /\ Counts(First(First(v, cap), Len(labels)), m)
      BY <2>2, <2>3, FirstCounts
    <2>5. m <= n
      BY <2>2, <2>4
    <2>6. First(labels, cap) \in Seq(L) /\ ToSet(First(labels, cap)) \in SUBSET ToSet(labels)
      BY <2>3, FirstMembers
    <2> HIDE DEF in
    <2>7. QED
      BY <1>4, <2>1, <2>4, <2>5, <2>6 DEF in
  <1>5. QED
    BY <1>2, <1>3, <1>4

(* The metrics of vectors and labels within the cap.                       *)
LEMMA CountedOnce ==
    ASSUME NEW m \in Nat, NEW n \in Nat, m <= n, NEW sim \in Similarities(n),
           NEW v, Counts(v, m), NEW L, NEW labels \in Seq(L) \cup {Nil}, NEW list,
           labels # Nil /\ Len(labels) = m => LabelOrder(labels, m, list),
           NEW gap \in DiscriminationGap(sim, v, labels, list)
    PROVE  ByPairs(sim, m, IF labels = Nil THEN <<>> ELSE labels,
                   [anisotropy |-> Anisotropy(sim, v), range |-> SimilarityRange(sim, v),
                    gap |-> gap])
  <1> DEFINE lab == IF labels = Nil THEN <<>> ELSE labels
             all == TwoOf(m)
             same == Same(m, lab)
             mean == MeanOver(sim, all)
             range == SimilarityRange(sim, v)
             anisotropy == Anisotropy(sim, v)
  <1>1. Equal(anisotropy, IF mean.num < 0 THEN Zero ELSE mean)
    BY AnisotropyIs
  <1>2. /\ \A q, r \in all : sim[q] - sim[r] <= range
        /\ all # {} => \E q, r \in all : sim[q] - sim[r] = range
        /\ all = {} => range = 0
    BY RangeIs
  <1>3. GapIs(sim, m, lab, gap)
    BY GapByPairs
  <1>4. Equal(gap, IF lab = <<>> \/ all \ same = {} THEN Zero
                   ELSE Minus(MeanOver(sim, same), MeanOver(sim, all \ same)))
    <2> HIDE DEF lab
    <2>1. QED
      BY <1>3 DEF GapIs
  <1>5. all = {q \in SUBSET (1 .. m) : Cardinality(q) = 2}
    BY DEF TwoOf
  <1>6. same = {q \in all : \A i, j \in q : lab[i] = lab[j]}
    BY DEF Same
  <1> DEFINE metrics == [anisotropy |-> anisotropy, range |-> range, gap |-> gap]
  <1>7. metrics.anisotropy = anisotropy /\ metrics.range = range /\ metrics.gap = gap
    OBVIOUS
  <1> HIDE DEF lab, all, same, range, anisotropy, metrics
  <1>8. ByPairs(sim, m, lab, metrics)
    BY <1>1, <1>2, <1>4, <1>5, <1>6, <1>7 DEF ByPairs, mean
  <1>9. QED
    BY <1>8 DEF lab, range, anisotropy, metrics

(* Whatever the similarities, every pair of vectors counts once in the     *)
(* metrics, on the side its labels decide, however Go's map orders the     *)
(* labels (metrics.go).                                                    *)
THEOREM AlwaysByPairs == Spec => []MetricsByPairs
  <1>1. Inputs => MetricsByPairs
    <2> DEFINE vectors == [i \in 1 .. sample.n |-> i]
               labels == sample.labels
               sim == sample.sim
               cap(max) == IF max = 0 THEN MaxEmbeddings ELSE max
               in(max) == Capped(vectors, labels, cap(max))
               list(max, order) == Picked(order, ToSet(in(max).labels))
    <2> SUFFICES ASSUME Inputs, sample # Nil, NEW max \in 0 .. K, NEW order \in Orders,
                        NEW metrics \in Measured(max, order)
                 PROVE  ByPairs(sim, Len(in(max).vectors),
                                IF in(max).labels = Nil THEN <<>> ELSE in(max).labels, metrics)
      BY DEF MetricsByPairs
    <2>1. PICK n \in 0 .. K :
             sample \in [n : {n}, sim : [PairsUpTo(n) -> -Unit .. Unit],
                         labels : {Nil} \cup UNION {[1 .. k -> Labels] : k \in 0 .. K}]
      BY DEF Inputs, Samples
    <2>2. n \in Nat /\ sample.n = n /\ sim \in Similarities(n) /\ K \in Nat
      BY <2>1, InputsAssumption DEF Similarities
    <2>3. Counts(vectors, n)
      <3>1. vectors \in [1 .. n -> Nat] /\ \A i \in 1 .. n : vectors[i] = i
        BY <2>2
      <3> HIDE DEF vectors
      <3>2. vectors \in Seq(Nat) /\ Len(vectors) = n
        BY <2>2, <3>1, IsASeq
      <3>3. QED
        BY <3>1, <3>2 DEF Counts
    <2>4. labels = Nil \/ \E k \in Nat : labels \in [1 .. k -> Labels]
      BY <2>1, <2>2
    <2>5. labels \in Seq(Labels) \cup {Nil}
      BY <2>4, IsASeq
    <2>6. cap(max) \in Nat /\ cap(max) = IF max <= 0 THEN MaxEmbeddings ELSE max
      BY <2>2, UnitAssumption
    <2>7. PICK gap \in DiscriminationGap(sim, in(max).vectors, in(max).labels, list(max, order)) :
             metrics = [anisotropy |-> Anisotropy(sim, in(max).vectors),
                        range |-> SimilarityRange(sim, in(max).vectors), gap |-> gap]
      BY <2>6 DEF Measured, ComputeMetrics
    <2> HIDE DEF vectors, cap
    <2>8. /\ \E m \in Nat : m <= n /\ Counts(in(max).vectors, m)
          /\ labels = Nil => in(max).labels = Nil
          /\ labels # Nil => /\ in(max).labels \in Seq(Labels)
                             /\ ToSet(in(max).labels) \in SUBSET ToSet(labels)
      <3> HIDE DEF labels
      <3>1. QED
        BY <2>2, <2>3, <2>5, <2>6, CappedIs
    <2>9. PICK m \in Nat : m <= n /\ Counts(in(max).vectors, m)
      BY <2>8
    <2>10. Len(in(max).vectors) = m
      BY <2>9 DEF Counts
    <2>11. in(max).labels # Nil /\ Len(in(max).labels) = m
              => LabelOrder(in(max).labels, m, list(max, order))
      <3> SUFFICES ASSUME in(max).labels # Nil, Len(in(max).labels) = m
                   PROVE  LabelOrder(in(max).labels, m, list(max, order))
        OBVIOUS
      <3>1. labels # Nil /\ in(max).labels \in Seq(Labels)
            /\ ToSet(in(max).labels) \in SUBSET ToSet(labels)
        BY <2>8
      <3>2. order \in SetToSeqs(ToSet(labels))
        BY <3>1 DEF Orders
      <3>3. IsFiniteSet(ToSet(labels))
        <4>1. PICK k \in Nat : labels \in [1 .. k -> Labels]
          BY <2>4, <3>1
        <4> HIDE DEF labels
        <4>2. DOMAIN labels = 1 .. k /\ labels = [i \in 1 .. k |-> labels[i]]
          BY <4>1
        <4>3. QED
          BY <4>2, FiniteLabels
      <3> HIDE DEF in, labels
      <3>4. DOMAIN in(max).labels = 1 .. m
        BY <3>1
      <3>5. QED
        BY <3>1, <3>2, <3>3, <3>4, ListOrders
    <2>12. in(max).labels \in Seq(Labels) \cup {Nil}
      BY <2>8
    <2> HIDE DEF in, labels, sim, list
    <2>13. QED
      BY <2>2, <2>7, <2>9, <2>10, <2>11, <2>12, CountedOnce
  <1>2. QED
    BY <1>1, AlwaysInputs, PTL
=============================================================================
