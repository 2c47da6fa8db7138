-------------------------- MODULE ConsolidateProofs --------------------------
(***************************************************************************)
(* Theorems about the pairing of near-duplicates, for any sequence of      *)
(* memories and any similarity.                                            *)
(*                                                                         *)
(* The pairing is a recursive function over the rows.  Induction over the  *)
(* rows is done with a set in place of a predicate (UpTo), which rests on  *)
(* the well-foundedness of < on the naturals.                              *)
(***************************************************************************)
EXTENDS Consolidate, SequenceTheorems, WellFoundedInduction, TLAPS

(* A non-empty set of naturals has a least element.                        *)
LEMMA LeastNat ==
    ASSUME NEW T \in SUBSET Nat, T # {}
    PROVE  \E x \in T : \A y \in T : x <= y
  <1> DEFINE LT == {p \in Nat \X Nat : p[1] < p[2]}
  <1>1. LT = OpToRel(<, Nat)
    BY Zenon DEF OpToRel
  <1>2. IsWellFoundedOn(LT, Nat)
    BY <1>1, NatLessThanWellFounded, Zenon
  <1> HIDE DEF LT
  <1>3. PICK x \in T : \A y \in T : ~ (<<y, x>> \in LT)
    BY <1>2, WFMin
  <1>4. \A y \in T : y \in Nat /\ x \in Nat /\ ~ (y < x)
    BY <1>3 DEF LT
  <1>5. QED
    BY <1>4

(* Induction up to n: a set that holds 0, and with every number the next,  *)
(* holds all numbers up to n.                                              *)
LEMMA UpTo ==
    ASSUME NEW n \in Nat, NEW G, 0 \in G,
           \A k \in 1 .. n : k - 1 \in G => k \in G
    PROVE  \A k \in 0 .. n : k \in G
  <1> DEFINE Bad == (0 .. n) \ G
  <1>1. SUFFICES ASSUME Bad # {} PROVE FALSE
    OBVIOUS
  <1>2. Bad \in SUBSET Nat
    OBVIOUS
  <1>3. PICK k \in Bad : \A y \in Bad : k <= y
    <2> HIDE DEF Bad
    <2>1. QED
      BY <1>1, <1>2, LeastNat
  <1>4. k \in 1 .. n /\ k - 1 \in 0 .. n /\ k - 1 \notin Bad
    BY <1>3
  <1>5. QED
    BY <1>3, <1>4

(* A recursion: from a first value on, a step function gives the next one. *)
HasRun(n, T, a, step) ==
    \E f \in [0 .. n -> T] :
        f[0] = a /\ \A k \in 1 .. n : f[k] = step[<<k, f[k - 1]>>]

(* A recursion whose steps stay in a set T is a function into T.           *)
LEMMA Recursion ==
    ASSUME NEW n \in Nat, NEW T, NEW a \in T,
           NEW step \in [(1 .. n) \X T -> T]
    PROVE  HasRun(n, T, a, step)
  <1> DEFINE Runs(k, f) == f[0] = a /\ \A j \in 1 .. k : f[j] = step[<<j, f[j - 1]>>]
             G == {k \in 0 .. n : \E f \in [0 .. n -> T] : Runs(k, f)}
  <1>1. 0 \in G
    <2>1. [j \in 0 .. n |-> a] \in [0 .. n -> T]
      OBVIOUS
    <2>2. Runs(0, [j \in 0 .. n |-> a])
      OBVIOUS
    <2> HIDE DEF Runs
    <2>3. \E f \in [0 .. n -> T] : Runs(0, f)
      BY <2>1, <2>2
    <2>4. QED
      BY <2>3
  <1>2. ASSUME NEW k \in 1 .. n, k - 1 \in G
        PROVE  k \in G
    <2>1. PICK f \in [0 .. n -> T] : Runs(k - 1, f)
      BY <1>2
    <2> DEFINE g == [f EXCEPT ![k] = step[<<k, f[k - 1]>>]]
    <2>2. f[k - 1] \in T /\ k \in 0 .. n /\ k - 1 \in 0 .. n
      OBVIOUS
    <2>3. step[<<k, f[k - 1]>>] \in T
      BY <2>2
    <2>4. g \in [0 .. n -> T]
      BY <2>3
    <2>5. \A j \in 0 .. n : j # k => g[j] = f[j]
      OBVIOUS
    <2>6. g[k] = step[<<k, f[k - 1]>>]
      BY <2>2
    <2> HIDE DEF g
    <2>7. \A j \in 1 .. k : g[j - 1] = f[j - 1]
      <3>1. \A j \in 1 .. k : j - 1 \in 0 .. n /\ j - 1 # k
        OBVIOUS
      <3>2. QED
        BY <3>1, <2>5
    <2>8. \A j \in 1 .. k : j = k \/ (j \in 1 .. k - 1 /\ j \in 0 .. n /\ j # k)
      OBVIOUS
    <2>9. g[0] = a
      BY <2>1, <2>5
    <2>10. ASSUME NEW j \in 1 .. k PROVE g[j] = step[<<j, g[j - 1]>>]
      BY <2>1, <2>5, <2>6, <2>7, <2>8
    <2>11. QED
      BY <2>2, <2>4, <2>9, <2>10
  <1>3. n \in G
    <2> HIDE DEF G
    <2>1. QED
      BY <1>1, <1>2, UpTo
  <1>4. QED
    BY <1>3 DEF HasRun

(* The picking is a run over the sequence.                                 *)
IsPicked(T, s, S) ==
    \E f \in [0 .. Len(s) -> Seq(S \cap T)] :
        /\ f[0] = <<>> /\ Picked(s, S) = f[Len(s)]
        /\ \A k \in 1 .. Len(s) :
              f[k] = IF s[k] \in S THEN Append(f[k - 1], s[k]) ELSE f[k - 1]

LEMMA PickedRun ==
    ASSUME NEW T, NEW s \in Seq(T), NEW S
    PROVE  IsPicked(T, s, S)
  <1> DEFINE n == Len(s)
             Out == Seq(S \cap T)
             Take(k, q) == IF s[k] \in S THEN Append(q, s[k]) ELSE q
             Body(f, k) == IF k = 0 THEN <<>> ELSE Take(k, f[k - 1])
             step == [x \in (1 .. n) \X Out |-> Take(x[1], x[2])]
             pick == CHOOSE f : f = [k \in 0 .. n |-> Body(f, k)]
  <1>1. n \in Nat /\ <<>> \in Out
    OBVIOUS
  <1>2. ASSUME NEW k \in 1 .. n, NEW q \in Out
        PROVE  Take(k, q) \in Out
    <2>1. s[k] \in T
      OBVIOUS
    <2>2. CASE s[k] \in S
      <3>1. s[k] \in S \cap T
        BY <2>1, <2>2
      <3>2. Append(q, s[k]) \in Seq(S \cap T)
        BY <3>1
      <3>3. QED
        BY <2>2, <3>2
    <2>3. QED
      BY <2>2
  <1> HIDE DEF Out, Take
  <1>3. step \in [(1 .. n) \X Out -> Out]
    BY <1>2
  <1>4. PICK f \in [0 .. n -> Out] :
            f[0] = <<>> /\ \A k \in 1 .. n : f[k] = step[<<k, f[k - 1]>>]
    <2> HIDE DEF step, n, Body, pick
    <2>1. n \in Nat
      BY <1>1
    <2>2. <<>> \in Out
      BY <1>1
    <2>3. HasRun(n, Out, <<>>, step)
      BY <1>3, <2>1, <2>2, Recursion
    <2>4. QED
      BY <2>3 DEF HasRun
  <1>5. f = [k \in 0 .. n |-> Body(f, k)]
    <2>1. \A k \in 0 .. n : k # 0 => k \in 1 .. n /\ f[k - 1] \in Out
      BY <1>1
    <2>2. \A k \in 0 .. n : f[k] = Body(f, k)
      BY <1>4, <2>1
    <2>3. QED
      BY <2>2
  <1>6. pick = [k \in 0 .. n |-> Body(pick, k)]
    BY <1>5
  <1>7. pick \in [0 .. n -> Out]
    <2> DEFINE G == {k \in 0 .. n : pick[k] \in Out}
    <2> HIDE DEF pick
    <2>1. 0 \in G
      BY <1>1, <1>6
    <2>2. ASSUME NEW k \in 1 .. n, k - 1 \in G PROVE k \in G
      BY <1>1, <1>2, <1>6, <2>2
    <2>3. \A k \in 0 .. n : k \in G
      <3> HIDE DEF G, n
      <3>1. QED
        BY <1>1, <2>1, <2>2, UpTo
    <2>4. \A k \in 0 .. n : pick[k] \in Out
      BY <2>3
    <2>5. QED
      BY <1>6, <2>4
  <1>8. Picked(s, S) = pick[n]
    BY DEF Picked, Take
  <1>9. pick[0] = <<>> /\ \A k \in 1 .. n : pick[k] = Take(k, pick[k - 1])
    <2> HIDE DEF pick
    <2>1. \A k \in 0 .. n : pick[k] = Body(pick, k)
      BY <1>6
    <2>2. QED
      BY <1>1, <2>1
  <1>10. QED
    <2> HIDE DEF pick
    <2>1. QED
      BY <1>7, <1>8, <1>9 DEF Out, Take, IsPicked

(* What is picked from a sequence are the members of it that are in S.     *)
LEMMA PickedType ==
    ASSUME NEW T, NEW s \in Seq(T), NEW S
    PROVE  /\ Picked(s, S) \in Seq(S \cap T)
           /\ Members(Picked(s, S)) = Members(s) \cap S
  <1> DEFINE n == Len(s)
             Out == Seq(S \cap T)
             Upto(k) == {s[j] : j \in 1 .. k} \cap S
  <1>1. n \in Nat /\ DOMAIN s = 1 .. n
    OBVIOUS
  <1>2. PICK f \in [0 .. n -> Out] :
           /\ f[0] = <<>> /\ Picked(s, S) = f[n]
           /\ \A k \in 1 .. n :
                 f[k] = IF s[k] \in S THEN Append(f[k - 1], s[k]) ELSE f[k - 1]
    <2>1. IsPicked(T, s, S)
      BY PickedRun
    <2>2. QED
      BY <2>1 DEF IsPicked
  <1> DEFINE G == {k \in 0 .. n : Members(f[k]) = Upto(k)}
  <1>3. 0 \in G
    <2>1. Members(<<>>) = {}
      BY DEF Members
    <2>2. QED
      BY <1>1, <1>2, <2>1
  <1>4. ASSUME NEW k \in 1 .. n, k - 1 \in G
        PROVE  k \in G
    <2>1. f[k - 1] \in Out /\ k \in 0 .. n /\ Members(f[k - 1]) = Upto(k - 1)
      BY <1>1, <1>2, <1>4
    <2>2. 1 .. k = (1 .. k - 1) \cup {k}
      OBVIOUS
    <2>3. Upto(k) = Upto(k - 1) \cup ({s[k]} \cap S)
      BY <2>2
    <2>4. CASE s[k] \in S
      <3> DEFINE q == f[k - 1]
      <3>1. q \in Seq(S \cap T) /\ s[k] \in S \cap T /\ f[k] = Append(q, s[k])
        <4>1. q \in Seq(S \cap T)
          BY <2>1
        <4>2. s[k] \in T
          BY <1>1
        <4>3. f[k] = Append(q, s[k])
          BY <1>2, <2>4
        <4>4. QED
          BY <2>4, <4>1, <4>2, <4>3
      <3> HIDE DEF q
      <3>2. Members(Append(q, s[k])) = Members(q) \cup {s[k]}
        <4>1. /\ Len(Append(q, s[k])) = Len(q) + 1 /\ Len(q) \in Nat
              /\ DOMAIN q = 1 .. Len(q) /\ DOMAIN Append(q, s[k]) = 1 .. Len(q) + 1
              /\ \A j \in 1 .. Len(q) : Append(q, s[k])[j] = q[j]
              /\ Append(q, s[k])[Len(q) + 1] = s[k]
          BY <3>1
        <4>2. 1 .. Len(q) + 1 = (1 .. Len(q)) \cup {Len(q) + 1}
          BY <4>1
        <4>3. QED
          BY <4>1, <4>2 DEF Members
      <3>3. QED
        BY <2>1, <2>3, <2>4, <3>1, <3>2 DEF q
    <2>5. CASE s[k] \notin S
      BY <1>2, <2>1, <2>3, <2>5
    <2>6. QED
      BY <2>4, <2>5
  <1>5. n \in G
    <2>1. \A k \in 0 .. n : k \in G
      <3> HIDE DEF G, n
      <3>1. QED
        BY <1>1, <1>3, <1>4, UpTo
    <2>2. QED
      BY <1>1, <2>1
  <1>6. Picked(s, S) \in Out
    BY <1>1, <1>2
  <1>7. Members(s) = {s[j] : j \in 1 .. n}
    BY <1>1 DEF Members
  <1>8. QED
    BY <1>2, <1>5, <1>6, <1>7

(* What the loop has found: pairs of similar memories, all of them seen,   *)
(* none of them kept in one pair and merged in another.                    *)
Similar(T, similar) == {p \in T \X T : {p[1], p[2]} \in similar}

Apart(pairs) == \A i, j \in DOMAIN pairs : pairs[i][1] # pairs[j][2]

Found(T, similar) ==
    {r \in [pairs : Seq(Similar(T, similar)), seen : SUBSET T] :
        /\ \A i \in DOMAIN r.pairs : r.pairs[i][1] \in r.seen /\ r.pairs[i][2] \in r.seen
        /\ Apart(r.pairs)}

(* The memories an entry may still be paired with.                         *)
Open(T, similar, seen, e) == {x \in T \ (seen \cup {e}) : {e, x} \in similar}

LEMMA PartnersType ==
    ASSUME NEW T, NEW entries \in Seq(T), NEW similar, NEW seen,
           NEW k \in 1 .. Len(entries)
    PROVE  Partners(entries, similar, seen, k) \in Seq(Open(T, similar, seen, entries[k]))
  <1> DEFINE rest == SubSeq(entries, k + 1, Len(entries))
             S == {e \in Members(rest) \ (seen \cup {entries[k]}) :
                      {entries[k], e} \in similar}
             R == Open(T, similar, seen, entries[k])
  <1>1. rest \in Seq(T)
    BY SubSeqProperties
  <1>2. Partners(entries, similar, seen, k) = Picked(rest, S)
    BY DEF Partners
  <1>3. S \cap T \subseteq R
    BY DEF Open
  <1> HIDE DEF rest, S, R
  <1>4. Picked(rest, S) \in Seq(S \cap T)
    BY <1>1, PickedType
  <1>5. Picked(rest, S) \in Seq(R)
    BY <1>3, <1>4, SeqMonotonic
  <1>6. QED
    BY <1>2, <1>5 DEF R

(* What stands in a concatenation stood in one of its parts.               *)
LEMMA Joined ==
    ASSUME NEW P, NEW a \in Seq(P), NEW b \in Seq(P)
    PROVE  /\ a \o b \in Seq(P)
           /\ \A i \in DOMAIN (a \o b) :
                 \/ \E j \in DOMAIN a : (a \o b)[i] = a[j]
                 \/ \E j \in DOMAIN b : (a \o b)[i] = b[j]
  <1> DEFINE c == a \o b
  <1>1. c \in Seq(P) /\ Len(c) = Len(a) + Len(b)
    BY ConcatProperties
  <1>2. \A i \in 1 .. Len(c) :
           c[i] = IF i <= Len(a) THEN a[i] ELSE b[i - Len(a)]
    BY <1>1, ConcatProperties
  <1> HIDE DEF c
  <1>3. /\ DOMAIN a = 1 .. Len(a) /\ DOMAIN b = 1 .. Len(b) /\ DOMAIN c = 1 .. Len(c)
        /\ Len(a) \in Nat /\ Len(b) \in Nat
    BY <1>1
  <1>4. ASSUME NEW i \in DOMAIN c
        PROVE  (\E j \in DOMAIN a : c[i] = a[j]) \/ (\E j \in DOMAIN b : c[i] = b[j])
    <2>1. CASE i <= Len(a)
      BY <1>2, <1>3, <2>1
    <2>2. CASE ~ (i <= Len(a))
      <3>1. i - Len(a) \in DOMAIN b /\ c[i] = b[i - Len(a)]
        BY <1>1, <1>2, <1>3, <2>2
      <3>2. QED
        BY <3>1
    <2>3. QED
      BY <2>1, <2>2
  <1>5. QED
    BY <1>1, <1>4 DEF c

LEMMA PairUpType ==
    ASSUME NEW T, NEW entries \in Seq(T), NEW similar,
           NEW before \in Found(T, similar), NEW k \in 1 .. Len(entries)
    PROVE  PairUp(entries, similar, before, k) \in Found(T, similar)
  <1> DEFINE e == entries[k]
             partners == Partners(entries, similar, before.seen, k)
             new == [j \in DOMAIN partners |-> <<e, partners[j]>>]
             P == Similar(T, similar)
             R == Open(T, similar, before.seen, e)
             after == [pairs |-> before.pairs \o new,
                       seen |-> before.seen \cup {e} \cup Members(partners)]
  <1>1. e \in T
    OBVIOUS
  <1>2. partners \in Seq(R)
    BY PartnersType
  <1>3. before.pairs \in Seq(P) /\ before.seen \in SUBSET T
    BY DEF Found
  <1>4. CASE e \in before.seen \/ partners = <<>>
    BY <1>4 DEF PairUp
  <1>5. CASE e \notin before.seen /\ partners # <<>>
    <2>1. PairUp(entries, similar, before, k) = after
      BY <1>5 DEF PairUp
    <2> HIDE DEF partners
    <2>2. \A j \in DOMAIN partners : partners[j] \in R
      BY <1>2
    <2>3. \A j \in DOMAIN partners : <<e, partners[j]>> \in P
      BY <1>1, <2>2 DEF Similar, Open
    <2>4. DOMAIN partners = 1 .. Len(partners) /\ Len(partners) \in Nat
      BY <1>2
    <2> HIDE DEF R, P
    <2>5. new \in Seq(P) /\ Len(new) = Len(partners) /\ DOMAIN new = DOMAIN partners
      <3>1. new \in [1 .. Len(partners) -> P]
        BY <2>3, <2>4
      <3>2. QED
        BY <2>4, <3>1, IsASeq
    <2> DEFINE all == before.pairs \o new
    <2>6. all \in Seq(P)
      BY <1>3, <2>5, Joined
    <2>7. \A i \in DOMAIN all :
             \/ \E j \in DOMAIN before.pairs : all[i] = before.pairs[j]
             \/ \E j \in DOMAIN partners : all[i] = <<e, partners[j]>>
      <3>1. \A j \in DOMAIN partners : new[j] = <<e, partners[j]>>
        OBVIOUS
      <3> HIDE DEF new
      <3>2. \A i \in DOMAIN all :
               \/ \E j \in DOMAIN before.pairs : all[i] = before.pairs[j]
               \/ \E j \in DOMAIN new : all[i] = new[j]
        <4> DEFINE old == before.pairs
        <4>1. old \in Seq(P) /\ new \in Seq(P)
          BY <1>3, <2>5
        <4> HIDE DEF old
        <4>2. \A i \in DOMAIN (old \o new) :
                 \/ \E j \in DOMAIN old : (old \o new)[i] = old[j]
                 \/ \E j \in DOMAIN new : (old \o new)[i] = new[j]
          BY <4>1, Joined
        <4>3. QED
          BY <4>2 DEF old
      <3> HIDE DEF all
      <3>3. QED
        BY <2>5, <3>1, <3>2
    <2> HIDE DEF all, new
    <2>8. after = [pairs |-> all, seen |-> before.seen \cup {e} \cup Members(partners)]
      BY DEF all, new
    <2>9. \A j \in DOMAIN partners : partners[j] \in T /\ partners[j] # e
                                       /\ partners[j] \notin before.seen
                                       /\ partners[j] \in Members(partners)
      BY <2>2 DEF R, Open, Members
    <2>10. Members(partners) \subseteq T
      BY <2>9 DEF Members
    <2>11. \A i \in DOMAIN before.pairs :
              before.pairs[i][1] \in before.seen /\ before.pairs[i][2] \in before.seen
      BY DEF Found
    <2>12. \A i \in DOMAIN all :
              /\ all[i][1] \in before.seen \cup {e}
              /\ all[i][2] \in before.seen \cup Members(partners)
      BY <2>7, <2>9, <2>11
    <2>13. Apart(all)
      BY <1>5, <2>7, <2>9, <2>11 DEF Apart, Found
    <2> DEFINE seen == before.seen \cup {e} \cup Members(partners)
    <2>14. seen \in SUBSET T
      BY <1>1, <1>3, <2>10
    <2>15. \A i \in DOMAIN all : all[i][1] \in seen /\ all[i][2] \in seen
      BY <2>12
    <2> HIDE DEF seen, after
    <2>16. [pairs |-> all, seen |-> seen] \in Found(T, similar)
      BY <2>6, <2>13, <2>14, <2>15 DEF Found, P
    <2>17. QED
      BY <2>1, <2>8, <2>16 DEF seen
  <1>6. QED
    BY <1>4, <1>5

(* The scan of the rows is a run of PairUp over them.                      *)
None == [pairs |-> <<>>, seen |-> {}]

IsScan(T, entries, similar) ==
    \E f \in [0 .. Len(entries) -> Found(T, similar)] :
        /\ f[0] = None /\ ConsolidateDuplicates(entries, similar) = f[Len(entries)].pairs
        /\ \A k \in 1 .. Len(entries) : f[k] = PairUp(entries, similar, f[k - 1], k)

LEMMA ScanRun ==
    ASSUME NEW T, NEW entries \in Seq(T), NEW similar
    PROVE  IsScan(T, entries, similar)
  <1> DEFINE n == Len(entries)
             Out == Found(T, similar)
             Turn(k, r) == PairUp(entries, similar, r, k)
             Body(f, k) == IF k = 0 THEN None ELSE Turn(k, f[k - 1])
             step == [x \in (1 .. n) \X Out |-> Turn(x[1], x[2])]
             scan == CHOOSE f : f = [k \in 0 .. n |-> Body(f, k)]
  <1>1. n \in Nat
    OBVIOUS
  <1>2. None \in Out
    BY DEF Found, Apart, None
  <1>3. \A k \in 1 .. n : \A r \in Out : Turn(k, r) \in Out
    BY PairUpType
  <1> HIDE DEF Out, Turn, n
  <1>4. step \in [(1 .. n) \X Out -> Out]
    BY <1>3
  <1>5. PICK f \in [0 .. n -> Out] :
            f[0] = None /\ \A k \in 1 .. n : f[k] = step[<<k, f[k - 1]>>]
    <2> HIDE DEF step, Body, scan
    <2>1. HasRun(n, Out, None, step)
      BY <1>1, <1>2, <1>4, Recursion
    <2>2. QED
      BY <2>1 DEF HasRun
  <1>6. f = [k \in 0 .. n |-> Body(f, k)]
    <2>1. \A k \in 0 .. n : k # 0 => k \in 1 .. n /\ f[k - 1] \in Out
      BY <1>1
    <2>2. \A k \in 0 .. n : f[k] = Body(f, k)
      BY <1>5, <2>1
    <2>3. QED
      BY <2>2
  <1>7. scan = [k \in 0 .. n |-> Body(scan, k)]
    BY <1>6
  <1>8. scan \in [0 .. n -> Out]
    <2> DEFINE G == {k \in 0 .. n : scan[k] \in Out}
    <2> HIDE DEF scan
    <2>1. 0 \in G
      BY <1>1, <1>2, <1>7
    <2>2. ASSUME NEW k \in 1 .. n, k - 1 \in G PROVE k \in G
      BY <1>1, <1>3, <1>7, <2>2
    <2>3. \A k \in 0 .. n : k \in G
      <3> HIDE DEF G
      <3>1. QED
        BY <1>1, <2>1, <2>2, UpTo
    <2>4. \A k \in 0 .. n : scan[k] \in Out
      BY <2>3
    <2>5. QED
      BY <1>7, <2>4
  <1>9. ConsolidateDuplicates(entries, similar) = scan[n].pairs
    BY DEF ConsolidateDuplicates, Turn, None, n
  <1>10. scan[0] = None /\ \A k \in 1 .. n : scan[k] = Turn(k, scan[k - 1])
    <2> HIDE DEF scan
    <2>1. \A k \in 0 .. n : scan[k] = Body(scan, k)
      BY <1>7
    <2>2. QED
      BY <1>1, <2>1
  <1>11. QED
    <2> HIDE DEF scan
    <2>1. QED
      BY <1>8, <1>9, <1>10 DEF Out, IsScan, Turn, n

(* Whatever the order of the rows, the pairs join similar memories, and no *)
(* memory is kept in one pair and merged away in another.                  *)
THEOREM PairsApart ==
    ASSUME NEW T, NEW entries \in Seq(T), NEW similar
    PROVE  /\ ConsolidateDuplicates(entries, similar) \in Seq(Similar(T, similar))
           /\ Apart(ConsolidateDuplicates(entries, similar))
  <1>1. PICK f \in [0 .. Len(entries) -> Found(T, similar)] :
           ConsolidateDuplicates(entries, similar) = f[Len(entries)].pairs
    BY ScanRun DEF IsScan
  <1>2. f[Len(entries)] \in Found(T, similar)
    BY <1>1
  <1>3. QED
    BY <1>1, <1>2 DEF Found
-----------------------------------------------------------------------------
(* Which pairs they are.                                                   *)

Merged(pairs) == {p[2] : p \in pairs}

(* The row h or a row before it would take row b.                          *)
Resembling(entries, similar, a, b) == {entries[a], entries[b]} \in similar

(* The pairs whose first row is one of the first k, the rows in D being    *)
(* merged away: every later row goes to the first row kept it resembles.   *)
Taken(entries, similar, k, D) ==
    {<<entries[x[1]], entries[x[2]]>> : x \in
        {x \in (DOMAIN entries) \X (DOMAIN entries) :
            /\ x[1] <= k /\ x[1] < x[2] /\ Resembling(entries, similar, x[1], x[2])
            /\ entries[x[1]] \notin D
            /\ \A h \in 1 .. x[1] - 1 :
                  Resembling(entries, similar, h, x[2]) => entries[h] \in D}}

(* What the scan has found after its first k rows.                         *)
Scanned(entries, similar, k, r) ==
    /\ Members(r.pairs) = Taken(entries, similar, k, Merged(Members(r.pairs)))
    /\ r.seen = {p[1] : p \in Members(r.pairs)} \cup Merged(Members(r.pairs))

LEMMA TakenPairs ==
    ASSUME NEW entries, NEW similar, NEW k, NEW D
    PROVE  /\ \A p \in Taken(entries, similar, k, D) :
                 \E a, b \in DOMAIN entries :
                    /\ p = <<entries[a], entries[b]>>
                    /\ a <= k /\ a < b /\ Resembling(entries, similar, a, b)
                    /\ entries[a] \notin D
                    /\ \A h \in 1 .. a - 1 :
                          Resembling(entries, similar, h, b) => entries[h] \in D
           /\ \A a, b \in DOMAIN entries :
                 /\ a <= k /\ a < b /\ Resembling(entries, similar, a, b)
                 /\ entries[a] \notin D
                 /\ \A h \in 1 .. a - 1 :
                       Resembling(entries, similar, h, b) => entries[h] \in D
                 => <<entries[a], entries[b]>> \in Taken(entries, similar, k, D)
  <1>1. \A p \in Taken(entries, similar, k, D) :
                 \E a, b \in DOMAIN entries :
                    /\ p = <<entries[a], entries[b]>>
                    /\ a <= k /\ a < b /\ Resembling(entries, similar, a, b)
                    /\ entries[a] \notin D
                    /\ \A h \in 1 .. a - 1 :
                          Resembling(entries, similar, h, b) => entries[h] \in D
    BY DEF Taken
  <1>2. ASSUME NEW a \in DOMAIN entries, NEW b \in DOMAIN entries,
               a <= k, a < b, Resembling(entries, similar, a, b), entries[a] \notin D,
               \A h \in 1 .. a - 1 : Resembling(entries, similar, h, b) => entries[h] \in D
        PROVE  <<entries[a], entries[b]>> \in Taken(entries, similar, k, D)
    <2> DEFINE x == <<a, b>>
    <2>1. x \in (DOMAIN entries) \X (DOMAIN entries) /\ x[1] = a /\ x[2] = b
      OBVIOUS
    <2> HIDE DEF x
    <2>2. QED
      BY <1>2, <2>1 DEF Taken
  <1>3. QED
    BY <1>1, <1>2

(* A row after the first k is merged away once one of them is kept that it *)
(* resembles, for the first such takes it.                                 *)
LEMMA MergedWhen ==
    ASSUME NEW T, NEW entries \in Seq(T), NEW similar, NEW k \in 0 .. Len(entries), NEW r,
           \A i, j \in DOMAIN entries : entries[i] = entries[j] => i = j,
           Scanned(entries, similar, k, r)
    PROVE  LET D == Merged(Members(r.pairs))
           IN  /\ \A b \in DOMAIN entries : b > k =>
                     (entries[b] \in r.seen <=>
                        \E h \in 1 .. k : /\ Resembling(entries, similar, h, b)
                                          /\ entries[h] \notin D)
               /\ \A b \in DOMAIN entries : b > k /\ entries[b] \in r.seen => entries[b] \in D
  <1> DEFINE D == Merged(Members(r.pairs))
             P == Taken(entries, similar, k, D)
  <1>1. Members(r.pairs) = P /\ r.seen = {p[1] : p \in P} \cup D /\ D = {p[2] : p \in P}
    BY DEF Scanned, Merged
  <1>2. Len(entries) \in Nat /\ DOMAIN entries = 1 .. Len(entries) /\ k \in Nat
    OBVIOUS
  <1> HIDE DEF D, P
  <1>3. ASSUME NEW b \in DOMAIN entries, b > k, entries[b] \in r.seen
        PROVE  /\ entries[b] \in D
               /\ \E h \in 1 .. k : /\ Resembling(entries, similar, h, b)
                                    /\ entries[h] \notin D
    <2>1. \A p \in P : p[1] # entries[b]
      BY <1>2, <1>3, TakenPairs DEF P
    <2>2. PICK p \in P : p[2] = entries[b]
      BY <1>1, <1>3, <2>1
    <2>3. PICK a \in DOMAIN entries, c \in DOMAIN entries :
             /\ p = <<entries[a], entries[c]>>
             /\ a <= k /\ a < c /\ Resembling(entries, similar, a, c)
             /\ entries[a] \notin D
      BY TakenPairs DEF P
    <2>4. c = b
      BY <2>2, <2>3
    <2>5. QED
      BY <1>1, <1>2, <2>2, <2>3, <2>4
  <1>4. ASSUME NEW b \in DOMAIN entries, b > k,
               \E h \in 1 .. k : Resembling(entries, similar, h, b) /\ entries[h] \notin D
        PROVE  entries[b] \in r.seen
    <2> DEFINE H == {h \in 1 .. k : Resembling(entries, similar, h, b) /\ entries[h] \notin D}
    <2>1. H \in SUBSET Nat /\ H # {}
      BY <1>4
    <2>2. PICK a \in H : \A h \in H : a <= h
      <3> HIDE DEF H
      <3>1. QED
        BY <2>1, LeastNat
    <2>3. /\ a \in DOMAIN entries /\ a <= k /\ a < b /\ a \in Nat
          /\ Resembling(entries, similar, a, b) /\ entries[a] \notin D
      BY <1>2, <1>4
    <2>4. \A h \in 1 .. a - 1 : Resembling(entries, similar, h, b) => entries[h] \in D
      BY <1>2, <2>2, <2>3
    <2>5. <<entries[a], entries[b]>> \in P
      BY <2>3, <2>4, TakenPairs DEF P
    <2>6. QED
      BY <1>1, <2>5
  <1>5. QED
    BY <1>3, <1>4 DEF D

(* The k-th row adds the pairs it takes to those of the rows before it; only *)
(* what is merged of the first k rows counts.                              *)
Additions(entries, similar, k, D) ==
    {b \in DOMAIN entries :
        /\ k < b /\ Resembling(entries, similar, k, b) /\ entries[k] \notin D
        /\ \A h \in 1 .. k - 1 : Resembling(entries, similar, h, b) => entries[h] \in D}

LEMMA TakenNext ==
    ASSUME NEW T, NEW entries \in Seq(T), NEW similar, NEW k \in 1 .. Len(entries),
           NEW D, NEW E, \A h \in 1 .. k : entries[h] \in D <=> entries[h] \in E
    PROVE  Taken(entries, similar, k, E) =
              Taken(entries, similar, k - 1, D)
                 \cup {<<entries[k], entries[b]>> : b \in Additions(entries, similar, k, D)}
  <1> DEFINE P == Taken(entries, similar, k - 1, D)
             N == {<<entries[k], entries[b]>> : b \in Additions(entries, similar, k, D)}
             Q == Taken(entries, similar, k, E)
  <1>1. DOMAIN entries = 1 .. Len(entries) /\ Len(entries) \in Nat /\ k \in Nat
    OBVIOUS
  <1>2. ASSUME NEW p \in Q
        PROVE  p \in P \cup N
    <2>1. PICK a \in DOMAIN entries, b \in DOMAIN entries :
             /\ p = <<entries[a], entries[b]>>
             /\ a <= k /\ a < b /\ Resembling(entries, similar, a, b)
             /\ entries[a] \notin E
             /\ \A h \in 1 .. a - 1 :
                   Resembling(entries, similar, h, b) => entries[h] \in E
      BY TakenPairs
    <2>2. /\ entries[a] \notin D
          /\ \A h \in 1 .. a - 1 : Resembling(entries, similar, h, b) => entries[h] \in D
      BY <1>1, <2>1
    <2>3. CASE a = k
      <3>1. b \in Additions(entries, similar, k, D)
        BY <2>1, <2>2, <2>3 DEF Additions
      <3>2. QED
        BY <2>1, <2>3, <3>1
    <2>4. CASE a # k
      <3>1. a <= k - 1
        BY <1>1, <2>1, <2>4
      <3>2. QED
        BY <2>1, <2>2, <3>1, TakenPairs
    <2>5. QED
      BY <2>3, <2>4
  <1>3. ASSUME NEW p \in P
        PROVE  p \in Q
    <2>1. PICK a \in DOMAIN entries, b \in DOMAIN entries :
             /\ p = <<entries[a], entries[b]>>
             /\ a <= k - 1 /\ a < b /\ Resembling(entries, similar, a, b)
             /\ entries[a] \notin D
             /\ \A h \in 1 .. a - 1 :
                   Resembling(entries, similar, h, b) => entries[h] \in D
      BY TakenPairs
    <2>2. /\ a <= k /\ entries[a] \notin E
          /\ \A h \in 1 .. a - 1 : Resembling(entries, similar, h, b) => entries[h] \in E
      BY <1>1, <2>1
    <2>3. QED
      BY <2>1, <2>2, TakenPairs
  <1>4. ASSUME NEW b \in Additions(entries, similar, k, D)
        PROVE  <<entries[k], entries[b]>> \in Q
    <2>1. /\ b \in DOMAIN entries /\ k \in DOMAIN entries
          /\ k <= k /\ k < b /\ Resembling(entries, similar, k, b) /\ entries[k] \notin E
          /\ \A h \in 1 .. k - 1 : Resembling(entries, similar, h, b) => entries[h] \in E
      BY <1>1 DEF Additions
    <2>2. QED
      BY <2>1, TakenPairs
  <1> HIDE DEF P, Q
  <1>5. QED
    BY <1>2, <1>3, <1>4 DEF P, Q

(* The partners of a row are the later rows it resembles that are free.    *)
LEMMA PartnersAre ==
    ASSUME NEW T, NEW entries \in Seq(T), NEW similar, NEW seen,
           NEW k \in 1 .. Len(entries),
           \A i, j \in DOMAIN entries : entries[i] = entries[j] => i = j
    PROVE  Members(Partners(entries, similar, seen, k)) =
              {entries[b] : b \in {b \in DOMAIN entries :
                 /\ k < b /\ Resembling(entries, similar, k, b)
                 /\ entries[b] \notin seen}}
  <1> DEFINE n == Len(entries)
             rest == SubSeq(entries, k + 1, n)
             S == {e \in Members(rest) \ (seen \cup {entries[k]}) :
                      {entries[k], e} \in similar}
  <1>1. n \in Nat /\ DOMAIN entries = 1 .. n /\ k \in 1 .. n
    OBVIOUS
  <1>2. Members(rest) = {entries[b] : b \in {b \in DOMAIN entries : k < b}}
    <2>1. /\ rest \in Seq(T) /\ Len(rest) = n - k
          /\ \A i \in 1 .. n - k : rest[i] = entries[k + i]
      <3>1. k + 1 \in 1 .. Len(entries) + 1 /\ n \in k .. Len(entries)
        BY <1>1
      <3>2. /\ rest \in Seq(T)
            /\ Len(rest) = (IF k + 1 <= n THEN n - (k + 1) + 1 ELSE 0)
            /\ \A i \in 1 .. n - (k + 1) + 1 : rest[i] = entries[(k + 1) + i - 1]
        BY <1>1, <3>1, SubSeqProperties
      <3> HIDE DEF rest, n
      <3>3. QED
        BY <1>1, <3>2
    <2> HIDE DEF rest
    <2>2. DOMAIN rest = 1 .. n - k
      BY <2>1
    <2>3. \A b \in DOMAIN entries : k < b => b - k \in DOMAIN rest /\ rest[b - k] = entries[b]
      BY <1>1, <2>1, <2>2
    <2>4. \A i \in DOMAIN rest : k + i \in DOMAIN entries /\ k < k + i /\ rest[i] = entries[k + i]
      BY <1>1, <2>1, <2>2
    <2>5. \A x \in Members(rest) : \E b \in DOMAIN entries : k < b /\ x = entries[b]
      BY <2>4 DEF Members
    <2>6. \A b \in DOMAIN entries : k < b => entries[b] \in Members(rest)
      BY <2>3 DEF Members
    <2> HIDE DEF n
    <2>7. QED
      BY <2>5, <2>6
  <1>3. rest \in Seq(T)
    BY <1>1, SubSeqProperties
  <1>4. Partners(entries, similar, seen, k) = Picked(rest, S)
    BY DEF Partners
  <1> HIDE DEF rest
  <1>5. Members(Picked(rest, S)) = Members(rest) \cap S
    BY <1>3, PickedType
  <1>6. \A b \in DOMAIN entries : k < b => entries[b] # entries[k]
    BY <1>1
  <1>7. Members(rest) \cap S =
          {entries[b] : b \in {b \in DOMAIN entries :
             /\ k < b /\ Resembling(entries, similar, k, b)
             /\ entries[b] \notin seen}}
    <2> DEFINE R == Members(rest)
    <2> HIDE DEF R
    <2>1. R = {entries[b] : b \in {b \in DOMAIN entries : k < b}}
      BY <1>2 DEF R
    <2>2. R \cap S = {e \in R \ (seen \cup {entries[k]}) : {entries[k], e} \in similar}
      BY DEF R
    <2> HIDE DEF S
    <2> DEFINE B == {b \in DOMAIN entries :
                       /\ k < b /\ Resembling(entries, similar, k, b)
                       /\ entries[b] \notin seen}
    <2>3. \A x \in R \cap S : x \in {entries[b] : b \in B}
      BY <2>1, <2>2 DEF Resembling
    <2>4. \A b \in B : entries[b] \in R \cap S
      BY <1>6, <2>1, <2>2 DEF Resembling
    <2> HIDE DEF B
    <2>5. R \cap S = {entries[b] : b \in B}
      BY <2>3, <2>4
    <2>6. QED
      BY <2>5 DEF R, B
  <1>8. QED
    BY <1>4, <1>5, <1>7

LEMMA JoinedMembers ==
    ASSUME NEW P, NEW a \in Seq(P), NEW b \in Seq(P)
    PROVE  Members(a \o b) = Members(a) \cup Members(b)
  <1> DEFINE c == a \o b
  <1>1. c \in Seq(P) /\ Len(c) = Len(a) + Len(b)
    BY ConcatProperties
  <1>2. \A i \in 1 .. Len(c) :
           c[i] = IF i <= Len(a) THEN a[i] ELSE b[i - Len(a)]
    BY <1>1, ConcatProperties
  <1>3. \A i \in DOMAIN c :
           \/ \E j \in DOMAIN a : c[i] = a[j]
           \/ \E j \in DOMAIN b : c[i] = b[j]
    BY Joined
  <1> HIDE DEF c
  <1>4. /\ DOMAIN a = 1 .. Len(a) /\ DOMAIN b = 1 .. Len(b) /\ DOMAIN c = 1 .. Len(c)
        /\ Len(a) \in Nat /\ Len(b) \in Nat
    BY <1>1
  <1>5. \A i \in DOMAIN a : i \in DOMAIN c /\ c[i] = a[i]
    BY <1>1, <1>2, <1>4
  <1>6. \A i \in DOMAIN b : Len(a) + i \in DOMAIN c /\ c[Len(a) + i] = b[i]
    BY <1>1, <1>2, <1>4
  <1>7. \A x \in Members(c) : x \in Members(a) \/ x \in Members(b)
    <2>1. ASSUME NEW i \in DOMAIN c PROVE c[i] \in Members(a) \/ c[i] \in Members(b)
      BY <1>3 DEF Members
    <2>2. QED
      BY <2>1 DEF Members
  <1>8. \A x \in Members(a) \cup Members(b) : x \in Members(c)
    <2>1. \A i \in DOMAIN a : a[i] \in Members(c)
      BY <1>5 DEF Members
    <2>2. \A i \in DOMAIN b : b[i] \in Members(c)
      BY <1>6 DEF Members
    <2>3. QED
      BY <2>1, <2>2 DEF Members
  <1>9. QED
    BY <1>7, <1>8 DEF c

(* A turn of the outer loop finds what the row it looks at takes.          *)
LEMMA ScannedNext ==
    ASSUME NEW T, NEW entries \in Seq(T), NEW similar, NEW k \in 1 .. Len(entries),
           NEW r \in Found(T, similar),
           \A i, j \in DOMAIN entries : entries[i] = entries[j] => i = j,
           Scanned(entries, similar, k - 1, r)
    PROVE  Scanned(entries, similar, k, PairUp(entries, similar, r, k))
  <1> DEFINE e == entries[k]
             F == Members(r.pairs)
             D == Merged(F)
             A == Additions(entries, similar, k, D)
             partners == Partners(entries, similar, r.seen, k)
             Q == Members(partners)
  <1>1. /\ DOMAIN entries = 1 .. Len(entries) /\ Len(entries) \in Nat /\ k \in Nat
        /\ k \in DOMAIN entries /\ k - 1 \in 0 .. Len(entries) /\ e \in T
    OBVIOUS
  <1>2. F = Taken(entries, similar, k - 1, D) /\ r.seen = {p[1] : p \in F} \cup D
    BY DEF Scanned
  <1>3. /\ \A b \in DOMAIN entries : b > k - 1 =>
               (entries[b] \in r.seen <=>
                  \E h \in 1 .. k - 1 : /\ Resembling(entries, similar, h, b)
                                        /\ entries[h] \notin D)
        /\ \A b \in DOMAIN entries : b > k - 1 /\ entries[b] \in r.seen => entries[b] \in D
    BY <1>1, MergedWhen
  <1>4. Q = {entries[b] : b \in {b \in DOMAIN entries :
                /\ k < b /\ Resembling(entries, similar, k, b) /\ entries[b] \notin r.seen}}
    BY PartnersAre
  <1>5. CASE e \in r.seen
    <2>1. e \in D
      BY <1>1, <1>3, <1>5
    <2>2. A = {}
      BY <2>1 DEF Additions
    <2>3. Taken(entries, similar, k, D) = F
      <3> HIDE DEF F, D, A
      <3>1. \A h \in 1 .. k : entries[h] \in D <=> entries[h] \in D
        OBVIOUS
      <3>2. Taken(entries, similar, k, D) =
              Taken(entries, similar, k - 1, D)
                 \cup {<<entries[k], entries[b]>> : b \in Additions(entries, similar, k, D)}
        BY <3>1, TakenNext
      <3>3. {<<entries[k], entries[b]>> : b \in A} = {}
        BY <2>2
      <3>4. QED
        BY <1>2, <3>2, <3>3 DEF A
    <2>4. PairUp(entries, similar, r, k) = r
      BY <1>5 DEF PairUp
    <2>5. QED
      BY <1>2, <2>3, <2>4 DEF Scanned
  <1>6. CASE e \notin r.seen
    <2>1. e \notin D
      BY <1>2, <1>6
    <2>2. A = {b \in DOMAIN entries :
                  /\ k < b /\ Resembling(entries, similar, k, b) /\ entries[b] \notin r.seen}
      <3>1. \A b \in DOMAIN entries : k < b => b > k - 1
        BY <1>1
      <3>2. QED
        BY <1>3, <2>1, <3>1 DEF Additions
    <2> HIDE DEF A, D, F
    <2>3. Q = {entries[b] : b \in A}
      BY <1>4, <2>2
    <2>4. {<<e, entries[b]>> : b \in A} = {<<e, q>> : q \in Q}
      BY <2>3
    <2> DEFINE E == D \cup Q
    <2>5. \A h \in 1 .. k : entries[h] \in D <=> entries[h] \in E
      <3>1. \A h \in 1 .. k : \A b \in A : h \in DOMAIN entries /\ b \in DOMAIN entries /\ h # b
        BY <1>1, <2>2
      <3>2. \A h \in 1 .. k : entries[h] \notin Q
        BY <2>3, <3>1
      <3>3. QED
        BY <3>2
    <2>6. Taken(entries, similar, k, E) = F \cup {<<e, q>> : q \in Q}
      <3> HIDE DEF E
      <3>1. Taken(entries, similar, k, E) =
              Taken(entries, similar, k - 1, D)
                 \cup {<<entries[k], entries[b]>> : b \in Additions(entries, similar, k, D)}
        BY <2>5, TakenNext
      <3> HIDE DEF Q
      <3>2. QED
        BY <1>2, <2>4, <3>1 DEF A
    <2>7. CASE partners = <<>>
      <3>1. Q = {}
        BY <2>7 DEF Members
      <3>2. PairUp(entries, similar, r, k) = r
        BY <2>7 DEF PairUp
      <3>3. QED
        BY <1>2, <2>6, <3>1, <3>2 DEF Scanned, F, D
    <2>8. CASE partners # <<>>
      <3> DEFINE new == [j \in DOMAIN partners |-> <<e, partners[j]>>]
                 all == r.pairs \o new
                 P == Similar(T, similar)
                 O == Open(T, similar, r.seen, e)
                 seen == r.seen \cup {e} \cup Q
      <3>1. PairUp(entries, similar, r, k) = [pairs |-> all, seen |-> seen]
        BY <1>6, <2>8 DEF PairUp
      <3>2. partners \in Seq(O)
        BY PartnersType
      <3> HIDE DEF partners
      <3>3. DOMAIN partners = 1 .. Len(partners) /\ Len(partners) \in Nat /\ Len(partners) # 0
        BY <2>8, <3>2
      <3>4. \A j \in DOMAIN partners : <<e, partners[j]>> \in P
        <4>1. \A j \in DOMAIN partners : partners[j] \in O
          BY <3>2
        <4>2. QED
          BY <1>1, <4>1 DEF Similar, Open
      <3>5. r.pairs \in Seq(P) /\ new \in Seq(P)
        <4>1. r.pairs \in Seq(P)
          BY DEF Found
        <4> HIDE DEF P
        <4>2. new \in [1 .. Len(partners) -> P]
          BY <3>3, <3>4
        <4>3. QED
          BY <3>3, <4>1, <4>2, IsASeq
      <3>6. Members(new) = {<<e, q>> : q \in Q}
        BY DEF Members
      <3>7. Members(all) = F \cup {<<e, q>> : q \in Q}
        <4> HIDE DEF P, new
        <4>1. Members(all) = Members(r.pairs) \cup Members(new)
          BY <3>5, JoinedMembers
        <4>2. QED
          BY <3>6, <4>1 DEF F
      <3>8. Q # {}
        <4>1. 1 \in DOMAIN partners
          BY <3>3
        <4>2. partners[1] \in Members(partners)
          BY <4>1 DEF Members
        <4>3. QED
          BY <4>2
      <3> HIDE DEF Q, all
      <3> DEFINE G == F \cup {<<e, q>> : q \in Q}
      <3> DEFINE N == {<<e, q>> : q \in Q}
      <3>9. {p[2] : p \in N} = Q
        <4>1. \A q \in Q : <<e, q>> \in N /\ <<e, q>>[2] = q
          OBVIOUS
        <4>2. \A p \in N : p[2] \in Q
          OBVIOUS
        <4> HIDE DEF N
        <4>3. QED
          BY <4>1, <4>2
      <3>10. {p[1] : p \in N} = {e}
        <4>1. PICK q \in Q : TRUE
          BY <3>8
        <4>2. <<e, q>> \in N /\ <<e, q>>[1] = e
          OBVIOUS
        <4>3. \A p \in N : p[1] = e
          OBVIOUS
        <4> HIDE DEF N
        <4>4. QED
          BY <4>2, <4>3
      <3> HIDE DEF N
      <3>16. Merged(G) = E
        BY <3>9 DEF Merged, D, N
      <3>17. {p[1] : p \in G} = {p[1] : p \in F} \cup {e}
        BY <3>10 DEF N
      <3> HIDE DEF G
      <3>11. seen = {p[1] : p \in G} \cup Merged(G)
        BY <1>2, <3>16, <3>17 DEF F, D
      <3>12. Taken(entries, similar, k, Merged(G)) = G
        BY <2>6, <3>16 DEF G
      <3>13. Members(all) = G
        BY <3>7 DEF G
      <3> HIDE DEF seen, E
      <3>14. Scanned(entries, similar, k, [pairs |-> all, seen |-> seen])
        BY <3>11, <3>12, <3>13 DEF Scanned
      <3>15. QED
        BY <3>1, <3>14
    <2>9. QED
      BY <2>7, <2>8
  <1>7. QED
    BY <1>5, <1>6

(* The pairing keeps every memory that resembles no memory kept before it, *)
(* and merges every other one into the first that does, whatever the rows  *)
(* and the similarity: the clusters are disjoint stars.                    *)
THEOREM PairsAreFirstCome ==
    ASSUME NEW T, NEW entries \in Seq(T), NEW similar,
           \A i, j \in DOMAIN entries : entries[i] = entries[j] => i = j
    PROVE  FirstCome(entries, similar)
  <1> DEFINE n == Len(entries)
  <1>1. n \in Nat /\ DOMAIN entries = 1 .. n
    OBVIOUS
  <1>2. PICK f \in [0 .. n -> Found(T, similar)] :
           /\ f[0] = None /\ ConsolidateDuplicates(entries, similar) = f[n].pairs
           /\ \A k \in 1 .. n : f[k] = PairUp(entries, similar, f[k - 1], k)
    <2>1. IsScan(T, entries, similar)
      BY ScanRun
    <2>2. QED
      BY <2>1 DEF IsScan
  <1> DEFINE G == {k \in 0 .. n : Scanned(entries, similar, k, f[k])}
  <1>3. 0 \in G
    <2>1. Members(None.pairs) = {} /\ None.seen = {}
      BY DEF None, Members
    <2>2. Taken(entries, similar, 0, {}) = {}
      BY <1>1 DEF Taken
    <2>3. Scanned(entries, similar, 0, None)
      BY <2>1, <2>2 DEF Scanned, Merged
    <2>4. QED
      BY <1>1, <1>2, <2>3
  <1>4. ASSUME NEW k \in 1 .. n, k - 1 \in G
        PROVE  k \in G
    <2>1. f[k - 1] \in Found(T, similar) /\ k \in 0 .. n
      BY <1>1
    <2>2. Scanned(entries, similar, k, PairUp(entries, similar, f[k - 1], k))
      BY <1>4, <2>1, ScannedNext
    <2>3. QED
      BY <1>2, <2>1, <2>2
  <1>5. \A k \in 0 .. n : k \in G
    <2> HIDE DEF G, n
    <2>1. QED
      BY <1>1, <1>3, <1>4, UpTo
  <1>6. Scanned(entries, similar, n, f[n])
    BY <1>1, <1>5
  <1> DEFINE F == Members(ConsolidateDuplicates(entries, similar))
             D == {p[2] : p \in F}
  <1>7. F = Taken(entries, similar, n, D)
    BY <1>2, <1>6 DEF Scanned, Merged
  <1>8. Taken(entries, similar, n, D) =
          {<<entries[x[1]], entries[x[2]]>> : x \in
             {x \in (DOMAIN entries) \X (DOMAIN entries) :
                /\ x[1] < x[2] /\ {entries[x[1]], entries[x[2]]} \in similar
                /\ entries[x[1]] \notin D
                /\ \A h \in 1 .. x[1] - 1 :
                      {entries[h], entries[x[2]]} \in similar => entries[h] \in D}}
    <2> HIDE DEF F, D
    <2>1. \A x \in (DOMAIN entries) \X (DOMAIN entries) : x[1] <= n
      BY <1>1
    <2>2. QED
      BY <2>1 DEF Taken, Resembling
  <1>9. QED
    BY <1>7, <1>8, Zenon DEF FirstCome
=============================================================================
