--------------------------- MODULE RetrieverProofs ---------------------------
(***************************************************************************)
(* Theorems about Retriever: what the two searches and the fusion of their *)
(* ranks return, for every table, every request and every constant.        *)
(***************************************************************************)
EXTENDS Retriever, FiniteSetTheorems, TLAPS

(* A list that has each of its memories once.                              *)
List(s) ==
    /\ s \in Seq(Ids)
    /\ \A h, k \in DOMAIN s : s[h] = s[k] => h = k

(* A non-empty set of naturals has a least element.                        *)
LEMMA Least ==
    ASSUME NEW T \in SUBSET Nat, T # {}
    PROVE  \E x \in T : \A y \in T : x <= y
  <1> DEFINE LT == {p \in Nat \X Nat : p[1] < p[2]}
  <1>1. LT = OpToRel(<, Nat)
    BY Zenon DEF OpToRel
  <1>2. IsWellFoundedOn(LT, Nat)
    BY <1>1, NatLessThanWellFounded, Zenon
  <1> HIDE DEF LT
  <1>3. PICK x \in T : \A y \in T : ~ (<<y, x>> \in LT)
    BY <1>2, WFMin
  <1>4. \A y \in T : y \in Nat /\ x \in Nat /\ ~ (y < x)
    BY <1>3 DEF LT
  <1>5. QED
    BY <1>4

LEMMA Interval ==
    ASSUME NEW n \in Nat
    PROVE  IsFiniteSet(1 .. n) /\ Cardinality(1 .. n) = n
  <1>1. /\ IsFiniteSet(1 .. n)
        /\ Cardinality(1 .. n) = IF 1 > n THEN 0 ELSE n - 1 + 1
    <2>1. 1 \in Int /\ n \in Int
      OBVIOUS
    <2>2. QED
      BY <2>1, FS_Interval, Zenon
  <1>2. QED
    BY <1>1

(* There are no more memories in a list than there are.                    *)
LEMMA ListLen ==
    ASSUME NEW s, List(s)
    PROVE  /\ Found(s) \in SUBSET Ids
           /\ Len(s) = Cardinality(Found(s))
           /\ Len(s) <= N
  <1>1. N \in Nat /\ Len(s) \in Nat /\ DOMAIN s = 1 .. Len(s)
    BY UnitAssumption DEF List
  <1>2. Found(s) \in SUBSET Ids
    BY DEF List, Found
  <1>3. /\ IsFiniteSet(Ids) /\ Cardinality(Ids) = N
        /\ IsFiniteSet(1 .. Len(s)) /\ Cardinality(1 .. Len(s)) = Len(s)
    BY <1>1, Interval DEF Ids
  <1>4. IsFiniteSet(Found(s)) /\ Cardinality(Found(s)) <= N
    BY <1>2, <1>3, FS_Subset
  <1>5. s \in Bijection(1 .. Len(s), Found(s))
    BY <1>1 DEF List, Found, Bijection, Injection, Surjection, IsInjective
  <1>6. Cardinality(Found(s)) = Len(s)
    BY <1>3, <1>5, FS_Bijection DEF ExistsBijection
  <1>7. QED
    BY <1>2, <1>4, <1>6

(* An order of a set of memories is a list of them all.                    *)
LEMMA Orders ==
    ASSUME NEW S \in SUBSET Ids, NEW s \in SetToSeqs(S)
    PROVE  List(s) /\ Found(s) = S
  <1>1. /\ IsFiniteSet(S) /\ Cardinality(S) \in Nat
        /\ IsFiniteSet(1 .. Cardinality(S))
        /\ Cardinality(1 .. Cardinality(S)) = Cardinality(S)
    <2>1. IsFiniteSet(S)
      <3>1. IsFiniteSet(Ids)
        BY UnitAssumption, Interval DEF Ids
      <3>2. QED
        BY <3>1, FS_Subset
    <2>2. Cardinality(S) \in Nat
      BY <2>1, FS_CardinalityType
    <2>3. QED
      BY <2>1, <2>2, Interval
  <1>2. /\ s \in [1 .. Cardinality(S) -> S]
        /\ \A h, k \in DOMAIN s : s[h] = s[k] => h = k
    BY DEF SetToSeqs
  <1>3. s \in Injection(1 .. Cardinality(S), S)
    BY <1>2 DEF Injection, IsInjective
  <1>4. s \in Surjection(1 .. Cardinality(S), S)
    BY <1>1, <1>3, FS_Injection
  <1>5. Found(s) = S
    BY <1>2, <1>4 DEF Found, Surjection
  <1>6. s \in Seq(Ids)
    BY <1>1, <1>2
  <1>7. QED
    BY <1>2, <1>5, <1>6 DEF List

(* What is kept of a list is its beginning.                                *)
LEMMA CappedList ==
    ASSUME NEW s, List(s), request.limit \in Nat
    PROVE  /\ List(Capped(s)) /\ Found(Capped(s)) \subseteq Found(s)
           /\ Len(Capped(s)) = IF Len(s) < request.limit THEN Len(s) ELSE request.limit
           /\ \A k \in DOMAIN Capped(s) : k \in DOMAIN s /\ Capped(s)[k] = s[k]
  <1> DEFINE n == IF Len(s) < request.limit THEN Len(s) ELSE request.limit
  <1>1. n \in Nat /\ n <= Len(s) /\ s \in Seq(Ids)
    BY DEF List
  <1>2. /\ Capped(s) \in Seq(Ids) /\ Len(Capped(s)) = n
        /\ \A k \in 1 .. n : Capped(s)[k] = s[k]
    BY <1>1 DEF Capped
  <1>3. /\ DOMAIN Capped(s) = 1 .. n
        /\ \A k \in DOMAIN Capped(s) : k \in DOMAIN s /\ Capped(s)[k] = s[k]
    BY <1>1, <1>2
  <1>4. List(Capped(s)) /\ Found(Capped(s)) \subseteq Found(s)
    BY <1>2, <1>3 DEF List, Found
  <1>5. QED
    BY <1>2, <1>3, <1>4

(* The ranks of a list.                                                    *)
LEMMA Ranks ==
    ASSUME NEW s, List(s)
    PROVE  /\ \A i : Rank(s, i) \in Nat \ {0}
           /\ \A k \in DOMAIN s : s[k] \in Found(s) /\ Rank(s, s[k]) = k
           /\ \A i : i \notin Found(s) => \A k \in DOMAIN s : k < Rank(s, i)
  <1>1. Len(s) \in Nat /\ DOMAIN s = 1 .. Len(s)
    BY DEF List
  <1>2. \A i \in Found(s) : Rank(s, i) \in DOMAIN s /\ s[Rank(s, i)] = i
    BY DEF Rank, Found
  <1>3. \A i : i \notin Found(s) => Rank(s, i) = Len(s) + 1
    BY DEF Rank
  <1>4. \A k \in DOMAIN s : s[k] \in Found(s) /\ Rank(s, s[k]) = k
    <2>1. \A k \in DOMAIN s : s[k] \in Found(s)
      BY DEF Found
    <2>2. QED
      BY <1>2, <2>1 DEF List
  <1>5. QED
    BY <1>1, <1>2, <1>3, <1>4
-----------------------------------------------------------------------------
(* What the type invariant says of a request.                              *)
LEMMA RequestType ==
    ASSUME request \in Requests
    PROVE  /\ request.limit \in Nat \ {0} /\ request.threshold \in Nat \ {0}
           /\ request.alpha \in 0 .. Unit /\ request.blend \in 0 .. Unit
           /\ request.mode \in {"hybrid", "fts", "semantic", "vector"}
           /\ request.embedder \in {"none", "down", "up"}
  <1>1. /\ request.limit \in Limits /\ request.threshold \in Thresholds \cup {1}
        /\ request.alpha \in Alphas /\ request.blend \in Blends
        /\ request.mode \in Modes /\ request.embedder \in {"none", "down", "up"}
    BY DEF Requests
  <1>2. /\ Limits \subseteq Nat \ {0} /\ Thresholds \subseteq Nat \ {0}
        /\ Alphas \subseteq 0 .. Unit /\ Blends \subseteq 0 .. Unit
        /\ Modes \subseteq {"hybrid", "fts", "semantic", "vector"}
    BY UnitAssumption
  <1>3. 1 \in Nat \ {0}
    OBVIOUS
  <1>4. QED
    BY <1>1, <1>2, <1>3, Zenon

LEMMA DescendingList ==
    ASSUME NEW S \in SUBSET Ids, NEW score, NEW s \in Descending(S, score)
    PROVE  /\ s \in SetToSeqs(S) /\ List(s) /\ Found(s) = S
           /\ \A h, k \in DOMAIN s : h < k => ~Above(score[s[k]], score[s[h]])
  <1>1. s \in SetToSeqs(S) /\ \A h, k \in DOMAIN s : h < k => ~Above(score[s[k]], score[s[h]])
    BY DEF Descending
  <1>2. QED
    BY <1>1, Orders

(* Both text searches and both searches by embedding return lists.         *)
LEMMA TextList ==
    ASSUME request \in Requests, present \in SUBSET Ids,
           NEW s \in TextSearch
    PROVE  List(s)
  <1>1. request.limit \in Nat
    BY RequestType
  <1>2. CASE request.fts5
    <2> DEFINE hits == {i \in present : mems[i].bm25 > 0 /\ Kept(i)}
               score == [i \in hits |-> Frac(mems[i].bm25, 1)]
    <2>1. PICK o \in Descending(hits, score) : s = Capped(o)
      BY <1>2 DEF TextSearch, SearchFTS
    <2>2. hits \in SUBSET Ids
      OBVIOUS
    <2> HIDE DEF hits, score
    <2>3. QED
      BY <1>1, <2>1, <2>2, DescendingList, CappedList
  <1>3. CASE ~request.fts5
    <2>1. PICK S \in SUBSET {i \in present : Kept(i)} :
                 \E o \in SetToSeqs(S) : s = Capped(o)
      BY <1>3 DEF TextSearch, LikeSearch
    <2>2. S \in SUBSET Ids
      OBVIOUS
    <2>3. QED
      BY <1>1, <2>1, <2>2, Orders, CappedList
  <1>4. QED
    BY <1>2, <1>3

LEMMA NearestList ==
    ASSUME NEW S \in SUBSET Ids, NEW sim, NEW s \in Nearest(S, sim)
    PROVE  /\ List(s) /\ Found(s) = {i \in S : sim[i] >= request.threshold}
           /\ \A h, k \in DOMAIN s :
                 h < k => ~Above(Frac(sim[s[k]], 1), Frac(sim[s[h]], 1))
  <1> DEFINE near == {i \in S : sim[i] >= request.threshold}
             score == [i \in near |-> Frac(sim[i], 1)]
  <1>1. s \in Descending(near, score) /\ near \in SUBSET Ids
    BY DEF Nearest
  <1>2. /\ List(s) /\ Found(s) = near
        /\ \A h, k \in DOMAIN s : h < k => ~Above(score[s[k]], score[s[h]])
    <2> HIDE DEF near, score
    <2>1. QED
      BY <1>1, DescendingList
  <1>3. \A k \in DOMAIN s : score[s[k]] = Frac(sim[s[k]], 1)
    BY <1>2 DEF Found
  <1>4. QED
    BY <1>2, <1>3

(* The rows fetched for a set of the memories found.                        *)
LEMMA OnlyList ==
    ASSUME NEW S \in SUBSET Ids, NEW s \in Only(S)
    PROVE  List(s) /\ Found(s) = S
  BY DescendingList DEF Only

(* The fusion of two lists has the memories it is given, each once.        *)
LEMMA FusedList ==
    ASSUME NEW S \in SUBSET Ids, NEW semantic, NEW text, NEW alpha,
           NEW r \in Fused(semantic, text, alpha, S)
    PROVE  /\ List(r) /\ Found(r) = S
           /\ \A h, k \in DOMAIN r : h < k =>
                 ~Above(Blended(RRF(semantic, text, alpha, r[k]), r[k]),
                        Blended(RRF(semantic, text, alpha, r[h]), r[h]))
  <1> DEFINE score == [i \in S |-> Blended(RRF(semantic, text, alpha, i), i)]
  <1>1. r \in Descending(S, score)
    BY DEF Fused
  <1>2. /\ List(r) /\ Found(r) = S
        /\ \A h, k \in DOMAIN r : h < k => ~Above(score[r[k]], score[r[h]])
    <2> HIDE DEF score
    <2>1. QED
      BY <1>1, DescendingList
  <1>3. \A k \in DOMAIN r : score[r[k]] = Blended(RRF(semantic, text, alpha, r[k]), r[k])
    BY <1>2 DEF Found
  <1>4. QED
    BY <1>2, <1>3
-----------------------------------------------------------------------------
(* Types.                                                                  *)

(* Where a call can be in each mode.                                        *)
Stages ==
    /\ pc = "start" => request.mode # "vector"
    /\ pc \in {"embed", "fuse"} => request.mode = "hybrid"
    /\ pc \in {"query", "fetch"} => request.mode # "fts"
    /\ pc = "touch" => request.mode # "vector"
    /\ pc = "fetch" => searched # "nothing"
    /\ pc \in {"start", "embed", "query"} => sem = <<>>

TypeInv == TypeOK /\ Stages /\ List(fts) /\ List(sem)

LEMMA EmptyList == List(<<>>) /\ Len(<<>>) = 0 /\ Found(<<>>) = {}
  BY DEF List, Found

LEMMA TypeInit == Init => TypeInv
  <1> SUFFICES ASSUME Init PROVE TypeInv
    OBVIOUS
  <1>1. \A s \in {fts, sem, results} : s \in Seq(Ids) /\ Len(s) <= N
    <2>1. <<>> \in Seq(Ids) /\ Len(<<>>) = 0 /\ 0 <= N
      BY UnitAssumption
    <2>2. QED
      BY <2>1 DEF Init
  <1>2. request \in Requests /\ pc \in {"start", "query"}
    BY DEF Init
  <1>3. QED
    BY <1>1, <1>2, EmptyList, RequestType DEF Init, TypeInv, TypeOK, Stages

(* What an action that returns a list leaves.                              *)
LEMMA ReturnType ==
    ASSUME TypeInv, NEW answers, NEW next, Return(answers, next), List(fts'), List(sem'),
           \A r \in answers : List(r),
           next \in {"fuse", "touch", "done", "error"},
           next = "fuse" => request.mode = "hybrid",
           next = "touch" => request.mode # "vector"
    PROVE  TypeInv'
  <1>1. List(results')
    BY DEF Return
  <1>2. \A s \in {fts', sem', results'} : s \in Seq(Ids) /\ Len(s) <= N
    BY <1>1, ListLen DEF List
  <1>3. QED
    BY <1>2 DEF TypeInv, Stages, TypeOK, Return, List, tables

LEMMA TypeNext == TypeInv /\ [Next]_vars => TypeInv'
  <1> SUFFICES ASSUME TypeInv, [Next]_vars PROVE TypeInv'
    OBVIOUS
  <1> USE DEF TypeInv, Stages
  <1>0. /\ request \in Requests /\ present \in SUBSET Ids
        /\ Found(fts) \in SUBSET Ids /\ Found(sem) \in SUBSET Ids
    BY ListLen DEF TypeOK
  <1>1. CASE FtsOnly
    <2>1. List(fts') /\ Found(fts') \in SUBSET Ids
      BY <1>0, <1>1, TextList, ListLen DEF FtsOnly
    <2>2. \A r \in Fused(<<>>, fts', 0, Found(fts')) : List(r)
      BY <2>1, FusedList
    <2>3. QED
      BY <1>1, <2>1, <2>2, ReturnType DEF FtsOnly
  <1>2. CASE SemanticFails
    BY <1>2, EmptyList, ReturnType DEF SemanticFails
  <1>3. CASE SemanticEmbed
    BY <1>3 DEF SemanticEmbed, TypeOK, List, tables
  <1>4. CASE HybridText
    <2>1. List(fts') /\ fts' \in Seq(Ids) /\ Len(fts') <= N
      BY <1>0, <1>4, TextList, ListLen DEF HybridText, List
    <2>2. QED
      BY <1>4, <2>1 DEF HybridText, TypeOK, List, tables
  <1>5. CASE HybridFallback
    <2>1. List(fts') /\ Found(fts') \in SUBSET Ids
      BY <1>0, <1>5, TextList, ListLen DEF HybridFallback
    <2>2. \A r \in Fused(<<>>, fts', 0, Found(fts')) : List(r)
      BY <2>1, FusedList
    <2>3. QED
      BY <1>5, <2>1, <2>2, EmptyList, ReturnType DEF HybridFallback
  <1>6. CASE TextFails
    BY <1>6, EmptyList, ReturnType DEF TextFails
  <1>7. CASE HybridEmbed
    BY <1>7 DEF HybridEmbed, TypeOK, List, tables
  <1>8. ASSUME NEW S \in SUBSET Ids, NEW sim, NEW by \in {"index", "table"},
               Query(S, sim, by)
        PROVE  TypeInv'
    <2>1. PICK s \in Nearest(S, sim) : sem' = Capped(s)
      BY <1>8 DEF Query
    <2>2. List(sem')
      BY <1>0, <2>1, NearestList, CappedList, RequestType
    <2>3. sem' \in Seq(Ids) /\ Len(sem') <= N
      BY <2>2, ListLen DEF List
    <2>4. QED
      BY <1>8, <2>2, <2>3 DEF Query, TypeOK, List, tables
  <1>9. CASE QueryVec
    BY <1>8, <1>9 DEF QueryVec
  <1>10. CASE QueryBrute
    <2>1. PICK T \in Scans(Asked) : Query(T, Sims, "table")
      BY <1>10 DEF QueryBrute
    <2>2. T \in SUBSET Ids
      BY <1>0 DEF Scans, Asked
    <2>3. QED
      BY <1>8, <2>1, <2>2
  <1>11. CASE FetchRows
    <2>1. List(sem') /\ Found(sem') \in SUBSET Ids
      BY <1>0, <1>11, OnlyList, ListLen DEF FetchRows
    <2>2. \A r \in Fused(sem', <<>>, Unit, {i \in Found(sem') : Kept(i)}) : List(r)
      BY <2>1, FusedList
    <2>3. CASE request.mode = "semantic"
      BY <1>11, <2>1, <2>2, <2>3, ReturnType DEF FetchRows
    <2>4. CASE request.mode = "hybrid"
      <3>1. fts' = fts /\ results' = results /\ pc' = "fuse"
            /\ UNCHANGED <<mems, index, present, expired, request, searched, access>>
        BY <1>11, <2>4 DEF FetchRows, Return, tables
      <3>2. sem' \in Seq(Ids) /\ Len(sem') <= N
        BY <2>1, ListLen DEF List
      <3>3. TypeOK' /\ Stages' /\ fts' = fts
        BY <2>4, <3>1, <3>2 DEF TypeOK
      <3>4. QED
        BY <2>1, <3>3 DEF List
    <2>5. CASE request.mode = "vector"
      BY <1>11, <2>1, <2>5, ReturnType DEF FetchRows
    <2>6. request.mode # "fts"
      BY <1>11 DEF FetchRows
    <2>7. QED
      BY <1>0, <2>3, <2>4, <2>5, <2>6, RequestType
  <1>12. CASE Fuse
    <2>1. \A r \in Fused(sem, fts, request.alpha, Found(fts) \cup Found(sem)) : List(r)
      BY <1>0, FusedList
    <2>2. QED
      BY <1>12, <2>1, ReturnType DEF Fuse, List
  <1>13. CASE Touch
    <2>1. access' \in [Ids -> Nat]
      <3> DEFINE counted == [i \in Ids |-> IF i \in Found(results) \cap present
                                              THEN access[i] + 1 ELSE access[i]]
      <3>1. access' \in {counted, access} /\ access \in [Ids -> Nat]
        BY <1>13 DEF Touch, TypeOK
      <3>2. counted \in [Ids -> Nat]
        BY <3>1
      <3>3. QED
        BY <3>1, <3>2
    <2>2. QED
      BY <1>13, <2>1 DEF Touch, TypeOK, List, tables
  <1>14. CASE Delete
    BY <1>14 DEF Delete, TypeOK, List
  <1>15. CASE Expire
    BY <1>14, <1>15 DEF Expire, TypeOK, List
  <1>16. CASE UNCHANGED vars
    BY <1>16 DEF vars, TypeOK, List
  <1>17. QED
    BY <1>1, <1>2, <1>3, <1>4, <1>5, <1>6, <1>7, <1>9, <1>10, <1>11, <1>12, <1>13,
       <1>14, <1>15, <1>16 DEF Next

(* Every list has each memory once and is no longer than the table, at     *)
(* every step of a call.                                                   *)
THEOREM TypeCorrect == Spec => []TypeOK
  <1>1. TypeInv => TypeOK
    BY DEF TypeInv
  <1>2. QED
    BY <1>1, TypeInit, TypeNext, PTL DEF Spec

LEMMA TypeAlways == Spec => []TypeInv
  BY TypeInit, TypeNext, PTL DEF Spec
-----------------------------------------------------------------------------
(* The hybrid search: its results are a fusion of the two lists, or, where *)
(* the search by embedding failed, of the text search alone.               *)
Merged ==
    request.mode = "hybrid" /\ pc \in {"touch", "done"} =>
        \/ results \in Fused(sem, fts, request.alpha, Found(fts) \cup Found(sem))
        \/ sem = <<>> /\ results \in Fused(<<>>, fts, 0, Found(fts))

(* What the second statement of a search by embedding does.                *)
LEMMA FetchRowsDoes ==
    ASSUME TypeInv, FetchRows
    PROVE  /\ UNCHANGED <<mems, index, present, expired, request, searched, access, fts>>
           /\ sem' \in Only({i \in Found(sem) :
                                /\ i \in present
                                /\ searched = "index" /\ request.validOnly
                                      => i \notin expired})
           /\ \/ request.mode = "semantic" /\ pc' = "touch"
              \/ request.mode = "hybrid" /\ pc' = "fuse"
              \/ request.mode = "vector" /\ pc' = "done" /\ results' = sem'
  <1>1. request.mode \in {"hybrid", "semantic", "vector"}
    BY RequestType DEF TypeInv, TypeOK, Stages, FetchRows
  <1>2. CASE request.mode = "semantic"
    BY <1>2 DEF FetchRows, Return, tables
  <1>3. CASE request.mode = "hybrid"
    BY <1>3 DEF FetchRows, Return, tables
  <1>4. CASE request.mode = "vector"
    BY <1>4 DEF FetchRows, Return, tables
  <1>5. QED
    BY <1>1, <1>2, <1>3, <1>4

(* A call does not change what is asked, nor the rows.                     *)
LEMMA CallSame ==
    ASSUME TypeInv, [Next]_vars
    PROVE  mems' = mems /\ index' = index /\ request' = request
  <1>1. CASE FetchRows
    BY <1>1, FetchRowsDoes
  <1>2. CASE ~FetchRows
    BY <1>2 DEF Next, vars, FtsOnly, SemanticFails, SemanticEmbed, HybridText, HybridFallback,
           TextFails, HybridEmbed, QueryVec, QueryBrute, Query, Fuse, Touch, Delete, Expire,
           Return, tables
  <1>3. QED
    BY <1>1, <1>2

(* The memories' signals and the blend do not change during a call.        *)
LEMMA FusedSame ==
    ASSUME UNCHANGED <<mems, request>>
    PROVE  \A semantic, text, alpha, S :
              Fused(semantic, text, alpha, S)' = Fused(semantic, text, alpha, S)
  <1>1. mems' = mems /\ request' = request
    OBVIOUS
  <1>2. \A semantic, text, alpha, i :
           Blended(RRF(semantic, text, alpha, i), i)'
              = Blended(RRF(semantic, text, alpha, i), i)
    BY <1>1 DEF Blended, RRF
  <1>3. QED
    BY <1>1 DEF Fused, Blended, RRF

LEMMA MergedNext == TypeInv /\ Merged /\ [Next]_vars => Merged'
  <1> SUFFICES ASSUME TypeInv, Merged, [Next]_vars PROVE Merged'
    OBVIOUS
  <1>0. request' = request /\ mems' = mems
    BY CallSame
  <1>1. CASE FtsOnly \/ HybridFallback
    <2>1. sem' = <<>> /\ results' \in Fused(<<>>, fts', 0, Found(fts'))
      BY <1>1 DEF FtsOnly, HybridFallback, Return, TypeInv, Stages
    <2>2. QED
      BY <1>0, <2>1, FusedSame DEF Merged
  <1>2. CASE Fuse
    BY <1>0, <1>2, FusedSame DEF Fuse, Return, Merged
  <1>3. CASE UNCHANGED <<results, fts, sem>> /\ pc \in {"touch", "done"}
    BY <1>0, <1>3, FusedSame DEF Merged
  <1>4. CASE ~(FtsOnly \/ HybridFallback \/ Fuse)
    <2>1. \/ request.mode # "hybrid" \/ pc' \notin {"touch", "done"}
          \/ UNCHANGED <<results, fts, sem>> /\ pc \in {"touch", "done"}
      <3>1. CASE FetchRows
        BY <3>1, FetchRowsDoes
      <3>2. CASE ~FetchRows
        BY <1>4, <3>2 DEF Next, vars, SemanticFails, SemanticEmbed, HybridText, TextFails,
             HybridEmbed, QueryVec, QueryBrute, Query, Touch, Delete, Expire, Return
      <3>3. QED
        BY <3>1, <3>2
    <2>2. QED
      BY <1>0, <1>3, <2>1 DEF Merged
  <1>5. QED
    BY <1>1, <1>2, <1>4

LEMMA MergedAlways == Spec => [](TypeInv /\ Merged)
  <1>1. Init => Merged
    BY DEF Init, Merged
  <1>2. QED
    BY <1>1, TypeInit, TypeNext, MergedNext, PTL DEF Spec

(* A hybrid search returns what either search found, each memory once.     *)
THEOREM NoneDropped == Spec => []NothingDropped
  <1>1. TypeInv /\ Merged => NothingDropped
    <2> SUFFICES ASSUME TypeInv, Merged, pc = "done", request.mode = "hybrid"
                 PROVE  /\ Found(results) = Found(fts) \cup Found(sem)
                        /\ Len(results) = Cardinality(Found(results))
      BY DEF NothingDropped
    <2>1. Found(fts) \in SUBSET Ids /\ Found(sem) \in SUBSET Ids
      BY ListLen DEF TypeInv
    <2>2. Found(fts) \cup Found(sem) \in SUBSET Ids
      BY <2>1
    <2>3. CASE results \in Fused(sem, fts, request.alpha, Found(fts) \cup Found(sem))
      BY <2>2, <2>3, FusedList, ListLen
    <2>4. CASE sem = <<>> /\ results \in Fused(<<>>, fts, 0, Found(fts))
      BY <2>1, <2>4, FusedList, ListLen, EmptyList
    <2>5. QED
      BY <2>3, <2>4 DEF Merged
  <1>2. QED
    BY <1>1, MergedAlways, PTL

(* A list is the beginning of an order in which none precedes a memory of  *)
(* the list but those before it there.                                     *)
LEMMA Beginning ==
    ASSUME NEW s, NEW r, List(s), List(r), Found(s) \subseteq Found(r),
           \A h, k \in DOMAIN r : h < k => ~(Rank(s, r[k]) < Rank(s, r[h]))
    PROVE  IsPrefix(s, r)
  <1> DEFINE Bad == {h \in DOMAIN s : h \notin DOMAIN r \/ r[h] # s[h]}
  <1>0. /\ Len(s) \in Nat /\ DOMAIN s = 1 .. Len(s) /\ s \in Seq(Ids)
        /\ Len(r) \in Nat /\ DOMAIN r = 1 .. Len(r) /\ r \in Seq(Ids)
    BY DEF List
  <1>1. ASSUME Bad # {}
        PROVE  FALSE
    <2>1. Bad \in SUBSET Nat
      BY <1>0
    <2>2. PICK h \in Bad : \A y \in Bad : h <= y
      <3> HIDE DEF Bad
      <3>1. QED
        BY <1>1, <2>1, Least
    <2>3. h \in DOMAIN s /\ \A l \in DOMAIN s : l < h => l \in DOMAIN r /\ r[l] = s[l]
      BY <1>0, <2>2
    <2>4. PICK k \in DOMAIN r : r[k] = s[h]
      BY <2>3 DEF Found
    <2>5. k > h
      <3>1. ASSUME k < h PROVE FALSE
        BY <1>0, <2>3, <2>4, <3>1 DEF List
      <3>2. k # h
        BY <2>2, <2>4
      <3>3. QED
        BY <1>0, <2>3, <3>1, <3>2
    <2>6. h \in DOMAIN r
      BY <1>0, <2>3, <2>5
    <2>7. Rank(s, r[k]) = h
      BY <2>3, <2>4, Ranks
    <2>8. Rank(s, r[h]) > h
      <3>1. CASE r[h] \notin Found(s)
        BY <2>3, <3>1, Ranks
      <3>2. CASE r[h] \in Found(s)
        <4>1. PICK l \in DOMAIN s : s[l] = r[h]
          BY <3>2 DEF Found
        <4>2. l # h
          BY <2>2, <2>6, <4>1
        <4>3. ~(l < h)
          BY <1>0, <2>3, <2>6, <4>1 DEF List
        <4>4. Rank(s, r[h]) = l
          BY <4>1, Ranks
        <4>5. QED
          BY <1>0, <2>3, <4>2, <4>3, <4>4
      <3>3. QED
        BY <3>1, <3>2
    <2>9. QED
      BY <1>0, <2>5, <2>6, <2>7, <2>8
  <1>2. Len(s) <= Len(r) /\ \A h \in 1 .. Len(s) : r[h] = s[h]
    <2>1. \A h \in 1 .. Len(s) : h \in 1 .. Len(r) /\ r[h] = s[h]
      BY <1>0, <1>1
    <2>2. QED
      BY <1>0, <2>1
  <1>3. SubSeq(s, 1, Len(s)) = SubSeq(r, 1, Len(s))
    BY <1>0, <1>2
  <1>4. QED
    BY <1>2, <1>3 DEF IsPrefix

(* The score of a memory when there is no blend.                           *)
LEMMA ScoreUnblended ==
    ASSUME NEW semantic, NEW text, NEW alpha \in 0 .. Unit, NEW i,
           mems[i].signal \in Nat, request.blend = 0,
           NEW s \in Nat, NEW f \in Nat, s = Rank(semantic, i), f = Rank(text, i)
    PROVE  Blended(RRF(semantic, text, alpha, i), i)
              = Frac((alpha * (RrfK + f) + (Unit - alpha) * (RrfK + s)) * Unit,
                     (Unit * (RrfK + s) * (RrfK + f)) * Unit)
  <1>1. RrfK \in Nat \ {0} /\ Unit \in Nat \ {0}
    BY UnitAssumption
  <1>2. RRF(semantic, text, alpha, i)
           = Frac(alpha * (RrfK + f) + (Unit - alpha) * (RrfK + s),
                  Unit * (RrfK + s) * (RrfK + f))
    BY DEF RRF
  <1> DEFINE n == alpha * (RrfK + f) + (Unit - alpha) * (RrfK + s)
             d == Unit * (RrfK + s) * (RrfK + f)
  <1>3. n \in Int /\ d \in Int
    BY <1>1
  <1> HIDE DEF n, d
  <1>4. Blended(Frac(n, d), i) = Frac(n * Unit, d * Unit)
    <2>1. Blended(Frac(n, d), i)
             = Frac(n * (Unit - 0) + mems[i].signal * 0 * d, d * Unit)
      BY DEF Blended, Frac
    <2>2. n * (Unit - 0) + mems[i].signal * 0 * d = n * Unit
      BY <1>1, <1>3
    <2>3. QED
      BY <2>1, <2>2
  <1>5. QED
    BY <1>2, <1>4 DEF n, d

LEMMA TimesPositive ==
    ASSUME NEW x \in Int, NEW y \in Int, x > 0, y > 0
    PROVE  x * y \in Int /\ x * y > 0
  OBVIOUS

(* A larger sum of parts, over the same denominator.                       *)
LEMMA AboveWhen ==
    ASSUME NEW u \in Nat \ {0},
           NEW n \in Int, NEW d \in Int, NEW m \in Int, NEW e \in Int, n * e > m * d
    PROVE  Above(Frac(n * u, (u * d) * u), Frac(m * u, (u * e) * u))
  <1> DEFINE v == u * u * u
  <1>1. v \in Int /\ v > 0
    BY TimesPositive
  <1>2. n * e \in Int /\ m * d \in Int
    OBVIOUS
  <1>3. v * (n * e) > v * (m * d)
    <2> HIDE DEF v
    <2> DEFINE p == n * e
               q == m * d
    <2>1. p \in Int /\ q \in Int /\ p > q
      BY <1>2
    <2> HIDE DEF p, q
    <2>2. v * (p - q) > 0
      BY <1>1, <2>1, TimesPositive
    <2>3. v * (p - q) = v * p - v * q /\ v * p \in Int /\ v * q \in Int
      BY <1>1, <2>1
    <2>4. v * p > v * q
      BY <2>2, <2>3
    <2>5. QED
      BY <2>4 DEF p, q
  <1>4. (n * u) * ((u * e) * u) = v * (n * e) /\ (m * u) * ((u * d) * u) = v * (m * d)
    OBVIOUS
  <1>5. QED
    BY <1>3, <1>4 DEF Above, Frac

(* Both ranks better, and both counted: the score is higher.               *)
LEMMA BothBetter ==
    ASSUME NEW a \in Int, NEW b \in Int, a > 0, b > 0,
           NEW si \in Nat \ {0}, NEW fi \in Nat \ {0}, NEW sj \in Int, NEW fj \in Int,
           si < sj, fi < fj
    PROVE  (a * fi + b * si) * (sj * fj) > (a * fj + b * sj) * (si * fi)
  <1>1. fi * fj > 0 /\ si * sj > 0 /\ fi * fj \in Int /\ si * sj \in Int
    BY TimesPositive
  <1>2. (fi * fj) * (sj - si) > 0 /\ (si * sj) * (fj - fi) > 0
    BY <1>1, TimesPositive
  <1>3. a * ((fi * fj) * (sj - si)) > 0 /\ b * ((si * sj) * (fj - fi)) > 0
    BY <1>1, <1>2, TimesPositive
  <1>4. (a * fi + b * si) * (sj * fj) - (a * fj + b * sj) * (si * fi)
           = a * ((fi * fj) * (sj - si)) + b * ((si * sj) * (fj - fi))
    OBVIOUS
  <1>5. (a * fi + b * si) * (sj * fj) \in Int /\ (a * fj + b * sj) * (si * fi) \in Int
    OBVIOUS
  <1>6. QED
    BY <1>3, <1>4, <1>5

(* Better in the one that counts.                                          *)
LEMMA OneBetter ==
    ASSUME NEW u \in Nat \ {0}, NEW si \in Nat \ {0}, NEW fi \in Nat \ {0},
           NEW sj \in Nat \ {0}, NEW fj \in Nat \ {0}
    PROVE  /\ fi < fj => (0 * fi + u * si) * (sj * fj) > (0 * fj + u * sj) * (si * fi)
           /\ si < sj => (u * fi + 0 * si) * (sj * fj) > (u * fj + 0 * sj) * (si * fi)
  <1>1. ASSUME fi < fj
        PROVE  (0 * fi + u * si) * (sj * fj) > (0 * fj + u * sj) * (si * fi)
    <2>1. (u * (si * sj)) * (fj - fi) > 0
      BY <1>1, TimesPositive
    <2>2. (u * si) * (sj * fj) - (u * sj) * (si * fi) = (u * (si * sj)) * (fj - fi)
      OBVIOUS
    <2>3. /\ (u * si) * (sj * fj) \in Int /\ (u * sj) * (si * fi) \in Int
          /\ 0 * fi + u * si = u * si /\ 0 * fj + u * sj = u * sj
      OBVIOUS
    <2>4. QED
      BY <2>1, <2>2, <2>3
  <1>2. ASSUME si < sj
        PROVE  (u * fi + 0 * si) * (sj * fj) > (u * fj + 0 * sj) * (si * fi)
    <2>1. (u * (fi * fj)) * (sj - si) > 0
      BY <1>2, TimesPositive
    <2>2. (u * fi) * (sj * fj) - (u * fj) * (si * fi) = (u * (fi * fj)) * (sj - si)
      OBVIOUS
    <2>3. /\ (u * fi) * (sj * fj) \in Int /\ (u * fj) * (si * fi) \in Int
          /\ u * fi + 0 * si = u * fi /\ u * fj + 0 * sj = u * fj
      OBVIOUS
    <2>4. QED
      BY <2>1, <2>2, <2>3
  <1>3. QED
    BY <1>1, <1>2

(* How two memories compare, without a blend.                              *)
LEMMA ScoreOrder ==
    ASSUME TypeInv, request.blend = 0, NEW i \in Ids, NEW j \in Ids,
           NEW alpha \in 0 .. Unit
    PROVE  LET Better == Above(Blended(RRF(sem, fts, alpha, i), i),
                               Blended(RRF(sem, fts, alpha, j), j))
           IN  /\ alpha = 0 /\ Rank(fts, i) < Rank(fts, j) => Better
               /\ alpha = Unit /\ Rank(sem, i) < Rank(sem, j) => Better
               /\ alpha \in 1 .. Unit - 1 =>
                     (Rank(fts, i) < Rank(fts, j) /\ Rank(sem, i) < Rank(sem, j) => Better)
  <1> DEFINE si == RrfK + Rank(sem, i)
             fi == RrfK + Rank(fts, i)
             sj == RrfK + Rank(sem, j)
             fj == RrfK + Rank(fts, j)
             n == alpha * fi + (Unit - alpha) * si
             m == alpha * fj + (Unit - alpha) * sj
  <1>1. RrfK \in Nat \ {0} /\ Unit \in Nat \ {0}
    BY UnitAssumption
  <1>2. /\ Rank(sem, i) \in Nat /\ Rank(fts, i) \in Nat
        /\ Rank(sem, j) \in Nat /\ Rank(fts, j) \in Nat
    BY Ranks DEF TypeInv
  <1>3. mems[i].signal \in Nat /\ mems[j].signal \in Nat
    BY UnitAssumption DEF TypeInv, TypeOK, Memory
  <1>4. /\ Blended(RRF(sem, fts, alpha, i), i) = Frac(n * Unit, (Unit * si * fi) * Unit)
        /\ Blended(RRF(sem, fts, alpha, j), j) = Frac(m * Unit, (Unit * sj * fj) * Unit)
    BY <1>2, <1>3, ScoreUnblended
  <1>5. /\ si \in Nat \ {0} /\ fi \in Nat \ {0} /\ sj \in Nat \ {0} /\ fj \in Nat \ {0}
        /\ Rank(fts, i) < Rank(fts, j) <=> fi < fj
        /\ Rank(sem, i) < Rank(sem, j) <=> si < sj
    BY <1>1, <1>2
  <1> HIDE DEF si, fi, sj, fj
  <1>6. n \in Int /\ m \in Int /\ si * fi \in Int /\ sj * fj \in Int
    BY <1>1, <1>5
  <1>7. Unit * si * fi = Unit * (si * fi) /\ Unit * sj * fj = Unit * (sj * fj)
    BY <1>1, <1>5
  <1>8. n * (sj * fj) > m * (si * fi) =>
           Above(Blended(RRF(sem, fts, alpha, i), i), Blended(RRF(sem, fts, alpha, j), j))
    <2> HIDE DEF n, m
    <2>1. QED
      BY <1>1, <1>4, <1>6, <1>7, AboveWhen
  <1>9. alpha = 0 /\ fi < fj => n * (sj * fj) > m * (si * fi)
    <2>1. Unit - 0 = Unit
      BY <1>1
    <2>2. QED
      BY <1>1, <1>5, <2>1, OneBetter
  <1>10. alpha = Unit /\ si < sj => n * (sj * fj) > m * (si * fi)
    <2>1. Unit - Unit = 0
      BY <1>1
    <2>2. QED
      BY <1>1, <1>5, <2>1, OneBetter
  <1>11. alpha \in 1 .. Unit - 1 /\ fi < fj /\ si < sj => n * (sj * fj) > m * (si * fi)
    <2>1. alpha \in 1 .. Unit - 1 =>
             alpha \in Int /\ alpha > 0 /\ Unit - alpha \in Int /\ Unit - alpha > 0
      BY <1>1
    <2>2. QED
      BY <1>5, <2>1, BothBetter
  <1>12. QED
    <2> HIDE DEF n, m
    <2>1. QED
      BY <1>5, <1>8, <1>9, <1>10, <1>11

(* At either end of alpha the memories of one search come first, in its    *)
(* order.                                                                  *)
THEOREM EndsOfAlpha == Spec => []AlphaEnds
  <1>1. TypeInv /\ Merged => AlphaEnds
    <2> SUFFICES ASSUME TypeInv, Merged, pc = "done", request.mode = "hybrid",
                        request.blend = 0
                 PROVE  /\ request.alpha = 0 => IsPrefix(fts, results)
                        /\ request.alpha = Unit => IsPrefix(sem, results)
      BY DEF AlphaEnds
    <2>1. /\ List(fts) /\ List(sem)
          /\ Found(fts) \in SUBSET Ids /\ Found(sem) \in SUBSET Ids
          /\ 0 \in 0 .. Unit /\ Unit \in 0 .. Unit /\ Unit # 0
      BY UnitAssumption, ListLen DEF TypeInv
    <2>2. ASSUME NEW S \in SUBSET Ids, NEW alpha \in {0, Unit},
                 NEW s, s = (IF alpha = 0 THEN fts ELSE sem), Found(s) \subseteq S,
                 results \in Fused(sem, fts, alpha, S)
          PROVE  IsPrefix(s, results)
      <3>1. /\ List(results) /\ Found(results) = S
            /\ \A h, k \in DOMAIN results : h < k =>
                  ~Above(Blended(RRF(sem, fts, alpha, results[k]), results[k]),
                         Blended(RRF(sem, fts, alpha, results[h]), results[h]))
        BY <2>2, FusedList
      <3>2. \A h \in DOMAIN results : results[h] \in Ids
        BY <3>1 DEF List
      <3>3. \A h, k \in DOMAIN results : h < k =>
               ~(Rank(s, results[k]) < Rank(s, results[h]))
        BY <2>1, <2>2, <3>1, <3>2, ScoreOrder
      <3>4. QED
        BY <2>1, <2>2, <3>1, <3>3, Beginning
    <2>3. CASE results \in Fused(sem, fts, request.alpha, Found(fts) \cup Found(sem))
      BY <2>1, <2>2, <2>3
    <2>4. CASE sem = <<>> /\ results \in Fused(<<>>, fts, 0, Found(fts))
      <3>1. IsPrefix(fts, results)
        BY <2>1, <2>2, <2>4
      <3>2. IsPrefix(sem, results)
        <4>1. Found(results) \in SUBSET Ids /\ List(results)
          BY <2>1, <2>4, FusedList
        <4>2. Len(results) \in Nat /\ Len(sem) = 0 /\ results \in Seq(Ids)
          BY <2>4, <4>1, EmptyList DEF List
        <4>3. SubSeq(sem, 1, 0) = SubSeq(results, 1, 0)
          BY <2>4, <4>2
        <4>4. QED
          BY <4>2, <4>3 DEF IsPrefix
      <3>3. QED
        BY <3>1, <3>2
    <2>5. QED
      BY <2>3, <2>4 DEF Merged
  <1>2. QED
    BY <1>1, MergedAlways, PTL

(* With no blend, a memory that both searches rank above another, or       *)
(* return without the other, comes before it.                              *)
THEOREM Monotone == Spec => []FusionMonotone
  <1>1. TypeInv /\ Merged => FusionMonotone
    <2> SUFFICES ASSUME TypeInv, Merged, pc = "done", request.mode = "hybrid",
                        request.blend = 0, request.alpha \in 1 .. Unit - 1,
                        NEW i \in Found(results), NEW j \in Found(results),
                        i \in Found(fts), j \in Found(fts) => Rank(fts, i) < Rank(fts, j),
                        i \in Found(sem), j \in Found(sem) => Rank(sem, i) < Rank(sem, j)
                 PROVE  Position(i) < Position(j)
      BY DEF FusionMonotone
    <2> DEFINE S == Found(fts) \cup Found(sem)
    <2>1. /\ List(fts) /\ List(sem) /\ S \in SUBSET Ids
          /\ request.alpha \in 0 .. Unit
      BY ListLen, RequestType DEF TypeInv, TypeOK
    <2>2. results \in Fused(sem, fts, request.alpha, S)
      BY EmptyList DEF Merged
    <2>3. /\ List(results) /\ Found(results) = S
          /\ \A h, k \in DOMAIN results : h < k =>
                ~Above(Blended(RRF(sem, fts, request.alpha, results[k]), results[k]),
                       Blended(RRF(sem, fts, request.alpha, results[h]), results[h]))
      <3> HIDE DEF S
      <3>1. QED
        BY <2>1, <2>2, FusedList
    <2>4. ASSUME NEW s, List(s), i \in Found(s), j \in Found(s) => Rank(s, i) < Rank(s, j)
          PROVE  Rank(s, i) < Rank(s, j)
      <3>1. PICK k \in DOMAIN s : s[k] = i
        BY <2>4 DEF Found
      <3>2. CASE j \notin Found(s)
        BY <2>4, <3>1, <3>2, Ranks
      <3>3. QED
        BY <2>4, <3>2
    <2>5. Rank(fts, i) < Rank(fts, j) /\ Rank(sem, i) < Rank(sem, j)
      BY <2>1, <2>4
    <2>6. Above(Blended(RRF(sem, fts, request.alpha, i), i),
                Blended(RRF(sem, fts, request.alpha, j), j))
      BY <2>1, <2>3, <2>5, ScoreOrder
    <2>7. /\ Position(i) \in DOMAIN results /\ results[Position(i)] = i
          /\ Position(j) \in DOMAIN results /\ results[Position(j)] = j
      BY DEF Position, Found
    <2>8. DOMAIN results \subseteq Nat
      BY <2>3 DEF List
    <2>9. ~(Position(j) < Position(i))
      BY <2>3, <2>6, <2>7
    <2>10. i # j
      BY <2>1, <2>5, Ranks
    <2>11. QED
      BY <2>7, <2>8, <2>9, <2>10
  <1>2. QED
    BY <1>1, MergedAlways, PTL
-----------------------------------------------------------------------------
(* SearchByEmbedding.                                                      *)

Invalid == {i \in Ids : ~mems[i].valid}

(* Without the index only valid memories are found, if those are asked for; *)
(* with it, those not valid are left out when the rows are fetched.        *)
ValidFound ==
    request.mode = "vector" /\ request.validOnly =>
        /\ pc = "fetch" /\ searched = "table" => Found(sem) \cap Invalid = {}
        /\ pc = "done" =>
              /\ Found(results) \cap Invalid = {}
              /\ searched = "index" => Found(results) \cap expired = {}

ValidInv == Invalid \subseteq expired /\ ValidFound

LEMMA FetchVector ==
    ASSUME TypeInv, FetchRows, request.mode = "vector"
    PROVE  /\ pc = "fetch" /\ pc' = "done" /\ results' = sem' /\ List(results')
           /\ UNCHANGED <<mems, index, present, expired, request, searched>>
           /\ Found(results') = {i \in Found(sem) :
                                   /\ i \in present
                                   /\ searched = "index" /\ request.validOnly
                                         => i \notin expired}
  <1>1. Found(sem) \in SUBSET Ids
    BY ListLen DEF TypeInv
  <1>2. pc = "fetch"
    BY DEF FetchRows
  <1>3. QED
    BY <1>1, <1>2, FetchRowsDoes, OnlyList

LEMMA QueryFinds ==
    ASSUME TypeInv, NEW S \in SUBSET Ids, NEW sim, NEW by, Query(S, sim, by)
    PROVE  /\ pc = "query" /\ pc' = "fetch" /\ searched' = by
           /\ UNCHANGED <<mems, index, present, expired, request>>
           /\ Found(sem') \subseteq {i \in S : sim[i] >= request.threshold}
  <1>1. PICK s \in Nearest(S, sim) : sem' = Capped(s)
    BY DEF Query
  <1>2. request.limit \in Nat
    BY RequestType DEF TypeInv, TypeOK
  <1>3. Found(sem') \subseteq Found(s)
    BY <1>1, <1>2, NearestList, CappedList
  <1>4. QED
    BY <1>1, <1>3, NearestList DEF Query, tables

(* The scan of the table, when the index is not used.                      *)
LEMMA BruteDoes ==
    ASSUME TypeInv, QueryBrute
    PROVE  \E T \in Scans(Asked) :
              /\ T \in SUBSET Ids /\ T \subseteq Asked
              /\ Query(T, Sims, "table")
  BY DEF QueryBrute, Scans, Asked, TypeInv, TypeOK

(* In mode "vector" a step is one of these.                                *)
LEMMA VectorStep ==
    ASSUME TypeInv, [Next]_vars, request.mode = "vector"
    PROVE  \/ SemanticFails \/ QueryVec \/ QueryBrute \/ FetchRows \/ Delete \/ Expire
           \/ UNCHANGED vars
  BY DEF TypeInv, Stages, Next, FtsOnly, SemanticEmbed, HybridText, HybridFallback, TextFails,
         HybridEmbed, Fuse, Touch

LEMMA ValidNext == TypeInv /\ ValidInv /\ [Next]_vars => ValidInv'
  <1> SUFFICES ASSUME TypeInv, ValidInv, [Next]_vars PROVE ValidInv'
    OBVIOUS
  <1>0. mems' = mems /\ request' = request /\ Invalid' = Invalid
    BY CallSame DEF Invalid
  <1>1. Invalid \subseteq expired'
    <2>1. expired \subseteq expired'
      <3>1. CASE FetchRows
        BY <3>1, FetchRowsDoes
      <3>2. CASE ~FetchRows
        BY <3>2 DEF Next, vars, FtsOnly, SemanticFails, SemanticEmbed, HybridText,
             HybridFallback, TextFails, HybridEmbed, QueryVec, QueryBrute, Query, Fuse, Touch,
             Delete, Expire, Return, tables
      <3>3. QED
        BY <3>1, <3>2
    <2>2. QED
      BY <2>1 DEF ValidInv
  <1>2. ValidFound'
    <2> SUFFICES ASSUME request.mode = "vector", request.validOnly
                 PROVE  /\ pc' = "fetch" /\ searched' = "table" =>
                              Found(sem') \cap Invalid = {}
                        /\ pc' = "done" =>
                              /\ Found(results') \cap Invalid = {}
                              /\ searched' = "index" => Found(results') \cap expired' = {}
      BY <1>0 DEF ValidFound
    <2>1. CASE SemanticFails
      BY <2>1 DEF SemanticFails, Return
    <2>2. CASE QueryVec
      BY <2>2 DEF QueryVec, Query
    <2>3. CASE QueryBrute
      <3>1. PICK T \in SUBSET Ids : T \subseteq Asked /\ Query(T, Sims, "table")
        BY <2>3, BruteDoes
      <3>2. pc' = "fetch" /\ Found(sem') \subseteq present \ expired
        BY <3>1, QueryFinds DEF Asked
      <3>3. QED
        BY <3>2 DEF ValidInv
    <2>4. CASE FetchRows
      <3>1. searched \in {"index", "table"}
        BY <2>4, FetchVector DEF TypeInv, TypeOK, Stages
      <3>2. QED
        BY <2>4, <3>1, FetchVector DEF ValidInv, ValidFound
    <2>5. CASE Delete \/ Expire \/ UNCHANGED vars
      BY <2>5 DEF Delete, Expire, vars, ValidInv, ValidFound
    <2>6. QED
      BY <2>1, <2>2, <2>3, <2>4, <2>5, VectorStep
  <1>3. QED
    BY <1>0, <1>1, <1>2 DEF ValidInv

(* Asked for valid memories only, SearchByEmbedding returns none that had  *)
(* expired when it was called and, with the index, none that had when the  *)
(* rows were fetched.                                                      *)
THEOREM OnlyValid == Spec => []ValidOnly
  <1>1. Init => ValidInv
    BY DEF Init, ValidInv, ValidFound, Invalid, Found
  <1>2. TypeInv /\ ValidInv => ValidOnly
    <2> SUFFICES ASSUME TypeInv, ValidInv, pc = "done", request.mode = "vector",
                        request.validOnly, NEW i \in Found(results)
                 PROVE  mems[i].valid /\ (searched = "index" => i \notin expired)
      BY DEF ValidOnly
    <2>1. i \in Ids
      BY DEF TypeInv, TypeOK, Found
    <2>2. QED
      BY <2>1 DEF ValidInv, ValidFound, Invalid
  <1>3. QED
    BY <1>1, <1>2, TypeInit, TypeNext, ValidNext, PTL DEF Spec

(* Nothing was deleted and nothing expired since the call.                 *)
Undisturbed == present = Ids /\ expired = Invalid

(* What the first statement leaves out although it is similar enough and   *)
(* asked for.                                                              *)
Passed(sim) == {i \in Asked \ Found(sem) : sim[i] >= request.threshold}

(* What CrowdedOut says, of the ids found by the first statement.          *)
LeftOut ==
    request.mode = "vector" /\ Undisturbed /\ pc = "fetch" =>
      /\ searched = "index" =>
            \A i \in Passed(index) : Cardinality(Ahead(index, i)) >= request.limit
      /\ searched = "table" =>
            IF Cardinality(Asked) <= MaxRows
              THEN \A i \in Passed(Sims) :
                      Len(sem) = request.limit
                        /\ Cardinality(Ahead(Sims, i)) >= request.limit
              ELSE \/ Len(sem) = request.limit
                   \/ Cardinality(Passed(Sims)) + MaxRows <= Cardinality(Asked)

CrowdInv == ValidInv /\ LeftOut /\ CrowdedOut

LEMMA IdsFinite ==
    ASSUME NEW S \in SUBSET Ids
    PROVE  IsFiniteSet(S) /\ Cardinality(S) \in Nat
  <1>1. IsFiniteSet(Ids)
    BY UnitAssumption, Interval DEF Ids
  <1>2. QED
    BY <1>1, FS_Subset, FS_CardinalityType

(* A memory that the nearest ones, up to the limit, do not include has as  *)
(* many ahead of it.                                                       *)
LEMMA CutOff ==
    ASSUME request \in Requests, NEW S \in SUBSET Ids, NEW sim \in [Ids -> 0 .. MaxSim],
           NEW s \in Nearest(S, sim),
           NEW i \in S, sim[i] >= request.threshold, i \notin Found(Capped(s))
    PROVE  /\ Cardinality(Ahead(sim, i)) >= request.limit
           /\ Len(Capped(s)) = request.limit
  <1> DEFINE c == Capped(s)
  <1>1. request.limit \in Nat /\ \A j \in Ids : sim[j] \in Nat
    <2>1. MaxSim \in Nat
      BY UnitAssumption
    <2>2. QED
      BY <2>1, RequestType
  <1>2. /\ List(s) /\ i \in Found(s)
        /\ \A h, k \in DOMAIN s :
              h < k => ~Above(Frac(sim[s[k]], 1), Frac(sim[s[h]], 1))
    <2>1. /\ List(s) /\ Found(s) = {j \in S : sim[j] >= request.threshold}
          /\ \A h, k \in DOMAIN s :
                h < k => ~Above(Frac(sim[s[k]], 1), Frac(sim[s[h]], 1))
      BY NearestList, Zenon
    <2>2. QED
      BY <2>1
  <1>3. /\ List(c) /\ Len(c) = IF Len(s) < request.limit THEN Len(s) ELSE request.limit
        /\ \A k \in DOMAIN c : k \in DOMAIN s /\ c[k] = s[k]
    BY <1>1, <1>2, CappedList
  <1> HIDE DEF c
  <1>4. /\ Len(s) \in Nat /\ DOMAIN s = 1 .. Len(s) /\ s \in Seq(Ids)
        /\ Len(c) \in Nat /\ DOMAIN c = 1 .. Len(c) /\ c \in Seq(Ids)
    BY <1>2, <1>3 DEF List
  <1>5. PICK k \in DOMAIN s : s[k] = i
    BY <1>2 DEF Found
  <1>6. k \notin DOMAIN c
    <2>1. i \notin Found(c)
      BY DEF c
    <2>2. QED
      BY <1>3, <1>5, <2>1 DEF Found
  <1>7. Len(c) = request.limit
    BY <1>1, <1>3, <1>4, <1>5, <1>6
  <1>8. \A h \in DOMAIN c : c[h] \in Ahead(sim, i)
    <2> SUFFICES ASSUME NEW h \in DOMAIN c PROVE c[h] \in Ahead(sim, i)
      OBVIOUS
    <2>1. h \in DOMAIN s /\ c[h] = s[h] /\ h < k
      BY <1>3, <1>4, <1>5, <1>6
    <2>2. s[h] \in Ids /\ s[h] # i
      BY <1>2, <1>4, <1>5, <2>1 DEF List
    <2>3. ~(sim[i] * 1 > sim[s[h]] * 1)
      BY <1>2, <1>5, <2>1 DEF Above, Frac
    <2>4. sim[s[h]] >= sim[i]
      BY <1>1, <2>2, <2>3
    <2>5. QED
      BY <2>1, <2>2, <2>4 DEF Ahead
  <1>9. c \in Injection(1 .. Len(c), Ahead(sim, i))
    BY <1>3, <1>4, <1>8 DEF List, Injection, IsInjective
  <1>10. Cardinality(1 .. Len(c)) <= Cardinality(Ahead(sim, i))
    <2>1. IsFiniteSet(Ahead(sim, i))
      BY IdsFinite DEF Ahead
    <2>2. QED
      BY <1>9, <2>1, FS_Injection
  <1>11. Cardinality(1 .. Len(c)) = Len(c) /\ Cardinality(Ahead(sim, i)) \in Nat
    BY <1>4, Interval, IdsFinite DEF Ahead
  <1>12. QED
    BY <1>7, <1>10, <1>11 DEF c

(* What a scan that may stop after MaxRows rows leaves out.                *)
LEMMA ScanLeaves ==
    ASSUME request \in Requests, NEW A \in SUBSET Ids, NEW T \in Scans(A),
           Sims \in [Ids -> 0 .. MaxSim], NEW s \in Nearest(T, Sims),
           NEW c, c = Capped(s),
           NEW M, M = {i \in A \ Found(c) : Sims[i] >= request.threshold}
    PROVE  IF Cardinality(A) <= MaxRows
             THEN \A i \in M :
                     Len(c) = request.limit /\ Cardinality(Ahead(Sims, i)) >= request.limit
             ELSE Len(c) = request.limit \/ Cardinality(M) + MaxRows <= Cardinality(A)
  <1>1. /\ T \subseteq A /\ T \in SUBSET Ids /\ M \subseteq A
        /\ Cardinality(T) \in Nat /\ Cardinality(A) \in Nat /\ Cardinality(M) \in Nat
        /\ IsFiniteSet(T) /\ IsFiniteSet(A) /\ IsFiniteSet(M)
        /\ MaxRows \in Nat
    BY IdsFinite, UnitAssumption DEF Scans
  <1>2. \A i \in M \cap T :
           Len(c) = request.limit /\ Cardinality(Ahead(Sims, i)) >= request.limit
    BY <1>1, CutOff
  <1>3. CASE {i \in A : mems[i].sim > 0} \subseteq T
    <2>1. M \subseteq T
      <3>1. \A i \in M : Sims[i] \in Nat /\ Sims[i] > 0 /\ mems[i].sim = Sims[i]
        <4>1. request.threshold \in Nat \ {0} /\ MaxSim \in Nat
          BY RequestType, UnitAssumption
        <4>2. \A i \in Ids : Sims[i] \in Nat /\ mems[i].sim = Sims[i]
          BY <4>1 DEF Sims
        <4>3. QED
          BY <4>1, <4>2
      <3>2. QED
        BY <1>1, <1>3, <3>1
    <2>2. M = {} => Cardinality(M) = 0
      BY FS_EmptySet
    <2>3. QED
      BY <1>1, <1>2, <2>1, <2>2
  <1>4. CASE Cardinality(T) = MaxRows
    <2>1. CASE Cardinality(A) <= MaxRows
      <3>1. T = A
        <4>1. Cardinality(T) <= Cardinality(A)
          BY <1>1, FS_Subset
        <4>2. Cardinality(T) = Cardinality(A)
          BY <1>1, <1>4, <2>1, <4>1
        <4>3. QED
          BY <1>1, <4>2, FS_Subset
      <3>2. QED
        BY <1>1, <1>2, <2>1, <3>1
    <2>2. CASE M \cap T # {}
      BY <1>1, <1>2, <2>1, <2>2
    <2>3. CASE M \cap T = {}
      <3>1. Cardinality(M) <= Cardinality(A \ T)
        <4>1. M \subseteq A \ T /\ IsFiniteSet(A \ T)
          BY <1>1, <2>3, IdsFinite
        <4>2. QED
          BY <4>1, FS_Subset
      <3>2. Cardinality(A \ T) = Cardinality(A) - Cardinality(T)
        <4>1. A \cap T = T
          BY <1>1
        <4>2. Cardinality(A \ T) = Cardinality(A) - Cardinality(A \cap T)
          BY <1>1, FS_Difference
        <4>3. QED
          BY <4>1, <4>2
      <3>3. QED
        BY <1>1, <1>4, <2>1, <3>1, <3>2
    <2>4. QED
      BY <2>2, <2>3
  <1>5. QED
    BY <1>3, <1>4 DEF Scans

LEMMA CrowdNext == TypeInv /\ CrowdInv /\ [Next]_vars => CrowdInv'
  <1> SUFFICES ASSUME TypeInv, CrowdInv, [Next]_vars
               PROVE  LeftOut' /\ CrowdedOut'
    BY ValidNext DEF CrowdInv
  <1>0. /\ mems' = mems /\ index' = index /\ request' = request
        /\ Invalid' = Invalid /\ Sims' = Sims
        /\ \A sim, i : Ahead(sim, i)' = Ahead(sim, i)
    BY CallSame DEF Invalid, Sims, Ahead
  <1>1. /\ request \in Requests /\ Asked \in SUBSET Ids
        /\ index \in [Ids -> 0 .. MaxSim] /\ Sims \in [Ids -> 0 .. MaxSim]
    BY DEF TypeInv, TypeOK, Asked, Sims, Memory
  <1>2. CASE request.mode # "vector"
    BY <1>0, <1>2 DEF LeftOut, CrowdedOut
  <1>3. ASSUME request.mode = "vector", SemanticFails
        PROVE  LeftOut' /\ CrowdedOut'
    BY <1>3 DEF SemanticFails, Return, LeftOut, CrowdedOut
  <1>4. ASSUME QueryVec
        PROVE  LeftOut' /\ CrowdedOut'
    <2>1. /\ pc' = "fetch" /\ searched' = "index" /\ Asked' = Asked
          /\ \E s \in Nearest(Ids, index) : sem' = Capped(s)
      BY <1>4 DEF QueryVec, Query, tables, Asked
    <2>2. PICK s \in Nearest(Ids, index) : sem' = Capped(s)
      BY <2>1
    <2>3. \A i \in Passed(index)' : Cardinality(Ahead(index, i)) >= request.limit
      <3>1. \A i \in Ids : index[i] >= request.threshold /\ i \notin Found(Capped(s))
                => Cardinality(Ahead(index, i)) >= request.limit
        BY <1>1, CutOff
      <3>2. QED
        BY <1>0, <1>1, <2>1, <2>2, <3>1 DEF Passed, Found
    <2>4. QED
      BY <1>0, <2>1, <2>3 DEF LeftOut, CrowdedOut
  <1>5. ASSUME QueryBrute
        PROVE  LeftOut' /\ CrowdedOut'
    <2>1. PICK T \in Scans(Asked) : Query(T, Sims, "table")
      BY <1>5, BruteDoes
    <2>2. /\ pc' = "fetch" /\ searched' = "table" /\ Asked' = Asked
          /\ \E s \in Nearest(T, Sims) : sem' = Capped(s)
      BY <2>1 DEF Query, tables, Asked
    <2>3. PICK s \in Nearest(T, Sims) : sem' = Capped(s)
      BY <2>2
    <2>4. Passed(Sims)' = {i \in Asked \ Found(sem') : Sims[i] >= request.threshold}
      BY <1>0, <2>2 DEF Passed, Found
    <2>5. IF Cardinality(Asked) <= MaxRows
            THEN \A i \in Passed(Sims)' :
                    Len(sem') = request.limit
                      /\ Cardinality(Ahead(Sims, i)) >= request.limit
            ELSE \/ Len(sem') = request.limit
                 \/ Cardinality(Passed(Sims)') + MaxRows <= Cardinality(Asked)
      BY <1>1, <2>3, <2>4, ScanLeaves
    <2>6. QED
      BY <1>0, <2>2, <2>5 DEF LeftOut, CrowdedOut
  <1>6. ASSUME request.mode = "vector", FetchRows
        PROVE  LeftOut' /\ CrowdedOut'
    <2>1. /\ pc = "fetch" /\ pc' = "done" /\ List(results')
          /\ UNCHANGED <<mems, index, present, expired, request, searched>>
          /\ Found(results') = {i \in Found(sem) :
                                  /\ i \in present
                                  /\ searched = "index" /\ request.validOnly
                                        => i \notin expired}
      BY <1>6, FetchVector
    <2>2. SUFFICES ASSUME Undisturbed PROVE CrowdedOut'
      BY <2>1 DEF LeftOut, CrowdedOut, Undisturbed, Invalid
    <2>3. Asked' = Asked /\ \A sim : Missing(sim)' = Passed(sim)
      <3>1. Asked' = Asked
        BY <2>1 DEF Asked
      <3>2. Asked \ Found(results') = Asked \ Found(sem)
        BY <1>1, <2>1, <2>2 DEF Asked, Undisturbed
      <3>3. QED
        BY <1>0, <3>1, <3>2 DEF Missing, Passed, Found
    <2>4. searched = "table" => Len(results') = Len(sem)
      <3>1. Found(sem) \in SUBSET Ids /\ List(sem)
        BY ListLen DEF TypeInv
      <3>2. searched = "table" => Found(results') = Found(sem)
        BY <2>1, <2>2, <3>1 DEF Undisturbed
      <3>3. Len(results') = Cardinality(Found(results')) /\ Len(sem) = Cardinality(Found(sem))
        BY <2>1, <3>1, ListLen
      <3>4. QED
        BY <3>2, <3>3
    <2>5. LeftOut
      BY DEF CrowdInv
    <2>6. QED
      BY <1>0, <1>6, <2>1, <2>2, <2>3, <2>4, <2>5 DEF LeftOut, CrowdedOut
  <1>7. ASSUME Delete
        PROVE  LeftOut' /\ CrowdedOut'
    BY <1>7 DEF Delete, Undisturbed, LeftOut, CrowdedOut, TypeInv, TypeOK
  <1>8. ASSUME Expire
        PROVE  LeftOut' /\ CrowdedOut'
    BY <1>0, <1>8 DEF Expire, Undisturbed, LeftOut, CrowdedOut, CrowdInv, ValidInv
  <1>9. ASSUME UNCHANGED vars
        PROVE  LeftOut' /\ CrowdedOut'
    BY <1>0, <1>9 DEF vars, CrowdInv, LeftOut, CrowdedOut, Undisturbed, Passed, Missing, Asked,
         Found
  <1>10. QED
    BY <1>2, <1>3, <1>4, <1>5, <1>6, <1>7, <1>8, <1>9, VectorStep

(* A memory asked for is missing from an undisturbed search only where as  *)
(* many as the limit, and as similar in what was searched, took its place, *)
(* or among as many as the scan of a table longer than it may read leaves  *)
(* out.                                                                    *)
THEOREM OnlyCrowdedOut == Spec => []CrowdedOut
  <1>1. Init => CrowdInv
    BY DEF Init, CrowdInv, ValidInv, ValidFound, LeftOut, CrowdedOut, Invalid
  <1>2. CrowdInv => CrowdedOut
    BY DEF CrowdInv
  <1>3. QED
    BY <1>1, <1>2, TypeInit, TypeNext, CrowdNext, PTL DEF Spec
=============================================================================
