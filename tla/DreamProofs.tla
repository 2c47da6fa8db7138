----------------------------- MODULE DreamProofs -----------------------------
(***************************************************************************)
(* Theorems of Dream: for any number of memories and dream processes, any  *)
(* traits, similarities and settings of the cycle.                         *)
(***************************************************************************)
EXTENDS Dream, ConsolidateProofs, TLAPS

(* What the lists of candidates hold: pairs of two different memories.     *)
Couples == Similar(Ids, Pairs)
DupCouples == Similar(Ids, PairsOf({"dup"}))

(* Whoever is inside the merge loop has a candidate.                       *)
Lists ==
    /\ cand \in [Dreamers -> Seq(Couples)]
    /\ \A d \in Dreamers :
          pc[d] \in {"target", "invalidate", "supersede"} => cand[d] # <<>>

TypeInv == TypeOK /\ Lists

LEMMA CouplesOf ==
    ASSUME NEW scores
    PROVE  /\ Similar(Ids, PairsOf(scores)) \subseteq Couples
           /\ ConsolidateDuplicates(ValidInOrder, PairsOf(scores))
                 \in Seq(Similar(Ids, PairsOf(scores)))
           /\ ConsolidateDuplicates(ValidInOrder, PairsOf(scores)) \in Seq(Couples)
  <1>1. Similar(Ids, PairsOf(scores)) \subseteq Couples
    BY DEF Similar, Couples, PairsOf
  <1>2. [i \in Ids |-> i] \in Seq(Ids)
    <2>1. [i \in 1 .. N |-> i] \in [1 .. N -> Ids]
      BY DEF Ids
    <2>2. QED
      BY <2>1, IsASeq, NumbersAssumption DEF Ids
  <1>3. ValidInOrder \in Seq(Ids)
    <2>1. ValidInOrder \in Seq(ValidIds \cap Ids)
      BY <1>2, PickedType DEF ValidInOrder
    <2>2. QED
      BY <2>1, SeqMonotonic
  <1>4. ConsolidateDuplicates(ValidInOrder, PairsOf(scores))
           \in Seq(Similar(Ids, PairsOf(scores)))
    BY <1>3, PairsApart
  <1>5. QED
    BY <1>1, <1>4, SeqMonotonic

LEMMA HeadTailType ==
    ASSUME NEW P, NEW s \in Seq(P), s # <<>>
    PROVE  Head(s) \in P /\ Tail(s) \in Seq(P)
  BY HeadTailProperties

(* A list whose first pair was replaced.                                   *)
LEMMA NewHead ==
    ASSUME NEW P, NEW a \in P, NEW s \in Seq(P), s # <<>>
    PROVE  /\ <<a>> \o Tail(s) \in Seq(P)
           /\ <<a>> \o Tail(s) # <<>>
           /\ Head(<<a>> \o Tail(s)) = a
  <1>1. Tail(s) \in Seq(P) /\ <<a>> \in Seq(P) /\ Len(<<a>>) = 1
    BY HeadTailProperties
  <1> DEFINE c == <<a>> \o Tail(s)
  <1>2. c \in Seq(P) /\ Len(c) = 1 + Len(Tail(s)) /\ c[1] = a
    BY <1>1, ConcatProperties
  <1>3. Len(Tail(s)) \in Nat
    BY <1>1
  <1> HIDE DEF c
  <1>4. c # <<>> /\ Head(c) = a
    BY <1>2, <1>3
  <1>5. QED
    BY <1>2, <1>4 DEF c

LEMMA Capped ==
    ASSUME NEW P, NEW s \in Seq(P)
    PROVE  SubSeq(s, 1, Lesser(MergeCap, Len(s))) \in Seq(P)
  <1>1. Lesser(MergeCap, Len(s)) \in 0 .. Len(s)
    BY NumbersAssumption, LenProperties DEF Lesser
  <1>2. QED
    BY <1>1, SubSeqProperties

(* Confidences stay in their range.                                        *)
LEMMA Ranges ==
    ASSUME TypeOK, NEW c \in 0 .. Full, NEW i \in Ids
    PROVE  Decayed(c, i) \in 0 .. Full /\ Boosted(c) \in 0 .. Full
  BY NumbersAssumption DEF TypeOK, Decayed, Boosted, DecayAmount, Clamp, Lesser

LEMMA RowType ==
    ASSUME TypeOK, NEW i \in Ids
    PROVE  Row(i) \in Rows
  BY NumbersAssumption DEF TypeOK, Row, Rows

LEMMA NoRowType == NoRow \in Rows
  BY NumbersAssumption DEF NoRow, Rows

LEMMA TypeInit == Init => TypeInv
  <1>1. \A x \in InitConfs : x \in 0 .. Full
    BY NumbersAssumption
  <1>2. QED
    BY <1>1, NoRowType DEF Init, TypeInv, TypeOK, Lists

LEMMA ListsType ==
    ASSUME NEW f \in [Dreamers -> Seq(Couples)]
    PROVE  f \in [Dreamers -> Seq(Ids \X Ids)]
  <1>1. Couples \subseteq Ids \X Ids
    BY DEF Couples, Similar
  <1>2. Seq(Couples) \subseteq Seq(Ids \X Ids)
    BY <1>1, SeqMonotonic
  <1>3. QED
    BY <1>2

LEMMA CallsType ==
    ASSUME TypeOK, NEW i \in Ids
    PROVE  /\ Expire(i) => status' \in [Ids -> {"valid", "expired", "absent"}]
           /\ \A c \in 0 .. Full : SetConf(i, c) => conf' \in [Ids -> 0 .. Full]
           /\ \A j \in Ids : Relate(i, j) => sup' \subseteq Ids \X Ids
  <1>1. Expire(i) => status' \in [Ids -> {"valid", "expired", "absent"}]
    BY DEF TypeOK, Expire
  <1>2. \A c \in 0 .. Full : SetConf(i, c) => conf' \in [Ids -> 0 .. Full]
    BY DEF TypeOK, SetConf
  <1>3. \A j \in Ids : Relate(i, j) => sup' \subseteq Ids \X Ids
    BY DEF TypeOK, Relate
  <1>4. QED
    BY <1>1, <1>2, <1>3

LEMMA HeadIds ==
    ASSUME TypeInv, NEW d \in Dreamers, cand[d] # <<>>
    PROVE  /\ Head(cand[d]) \in Couples
           /\ Head(cand[d])[1] \in Ids /\ Head(cand[d])[2] \in Ids
           /\ Unordered(Head(cand[d])) \in Pairs
           /\ Tail(cand[d]) \in Seq(Couples)
  <1>1. cand[d] \in Seq(Couples)
    BY DEF TypeInv, Lists
  <1>2. Head(cand[d]) \in Couples /\ Tail(cand[d]) \in Seq(Couples)
    BY <1>1, HeadTailType
  <1>3. QED
    BY <1>2 DEF Couples, Similar, Unordered

(* The parts of the type invariant a step of a cycle has to keep, when it  *)
(* leaves the traits, similarities and the environment alone.              *)
LEMMA TypeParts ==
    ASSUME TypeInv, UNCHANGED fixedVars,
           status' \in [Ids -> {"valid", "expired", "absent"}],
           conf' \in [Ids -> 0 .. Full],
           sup' \subseteq Ids \X Ids,
           link' \in [Pairs -> 0 .. 2],
           pc' \in [Dreamers -> {"idle", "search", "decay", "boost", "merge", "target",
                            "invalidate", "supersede", "relations", "link"}],
           apply' \in [Dreamers -> BOOLEAN],
           snap' \in [Dreamers -> [Ids -> Rows]],
           todo' \in [Dreamers -> SUBSET Ids],
           src' \in [Dreamers -> Rows],
           known' \in [Dreamers -> SUBSET Pairs],
           Lists'
    PROVE  TypeInv'
  <1>1. cand' \in [Dreamers -> Seq(Ids \X Ids)]
    BY ListsType DEF Lists
  <1>2. QED
    BY <1>1 DEF TypeInv, TypeOK, fixedVars

(* The deep phase's two loops and what comes before the merges.            *)
LEMMA TypeLoops ==
    ASSUME TypeInv, NEW d \in Dreamers,
           Begin(d) \/ ReadMemories(d) \/ Decay(d) \/ DecayDone(d) \/ Boost(d)
             \/ BoostDone(d)
    PROVE  TypeInv'
  <1>1. CASE Begin(d)
    <2> DEFINE pairs == ConsolidateDuplicates(ValidInOrder, PairsOf({"dup"}))
    <2>1. pairs \in Seq(Couples)
      BY CouplesOf
    <2> HIDE DEF pairs
    <2>2. SubSeq(pairs, 1, Lesser(MergeCap, Len(pairs))) \in Seq(Couples)
      BY <2>1, Capped
    <2>3. /\ UNCHANGED <<dbVars, fixedVars, snap, todo, src, known>>
          /\ pc' = [pc EXCEPT ![d] = "search"]
          /\ \E b \in BOOLEAN : apply' = [apply EXCEPT ![d] = b]
          /\ \E c \in {SubSeq(pairs, 1, Lesser(MergeCap, Len(pairs))), <<>>} :
                cand' = [cand EXCEPT ![d] = c]
      BY <1>1 DEF Begin, pairs
    <2>4. PICK c : /\ c \in {SubSeq(pairs, 1, Lesser(MergeCap, Len(pairs))), <<>>}
                   /\ cand' = [cand EXCEPT ![d] = c]
      BY <2>3
    <2>5. Lists'
      <3>1. <<>> \in Seq(Couples)
        OBVIOUS
      <3>2. c \in Seq(Couples)
        BY <2>2, <2>4, <3>1
      <3>3. QED
        BY <2>3, <2>4, <3>2 DEF TypeInv, TypeOK, Lists
    <2>6. QED
      BY <2>3, <2>5, TypeParts DEF TypeInv, TypeOK, dbVars
  <1>2. CASE ReadMemories(d)
    <2>1. \A i \in Ids : [status |-> "valid", conf |-> conf[i]] \in Rows
      BY DEF TypeInv, TypeOK, Rows
    <2>2. [i \in Ids |-> IF i \in ValidIds THEN [status |-> "valid", conf |-> conf[i]]
                         ELSE NoRow] \in [Ids -> Rows]
      BY <2>1, NoRowType
    <2>3. {i \in ValidIds : "idle" \in trait[i]} \in SUBSET Ids
      BY DEF ValidIds
    <2>4. Lists'
      BY <1>2 DEF ReadMemories, TypeInv, TypeOK, Lists
    <2>5. QED
      BY <1>2, <2>2, <2>3, <2>4, TypeParts DEF ReadMemories, TypeInv, TypeOK, dbVars
  <1>3. CASE Decay(d)
    <2>1. PICK i \in todo[d] :
            LET c == Decayed(snap[d][i].conf, i) IN
            /\ IF ~apply[d] THEN UNCHANGED <<status, conf>>
               ELSE IF c < ConfidenceFloor THEN Expire(i) /\ UNCHANGED conf
               ELSE SetConf(i, c) /\ UNCHANGED status
            /\ todo' = [todo EXCEPT ![d] = @ \ {i}]
      BY <1>3 DEF Decay
    <2>2. i \in Ids /\ snap[d][i] \in Rows
      BY DEF TypeInv, TypeOK
    <2>3. Decayed(snap[d][i].conf, i) \in 0 .. Full
      BY <2>2, Ranges DEF TypeInv, Rows
    <2>4. /\ status' \in [Ids -> {"valid", "expired", "absent"}]
          /\ conf' \in [Ids -> 0 .. Full]
      BY <2>1, <2>2, <2>3, CallsType DEF TypeInv, TypeOK
    <2>5. todo' \in [Dreamers -> SUBSET Ids]
      BY <2>1 DEF TypeInv, TypeOK
    <2>6. UNCHANGED <<sup, link, fixedVars, pc, apply, cand, snap, src, known>>
      BY <1>3 DEF Decay
    <2>7. Lists'
      BY <2>6 DEF TypeInv, Lists
    <2>8. QED
      BY <2>4, <2>5, <2>6, <2>7, TypeParts DEF TypeInv, TypeOK
  <1>4. CASE DecayDone(d)
    <2>1. Lists'
      BY <1>4 DEF DecayDone, TypeInv, TypeOK, Lists
    <2>2. QED
      BY <1>4, <2>1, TypeParts DEF DecayDone, TypeInv, TypeOK, dbVars
  <1>5. CASE Boost(d)
    <2>1. PICK i \in todo[d] :
            /\ IF apply[d] THEN SetConf(i, Boosted(snap[d][i].conf)) ELSE UNCHANGED conf
            /\ todo' = [todo EXCEPT ![d] = @ \ {i}]
      BY <1>5 DEF Boost
    <2>2. i \in Ids /\ snap[d][i] \in Rows
      BY DEF TypeInv, TypeOK
    <2>3. Boosted(snap[d][i].conf) \in 0 .. Full
      BY <2>2, Ranges DEF TypeInv, Rows
    <2>4. conf' \in [Ids -> 0 .. Full]
      BY <2>1, <2>2, <2>3, CallsType DEF TypeInv, TypeOK
    <2>5. todo' \in [Dreamers -> SUBSET Ids]
      BY <2>1 DEF TypeInv, TypeOK
    <2>6. UNCHANGED <<status, sup, link, fixedVars, pc, apply, cand, snap, src, known>>
      BY <1>5 DEF Boost
    <2>7. Lists'
      BY <2>6 DEF TypeInv, Lists
    <2>8. QED
      BY <2>4, <2>5, <2>6, <2>7, TypeParts DEF TypeInv, TypeOK
  <1>6. CASE BoostDone(d)
    <2>1. Lists'
      BY <1>6 DEF BoostDone, TypeInv, TypeOK, Lists
    <2>2. [i \in Ids |-> NoRow] \in [Ids -> Rows]
      BY NoRowType
    <2>3. QED
      BY <1>6, <2>1, <2>2, TypeParts DEF BoostDone, TypeInv, TypeOK, dbVars
  <1>7. QED
    BY <1>1, <1>2, <1>3, <1>4, <1>5, <1>6

LEMMA TypeNext ==
    ASSUME TypeInv, NEW d \in Dreamers, cand[d] # <<>>, NextCandidate(d)
    PROVE  /\ Lists'
           /\ src' \in [Dreamers -> Rows]
           /\ pc' = [pc EXCEPT ![d] = "merge"]
  <1>1. Tail(cand[d]) \in Seq(Couples)
    BY HeadIds
  <1>2. Lists'
    BY <1>1 DEF NextCandidate, TypeInv, TypeOK, Lists
  <1>3. src' \in [Dreamers -> Rows]
    BY NoRowType DEF NextCandidate, TypeInv, TypeOK
  <1>4. QED
    BY <1>2, <1>3 DEF NextCandidate

LEMMA TypeQuit ==
    ASSUME TypeInv, NEW d \in Dreamers, Quit(d)
    PROVE  TypeInv'
  <1>1. Lists'
    <2>1. <<>> \in Seq(Couples)
      OBVIOUS
    <2>2. QED
      BY <2>1 DEF Quit, TypeInv, TypeOK, Lists
  <1>2. [i \in Ids |-> NoRow] \in [Ids -> Rows] /\ NoRow \in Rows
    BY NoRowType
  <1>3. QED
    BY <1>1, <1>2, TypeParts DEF Quit, TypeInv, TypeOK, dbVars

(* The decision on a pair: it is put back as <<winner, loser>>.            *)
LEMMA Decided ==
    ASSUME TypeInv, NEW d \in Dreamers, ReadTarget(d),
           src[d].status = "valid", Row(Head(cand[d])[2]).status = "valid", apply[d]
    PROVE  \E pair \in Couples :
              /\ \/ pair = Head(cand[d])
                 \/ pair = <<Head(cand[d])[2], Head(cand[d])[1]>>
              /\ cand' = [cand EXCEPT ![d] = <<pair>> \o Tail(@)]
              /\ <<pair>> \o Tail(cand[d]) \in Seq(Couples)
              /\ <<pair>> \o Tail(cand[d]) # <<>>
              /\ Head(<<pair>> \o Tail(cand[d])) = pair
              /\ src' = [src EXCEPT ![d] = NoRow]
              /\ pc' = [pc EXCEPT ![d] = "invalidate"]
  <1> DEFINE h == Head(cand[d])
             flip == <<h[2], h[1]>>
             pair == IF src[d].conf >= Row(h[2]).conf THEN h ELSE flip
  <1>1. cand[d] # <<>> /\ cand[d] \in Seq(Couples)
    BY DEF TypeInv, Lists, ReadTarget
  <1>2. h \in Couples /\ h[1] \in Ids /\ h[2] \in Ids
    BY <1>1, HeadIds
  <1>3. flip \in Couples
    <2>1. {h[2], h[1]} = {h[1], h[2]}
      OBVIOUS
    <2>2. {h[1], h[2]} \in Pairs
      BY <1>2 DEF Couples, Similar
    <2> HIDE DEF h
    <2>3. QED
      BY <1>2, <2>1, <2>2 DEF Couples, Similar
  <1>4. /\ cand' = [cand EXCEPT ![d] = <<pair>> \o Tail(@)]
        /\ src' = [src EXCEPT ![d] = NoRow]
        /\ pc' = [pc EXCEPT ![d] = "invalidate"]
    BY DEF ReadTarget
  <1> HIDE DEF h, flip
  <1>5. pair \in Couples /\ (pair = h \/ pair = flip)
    BY <1>2, <1>3
  <1> HIDE DEF pair
  <1>6. /\ <<pair>> \o Tail(cand[d]) \in Seq(Couples)
        /\ <<pair>> \o Tail(cand[d]) # <<>>
        /\ Head(<<pair>> \o Tail(cand[d])) = pair
    BY <1>1, <1>5, NewHead
  <1>7. QED
    BY <1>4, <1>5, <1>6 DEF h, flip

LEMMA TypeMerge ==
    ASSUME TypeInv, NEW d \in Dreamers,
           ReadSource(d) \/ ReadTarget(d) \/ InvalidateLoser(d) \/ Supersede(d)
    PROVE  TypeInv'
  <1>1. CASE ReadSource(d)
    <2>1. Row(Head(cand[d])[1]) \in Rows
      BY <1>1, HeadIds, RowType DEF ReadSource, TypeInv
    <2>2. Lists'
      BY <1>1 DEF ReadSource, TypeInv, TypeOK, Lists
    <2>3. QED
      BY <1>1, <2>1, <2>2, TypeParts DEF ReadSource, TypeInv, TypeOK, dbVars
  <1>2. CASE ReadTarget(d)
    <2>1. cand[d] # <<>> /\ UNCHANGED <<dbVars, fixedVars, apply, snap, todo, known>>
      BY <1>2 DEF ReadTarget, TypeInv, Lists
    <2>2. CASE src[d].status = "valid" /\ Row(Head(cand[d])[2]).status = "valid" /\ apply[d]
      <3>1. PICK pair \in Couples :
              /\ cand' = [cand EXCEPT ![d] = <<pair>> \o Tail(@)]
              /\ <<pair>> \o Tail(cand[d]) \in Seq(Couples)
              /\ <<pair>> \o Tail(cand[d]) # <<>>
              /\ src' = [src EXCEPT ![d] = NoRow]
              /\ pc' = [pc EXCEPT ![d] = "invalidate"]
        BY <1>2, <2>2, Decided
      <3> DEFINE list == <<pair>> \o Tail(cand[d])
      <3>2. list \in Seq(Couples) /\ list # <<>> /\ cand' = [cand EXCEPT ![d] = list]
        BY <3>1
      <3> HIDE DEF list
      <3>3. Lists'
        BY <3>1, <3>2 DEF TypeInv, TypeOK, Lists
      <3>4. src' \in [Dreamers -> Rows]
        BY <3>1, NoRowType DEF TypeInv, TypeOK
      <3>5. QED
        BY <2>1, <3>1, <3>3, <3>4, TypeParts DEF TypeInv, TypeOK, dbVars
    <2>3. CASE ~ (src[d].status = "valid" /\ Row(Head(cand[d])[2]).status = "valid"
                    /\ apply[d])
      <3>1. NextCandidate(d)
        BY <1>2, <2>3 DEF ReadTarget
      <3>2. QED
        BY <2>1, <3>1, TypeNext, TypeParts DEF TypeInv, TypeOK, dbVars
    <2>4. QED
      BY <2>2, <2>3
  <1>3. CASE InvalidateLoser(d)
    <2>1. cand[d] # <<>>
      BY <1>3 DEF InvalidateLoser, TypeInv, Lists
    <2>2. status' \in [Ids -> {"valid", "expired", "absent"}]
      BY <1>3, <2>1, HeadIds, CallsType DEF InvalidateLoser, TypeInv
    <2>3. Lists'
      BY <1>3 DEF InvalidateLoser, TypeInv, TypeOK, Lists
    <2>4. QED
      BY <1>3, <2>2, <2>3, TypeParts DEF InvalidateLoser, TypeInv, TypeOK
  <1>4. CASE Supersede(d)
    <2>1. cand[d] # <<>>
      BY <1>4 DEF Supersede, TypeInv, Lists
    <2>2. sup' \subseteq Ids \X Ids
      BY <1>4, <2>1, HeadIds, CallsType DEF Supersede, TypeInv
    <2>3. NextCandidate(d)
      BY <1>4 DEF Supersede
    <2>4. QED
      BY <1>4, <2>1, <2>2, <2>3, TypeNext, TypeParts DEF Supersede, TypeInv, TypeOK
  <1>5. QED
    BY <1>1, <1>2, <1>3, <1>4

LEMMA TypeLinks ==
    ASSUME TypeInv, NEW d \in Dreamers,
           FindLinks(d) \/ ReadRelations(d) \/ Link(d) \/ LinksDone(d)
    PROVE  TypeInv'
  <1>1. CASE FindLinks(d)
    <2> DEFINE pairs == ConsolidateDuplicates(ValidInOrder, PairsOf({"dup", "near"}))
    <2>1. pairs \in Seq(Couples)
      BY CouplesOf
    <2>2. /\ UNCHANGED <<dbVars, fixedVars, snap, todo, src, known>>
          /\ \/ /\ cand' = [cand EXCEPT ![d] = pairs]
                /\ pc' = [pc EXCEPT ![d] = "relations"]
                /\ UNCHANGED apply
             \/ /\ pc' = [pc EXCEPT ![d] = "idle"]
                /\ apply' = [apply EXCEPT ![d] = FALSE]
                /\ UNCHANGED cand
      BY <1>1 DEF FindLinks, pairs
    <2> HIDE DEF pairs
    <2>3. Lists'
      BY <2>1, <2>2 DEF TypeInv, TypeOK, Lists
    <2>4. QED
      BY <2>2, <2>3, TypeParts DEF TypeInv, TypeOK, dbVars
  <1>2. CASE ReadRelations(d)
    <2>1. Lists'
      BY <1>2 DEF ReadRelations, TypeInv, TypeOK, Lists
    <2>2. QED
      BY <1>2, <2>1, TypeParts DEF ReadRelations, TypeInv, TypeOK, dbVars
  <1>3. CASE Link(d)
    <2>1. cand[d] # <<>>
      BY <1>3 DEF Link
    <2>2. Unordered(Head(cand[d])) \in Pairs /\ Tail(cand[d]) \in Seq(Couples)
      BY <2>1, HeadIds
    <2>3. link' \in [Pairs -> 0 .. 2]
      <3>1. ASSUME NEW q \in Pairs PROVE Lesser(link[q] + 1, 2) \in 0 .. 2
        <4>1. link[q] \in 0 .. 2
          BY DEF TypeInv, TypeOK
        <4>2. QED
          BY <4>1 DEF Lesser
      <3>2. \/ link' = link
            \/ link' = [link EXCEPT ![Unordered(Head(cand[d]))] = Lesser(@ + 1, 2)]
        BY <1>3 DEF Link
      <3>3. QED
        BY <2>2, <3>1, <3>2 DEF TypeInv, TypeOK
    <2>4. known' \in [Dreamers -> SUBSET Pairs]
      BY <1>3, <2>2 DEF Link, TypeInv, TypeOK
    <2>5. Lists'
      BY <1>3, <2>2 DEF Link, TypeInv, TypeOK, Lists
    <2>6. QED
      BY <1>3, <2>3, <2>4, <2>5, TypeParts DEF Link, TypeInv, TypeOK
  <1>4. CASE LinksDone(d)
    BY <1>4, TypeQuit DEF LinksDone
  <1>5. QED
    BY <1>1, <1>2, <1>3, <1>4

LEMMA TypeFails ==
    ASSUME TypeInv, NEW d \in Dreamers, ReadFails(d)
    PROVE  TypeInv'
  <1>1. CASE Quit(d)
    BY <1>1, TypeQuit
  <1>2. CASE /\ pc[d] = "target" \/ (pc[d] = "merge" /\ cand[d] # <<>>)
             /\ NextCandidate(d)
             /\ UNCHANGED <<dbVars, fixedVars, apply, snap, todo, known>>
    <2>1. cand[d] # <<>>
      BY <1>2 DEF TypeInv, Lists
    <2>2. QED
      BY <1>2, <2>1, TypeNext, TypeParts DEF TypeInv, TypeOK, dbVars
  <1>3. CASE /\ pc' = [pc EXCEPT ![d] = "link"]
             /\ UNCHANGED <<dbVars, fixedVars, apply, cand, snap, todo, src, known>>
    <2>1. Lists'
      BY <1>3 DEF TypeInv, TypeOK, Lists
    <2>2. QED
      BY <1>3, <2>1, TypeParts DEF TypeInv, TypeOK, dbVars
  <1>4. QED
    BY <1>1, <1>2, <1>3 DEF ReadFails

LEMMA TypeUser ==
    ASSUME TypeInv, User
    PROVE  TypeInv'
  <1>1. UNCHANGED <<fixedVars, runVars>>
    BY DEF User
  <1>2. /\ status' \in [Ids -> {"valid", "expired", "absent"}]
        /\ conf' \in [Ids -> 0 .. Full]
        /\ sup' \subseteq Ids \X Ids
        /\ link' \in [Pairs -> 0 .. 2]
    <2>1. PICK i \in Ids :
            \/ /\ \E c \in InitConfs : SetConf(i, c)
               /\ UNCHANGED <<status, sup, link>>
            \/ /\ Expire(i)
               /\ UNCHANGED <<conf, sup, link>>
            \/ /\ status' = [status EXCEPT ![i] = "absent"]
               /\ sup' = {r \in sup : i \notin {r[1], r[2]}}
               /\ link' = [q \in Pairs |-> IF i \in q THEN 0 ELSE link[q]]
               /\ UNCHANGED conf
      BY DEF User, ValidIds
    <2>2. InitConfs \subseteq 0 .. Full
      BY NumbersAssumption
    <2>3. CASE (\E c \in InitConfs : SetConf(i, c)) /\ UNCHANGED <<status, sup, link>>
      BY <2>2, <2>3, CallsType DEF TypeInv, TypeOK
    <2>4. CASE Expire(i) /\ UNCHANGED <<conf, sup, link>>
      BY <2>4, CallsType DEF TypeInv, TypeOK
    <2>5. CASE /\ status' = [status EXCEPT ![i] = "absent"]
               /\ sup' = {r \in sup : i \notin {r[1], r[2]}}
               /\ link' = [q \in Pairs |-> IF i \in q THEN 0 ELSE link[q]]
               /\ UNCHANGED conf
      BY <2>5 DEF TypeInv, TypeOK
    <2>6. QED
      BY <2>1, <2>3, <2>4, <2>5
  <1>3. Lists'
    BY <1>1 DEF runVars, TypeInv, Lists
  <1>4. QED
    BY <1>1, <1>2, <1>3, TypeParts DEF TypeInv, TypeOK, runVars

LEMMA TypeStep == TypeInv /\ [Next]_vars => TypeInv'
  <1> SUFFICES ASSUME TypeInv, [Next]_vars
               PROVE  TypeInv'
    OBVIOUS
  <1>1. CASE User
    BY <1>1, TypeUser
  <1>2. ASSUME NEW d \in Dreamers, Begin(d) \/ Step(d) \/ ReadFails(d) \/ Crash(d)
        PROVE  TypeInv'
    BY <1>2, TypeLoops, TypeMerge, TypeLinks, TypeFails, TypeQuit DEF Step, Crash
  <1>3. CASE UNCHANGED vars
    BY <1>3 DEF vars, dbVars, fixedVars, runVars, TypeInv, TypeOK, Lists
  <1>4. QED
    BY <1>1, <1>2, <1>3 DEF Next

(* The tables and what the cycles hold keep their types; a list of         *)
(* candidates only ever has pairs of two memories.                         *)
THEOREM TypeCorrect == Spec => []TypeOK
  <1>1. TypeInv => TypeOK
    BY DEF TypeInv
  <1>2. QED
    BY TypeInit, TypeStep, <1>1, PTL DEF Spec

LEMMA TypeAlways == Spec => []TypeInv
  BY TypeInit, TypeStep, PTL DEF Spec
-----------------------------------------------------------------------------
(* A step of one cycle leaves the locals of the others alone.              *)
Act(d) == Begin(d) \/ Step(d) \/ ReadFails(d) \/ Crash(d)

LEMMA OthersKept ==
    ASSUME TypeInv, NEW e \in Dreamers, Act(e), NEW d \in Dreamers, d # e
    PROVE  RunOf(d)' = RunOf(d) /\ apply'[d] = apply[d]
  <1> USE DEF TypeInv, TypeOK, RunOf
  <1>1. Quit(e) => RunOf(d)' = RunOf(d) /\ apply'[d] = apply[d]
    BY DEF Quit
  <1>2. CASE Begin(e)
    BY <1>2 DEF Begin
  <1>3. CASE ReadMemories(e) \/ Decay(e) \/ DecayDone(e)
    BY <1>3 DEF ReadMemories, Decay, DecayDone
  <1>4. CASE Boost(e) \/ BoostDone(e)
    BY <1>4 DEF Boost, BoostDone
  <1>5. CASE ReadSource(e) \/ InvalidateLoser(e) \/ Supersede(e)
    BY <1>5 DEF ReadSource, InvalidateLoser, Supersede, NextCandidate
  <1>6. CASE ReadTarget(e)
    BY <1>6 DEF ReadTarget, NextCandidate
  <1>7. CASE FindLinks(e) \/ ReadRelations(e) \/ Link(e) \/ LinksDone(e)
    BY <1>1, <1>7 DEF FindLinks, ReadRelations, Link, LinksDone
  <1>8. CASE ReadFails(e) \/ Crash(e)
    BY <1>1, <1>8 DEF ReadFails, Crash, NextCandidate
  <1>9. QED
    BY <1>2, <1>3, <1>4, <1>5, <1>6, <1>7, <1>8 DEF Act, Step

(* Which steps of a cycle write which table.                               *)
LEMMA Writes ==
    ASSUME NEW d \in Dreamers, Act(d)
    PROVE  /\ Decay(d) \/ InvalidateLoser(d) \/ UNCHANGED status
           /\ Supersede(d) \/ UNCHANGED sup
           /\ Link(d) \/ UNCHANGED link
           /\ Decay(d) \/ Boost(d) \/ UNCHANGED conf
  <1> USE DEF dbVars
  <1>1. CASE Begin(d) \/ ReadFails(d) \/ Crash(d)
    BY <1>1 DEF Begin, ReadFails, Crash, Quit
  <1>2. CASE ReadMemories(d) \/ Decay(d) \/ DecayDone(d) \/ Boost(d) \/ BoostDone(d)
    BY <1>2 DEF ReadMemories, Decay, DecayDone, Boost, BoostDone
  <1>3. CASE ReadSource(d) \/ ReadTarget(d) \/ InvalidateLoser(d) \/ Supersede(d)
    BY <1>3 DEF ReadSource, ReadTarget, InvalidateLoser, Supersede
  <1>4. CASE FindLinks(d) \/ ReadRelations(d) \/ Link(d) \/ LinksDone(d)
    BY <1>4 DEF FindLinks, ReadRelations, Link, LinksDone, Quit
  <1>5. QED
    BY <1>1, <1>2, <1>3, <1>4 DEF Act, Step

(* No step makes a memory valid.                                           *)
LEMMA NeverRevived ==
    ASSUME TypeInv, [Next]_vars, NEW i \in Ids, status[i] # "valid"
    PROVE  status'[i] # "valid"
  <1>1. CASE User
    BY <1>1 DEF User, Expire, TypeInv, TypeOK, ValidIds
  <1>2. ASSUME NEW d \in Dreamers, Act(d)
        PROVE  status'[i] # "valid"
    <2>1. CASE Decay(d)
      BY <2>1 DEF Decay, Expire, TypeInv, TypeOK
    <2>2. CASE InvalidateLoser(d)
      BY <2>2 DEF InvalidateLoser, Expire, TypeInv, TypeOK
    <2>3. QED
      BY <1>2, <2>1, <2>2, Writes
  <1>3. CASE UNCHANGED vars
    BY <1>3 DEF vars, dbVars
  <1>4. QED
    BY <1>1, <1>2, <1>3 DEF Next, Act
-----------------------------------------------------------------------------
(* Superseded memories, as long as no call meets a lock: the invalidation  *)
(* has happened when the relation is about to be added.                    *)
LoserExpired == \A d \in Dreamers :
    pc[d] = "supersede" => status[Head(cand[d])[2]] # "valid"

SupInv == TypeInv /\ SupersededExpired /\ LoserExpired

LEMMA SupStep ==
    ASSUME \A e \in Envs : "lock" \notin e, SupInv, [Next]_vars
    PROVE  SupInv'
  <1> USE DEF SupInv
  <1>1. TypeInv'
    BY TypeStep
  <1>2. SupersededExpired'
    <2>1. ASSUME NEW d \in Dreamers, Supersede(d)
          PROVE  \A r \in sup' : status'[r[2]] # "valid"
      <3>1. \A r \in sup' : r \in sup \/ r = <<Head(cand[d])[1], Head(cand[d])[2]>>
        BY <2>1 DEF Supersede, Relate
      <3>2. status[Head(cand[d])[2]] # "valid" /\ status' = status
        BY <2>1 DEF Supersede, LoserExpired
      <3>3. QED
        BY <3>1, <3>2 DEF SupersededExpired
    <2>2. (\E d \in Dreamers : Supersede(d)) \/ sup' \subseteq sup
      BY Writes DEF Next, Act, User, vars, dbVars
    <2>3. CASE sup' \subseteq sup
      <3>1. \A r \in sup : r[2] \in Ids
        BY DEF TypeInv, TypeOK
      <3>2. QED
        BY <2>3, <3>1, NeverRevived DEF SupersededExpired
    <2>4. QED
      BY <2>1, <2>2, <2>3 DEF SupersededExpired
  <1>3. LoserExpired'
    <2> SUFFICES ASSUME NEW d \in Dreamers, pc'[d] = "supersede"
                 PROVE  status'[Head(cand'[d])[2]] # "valid"
      BY DEF LoserExpired
    <2>1. CASE InvalidateLoser(d)
      <3>1. cand[d] # <<>> /\ cand' = cand
        BY <2>1 DEF InvalidateLoser, TypeInv, Lists
      <3>2. Head(cand[d])[2] \in Ids
        BY <3>1, HeadIds
      <3>3. ~ Locked
        BY DEF Locked, TypeInv, TypeOK
      <3>4. QED
        BY <2>1, <3>1, <3>2, <3>3 DEF InvalidateLoser, Expire, TypeInv, TypeOK
    <2>2. CASE pc[d] = "supersede" /\ cand'[d] = cand[d]
      <3>1. Head(cand[d])[2] \in Ids
        BY <2>2, HeadIds DEF TypeInv, Lists
      <3>2. QED
        BY <2>2, <3>1, NeverRevived DEF LoserExpired
    <2>3. CASE Act(d) /\ ~ InvalidateLoser(d)
      <3>1. pc'[d] # "supersede"
        <4> USE DEF TypeInv, TypeOK
        <4>1. CASE Begin(d) \/ ReadFails(d) \/ Crash(d)
          BY <4>1 DEF Begin, ReadFails, Crash, Quit, NextCandidate
        <4>2. CASE ReadMemories(d) \/ Decay(d) \/ DecayDone(d) \/ Boost(d) \/ BoostDone(d)
          BY <4>2 DEF ReadMemories, Decay, DecayDone, Boost, BoostDone
        <4>3. CASE ReadSource(d) \/ ReadTarget(d) \/ Supersede(d)
          BY <4>3 DEF ReadSource, ReadTarget, Supersede, NextCandidate
        <4>4. CASE FindLinks(d) \/ ReadRelations(d) \/ Link(d) \/ LinksDone(d)
          BY <4>4 DEF FindLinks, ReadRelations, Link, LinksDone, Quit
        <4>5. QED
          BY <2>3, <4>1, <4>2, <4>3, <4>4 DEF Act, Step
      <3>2. QED
        BY <3>1
    <2>4. Act(d) \/ (pc'[d] = pc[d] /\ cand'[d] = cand[d])
      <3>1. ASSUME NEW e \in Dreamers, Act(e), e # d
            PROVE  pc'[d] = pc[d] /\ cand'[d] = cand[d]
        BY <3>1, OthersKept DEF RunOf
      <3>2. QED
        BY <3>1 DEF Next, Act, User, vars, runVars
    <2>5. QED
      BY <2>1, <2>2, <2>3, <2>4
  <1>4. QED
    BY <1>1, <1>2, <1>3

(* Where calls meet no lock, a memory recorded as superseded is never      *)
(* valid: any number of cycles, users and crashes beside each other.       *)
THEOREM SupersededAlwaysExpired ==
    ASSUME \A e \in Envs : "lock" \notin e
    PROVE  Spec => []SupersededExpired
  <1>1. Init => SupInv
    BY TypeInit DEF Init, SupInv, SupersededExpired, LoserExpired
  <1>2. SupInv /\ [Next]_vars => SupInv'
    BY SupStep
  <1>3. SupInv => SupersededExpired
    BY DEF SupInv
  <1>4. QED
    BY <1>1, <1>2, <1>3, PTL DEF Spec
-----------------------------------------------------------------------------
(* Dry runs: whoever is about to write was told to apply.                  *)
Writers == \A d \in Dreamers :
    pc[d] \in {"invalidate", "supersede", "relations", "link"} => apply[d]

DryInv == TypeInv /\ Writers

LEMMA DryStep == DryInv /\ [Next]_vars => DryInv'
  <1> SUFFICES ASSUME DryInv, [Next]_vars
               PROVE  DryInv'
    OBVIOUS
  <1> USE DEF DryInv
  <1>1. TypeInv'
    BY TypeStep
  <1>2. ASSUME NEW d \in Dreamers,
               pc'[d] \in {"invalidate", "supersede", "relations", "link"}
        PROVE  apply'[d]
    <2>1. CASE Act(d)
      <3> USE DEF TypeInv, TypeOK, Writers
      <3>1. CASE Begin(d) \/ ReadFails(d) \/ Crash(d)
        BY <1>2, <3>1 DEF Begin, ReadFails, Crash, Quit, NextCandidate
      <3>2. CASE ReadMemories(d) \/ Decay(d) \/ DecayDone(d) \/ Boost(d) \/ BoostDone(d)
        BY <1>2, <3>2 DEF ReadMemories, Decay, DecayDone, Boost, BoostDone
      <3>3. CASE ReadSource(d) \/ ReadTarget(d) \/ InvalidateLoser(d) \/ Supersede(d)
        BY <1>2, <3>3 DEF ReadSource, ReadTarget, InvalidateLoser, Supersede,
                          NextCandidate
      <3>4. CASE FindLinks(d) \/ ReadRelations(d) \/ Link(d) \/ LinksDone(d)
        BY <1>2, <3>4 DEF FindLinks, ReadRelations, Link, LinksDone, Quit
      <3>5. QED
        BY <2>1, <3>1, <3>2, <3>3, <3>4 DEF Act, Step
    <2>2. CASE pc'[d] = pc[d] /\ apply'[d] = apply[d]
      BY <1>2, <2>2 DEF Writers
    <2>3. Act(d) \/ (pc'[d] = pc[d] /\ apply'[d] = apply[d])
      <3>1. ASSUME NEW e \in Dreamers, Act(e), e # d
            PROVE  pc'[d] = pc[d] /\ apply'[d] = apply[d]
        BY <3>1, OthersKept DEF RunOf
      <3>2. QED
        BY <3>1 DEF Next, Act, User, vars, runVars
    <2>4. QED
      BY <2>1, <2>2, <2>3
  <1>3. QED
    BY <1>1, <1>2 DEF Writers

(* A cycle without --apply changes nothing in the database, whatever else  *)
(* runs beside it.                                                         *)
THEOREM DryRunAlwaysClean == Spec => DryRunWritesNothing
  <1>1. Init => DryInv
    BY TypeInit DEF Init, DryInv, Writers
  <1>2. DryInv /\ [Next]_vars =>
           [\A d \in Dreamers : ~ apply[d] /\ RunOf(d)' # RunOf(d) => UNCHANGED dbVars]_vars
    <2> SUFFICES ASSUME DryInv, Next, NEW d \in Dreamers, ~ apply[d],
                        RunOf(d)' # RunOf(d)
                 PROVE  UNCHANGED dbVars
      OBVIOUS
    <2>1. Act(d)
      <3>1. ASSUME NEW e \in Dreamers, Act(e), e # d
            PROVE  FALSE
        BY <3>1, OthersKept DEF DryInv
      <3>2. ~ User
        BY DEF User, runVars, RunOf
      <3>3. QED
        BY <3>1, <3>2 DEF Next, Act
    <2>2. ~ InvalidateLoser(d) /\ ~ Supersede(d) /\ ~ Link(d)
      BY DEF DryInv, Writers, InvalidateLoser, Supersede, Link
    <2>3. Decay(d) => UNCHANGED <<status, conf>>
      BY DEF Decay
    <2>4. Boost(d) => UNCHANGED <<status, conf>>
      BY DEF Boost
    <2>5. QED
      BY <2>1, <2>2, <2>3, <2>4, Writes DEF dbVars
  <1>3. QED
    BY <1>1, <1>2, DryStep, PTL DEF Spec, DryRunWritesNothing
-----------------------------------------------------------------------------
(* The two floors: decay stays below the confidence floor only if its own  *)
(* floor is lower, which the default settings (0.3 for both) do not meet.  *)
LEMMA BelowStaysBelow ==
    ASSUME DecayFloor < ConfidenceFloor, NEW c \in 0 .. Full, c < ConfidenceFloor, NEW i
    PROVE  Decayed(c, i) < ConfidenceFloor
  BY NumbersAssumption DEF Decayed, DecayAmount, Clamp, Lesser

(* A decay loop leaves a memory only by deciding about it.                 *)
LEMMA LeftByDecay ==
    ASSUME TypeInv, NEW d \in Dreamers, Act(d), pc[d] = "decay", pc'[d] = "decay"
    PROVE  Decay(d) \/ todo'[d] = todo[d]
  <1> USE DEF TypeInv, TypeOK
  <1>1. ~ Begin(d) /\ ~ Crash(d) /\ ~ ReadFails(d)
    BY DEF Begin, Crash, ReadFails, Quit
  <1>2. ~ ReadMemories(d) /\ ~ DecayDone(d) /\ ~ Boost(d) /\ ~ BoostDone(d)
    BY DEF ReadMemories, DecayDone, Boost, BoostDone
  <1>3. ~ ReadSource(d) /\ ~ ReadTarget(d) /\ ~ InvalidateLoser(d) /\ ~ Supersede(d)
    BY DEF ReadSource, ReadTarget, InvalidateLoser, Supersede
  <1>4. ~ FindLinks(d) /\ ~ ReadRelations(d) /\ ~ Link(d) /\ ~ LinksDone(d)
    BY DEF FindLinks, ReadRelations, Link, LinksDone
  <1>5. QED
    BY <1>1, <1>2, <1>3, <1>4 DEF Act, Step

(* Where the decay floor is below the confidence floor and calls meet no   *)
(* lock, no memory that the deep phase read below the confidence floor is  *)
(* valid when its loop is past it, whatever others do (dream.go).          *)
THEOREM AlwaysInvalidated ==
    ASSUME DecayFloor < ConfidenceFloor, \A e \in Envs : "lock" \notin e
    PROVE  Spec => BelowFloorInvalidated
  <1>1. TypeInv /\ [Next]_vars =>
          [\A d \in Dreamers : pc[d] = "decay" /\ pc'[d] = "decay" /\ apply[d] =>
              \A i \in todo[d] \ todo'[d] :
                  snap[d][i].conf < ConfidenceFloor => status'[i] # "valid"]_vars
    <2> SUFFICES ASSUME TypeInv, Next, NEW d \in Dreamers,
                        pc[d] = "decay", pc'[d] = "decay", apply[d],
                        NEW i \in todo[d] \ todo'[d],
                        snap[d][i].conf < ConfidenceFloor
                 PROVE  status'[i] # "valid"
      OBVIOUS
    <2>1. Act(d)
      <3>1. ASSUME NEW e \in Dreamers, Act(e), e # d
            PROVE  todo'[d] = todo[d]
        BY <3>1, OthersKept DEF RunOf
      <3>2. User => todo'[d] = todo[d]
        BY DEF User, runVars
      <3>3. QED
        BY <3>1, <3>2 DEF Next, Act
    <2>2. Decay(d)
      BY <2>1, LeftByDecay
    <2>3. PICK j \in todo[d] :
             LET c == Decayed(snap[d][j].conf, j) IN
             /\ IF ~apply[d] THEN UNCHANGED <<status, conf>>
                ELSE IF c < ConfidenceFloor THEN Expire(j) /\ UNCHANGED conf
                ELSE SetConf(j, c) /\ UNCHANGED status
             /\ todo' = [todo EXCEPT ![d] = @ \ {j}]
      BY <2>2 DEF Decay
    <2>4. i = j /\ i \in Ids
      BY <2>3 DEF TypeInv, TypeOK
    <2>5. snap[d][i].conf \in 0 .. Full
      BY <2>4 DEF TypeInv, TypeOK, Rows
    <2>6. Decayed(snap[d][i].conf, i) < ConfidenceFloor
      BY <2>5, BelowStaysBelow
    <2>7. Expire(i)
      BY <2>3, <2>4, <2>6
    <2>8. ~ Locked
      BY DEF Locked, TypeInv, TypeOK
    <2>9. QED
      BY <2>4, <2>7, <2>8 DEF Expire, TypeInv, TypeOK
  <1>2. QED
    BY <1>1, TypeAlways, PTL DEF Spec, BelowFloorInvalidated
-----------------------------------------------------------------------------
(* Links: a cycle that runs alone knows of every link while it adds more.  *)
LinksKnown == \A d \in Dreamers :
    pc[d] = "link" => \A q \in Pairs : link[q] > 0 => q \in known[d]

LinkInv == TypeInv /\ NoDuplicateLinks /\ LinksKnown

LEMMA LinkStep ==
    ASSUME \A d, e \in Dreamers : d = e,
           \A e \in Envs : "readfail" \notin e,
           LinkInv, [Next]_vars
    PROVE  LinkInv'
  <1> USE DEF LinkInv
  <1>1. TypeInv'
    BY TypeStep
  <1>2. ASSUME \A q \in Pairs : link'[q] = link[q] \/ link'[q] = 0,
               \A d \in Dreamers : pc'[d] = "link" =>
                  pc[d] = "link" /\ known'[d] = known[d]
        PROVE  NoDuplicateLinks' /\ LinksKnown'
    BY <1>2 DEF NoDuplicateLinks, LinksKnown
  <1>3. CASE User
    <2>1. \A q \in Pairs : link'[q] = link[q] \/ link'[q] = 0
      BY <1>3 DEF User
    <2>2. QED
      BY <1>1, <1>2, <1>3, <2>1 DEF User, runVars
  <1>4. CASE UNCHANGED vars
    BY <1>1, <1>2, <1>4 DEF vars, dbVars, runVars
  <1>5. ASSUME NEW d \in Dreamers, Act(d)
        PROVE  NoDuplicateLinks' /\ LinksKnown'
    <2>1. \A e \in Dreamers : e = d
      OBVIOUS
    <2>2. CASE Link(d)
      <3>1. /\ pc[d] = "link" /\ UNCHANGED pc /\ cand[d] # <<>>
            /\ known' = [known EXCEPT ![d] = @ \cup {Unordered(Head(cand[d]))}]
        BY <2>2 DEF Link
      <3> DEFINE q0 == Unordered(Head(cand[d]))
      <3>2. q0 \in Pairs
        BY <3>1, HeadIds
      <3>3. \/ link' = link
            \/ q0 \notin known[d] /\ link' = [link EXCEPT ![q0] = Lesser(@ + 1, 2)]
        BY <2>2 DEF Link
      <3> HIDE DEF q0
      <3>4. q0 \notin known[d] => link[q0] = 0
        <4>1. link[q0] \in 0 .. 2
          BY <3>2 DEF TypeInv, TypeOK
        <4>2. link[q0] > 0 => q0 \in known[d]
          BY <3>1, <3>2 DEF LinksKnown
        <4>3. QED
          BY <4>1, <4>2
      <3>5. known'[d] = known[d] \cup {q0}
        BY <3>1 DEF q0, TypeInv, TypeOK
      <3>6. \A q \in Pairs : link'[q] = link[q] \/ (q = q0 /\ link'[q] = 1)
        BY <3>3, <3>4 DEF TypeInv, TypeOK, Lesser
      <3>7. NoDuplicateLinks'
        BY <3>6 DEF NoDuplicateLinks
      <3>8. LinksKnown'
        BY <2>1, <3>1, <3>5, <3>6 DEF LinksKnown
      <3>9. QED
        BY <3>7, <3>8
    <2>3. CASE ReadRelations(d)
      <3>1. link' = link /\ known'[d] = {q \in Pairs : link[q] > 0}
        BY <2>3 DEF ReadRelations, dbVars, TypeInv, TypeOK
      <3>2. QED
        BY <2>1, <3>1 DEF NoDuplicateLinks, LinksKnown
    <2>4. CASE ~ Link(d) /\ ~ ReadRelations(d)
      <3>1. link' = link
        BY <1>5, <2>4, Writes
      <3>2. pc'[d] = "link" => pc[d] = "link" /\ known'[d] = known[d]
        <4> USE DEF TypeInv, TypeOK
        <4>1. CASE Begin(d) \/ Crash(d)
          BY <4>1 DEF Begin, Crash, Quit
        <4>2. CASE ReadFails(d)
          BY <4>2 DEF ReadFails
        <4>3. CASE ReadMemories(d) \/ Decay(d) \/ DecayDone(d) \/ Boost(d) \/ BoostDone(d)
          BY <4>3 DEF ReadMemories, Decay, DecayDone, Boost, BoostDone
        <4>4. CASE ReadSource(d) \/ ReadTarget(d) \/ InvalidateLoser(d) \/ Supersede(d)
          BY <4>4 DEF ReadSource, ReadTarget, InvalidateLoser, Supersede, NextCandidate
        <4>5. CASE FindLinks(d) \/ LinksDone(d)
          BY <4>5 DEF FindLinks, LinksDone, Quit
        <4>6. QED
          BY <1>5, <2>4, <4>1, <4>2, <4>3, <4>4, <4>5 DEF Act, Step
      <3>3. \A e \in Dreamers : pc'[e] = "link" => pc[e] = "link" /\ known'[e] = known[e]
        BY <2>1, <3>2
      <3>4. \A q \in Pairs : link'[q] = link[q] \/ link'[q] = 0
        BY <3>1
      <3>5. QED
        BY <1>2, <3>3, <3>4
    <2>5. QED
      BY <2>2, <2>3, <2>4
  <1>6. QED
    BY <1>1, <1>3, <1>4, <1>5 DEF Next, Act

(* Cycles one after the other, crashes and users between them: no pair is  *)
(* ever linked twice, as long as the existing links can be read.           *)
THEOREM NeverLinkedTwice ==
    ASSUME \A d, e \in Dreamers : d = e,
           \A e \in Envs : "readfail" \notin e
    PROVE  Spec => []NoDuplicateLinks
  <1>1. Init => LinkInv
    BY TypeInit DEF Init, LinkInv, NoDuplicateLinks, LinksKnown
  <1>2. LinkInv /\ [Next]_vars => LinkInv'
    BY LinkStep
  <1>3. LinkInv => NoDuplicateLinks
    BY DEF LinkInv
  <1>4. QED
    BY <1>1, <1>2, <1>3, PTL DEF Spec
-----------------------------------------------------------------------------
(* Merges of cycles one after the other.  Chains(E): following E from any  *)
(* memory expired one gets out of every set of expired memories.           *)
Expired == {i \in Ids : status[i] = "expired"}

Chains(I, X, E) ==
    \A S \in SUBSET X : S # {} => \E l \in S, w \in I \ S : <<w, l>> \in E

Dups == {p \in Ids \X Ids : score[{p[1], p[2]}] = "dup"}

(* Merges that have expired the loser and not yet recorded it.             *)
Pending == {Head(cand[d]) : d \in {e \in Dreamers : pc[e] = "supersede"}}

(* What a merge has read still holds when it writes.                       *)
MergeReads == \A d \in Dreamers :
    /\ pc[d] \in {"search", "decay", "boost", "merge", "target", "invalidate",
                  "supersede"} => cand[d] \in Seq(DupCouples)
    /\ pc[d] = "target" /\ src[d].status = "valid" =>
          status[Head(cand[d])[1]] = "valid"
    /\ pc[d] = "invalidate" =>
          status[Head(cand[d])[1]] = "valid" /\ status[Head(cand[d])[2]] = "valid"
    /\ pc[d] = "supersede" => status[Head(cand[d])[1]] = "valid"

MergeInv ==
    /\ TypeInv /\ MergeReads
    /\ Chains(Ids, Expired, Dups)
    /\ env \subseteq {"confidence"} => Chains(Ids, Expired, sup \cup Pending)

(* One process, no user who expires or deletes memories, and no memory     *)
(* that decays away: expired memories are those that lost a merge.         *)
MergesAlone ==
    /\ \A d, e \in Dreamers : d = e
    /\ \A e \in Envs : "invalidate" \notin e /\ "delete" \notin e
    /\ ConfidenceFloor <= DecayFloor

(* A chain stays one when a memory expires for one that does not.          *)
LEMMA OneMore ==
    ASSUME NEW I, NEW X, NEW E, Chains(I, X, E),
           NEW l \in I, NEW w \in I, w \notin X, w # l, <<w, l>> \in E
    PROVE  Chains(I, X \cup {l}, E)
  <1> SUFFICES ASSUME NEW S \in SUBSET (X \cup {l}), S # {}
               PROVE  \E m \in S, v \in I \ S : <<v, m>> \in E
    BY DEF Chains
  <1>1. CASE l \in S
    BY <1>1
  <1>2. CASE l \notin S
    BY <1>2 DEF Chains
  <1>3. QED
    BY <1>1, <1>2

LEMMA MoreEdges ==
    ASSUME NEW I, NEW X, NEW E, NEW F, Chains(I, X, E), E \subseteq F
    PROVE  Chains(I, X, F)
  BY DEF Chains

LEMMA DupFacts ==
    ASSUME TypeInv, NEW p \in DupCouples
    PROVE  /\ p = <<p[1], p[2]>> /\ p[1] \in Ids /\ p[2] \in Ids
           /\ p[1] # p[2] /\ p \in Dups
           /\ <<p[2], p[1]>> \in DupCouples
  <1>1. p \in Ids \X Ids /\ {p[1], p[2]} \in Pairs /\ score[{p[1], p[2]}] = "dup"
    BY DEF DupCouples, Similar, PairsOf
  <1>2. p[1] # p[2]
    BY <1>1 DEF Pairs
  <1>3. {p[2], p[1]} = {p[1], p[2]}
    OBVIOUS
  <1>4. <<p[2], p[1]>> \in DupCouples
    BY <1>1, <1>3 DEF DupCouples, Similar, PairsOf
  <1>5. QED
    BY <1>1, <1>2, <1>4 DEF Dups

LEMMA NoDecayAway ==
    ASSUME MergesAlone, TypeInv, NEW d \in Dreamers, Decay(d)
    PROVE  UNCHANGED status
  <1>1. ASSUME NEW c \in 0 .. Full, NEW i
        PROVE  ~ (Decayed(c, i) < ConfidenceFloor)
    BY NumbersAssumption DEF MergesAlone, Decayed, Clamp, Lesser, DecayAmount
  <1>2. \A i \in todo[d] : snap[d][i].conf \in 0 .. Full
    BY DEF TypeInv, TypeOK, Rows
  <1>3. QED
    BY <1>1, <1>2 DEF Decay

LEMMA StatusKept ==
    ASSUME MergesAlone, TypeInv, [Next]_vars
    PROVE  /\ UNCHANGED score /\ UNCHANGED env
           /\ (\E d \in Dreamers : InvalidateLoser(d)) \/ UNCHANGED status
  <1>1. User => UNCHANGED <<status, fixedVars>>
    BY DEF User, MergesAlone, TypeInv, TypeOK
  <1>2. ASSUME NEW d \in Dreamers, Act(d)
        PROVE  InvalidateLoser(d) \/ UNCHANGED status
    BY <1>2, Writes, NoDecayAway
  <1>3. ASSUME NEW d \in Dreamers, Act(d)
        PROVE  UNCHANGED fixedVars
    <2>1. CASE Begin(d) \/ ReadFails(d) \/ Crash(d)
      BY <2>1 DEF Begin, ReadFails, Crash, Quit
    <2>2. CASE ReadMemories(d) \/ Decay(d) \/ DecayDone(d) \/ Boost(d) \/ BoostDone(d)
      BY <2>2 DEF ReadMemories, Decay, DecayDone, Boost, BoostDone
    <2>3. CASE ReadSource(d) \/ ReadTarget(d) \/ InvalidateLoser(d) \/ Supersede(d)
      BY <2>3 DEF ReadSource, ReadTarget, InvalidateLoser, Supersede
    <2>4. CASE FindLinks(d) \/ ReadRelations(d) \/ Link(d) \/ LinksDone(d)
      BY <2>4 DEF FindLinks, ReadRelations, Link, LinksDone, Quit
    <2>5. QED
      BY <1>3, <2>1, <2>2, <2>3, <2>4 DEF Act, Step
  <1>4. QED
    BY <1>1, <1>2, <1>3 DEF Next, Act, vars, dbVars, fixedVars

Early == {"search", "decay", "boost", "merge", "target", "invalidate", "supersede"}

(* What a single cycle holds to be true of its pair stays true.            *)
LEMMA ReadsStep ==
    ASSUME MergesAlone, TypeInv, MergeReads, NEW d \in Dreamers, Act(d)
    PROVE  MergeReads'
  <1> USE DEF MergeReads
  <1>1. \A e \in Dreamers : e = d
    BY DEF MergesAlone
  <1>2. UNCHANGED score
    BY StatusKept DEF Next, Act
  <1>3. DupCouples' = DupCouples
    BY <1>2 DEF DupCouples, PairsOf
  <1>4. SUFFICES
          /\ pc'[d] \in Early => cand'[d] \in Seq(DupCouples)
          /\ pc'[d] = "target" /\ src'[d].status = "valid" =>
                status'[Head(cand'[d])[1]] = "valid"
          /\ pc'[d] = "invalidate" => /\ status'[Head(cand'[d])[1]] = "valid"
                                      /\ status'[Head(cand'[d])[2]] = "valid"
          /\ pc'[d] = "supersede" => status'[Head(cand'[d])[1]] = "valid"
    BY <1>1, <1>3 DEF Early
  <1>5. ASSUME NextCandidate(d), cand[d] # <<>>, cand[d] \in Seq(DupCouples)
        PROVE  pc'[d] = "merge" /\ cand'[d] \in Seq(DupCouples)
    BY <1>5, HeadTailType DEF NextCandidate, TypeInv, TypeOK
  <1>6. Quit(d) => pc'[d] = "idle"
    BY DEF Quit, TypeInv, TypeOK
  <1>7. CASE Begin(d)
    <2> DEFINE pairs == ConsolidateDuplicates(ValidInOrder, PairsOf({"dup"}))
    <2>1. pairs \in Seq(DupCouples)
      BY CouplesOf DEF DupCouples
    <2>2. pc' = [pc EXCEPT ![d] = "search"] /\
          \E c \in {SubSeq(pairs, 1, Lesser(MergeCap, Len(pairs))), <<>>} :
                cand' = [cand EXCEPT ![d] = c]
      BY <1>7 DEF Begin, pairs
    <2> HIDE DEF pairs
    <2>3. SubSeq(pairs, 1, Lesser(MergeCap, Len(pairs))) \in Seq(DupCouples)
      BY <2>1, Capped
    <2>4. <<>> \in Seq(DupCouples)
      OBVIOUS
    <2>5. PICK c : /\ c \in {SubSeq(pairs, 1, Lesser(MergeCap, Len(pairs))), <<>>}
                   /\ cand' = [cand EXCEPT ![d] = c]
      BY <2>2
    <2>6. c \in Seq(DupCouples)
      BY <2>3, <2>4, <2>5
    <2>7. pc'[d] = "search" /\ cand'[d] \in Seq(DupCouples)
      BY <2>2, <2>5, <2>6 DEF TypeInv, TypeOK
    <2>8. QED
      BY <2>7
  <1>8. CASE ReadMemories(d) \/ Decay(d) \/ DecayDone(d) \/ Boost(d) \/ BoostDone(d)
    <2>1. cand' = cand /\ pc[d] \in Early /\ pc'[d] \in {"decay", "boost", "merge"}
      BY <1>8 DEF ReadMemories, Decay, DecayDone, Boost, BoostDone, TypeInv, TypeOK,
                  Early
    <2>2. QED
      BY <2>1 DEF Early
  <1>9. CASE ReadSource(d)
    <2>1. /\ pc[d] = "merge" /\ pc'[d] = "target" /\ cand' = cand /\ status' = status
          /\ src'[d] = Row(Head(cand[d])[1])
      BY <1>9 DEF ReadSource, dbVars, TypeInv, TypeOK
    <2>2. Row(Head(cand[d])[1]).status = status[Head(cand[d])[1]]
      BY DEF Row
    <2>3. QED
      BY <2>1, <2>2
  <1>10. CASE ReadTarget(d)
    <2>1. /\ pc[d] = "target" /\ cand[d] # <<>> /\ cand[d] \in Seq(DupCouples)
          /\ status' = status
      BY <1>10 DEF ReadTarget, dbVars, TypeInv, Lists
    <2> DEFINE h == Head(cand[d])
    <2>2. h \in DupCouples
      BY <2>1, HeadTailType
    <2>3. <<h[2], h[1]>> \in DupCouples
      BY <2>2, DupFacts
    <2>4. CASE src[d].status = "valid" /\ Row(h[2]).status = "valid" /\ apply[d]
      <3>1. status[h[1]] = "valid" /\ status[h[2]] = "valid"
        BY <2>1, <2>4 DEF Row
      <3>2. PICK pair \in Couples :
              /\ pair = h \/ pair = <<h[2], h[1]>>
              /\ cand' = [cand EXCEPT ![d] = <<pair>> \o Tail(@)]
              /\ Head(<<pair>> \o Tail(cand[d])) = pair
              /\ pc' = [pc EXCEPT ![d] = "invalidate"]
        BY <1>10, <2>4, Decided
      <3> DEFINE list == <<pair>> \o Tail(cand[d])
      <3> HIDE DEF h
      <3>3. pair \in DupCouples
        BY <2>2, <2>3, <3>2
      <3>4. list \in Seq(DupCouples) /\ Head(list) = pair
        BY <2>1, <3>3, NewHead
      <3>5. cand' = [cand EXCEPT ![d] = list]
        BY <3>2
      <3> HIDE DEF list
      <3>6. cand'[d] = list /\ pc'[d] = "invalidate"
        BY <3>2, <3>5 DEF TypeInv, TypeOK
      <3>7. status[pair[1]] = "valid" /\ status[pair[2]] = "valid"
        BY <3>1, <3>2
      <3>8. QED
        BY <2>1, <3>4, <3>6, <3>7
    <2>5. CASE ~ (src[d].status = "valid" /\ Row(h[2]).status = "valid" /\ apply[d])
      <3>1. NextCandidate(d)
        BY <1>10, <2>5 DEF ReadTarget
      <3>2. QED
        BY <1>5, <2>1, <3>1
    <2>6. QED
      BY <2>4, <2>5
  <1>11. CASE InvalidateLoser(d)
    <2>1. /\ pc[d] = "invalidate" /\ pc'[d] = "supersede" /\ cand' = cand
          /\ cand[d] # <<>> /\ cand[d] \in Seq(DupCouples) /\ Expire(Head(cand[d])[2])
      BY <1>11 DEF InvalidateLoser, TypeInv, TypeOK, Lists
    <2>2. Head(cand[d]) \in DupCouples
      BY <2>1, HeadTailType
    <2>3. /\ Head(cand[d])[1] \in Ids /\ Head(cand[d])[2] \in Ids
          /\ Head(cand[d])[1] # Head(cand[d])[2]
      BY <2>2, DupFacts
    <2>4. status'[Head(cand[d])[1]] = status[Head(cand[d])[1]]
      BY <2>1, <2>3 DEF Expire, TypeInv, TypeOK
    <2>5. QED
      BY <2>1, <2>4
  <1>12. CASE Supersede(d)
    <2>1. NextCandidate(d) /\ cand[d] # <<>> /\ cand[d] \in Seq(DupCouples)
      BY <1>12 DEF Supersede, TypeInv, Lists
    <2>2. QED
      BY <1>5, <2>1
  <1>13. CASE FindLinks(d) \/ ReadRelations(d) \/ Link(d) \/ LinksDone(d)
    <2>1. pc'[d] \in {"relations", "link", "idle"}
      BY <1>6, <1>13 DEF FindLinks, ReadRelations, Link, LinksDone, TypeInv, TypeOK
    <2>2. QED
      BY <2>1 DEF Early
  <1>14. CASE ReadFails(d)
    <2>1. Quit(d) \/ pc'[d] = "link" \/
            (NextCandidate(d) /\ cand[d] # <<>> /\ cand[d] \in Seq(DupCouples))
      BY <1>14 DEF ReadFails, TypeInv, TypeOK, Lists
    <2>2. QED
      BY <1>5, <1>6, <2>1 DEF Early
  <1>15. CASE Crash(d)
    BY <1>6, <1>15 DEF Crash, Early
  <1>16. QED
    BY <1>7, <1>8, <1>9, <1>10, <1>11, <1>12, <1>13, <1>14, <1>15 DEF Act, Step

LEMMA MergeStep ==
    ASSUME MergesAlone, MergeInv, [Next]_vars
    PROVE  MergeInv'
  <1> USE DEF MergeInv
  <1>1. TypeInv'
    BY TypeStep
  <1>2. UNCHANGED score /\ UNCHANGED env
    BY StatusKept
  <1>3. Dups' = Dups
    BY <1>2 DEF Dups
  <1>4. CASE UNCHANGED vars
    BY <1>1, <1>3, <1>4 DEF vars, dbVars, fixedVars, runVars, MergeReads, DupCouples,
                            PairsOf, Expired, Pending
  <1>5. CASE User
    <2>1. UNCHANGED status
      BY <1>5, StatusKept DEF User, InvalidateLoser, runVars, TypeInv, TypeOK
    <2>2. UNCHANGED runVars /\ UNCHANGED sup
      BY <1>5 DEF User, MergesAlone, TypeInv, TypeOK
    <2>3. QED
      BY <1>1, <1>2, <1>3, <2>1, <2>2 DEF runVars, MergeReads, DupCouples, PairsOf,
                                          Expired, Pending
  <1>6. ASSUME NEW d \in Dreamers, Act(d)
        PROVE  MergeInv'
    <2>1. MergeReads'
      BY <1>6, ReadsStep
    <2>2. \A e \in Dreamers : e = d
      BY DEF MergesAlone
    <2>3. CASE InvalidateLoser(d)
      <3> DEFINE h == Head(cand[d])
      <3>1. /\ pc[d] = "invalidate" /\ pc'[d] = "supersede" /\ cand' = cand
            /\ cand[d] # <<>> /\ cand[d] \in Seq(DupCouples) /\ Expire(h[2])
            /\ sup' = sup
        BY <2>3 DEF InvalidateLoser, TypeInv, TypeOK, Lists, MergeReads
      <3>2. h \in DupCouples
        BY <3>1, HeadTailType
      <3>3. /\ h[1] \in Ids /\ h[2] \in Ids /\ h[1] # h[2] /\ h \in Dups
            /\ h = <<h[1], h[2]>>
        BY <3>2, DupFacts
      <3>4. status[h[1]] = "valid" /\ status[h[2]] = "valid"
        BY <3>1 DEF MergeReads
      <3>5. h[1] \notin Expired
        BY <3>4 DEF Expired
      <3>6. Pending' = {h}
        BY <2>2, <3>1 DEF Pending
      <3> HIDE DEF h
      <3>7. Expired' = Expired \cup {h[2]} \/ (Locked /\ Expired' = Expired)
        BY <3>1, <3>3, <3>4 DEF Expire, Expired, TypeInv, TypeOK
      <3>8. Chains(Ids, Expired', Dups)
        <4>1. <<h[1], h[2]>> \in Dups
          BY <3>3
        <4>2. Chains(Ids, Expired \cup {h[2]}, Dups)
          BY <3>3, <3>5, <4>1, OneMore
        <4>3. QED
          BY <3>7, <4>2
      <3>9. ASSUME env \subseteq {"confidence"}
            PROVE  Chains(Ids, Expired', sup' \cup Pending')
        <4>1. ~ Locked
          BY <3>9 DEF Locked
        <4>2. Pending = {}
          BY <2>2, <3>1 DEF Pending
        <4>3. Chains(Ids, Expired, sup \cup {h})
          BY <3>9, <4>2, MoreEdges
        <4>4. <<h[1], h[2]>> \in sup \cup {h}
          BY <3>3
        <4>5. Chains(Ids, Expired \cup {h[2]}, sup \cup {h})
          BY <3>3, <3>5, <4>3, <4>4, OneMore
        <4>6. QED
          BY <3>1, <3>6, <3>7, <4>1, <4>5
      <3>10. QED
        BY <1>1, <1>2, <1>3, <2>1, <3>8, <3>9
    <2>4. CASE ~ InvalidateLoser(d)
      <3>1. status' = status
        BY <1>6, <2>2, <2>4, StatusKept DEF Next, Act
      <3>2. Expired' = Expired
        BY <3>1 DEF Expired
      <3>3. ASSUME env \subseteq {"confidence"}
            PROVE  sup \cup Pending \subseteq sup' \cup Pending'
        <4>1. CASE Supersede(d)
          <5>1. /\ pc[d] = "supersede" /\ ~ Locked /\ Relate(Head(cand[d])[1], Head(cand[d])[2])
                /\ cand[d] # <<>> /\ cand[d] \in Seq(DupCouples)
            BY <3>3, <4>1 DEF Supersede, Locked, TypeInv, Lists, MergeReads
          <5>2. Head(cand[d]) = <<Head(cand[d])[1], Head(cand[d])[2]>>
            BY <5>1, HeadTailType, DupFacts
          <5>3. status[Head(cand[d])[1]] = "valid"
            BY <5>1 DEF MergeReads
          <5>4. sup' = sup \cup {Head(cand[d])}
            BY <5>1, <5>2, <5>3 DEF Relate
          <5>5. Pending \subseteq {Head(cand[d])}
            BY <2>2 DEF Pending
          <5>6. QED
            BY <5>4, <5>5
        <4>2. CASE ~ Supersede(d)
          <5>1. sup' = sup
            BY <1>6, <4>2, Writes
          <5>2. pc[d] # "supersede"
            <6> SUFFICES ASSUME pc[d] = "supersede" PROVE FALSE
              OBVIOUS
            <6>1. ~ Crash(d) /\ ~ ReadFails(d)
              BY <3>3 DEF Crash, ReadFails
            <6>2. QED
              BY <1>6, <2>4, <4>2, <6>1 DEF Act, Step, Begin, ReadMemories, Decay,
                 DecayDone, Boost, BoostDone, ReadSource, ReadTarget, FindLinks,
                 ReadRelations, Link, LinksDone
          <5>3. Pending = {}
            BY <2>2, <5>2 DEF Pending
          <5>4. QED
            BY <5>1, <5>3
        <4>3. QED
          BY <4>1, <4>2
      <3>4. env \subseteq {"confidence"} => Chains(Ids, Expired', sup' \cup Pending')
        BY <3>2, <3>3, MoreEdges
      <3>5. QED
        BY <1>1, <1>2, <1>3, <2>1, <3>2, <3>4
    <2>5. QED
      BY <2>3, <2>4
  <1>7. QED
    BY <1>4, <1>5, <1>6 DEF Next, Act

LEMMA MergeInit == Init => MergeInv
  <1> SUFFICES ASSUME Init PROVE MergeInv
    OBVIOUS
  <1>1. TypeInv
    BY TypeInit
  <1>2. MergeReads
    BY DEF Init, MergeReads
  <1>3. Expired = {}
    BY DEF Init, Expired
  <1>4. \A E : Chains(Ids, Expired, E)
    BY <1>3 DEF Chains
  <1>5. QED
    BY <1>1, <1>2, <1>4 DEF MergeInv

(* Merging loses nothing: as long as memories expire by merges of one      *)
(* process at a time, every set of expired memories has a near-duplicate   *)
(* outside it, over any number of cycles, crashes and failed calls.        *)
THEOREM ClusterAlwaysSurvives ==
    ASSUME MergesAlone
    PROVE  Spec => []ClusterSurvives
  <1>1. MergeInv /\ [Next]_vars => MergeInv'
    BY MergeStep
  <1>2. MergeInv => ClusterSurvives
    <2> SUFFICES ASSUME MergeInv, NEW S \in SUBSET Expired, S # {}
                 PROVE  \E l \in S, w \in Ids \ S : score[{w, l}] = "dup"
      BY DEF ClusterSurvives, Expired
    <2>1. PICK l \in S, w \in Ids \ S : <<w, l>> \in Dups
      BY DEF MergeInv, Chains
    <2>2. QED
      BY <2>1 DEF Dups
  <1>3. QED
    BY <1>1, <1>2, MergeInit, PTL DEF Spec

(* Under the same conditions the "supersedes" relations lead from every    *)
(* merged memory to a valid one whenever no cycle is running and nothing   *)
(* can cut a merge short.                                                  *)
THEOREM SupersededAlwaysTraceable ==
    ASSUME MergesAlone
    PROVE  Spec => []SupersededTraceable
  <1>1. MergeInv /\ [Next]_vars => MergeInv'
    BY MergeStep
  <1>2. MergeInv => SupersededTraceable
    <2> SUFFICES ASSUME MergeInv, Idle, env \subseteq {"confidence"}
                 PROVE  Chains(Ids, Expired, sup)
      BY DEF SupersededTraceable, Expired, Chains
    <2>1. Pending = {}
      BY DEF Pending, Idle
    <2>2. QED
      BY <2>1 DEF MergeInv
  <1>3. QED
    BY <1>1, <1>2, MergeInit, PTL DEF Spec

=============================================================================
