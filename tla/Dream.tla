-------------------------------- MODULE Dream --------------------------------
(***************************************************************************)
(* The dream cycle (internal/dream), one process per `llmem dream`, over   *)
(* the memory table it shares with other dream runs (the nightly timer and *)
(* a manual run) and with users.  Every store call is one or more actions, *)
(* and what the run read before a call may be stale by then.               *)
(*                                                                         *)
(* Memories are numbered in table order.  Confidence is counted in units   *)
(* of the boost and decay steps (0.05).  Whether a memory is idle, a stale *)
(* procedure or often accessed, and how similar two memories are, is fixed *)
(* for a behaviour; a memory without an embedding is one similar to none.  *)
(***************************************************************************)
EXTENDS Consolidate, FiniteSets

CONSTANTS
    N,           \* number of memories, fewer than the limit of a query (500)
    Dreamers,    \* dream processes
    Full,        \* confidence 1.0
    DecayRate, BoostAmount, DecayFloor, ConfidenceFloor,
    MergeCap,    \* merge candidates a light phase passes on (20)
    InitConfs,   \* confidences memories may start with
    Traits,      \* sets of traits a memory may have
    Envs         \* what else may happen in a behaviour: see User and Crash

Ids == 1 .. N
Pairs == {{i, j} : i, j \in Ids} \ {{i} : i \in Ids}

ASSUME NumbersAssumption ==
    /\ N \in Nat /\ Full \in Nat /\ MergeCap \in Nat
    /\ DecayRate \in Nat /\ BoostAmount \in Nat
    /\ DecayFloor \in 0 .. Full /\ ConfidenceFloor \in 0 .. Full
    /\ InitConfs \subseteq 0 .. Full
    /\ Traits \subseteq SUBSET {"idle", "stale", "often"}
    /\ Envs \subseteq SUBSET {"confidence", "invalidate", "delete", "crash", "lock",
                         "readfail"}

VARIABLES
    status,   \* of each memory: "valid", "expired" or "absent"
    conf,     \* its confidence
    sup,      \* "supersedes" relations: <<winner, loser>>
    link,     \* number of "related_to" relations of a pair; 2 is two or more
    trait,    \* sets of traits, fixed
    score,    \* of a pair: "dup" (merge), "near" (auto-link) or "far", fixed
    env,      \* what else may happen, fixed
    pc, apply,
    cand,     \* merge candidates left, then pairs left to link
    snap,     \* memories Search returned, with their confidence
    todo,     \* memories left in the decay or boost loop
    src,      \* status and confidence of the source of the merge in progress
    known     \* pairs found linked before the linking loop

dbVars == <<status, conf, sup, link>>
runVars == <<pc, apply, cand, snap, todo, src, known>>
fixedVars == <<trait, score, env>>
vars == <<dbVars, fixedVars, runVars>>

NoRow == [status |-> "absent", conf |-> 0]
Rows == [status : {"valid", "expired", "absent"}, conf : 0 .. Full]

TypeOK ==
    /\ status \in [Ids -> {"valid", "expired", "absent"}]
    /\ conf \in [Ids -> 0 .. Full]
    /\ sup \subseteq Ids \X Ids
    /\ link \in [Pairs -> 0 .. 2]
    /\ trait \in [Ids -> Traits]
    /\ score \in [Pairs -> {"dup", "near", "far"}]
    /\ env \in Envs
    /\ pc \in [Dreamers -> {"idle", "search", "decay", "boost", "merge", "target",
                            "invalidate", "supersede", "relations", "link"}]
    /\ apply \in [Dreamers -> BOOLEAN]
    /\ cand \in [Dreamers -> Seq(Ids \X Ids)]
    /\ snap \in [Dreamers -> [Ids -> Rows]]
    /\ todo \in [Dreamers -> SUBSET Ids]
    /\ src \in [Dreamers -> Rows]
    /\ known \in [Dreamers -> SUBSET Pairs]

Init ==
    /\ status = [i \in Ids |-> "valid"]
    /\ conf \in [Ids -> InitConfs]
    /\ sup = {}
    /\ link = [q \in Pairs |-> 0]
    /\ trait \in [Ids -> Traits]
    /\ score \in [Pairs -> {"dup", "near", "far"}]
    /\ env \in Envs
    /\ pc = [d \in Dreamers |-> "idle"]
    /\ apply = [d \in Dreamers |-> FALSE]
    /\ cand = [d \in Dreamers |-> <<>>]
    /\ snap = [d \in Dreamers |-> [i \in Ids |-> NoRow]]
    /\ todo = [d \in Dreamers |-> {}]
    /\ src = [d \in Dreamers |-> NoRow]
    /\ known = [d \in Dreamers |-> {}]

\* Min and Max of two numbers, and clampFloat.
Lesser(a, b) == IF a < b THEN a ELSE b
Clamp(v, lo, hi) == IF v < lo THEN lo ELSE Lesser(v, hi)

ValidIds == {i \in Ids : status[i] = "valid"}
ValidInOrder == Picked([i \in Ids |-> i], ValidIds)

\* Seeded fault: both searches use the lower threshold.
PairsOfBoth(scores) == {q \in Pairs : score[q] \in {"dup", "near"}}

\* The pairs ConsolidateDuplicates finds similar enough.
PairsOf(scores) == {q \in Pairs : score[q] \in scores}
-----------------------------------------------------------------------------
\* Store calls.  The cycle logs or drops their errors and goes on, so a call
\* that meets the lock of another process is a call that does nothing.
Locked == "lock" \in env

\* Invalidate and Update, on the row if it is still there.
Expire(i) ==
    \/ status' = [status EXCEPT ![i] = IF @ = "absent" THEN @ ELSE "expired"]
    \/ Locked /\ status' = status

SetConf(i, c) ==
    \/ conf' = [conf EXCEPT ![i] = IF status[i] = "absent" THEN @ ELSE c]
    \/ Locked /\ conf' = conf

\* AddRelation "supersedes": only the source must exist (foreign key).
Relate(i, j) ==
    \/ sup' = IF status[i] = "absent" THEN sup ELSE sup \cup {<<i, j>>}
    \/ Locked /\ sup' = sup
-----------------------------------------------------------------------------
\* Run, with phase "" (all) or "deep"; the other two phases write nothing.
\* The light phase is one query, capped.
Begin(d) ==
    /\ pc[d] = "idle"
    /\ apply' \in {[apply EXCEPT ![d] = b] : b \in BOOLEAN}
    /\ LET pairs == ConsolidateDuplicates(ValidInOrder, PairsOf({"dup"})) IN
       \E c \in {SubSeq(pairs, 1, Lesser(MergeCap, Len(pairs))), <<>>} :
         cand' = [cand EXCEPT ![d] = c]
    /\ pc' = [pc EXCEPT ![d] = "search"]
    /\ UNCHANGED <<dbVars, fixedVars, snap, todo, src, known>>

\* The deep phase reads the valid memories once, for both of its loops.
ReadMemories(d) ==
    /\ pc[d] = "search"
    /\ snap' = [snap EXCEPT ![d] =
          [i \in Ids |-> IF i \in ValidIds
                           THEN [status |-> "valid", conf |-> conf[i]] ELSE NoRow]]
    /\ todo' = [todo EXCEPT ![d] = {i \in ValidIds : "idle" \in trait[i]}]
    /\ pc' = [pc EXCEPT ![d] = "decay"]
    /\ UNCHANGED <<dbVars, fixedVars, apply, cand, src, known>>

DecayAmount(i) == IF "stale" \in trait[i] THEN 2 * DecayRate ELSE DecayRate

\* Seeded fault: clamped to the floor of invalidation.
DecayedToFloor(c, i) ==
    Clamp(IF c < DecayAmount(i) THEN 0 ELSE c - DecayAmount(i), ConfidenceFloor, Full)

\* Confidence after decay, from the confidence that was read.
Decayed(c, i) ==
    IF c < DecayAmount(i) THEN DecayFloor
    ELSE Clamp(c - DecayAmount(i), DecayFloor, Full)

Decay(d) ==
    /\ pc[d] = "decay"
    /\ \E i \in todo[d] :
        LET c == Decayed(snap[d][i].conf, i) IN
        /\ IF ~apply[d] THEN UNCHANGED <<status, conf>>
           ELSE IF c < ConfidenceFloor THEN Expire(i) /\ UNCHANGED conf
           ELSE SetConf(i, c) /\ UNCHANGED status
        /\ todo' = [todo EXCEPT ![d] = @ \ {i}]
    /\ UNCHANGED <<sup, link, fixedVars, pc, apply, cand, snap, src, known>>

DecayDone(d) ==
    /\ pc[d] = "decay" /\ todo[d] = {}
    /\ todo' = [todo EXCEPT ![d] =
          {i \in Ids : snap[d][i].status = "valid" /\ "often" \in trait[i]}]
    /\ pc' = [pc EXCEPT ![d] = "boost"]
    /\ UNCHANGED <<dbVars, fixedVars, apply, cand, snap, src, known>>

\* Seeded fault: no cap on the boost.
BoostedUncapped(c) == c + BoostAmount

Boosted(c) == Lesser(c + BoostAmount, Full)

\* Seeded fault: the dry run boosts.
BoostAlways(d) ==
    /\ pc[d] = "boost"
    /\ \E i \in todo[d] :
        /\ SetConf(i, Boosted(snap[d][i].conf))
        /\ todo' = [todo EXCEPT ![d] = @ \ {i}]
    /\ UNCHANGED <<status, sup, link, fixedVars, pc, apply, cand, snap, src, known>>

\* Boosted from the same snapshot: a decay just applied is overwritten.
Boost(d) ==
    /\ pc[d] = "boost"
    /\ \E i \in todo[d] :
        /\ IF apply[d] THEN SetConf(i, Boosted(snap[d][i].conf))
                       ELSE UNCHANGED conf
        /\ todo' = [todo EXCEPT ![d] = @ \ {i}]
    /\ UNCHANGED <<status, sup, link, fixedVars, pc, apply, cand, snap, src, known>>

BoostDone(d) ==
    /\ pc[d] = "boost" /\ todo[d] = {}
    /\ pc' = [pc EXCEPT ![d] = "merge"]
    /\ snap' = [snap EXCEPT ![d] = [i \in Ids |-> NoRow]]
    /\ UNCHANGED <<dbVars, fixedVars, apply, cand, todo, src, known>>

Row(i) == [status |-> status[i], conf |-> IF status[i] = "absent" THEN 0 ELSE conf[i]]

\* The merge loop: Get the source of the pair, Get its target, then decide.
ReadSource(d) ==
    /\ pc[d] = "merge" /\ cand[d] # <<>>
    /\ src' = [src EXCEPT ![d] = Row(Head(cand[d])[1])]
    /\ pc' = [pc EXCEPT ![d] = "target"]
    /\ UNCHANGED <<dbVars, fixedVars, apply, cand, snap, todo, known>>

\* Seeded fault: the pair is not taken off the list.
NextCandidateSame(d) ==
    /\ cand' = cand
    /\ src' = [src EXCEPT ![d] = NoRow]
    /\ pc' = [pc EXCEPT ![d] = "merge"]

NextCandidate(d) ==
    /\ cand' = [cand EXCEPT ![d] = Tail(@)]
    /\ src' = [src EXCEPT ![d] = NoRow]
    /\ pc' = [pc EXCEPT ![d] = "merge"]

\* A pair with a memory gone or expired is skipped, and so is the merge in a
\* dry run.  Once decided, the pair is kept as <<winner, loser>>.
ReadTarget(d) ==
    /\ pc[d] = "target"
    /\ LET pair == Head(cand[d])
           tgt  == Row(pair[2])
       IN IF src[d].status = "valid" /\ tgt.status = "valid" /\ apply[d]
            THEN /\ cand' = [cand EXCEPT ![d] =
                       <<IF src[d].conf >= tgt.conf THEN pair ELSE <<pair[2], pair[1]>> >>
                       \o Tail(@)]
                 /\ src' = [src EXCEPT ![d] = NoRow]
                 /\ pc' = [pc EXCEPT ![d] = "invalidate"]
            ELSE NextCandidate(d)
    /\ UNCHANGED <<dbVars, fixedVars, apply, snap, todo, known>>

\* Seeded fault: the winner of the pair is expired.
InvalidateWinner(d) ==
    /\ pc[d] = "invalidate"
    /\ Expire(Head(cand[d])[1])
    /\ pc' = [pc EXCEPT ![d] = "supersede"]
    /\ UNCHANGED <<conf, sup, link, fixedVars, apply, cand, snap, todo, src, known>>

InvalidateLoser(d) ==
    /\ pc[d] = "invalidate"
    /\ Expire(Head(cand[d])[2])
    /\ pc' = [pc EXCEPT ![d] = "supersede"]
    /\ UNCHANGED <<conf, sup, link, fixedVars, apply, cand, snap, todo, src, known>>

\* Seeded fault: the relation points from the loser to the winner.
SupersedeReversed(d) ==
    /\ pc[d] = "supersede"
    /\ Relate(Head(cand[d])[2], Head(cand[d])[1])
    /\ NextCandidate(d)
    /\ UNCHANGED <<status, conf, link, fixedVars, apply, snap, todo, known>>

Supersede(d) ==
    /\ pc[d] = "supersede"
    /\ Relate(Head(cand[d])[1], Head(cand[d])[2])
    /\ NextCandidate(d)
    /\ UNCHANGED <<status, conf, link, fixedVars, apply, snap, todo, known>>

\* The dry run ends here; an applied one looks for pairs to link.
FindLinks(d) ==
    /\ pc[d] = "merge" /\ cand[d] = <<>>
    /\ LET pairs == ConsolidateDuplicates(ValidInOrder, PairsOf({"dup", "near"})) IN
       IF apply[d] /\ pairs # <<>>
         THEN /\ cand' = [cand EXCEPT ![d] = pairs]
              /\ pc' = [pc EXCEPT ![d] = "relations"]
              /\ UNCHANGED apply
         ELSE /\ pc' = [pc EXCEPT ![d] = "idle"]
              /\ apply' = [apply EXCEPT ![d] = FALSE]
              /\ UNCHANGED cand
    /\ UNCHANGED <<dbVars, fixedVars, snap, todo, src, known>>

Unordered(pair) == {pair[1], pair[2]}

\* Seeded fault: the existing relations are not read.
ReadRelationsNone(d) ==
    /\ pc[d] = "relations"
    /\ pc' = [pc EXCEPT ![d] = "link"]
    /\ UNCHANGED <<dbVars, fixedVars, apply, cand, snap, todo, src, known>>

\* GetRelationsBatch on the memories of these pairs.
ReadRelations(d) ==
    /\ pc[d] = "relations"
    /\ known' = [known EXCEPT ![d] = {q \in Pairs : link[q] > 0}]
    /\ pc' = [pc EXCEPT ![d] = "link"]
    /\ UNCHANGED <<dbVars, fixedVars, apply, cand, snap, todo, src>>

Link(d) ==
    /\ pc[d] = "link" /\ cand[d] # <<>>
    /\ LET pair == Head(cand[d]) IN
       \/ link' = IF Unordered(pair) \in known[d] \/ status[pair[1]] = "absent"
                    THEN link
                    ELSE [link EXCEPT ![Unordered(pair)] = Lesser(@ + 1, 2)]
       \/ Locked /\ link' = link
    /\ known' = [known EXCEPT ![d] = @ \cup {Unordered(Head(cand[d]))}]
    /\ cand' = [cand EXCEPT ![d] = Tail(@)]
    /\ UNCHANGED <<status, conf, sup, fixedVars, pc, apply, snap, todo, src>>

Quit(d) ==
    /\ pc' = [pc EXCEPT ![d] = "idle"]
    /\ apply' = [apply EXCEPT ![d] = FALSE]
    /\ cand' = [cand EXCEPT ![d] = <<>>]
    /\ snap' = [snap EXCEPT ![d] = [i \in Ids |-> NoRow]]
    /\ todo' = [todo EXCEPT ![d] = {}]
    /\ src' = [src EXCEPT ![d] = NoRow]
    /\ known' = [known EXCEPT ![d] = {}]
    /\ UNCHANGED <<dbVars, fixedVars>>

LinksDone(d) == pc[d] = "link" /\ cand[d] = <<>> /\ Quit(d)

\* A read fails.  Without the memories the deep phase does nothing; a merge
\* that misses one of its two is skipped; without pairs nothing is linked; but
\* the error of GetRelationsBatch is dropped, as if no relation existed.
ReadFails(d) ==
    /\ "readfail" \in env
    /\ \/ /\ pc[d] = "search" \/ (pc[d] = "merge" /\ cand[d] = <<>>)
          /\ Quit(d)
       \/ /\ pc[d] = "target" \/ (pc[d] = "merge" /\ cand[d] # <<>>)
          /\ NextCandidate(d)
          /\ UNCHANGED <<dbVars, fixedVars, apply, snap, todo, known>>
       \/ /\ pc[d] = "relations"
          /\ pc' = [pc EXCEPT ![d] = "link"]
          /\ UNCHANGED <<dbVars, fixedVars, apply, cand, snap, todo, src, known>>

Crash(d) == "crash" \in env /\ pc[d] # "idle" /\ Quit(d)
-----------------------------------------------------------------------------
\* Other commands on the same memories.
User ==
    /\ \E i \in ValidIds :
        \/ /\ "confidence" \in env
           /\ \E c \in InitConfs : SetConf(i, c)
           /\ UNCHANGED <<status, sup, link>>
        \/ /\ "invalidate" \in env
           /\ Expire(i)
           /\ UNCHANGED <<conf, sup, link>>
        \/ /\ "delete" \in env
           /\ status' = [status EXCEPT ![i] = "absent"]
           /\ sup' = {r \in sup : i \notin {r[1], r[2]}}
           /\ link' = [q \in Pairs |-> IF i \in q THEN 0 ELSE link[q]]
           /\ UNCHANGED conf
    /\ UNCHANGED <<fixedVars, runVars>>

Step(d) ==
    \/ ReadMemories(d) \/ Decay(d) \/ DecayDone(d) \/ Boost(d) \/ BoostDone(d)
    \/ ReadSource(d) \/ ReadTarget(d) \/ InvalidateLoser(d) \/ Supersede(d)
    \/ FindLinks(d) \/ ReadRelations(d) \/ Link(d) \/ LinksDone(d)

Next == User \/ \E d \in Dreamers : Begin(d) \/ Step(d) \/ ReadFails(d) \/ Crash(d)

Spec == Init /\ [][Next]_vars

\* A cycle that has begun goes on.
Fairness == \A d \in Dreamers : WF_vars(Step(d))
-----------------------------------------------------------------------------
(* Properties.                                                             *)

Idle == \A d \in Dreamers : pc[d] = "idle"

\* Consolidation loses nothing: whatever set of memories is expired, one of
\* them has a near-duplicate outside the set.  Every chain of merges, over
\* any number of cycles, crashes and locked calls, ends at a memory that is
\* still valid, although both memories were read before the one was expired.
ClusterSurvives ==
    \A S \in SUBSET {i \in Ids : status[i] = "expired"} : S # {} =>
        \E l \in S, w \in Ids \ S : score[{w, l}] = "dup"

\* The same chain can be followed in the database: between cycles, from the
\* memories expired one reaches over "supersedes" a memory that is still valid,
\* where nothing can cut a merge short.
SupersededTraceable ==
    Idle /\ env \subseteq {"confidence"} =>
        \A S \in SUBSET {i \in Ids : status[i] = "expired"} : S # {} =>
            \E l \in S, w \in Ids \ S : <<w, l>> \in sup

\* A memory recorded as superseded is never valid, even if the process dies
\* between the two writes of a merge: the relation comes second.
SupersededExpired == \A r \in sup : status[r[2]] # "valid"

\* Auto-link reads the existing relations "to avoid duplicates": a pair is
\* never linked twice, by one cycle or by a later one.
NoDuplicateLinks == \A q \in Pairs : link[q] < 2

RunOf(d) == <<pc[d], cand[d], snap[d], todo[d], src[d], known[d]>>

\* A cycle without --apply changes nothing in the database.
DryRunWritesNothing ==
    [][\A d \in Dreamers :
          ~apply[d] /\ RunOf(d)' # RunOf(d) => UNCHANGED dbVars]_vars

\* "Memories below [ConfidenceFloor] are invalidated": the deep phase leaves
\* no idle memory valid whose confidence it read to be below the floor.
BelowFloorInvalidated ==
    [][\A d \in Dreamers : pc[d] = "decay" /\ pc'[d] = "decay" /\ apply[d] =>
          \A i \in todo[d] \ todo'[d] :
              snap[d][i].conf < ConfidenceFloor => status'[i] # "valid"]_vars

\* Every cycle ends.
CycleEnds == \A d \in Dreamers : pc[d] # "idle" ~> pc[d] = "idle"
=============================================================================
