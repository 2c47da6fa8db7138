----------------------------- MODULE Consolidate -----------------------------
(***************************************************************************)
(* The greedy pairing of near-duplicates in MemoryStore's                  *)
(* ConsolidateDuplicates.  `entries` is the sequence of memories the query *)
(* returned, `similar` the set of unordered pairs whose cosine similarity  *)
(* reaches the threshold.                                                  *)
(***************************************************************************)
EXTENDS Naturals, Sequences, Selection

\* Seeded fault: a memory already paired is taken as a partner again.
PartnersReused(entries, similar, seen, k) ==
    LET rest == SubSeq(entries, k + 1, Len(entries))
    IN  Picked(rest, {e \in Members(rest) \ {entries[k]} : {entries[k], e} \in similar})

\* The inner loop: the later entries that pair with the k-th one, in order.
Partners(entries, similar, seen, k) ==
    LET rest == SubSeq(entries, k + 1, Len(entries))
    IN  Picked(rest, {e \in Members(rest) \ (seen \cup {entries[k]}) :
                        {entries[k], e} \in similar})

\* One turn of the outer loop: an entry already paired is skipped; another one
\* takes every partner left, and all of them are then paired.
PairUp(entries, similar, before, k) ==
    LET partners == Partners(entries, similar, before.seen, k)
    IN  IF entries[k] \in before.seen \/ partners = <<>> THEN before
        ELSE [pairs |-> before.pairs \o
                           [j \in DOMAIN partners |-> <<entries[k], partners[j]>>],
              seen  |-> before.seen \cup {entries[k]} \cup Members(partners)]

ConsolidateDuplicates(entries, similar) ==
    LET scan[k \in 0 .. Len(entries)] ==
          IF k = 0 THEN [pairs |-> <<>>, seen |-> {}]
          ELSE PairUp(entries, similar, scan[k - 1], k)
    IN  scan[Len(entries)].pairs

\* What the pairing promises, said without the loop: every memory that is not
\* a duplicate of an earlier one is kept, and a duplicate is paired with the
\* first memory kept that resembles it, so clusters are disjoint stars.
FirstCome(entries, similar) ==
    LET pairs == ConsolidateDuplicates(entries, similar)
        found == Members(pairs)
        dups  == {p[2] : p \in found}
        Similar(i, j) == {entries[i], entries[j]} \in similar
    IN  found = {<<entries[x[1]], entries[x[2]]>> : x \in
                   {x \in (DOMAIN entries) \X (DOMAIN entries) :
                      /\ x[1] < x[2] /\ Similar(x[1], x[2])
                      /\ entries[x[1]] \notin dups
                      /\ \A h \in 1 .. x[1] - 1 :
                            Similar(h, x[2]) => entries[h] \in dups}}
=============================================================================
