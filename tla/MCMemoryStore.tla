---------------------------- MODULE MCMemoryStore ----------------------------
(* Model-checking instances of MemoryStore.  Ids, contents, metadata values   *)
(* and processes are interchangeable.                                         *)
EXTENDS SoleOpener, TLC

Symmetric == Permutations(Ids) \cup Permutations(Contents)
                 \cup Permutations(Metas) \cup Permutations(Procs)

\* Bounds: as long as there is an export, one metadata value is in use and no
\* relation; rows that import would refuse, and updates that make one so and
\* nothing else, come after an export, with one content in use.
RowsInUse == {mem[i] : i \in {j \in Ids : Present(j)}} \cup {r[2] : r \in file}

ExportBound ==
    /\ \/ file = {}
       \/ rel = {} /\ \E m \in Metas : \A r \in RowsInUse : r.meta = m
    /\ \A p \in Procs : arg[p].fit # None => arg[p] = [NoArg EXCEPT !.id = arg[p].id, !.fit = FALSE]
    /\ \/ /\ \A r \in RowsInUse : r.fit
          /\ \A p \in Procs : arg[p].fit = None
       \/ file # {} /\ \E c \in Contents : \A r \in RowsInUse : r.content = c
=============================================================================
