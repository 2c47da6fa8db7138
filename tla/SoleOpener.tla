----------------------------- MODULE SoleOpener -----------------------------
(***************************************************************************)
(* MemoryStore with an auxiliary variable: which process, if any, opened   *)
(* the database while no other had it open and has had it to itself since. *)
(***************************************************************************)
EXTENDS MemoryStore

\* The process that opened the database when no other had it open, as long as
\* none opens it after; None when there is no such process.
VARIABLE alone

Opens(p) == pc[p] = "closed" /\ pc'[p] # "closed"

AloneInit == Init /\ alone = None

AloneNext ==
    /\ Next
    /\ alone' = IF \E p \in Procs : Opens(p)
                   THEN LET p == CHOOSE q \in Procs : Opens(q)
                        IN  IF Contended(p) THEN None ELSE p
                   ELSE IF alone # None /\ pc'[alone] = "closed" THEN None ELSE alone

AloneSpec == AloneInit /\ [][AloneNext]_<<vars, alone>>

\* Several processes rebuild the shadow table over each other and leave it in
\* any state.  The next process that opens the database by itself repairs it:
\* between its operations the index has every embedded valid memory, and no
\* deleted one (store.go:112-174, 1541-1701).
ReopenRepairs ==
    alone # None /\ vecOn[alone] /\ pc[alone] \in {"idle", "backfill", "import"} =>
        \A i \in Ids :
            /\ mem[i].status = "valid" /\ mem[i].emb # None => vec[i] = mem[i].emb
            /\ vec[i] # None => Present(i)
=============================================================================
