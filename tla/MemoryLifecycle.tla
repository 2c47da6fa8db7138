--------------------------- MODULE MemoryLifecycle ---------------------------
(***************************************************************************)
(* What the memory table promises whoever reads it, whatever the processes *)
(* on the database file do: a memory is absent, valid or expired, and an   *)
(* expired memory never becomes valid again.  It can only be deleted, and  *)
(* its id inserted afresh.  Every step touches one id, but for the bulk    *)
(* UPDATE of SupersedeBySource, which expires a set of valid ones.         *)
(***************************************************************************)
CONSTANT Ids

VARIABLE status

Statuses == {"absent", "valid", "expired"}

Init == status = [i \in Ids |-> "absent"]

Create(i) ==
    /\ status[i] = "absent"
    /\ \E s \in {"valid", "expired"} : status' = [status EXCEPT ![i] = s]

Expire(S) ==
    /\ \A i \in S : status[i] = "valid"
    /\ status' = [i \in Ids |-> IF i \in S THEN "expired" ELSE status[i]]

Remove(i) ==
    /\ status[i] # "absent"
    /\ status' = [status EXCEPT ![i] = "absent"]

Next ==
    \/ \E i \in Ids : Create(i) \/ Remove(i)
    \/ \E S \in SUBSET Ids : Expire(S)

Spec == Init /\ [][Next]_status
=============================================================================
