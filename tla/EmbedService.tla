---------------------------- MODULE EmbedService ----------------------------
(***************************************************************************)
(* What EmbeddingEngine.Embed promises its callers, without the cache: a    *)
(* call is answered, with the model's vector for the text that was asked    *)
(* or with an error, and an answer belongs to the caller alone: it changes  *)
(* when that caller writes to it and at no other time.                      *)
(***************************************************************************)
CONSTANTS Texts, Threads, None, Overwritten

VARIABLES
    asked,   \* text of the call each thread is waiting on
    reply    \* its last answer: the vector of a text, or None for an error

vars == <<asked, reply>>

Init ==
    /\ asked = [t \in Threads |-> None]
    /\ reply = [t \in Threads |-> None]

Ask(t) ==
    /\ asked[t] = None
    /\ \E x \in Texts : asked' = [asked EXCEPT ![t] = x]
    /\ reply' = [reply EXCEPT ![t] = None]

Reply(t) ==
    /\ asked[t] # None
    /\ reply' \in {[reply EXCEPT ![t] = asked[t]], reply}
    /\ asked' = [asked EXCEPT ![t] = None]

\* The caller writes into the vector it was given.
Overwrite(t) ==
    /\ reply[t] # None
    /\ reply' = [reply EXCEPT ![t] = Overwritten]
    /\ UNCHANGED asked

Next == \E t \in Threads : Ask(t) \/ Reply(t) \/ Overwrite(t)

Spec == Init /\ [][Next]_vars
=============================================================================
