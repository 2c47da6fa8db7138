------------------------------ MODULE Selection ------------------------------
(* Members picked out of a sequence, in its order.  SelectSeq and ToSet say    *)
(* the same; these are written so that theorems about them can be proved.      *)
EXTENDS Naturals, Sequences

Members(s) == {s[k] : k \in DOMAIN s}

Picked(s, S) ==
    LET pick[k \in 0 .. Len(s)] ==
          IF k = 0 THEN <<>>
          ELSE IF s[k] \in S THEN Append(pick[k - 1], s[k]) ELSE pick[k - 1]
    IN  pick[Len(s)]
=============================================================================
