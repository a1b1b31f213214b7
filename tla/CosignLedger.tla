---------------------------- MODULE CosignLedger ----------------------------
(***************************************************************************)
(* What a witness promises (the comment that opens internal/witness): the  *)
(* heads it has put its signature to, for one origin, are moments of one   *)
(* append-only log.                                                        *)
(***************************************************************************)
EXTENDS TreeHeads

CONSTANT Origin

VARIABLE issued     \* the cosignatures that have left the witness

Cosign(o, t) ==
    /\ \A c \in issued : c.origin = o => OneHistory(c.tree, t)
    /\ issued' = issued \cup {[origin |-> o, tree |-> t]}

Init == issued = {}
Next == \E o \in Origin, t \in Tree : Cosign(o, t)
Spec == Init /\ [][Next]_issued

\* No two cosignatures of one origin name two histories.
NoSplitView ==
    \A c, d \in issued : c.origin = d.origin => OneHistory(c.tree, d.tree)
=============================================================================
