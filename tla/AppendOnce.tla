---------------------------- MODULE AppendOnce ----------------------------
(***************************************************************************)
(* What the append path promises a caller who redelivers: a receipt enters *)
(* the log at most once, and every ack for it names that one index.        *)
(***************************************************************************)
EXTENDS Naturals, Sequences

CONSTANTS Receipts

VARIABLES
    order,  \* the receipts in log order
    acked   \* <<receipt, index>> of every ack returned

Commit(r) ==
    /\ \A i \in 1..Len(order) : order[i] # r
    /\ order' = Append(order, r)
    /\ UNCHANGED acked

Acknowledge(i) ==
    /\ acked' = acked \cup {<<order[i], i>>}
    /\ UNCHANGED order

Init == order = <<>> /\ acked = {}

Next ==
    \/ \E r \in Receipts : Commit(r)
    \/ \E i \in 1..Len(order) : Acknowledge(i)

Spec == Init /\ [][Next]_<<order, acked>>
=============================================================================
