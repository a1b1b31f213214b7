------------------------------ MODULE Delivery ------------------------------
(***************************************************************************)
(* What the spool and its drain promise together: at-least-once delivery   *)
(* of signed receipts to the log.  A receipt is spooled once, may reach    *)
(* the sink any number of times after that, and is retired (never read     *)
(* again) only when the sink has accepted it.                              *)
(***************************************************************************)
CONSTANT Receipt

VARIABLES spooled, delivered, retired

dvars == <<spooled, delivered, retired>>

Init == spooled = {} /\ delivered = {} /\ retired = {}

Spool(r) ==
    /\ r \notin spooled
    /\ spooled' = spooled \cup {r}
    /\ UNCHANGED <<delivered, retired>>

Deliver(r) ==
    /\ r \in spooled
    /\ delivered' = delivered \cup {r}
    /\ UNCHANGED <<spooled, retired>>

Retire(R) ==
    /\ R \subseteq delivered
    /\ retired' = retired \cup R
    /\ UNCHANGED <<spooled, delivered>>

Next == \/ \E r \in Receipt : Spool(r) \/ Deliver(r)
        \/ \E R \in SUBSET delivered : Retire(R)

Spec == Init /\ [][Next]_dvars
=============================================================================
