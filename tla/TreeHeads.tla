----------------------------- MODULE TreeHeads -----------------------------
(***************************************************************************)
(* Tree heads (internal/witness Head).  A head is a size and a Merkle root *)
(* over that many leaves.  The root is collision-free, so the head is      *)
(* modelled by the sequence of leaves itself: its size is the length and   *)
(* two heads have one root when they are one sequence.                     *)
(***************************************************************************)
EXTENDS Naturals, Sequences

CONSTANTS
    Tree,     \* the trees a log key ever signs a checkpoint for
    NoHead    \* nothing cosigned yet for this origin

ASSUME TreeAssumption == NoHead \notin Tree /\ \A t \in Tree : t \in Seq(Nat)

\* u carries t forward: what a consistency proof from t to u proves.
Grows(t, u) == Len(t) <= Len(u) /\ \A i \in 1..Len(t) : t[i] = u[i]

\* t and u can be moments of one append-only log.
OneHistory(t, u) == Grows(t, u) \/ Grows(u, t)
=============================================================================
