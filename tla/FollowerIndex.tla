--------------------------- MODULE FollowerIndex ---------------------------
(***************************************************************************)
(* The receipts table of internal/index: a projection of the log.  A leaf  *)
(* is an envelope; ReceiptOf gives the receipt_id in its payload.  The     *)
(* table maps a log index to the envelope it was extracted from and to     *)
(* duplicate_of.  Log indices count from 1, so that 0 can be NULL.         *)
(* Everything here is a pure operator; LogService holds the state.         *)
(***************************************************************************)
EXTENDS Naturals, Sequences

CONSTANTS
    Envelopes,  \* stored envelopes
    Receipts,   \* receipt_ids
    ReceiptOf   \* ReceiptOf[e]: the receipt_id index.Extract reads in e

ASSUME ExtractAssumption == ReceiptOf \in [Envelopes -> Receipts]

Row == [env : Envelopes, duplicateOf : Nat]

Lowest(S) == CHOOSE i \in S : \A j \in S : i <= j

\* The rows of receipt_id r with duplicate_of NULL.
Canonical(rs, r) ==
    {i \in DOMAIN rs : ReceiptOf[rs[i].env] = r /\ rs[i].duplicateOf = 0}

\* SELECT ... ORDER BY log_index LIMIT 1; 0 is "no such row".
First(S) == IF S = {} THEN 0 ELSE Lowest(S)

LookupBeforeMutant(rs, r, before) == First(Canonical(rs, r))
\* lookupCanonical with a bound: the canonical row of r below index `before`.
LookupBefore(rs, r, before) == First({i \in Canonical(rs, r) : i < before})

\* lookupCanonical without one, the lookup of ingest.
LookupCanonical(rs, r) == First(Canonical(rs, r))

UpsertMutant(rs, i, e, dup) ==
    [j \in DOMAIN rs \cup {i + 1} |->
        IF j = i + 1 THEN [env |-> e, duplicateOf |-> dup] ELSE rs[j]]
\* INSERT ... ON CONFLICT(log_index) DO UPDATE.
Upsert(rs, i, e, dup) ==
    [j \in DOMAIN rs \cup {i} |->
        IF j = i THEN [env |-> e, duplicateOf |-> dup] ELSE rs[j]]

RefusedMutant(rs, i, e, dup) == dup = 0 /\ Canonical(rs, ReceiptOf[e]) # {}
\* The partial unique index refuses a second canonical row; the upsert's
\* conflict target is log_index, so this conflict is an error.
Refused(rs, i, e, dup) ==
    dup = 0 /\ Canonical(rs, ReceiptOf[e]) \ {i} # {}

(***************************************************************************)
(* followDB's walk over the leaves from..size, in closed form; IndexLoop   *)
(* has the loop, and a run compares the two.  A leaf duplicates the lowest *)
(* canonical row of its receipt kept below `from`, else its first leaf in  *)
(* the walk.  A leaf that duplicates nothing is refused when a canonical   *)
(* row of its receipt lies ahead of the walk.  One transaction: a refused  *)
(* row fails the pass and leaves the table alone.                          *)
(***************************************************************************)
WalkDup(rs, leaves, from, i) ==
    LET r == ReceiptOf[leaves[i]]
    IN  First({j \in Canonical(rs, r) : j < from}
                 \cup {j \in from..(i - 1) : ReceiptOf[leaves[j]] = r})

WalkRefused(rs, leaves, from, size) ==
    \E i \in from..size :
        /\ WalkDup(rs, leaves, from, i) = 0
        /\ \E j \in Canonical(rs, ReceiptOf[leaves[i]]) : j > i

Walked(rs, leaves, from, size) ==
    [i \in DOMAIN rs \cup from..size |->
        IF i \in from..size
        THEN [env         |-> leaves[i],
              duplicateOf |-> WalkDup(rs, leaves, from, i)]
        ELSE rs[i]]

Replay(rs, leaves, from, size) ==
    IF WalkRefused(rs, leaves, from, size)
    THEN [ok |-> FALSE, rows |-> rs]
    ELSE [ok |-> TRUE, rows |-> Walked(rs, leaves, from, size)]

(***************************************************************************)
(* What the index of a log prefix should be, without any loop: a row per   *)
(* leaf, duplicate_of the lowest leaf with the same receipt_id.            *)
(***************************************************************************)
Occurrences(leaves, r, size) == {i \in 1..size : ReceiptOf[leaves[i]] = r}

Projection(leaves, i) ==
    LET lowest == Lowest(Occurrences(leaves, ReceiptOf[leaves[i]], i))
    IN  [env         |-> leaves[i],
         duplicateOf |-> IF lowest = i THEN 0 ELSE lowest]

ReferenceIndex(leaves, size) == [i \in 1..size |-> Projection(leaves, i)]
=============================================================================
