----------------------------- MODULE IndexLoop -----------------------------
(***************************************************************************)
(* The loop of followDB (internal/index/follow.go), statement by           *)
(* statement on the table of its transaction, against the closed form that *)
(* LogService uses, and against the projection of a log prefix.  An        *)
(* initial state is one input: a log, a table an earlier ingest may have   *)
(* left behind, and the range of the walk.                                 *)
(***************************************************************************)
EXTENDS FollowerIndex

CONSTANT MaxLeaves  \* bound: length of the log

ASSUME LoopAssumption == MaxLeaves \in Nat

VARIABLES
    leaves, before, from, size,  \* the input
    i,                           \* the loop variable
    table,                       \* receipts, inside the transaction
    ok                           \* no statement has failed

vars == <<leaves, before, from, size, i, table, ok>>

\* Tables an ingest can leave: each row recorded in some order, or missing.
Tables(ls) ==
    LET recorded(dup) == [k \in DOMAIN dup |-> [env |-> ls[k], duplicateOf |-> dup[k]]]
        same(k, l) == ReceiptOf[ls[k]] = ReceiptOf[ls[l]]
        left(dup) ==
            /\ \A k \in DOMAIN dup : dup[k] < k /\ (dup[k] # 0 => same(dup[k], k))
            /\ \A k, l \in DOMAIN dup :
                  (dup[k] = 0 /\ dup[l] = 0 /\ same(k, l)) => k = l
    IN  {recorded(dup) : dup \in {d \in UNION {[D -> 0..Len(ls)] : D \in SUBSET (1..Len(ls))} :
                                     left(d)}}

Init ==
    \E n \in 0..MaxLeaves :
        /\ leaves \in [1..n -> Envelopes]
        /\ before \in Tables(leaves)
        /\ size \in 0..n
        /\ from \in 1..(size + 1)
        /\ i = from
        /\ table = before
        /\ ok = TRUE

RecordedDup == LookupBefore(table, ReceiptOf[leaves[i]], i)

\* record(tx, row): the lookup, then the upsert; a refused upsert ends the pass.
RecordLeaf ==
    /\ ok /\ i <= size
    /\ IF Refused(table, i, leaves[i], RecordedDup)
       THEN ok' = FALSE /\ table' = before
       ELSE ok' = ok /\ table' = Upsert(table, i, leaves[i], RecordedDup)
    /\ i' = i + 1
    /\ UNCHANGED <<leaves, before, from, size>>

Finished == ~ok \/ i > size

Spec == Init /\ [][RecordLeaf]_vars

\* The loop and the closed form end with the same table and verdict.
LoopIsReplay ==
    Finished => [ok |-> ok, rows |-> table] = Replay(before, leaves, from, size)
=============================================================================
