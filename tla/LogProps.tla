----------------------------- MODULE LogProps -----------------------------
(* What LogService must satisfy, and what the repository says of it. *)
EXTENDS LogService

ScanType == [from : Nat, size : Nat, wipe : BOOLEAN]

\* Every variable holds values of its kind.
TypeOK ==
    /\ log \in Seq(Envelopes)
    /\ published \in 0..Len(log)
    /\ DOMAIN rows \subseteq 1..Len(log)
    /\ \A i \in DOMAIN rows : rows[i] \in Row
    /\ indexed \in 0..published
    /\ epoch \in Nat
    /\ epochLock \in Procs \cup {NoProc}
    /\ pc \in [Procs -> {"idle", "claim", "open", "closing", "follow"}]
    /\ mine \in [Procs -> Nat]
    /\ tasks \in [Procs -> Seq(Task)]
    /\ scan \in [Procs -> ScanType]
    /\ outcome \in [Procs -> {"none", "ok", "failed"}]
    /\ promises \subseteq Promise
    /\ faults \in Nat

-----------------------------------------------------------------------------
\* Whatever is killed, fenced, refused or rebuilt, a signed promise names a
\* leaf that is durably in the log, at the index of the ack, with the
\* promised receipt_id (AppendResult and NewPromise, tlog.go and promise.go).
PromisedIsDurable ==
    \A pr \in promises :
        /\ pr.index \in 1..Len(log)
        /\ log[pr.index] = pr.names
        /\ ReceiptOf[pr.names] = pr.receipt

\* A row of the index describes the leaf at its log index, and duplicate_of
\* points at an earlier leaf of the same receipt (record, index.go).
RowsAreLeaves ==
    \A i \in DOMAIN rows :
        /\ i \in 1..Len(log)
        /\ rows[i].env = log[i]
        /\ rows[i].duplicateOf # 0 =>
              /\ rows[i].duplicateOf \in 1..(i - 1)
              /\ ReceiptOf[log[rows[i].duplicateOf]] = ReceiptOf[log[i]]

\* No two open handles ever hold the same epoch, and none is ahead of the
\* file: claimEpoch hands out strictly increasing epochs (epoch.go).
Live(p) == pc[p] \in {"open", "closing"}
EpochsDistinct ==
    /\ \A p \in Procs : Live(p) => mine[p] <= epoch
    /\ \A p, q \in Procs : Live(p) /\ Live(q) /\ mine[p] = mine[q] => p = q

\* A handle that is fenced while an ack is being built signs that one promise
\* and no other: every Wait passes checkEpoch once its leaf is durable.
OneStaleSignature ==
    \A e \in 1..epoch :
        Cardinality({pr \in promises : pr.signer = e /\ pr.current # e}) <= 1

\* Rebuild is a function of the log prefix the checkpoint covers, whatever
\* the table held before it (Rebuild's determinism, follow.go).
RebuildIsReference ==
    [][\A p \in Procs : (PassCommit(p) /\ scan[p].wipe) =>
            /\ outcome'[p] = "ok"
            /\ rows' = ReferenceIndex(log, scan[p].size)]_vars

-----------------------------------------------------------------------------
(***************************************************************************)
(* Where nothing is killed, no write is refused and a reindex runs alone.  *)
(***************************************************************************)

\* Redelivery is idempotent: AppendOnce, with the log and the acks read off.
Once == INSTANCE AppendOnce WITH
    order <- [i \in 1..Len(log) |-> ReceiptOf[log[i]]],
    acked <- {<<pr.receipt, pr.index>> : pr \in promises}
AppendsOnce == Once!Spec

\* An acked receipt is found by the next dedup lookup, at the acked index,
\* by this handle and by every later one.
AckedIsIndexed ==
    \A pr \in promises : LookupCanonical(rows, pr.receipt) = pr.index

\* An index, however it was built, is what a rebuild of the same leaves gives
\* ("Rebuild and Follow produce byte-identical rows", Record, index.go).
IndexIsProjection ==
    \A i \in DOMAIN rows : rows[i] = Projection(log, i)

\* "every log index below it is indexed" (TreeSizeIndexed, index.go).
IndexedBelow == 1..indexed \subseteq DOMAIN rows

\* "following after live ingest is safe" (Follow, follow.go): no pass fails.
PassesSucceed == \A p \in Procs : outcome[p] # "failed"

\* Following after live ingest is safe: no pass fails, the index it leaves is
\* the one a rebuild would give, and nothing below its marker is missing.
FollowIsSafe == PassesSucceed /\ IndexIsProjection /\ IndexedBelow

-----------------------------------------------------------------------------
(***************************************************************************)
(* Claims the code does not keep.                                          *)
(***************************************************************************)

\* "a duplicate ... is never appended twice" (Append, tlog.go).
NeverAppendedTwice ==
    \A i, j \in 1..Len(log) : ReceiptOf[log[i]] = ReceiptOf[log[j]] => i = j

\* "The canonical row for a receipt_id is always its lowest log index"
\* (package index, index.go).
CanonicalIsLowest ==
    \A i \in DOMAIN rows : rows[i].duplicateOf = 0 =>
        \A j \in 1..(i - 1) : ReceiptOf[log[j]] # ReceiptOf[log[i]]

\* "only the current lock-holder's key signs promises" (epoch.go).
SignerIsCurrent == \A pr \in promises : pr.signer = pr.current

-----------------------------------------------------------------------------
(***************************************************************************)
(* Liveness, under FairSpec and without crashes.                           *)
(***************************************************************************)

\* A promise becomes redeemable: a checkpoint covers the promised leaf.
PromiseRedeemed ==
    \A i \in 1..MaxLog :
        (\E pr \in promises : pr.index = i) ~> (published >= i)

\* A begun append comes to an ack or an error, or its handle is closed.
AppendResolves ==
    \A p \in Writers, k \in 1..MaxTasks :
        (k \in DOMAIN tasks[p] /\ tasks[p][k].stage \in {"queued", "wait", "dup"})
            ~> (k \notin DOMAIN tasks[p] \/ tasks[p][k].stage \in {"acked", "failed"}
                \/ pc[p] = "closing")

\* Close returns: its shutdown waits for a checkpoint that is published.
CloseReturns == \A p \in Writers : (pc[p] = "closing") ~> (pc[p] = "idle")

\* A handle comes to the end of all it took on: its promises are redeemed, its
\* appends resolve, its Close returns, also when another handle fences it.
Progress == PromiseRedeemed /\ AppendResolves /\ CloseReturns
=============================================================================
