----------------------------- MODULE SpoolProps -----------------------------
(* What the spool promises, stated over the state of Spool.                *)
EXTENDS Spool

PCs == {"down", "probe", "unprobe", "scan", "flush", "serve", "append", "create",
        "lock", "dlist", "dread", "deliver", "dprobe", "dunprobe", "dstat",
        "drename", "drained"}
Phases == {"flush", "serve", "ending"}

FilesOK ==
    /\ state \in [Segs -> {"absent", "open", "done"}]
    /\ recs \in [Segs -> Seq(Records)]
    /\ torn \in [Segs -> BOOLEAN]
    /\ cursor \in [Segs -> Nat]
    /\ lock \in [Segs -> Procs \cup {NoProc}]
    /\ names \in 0..MaxSegs

ControlOK ==
    /\ pc \in [Procs -> PCs]
    /\ phase \in [Procs -> Phases]

WriterOK ==
    /\ seg \in [Procs -> 0..MaxSegs]
    /\ fresh \in [Procs -> 0..MaxSegs]
    /\ job \in [Procs -> Records]
    /\ inflight \in [Procs -> SUBSET Calls]

ReaderOK ==
    /\ hand \in [Procs -> 0..MaxSegs]
    /\ list \in [Procs -> SUBSET Segs]
    /\ live \in [Procs -> BOOLEAN]
    /\ cand \in [Procs -> SUBSET Calls]
    /\ comp \in [Procs -> SUBSET Calls]
    /\ start \in [Procs -> Nat]
    /\ pos \in [Procs -> Nat]
    /\ markDone \in [Procs -> BOOLEAN]

EvidenceOK ==
    /\ forwarded \subseteq Calls
    /\ minted \in [Calls -> Nat]
    /\ delivered \subseteq Receipts

BoundsOK == sessions \in Nat /\ faults \in Nat /\ shorts \in Nat

\* Every variable has its type.
TypeOK == FilesOK /\ ControlOK /\ WriterOK /\ ReaderOK /\ EvidenceOK /\ BoundsOK

(***************************************************************************)
(* Whatever runs concurrently.                                             *)
(***************************************************************************)

\* "Delivery is at-least-once: a crash between sink success and the cursor
\* write re-delivers": what a cursor skips has been accepted by the sink, in
\* a live segment and across crashes, sink errors and overlapping drains.
Accepted(s, n) ==
    /\ n <= Len(recs[s])
    /\ \A i \in 1..n :
          recs[s][i].type = "completion" => recs[s][i].receipt \in delivered

ConsumedWasDelivered == \A s \in Segs : Accepted(s, cursor[s])

\* "a scanned intent can never have its completion hidden inside a .done
\* file": what Recover relies on when it takes an intent for unmatched.
NoHiddenCompletion ==
    \A s, t \in Segs :
        state[s] = "open" /\ state[t] = "done" => IntentsIn(s) \cap CompletedIn(t) = {}

\* Custody before the boundary: a request the server saw has its intent on
\* disk, and an answer pending in a live proxy has one too.
CustodyBeforeForward ==
    \A c \in forwarded : \E s \in Segs : state[s] # "absent" /\ c \in IntentsIn(s)

\* One writer per segment, and while it holds the segment no probe finds the
\* lock free: a process about to append to s is the one isLive reports.
WriterIsLive ==
    \A p \in Procs : seg[p] # 0 => lock[seg[p]] = p

(***************************************************************************)
(* When no two processes overlap (Concurrent = FALSE), across every crash, *)
(* sink error and session.                                                 *)
(***************************************************************************)

\* calls a running proxy still owes a completion for
Held(p) == inflight[p] \cup
             (IF job[p].type = "completion" THEN {job[p].receipt.call} ELSE {})

\* Q4, the payment-fired-agent-died case: a forwarded call whose proxy is gone
\* has a receipt in the spool, or an intent the next recovery will read.
EvidenceKept ==
    \A c \in forwarded :
        \/ \E p \in Procs : c \in Held(p)
        \/ \E s \in Segs : c \in CompletedIn(s)
        \/ \E s \in Segs : state[s] = "open" /\ c \in IntentsIn(s)

\* "One crossing, one counter": the spool never holds two receipts of one call,
\* however often recovery is interrupted and run again.
OneReceiptPerCall ==
    \A q, r \in Spooled : q.call = r.call => q = r

\* Renaming to .done hides a segment from every later drain: by then the sink
\* has each of its receipts.
DoneWasDelivered ==
    \A s \in Segs : state[s] = "done" => ReceiptsIn(s) \subseteq delivered

\* "If a segment is .done, every earlier segment is too."
DonePrefix ==
    \A s, t \in Segs : s < t /\ state[t] = "done" => state[s] # "open"

\* The receipts no later drain will read: behind a cursor, or in a .done file.
Retired == UNION {IF state[s] = "done" THEN ReceiptsIn(s)
                  ELSE {r \in ReceiptsIn(s) :
                          \E i \in 1..cursor[s] : recs[s][i] = Completion(r)} :
                    s \in Segs}

\* The spool and its drain implement at-least-once delivery.
AtLeastOnce == INSTANCE Delivery WITH
    Receipt <- [call : Calls, n : 1..(MaxFaults + MaxShortWrites + 1), kind : Kinds],
    spooled <- Spooled, delivered <- delivered, retired <- Retired
DeliverySpec == AtLeastOnce!Spec

\* Every call that crossed ends up in the log under some receipt, provided the
\* drain keeps being run (FairSpec).
EveryCallReceipted ==
    \A c \in Calls : c \in forwarded ~> \E r \in delivered : r.call = c

(***************************************************************************)
(* What the code's own comments say of the spool, which overlapping        *)
(* processes or a short write refute (the violation runs).                 *)
(***************************************************************************)

\* A call still in flight in a live proxy is not an orphan.
OrphanIsDead ==
    \A r \in Spooled : r.kind = "orphan_intent" =>
        \A p \in Procs : r.call \notin inflight[p]

\* "The intent is never recovered twice."
RecoveredOnce ==
    \A q, r \in Spooled :
        q.call = r.call /\ q.kind = "orphan_intent" /\ r.kind = "orphan_intent" => q = r

\* Recovery runs before the drain (cmdDrain), so what a drain has read to the
\* end and renames holds no intent of a dead process without a receipt.
DrainedIntentsClosed ==
    [][\A s \in Segs :
          state[s] = "open" /\ state'[s] = "done" /\ cursor[s] > 0 =>
              \A c \in IntentsIn(s) :
                  \/ \E p \in Procs : c \in Held(p)
                  \/ \E t \in Segs : c \in CompletedIn(t)]_vars

\* A trailing partial record is seen "whole or never": every record on disk
\* parses.
RecordsParse == \A s \in Segs : ~IsGarbled(s)
=============================================================================
