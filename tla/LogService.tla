---------------------------- MODULE LogService ----------------------------
(***************************************************************************)
(* The append path of the behalf log: internal/tlog (Open, BeginAppend,    *)
(* Wait, Close, the epoch fence, receipt promises) and internal/index (the *)
(* follower table, Follow and Rebuild), as the `behalf-log` commands use   *)
(* them: ingest, drain and import are writers, follow and reindex are      *)
(* followers.  Writers open one handle each; any may be killed.            *)
(*                                                                         *)
(* Tessera's POSIX appender is external: entries queued by one handle are  *)
(* integrated in order, integration is durable, and a checkpoint is the    *)
(* size of the integrated tree at some moment.                             *)
(***************************************************************************)
EXTENDS FollowerIndex, FiniteSets

CONSTANTS
    Writers,      \* processes that open the log to append
    Followers,    \* processes that run a replay pass
    NoProc,       \* "nobody holds epoch.lock"
    Passes,       \* the replay commands in use: subset of {"follow", "reindex"}
    Threaded,     \* may goroutines of one process share a handle?
    Quiesce,      \* is a reindex only run while no writer is, and vice versa?
    MaxTasks,     \* bound: appends begun by one handle
    MaxLog,       \* bound: leaves
    MaxEpoch,     \* bound: handles opened
    MaxFaults     \* bound: processes killed and index writes refused as busy

Procs == Writers \cup Followers

ASSUME LogAssumption ==
    /\ NoProc \notin Procs
    /\ Writers \cap Followers = {}
    /\ Passes \subseteq {"follow", "reindex"}
    /\ Threaded \in BOOLEAN /\ Quiesce \in BOOLEAN
    /\ MaxTasks \in Nat /\ MaxLog \in Nat /\ MaxEpoch \in Nat
    /\ MaxFaults \in Nat

VARIABLES
    log,        \* the leaves, durable and integrated
    published,  \* tree size of the published checkpoint
    rows,       \* index.db, receipts: log index -> row
    indexed,    \* index.db, meta tree_size_indexed
    epoch,      \* epoch.json
    epochLock,  \* who holds epoch.lock
    pc,         \* pc[p]: what process p is doing
    mine,       \* mine[p]: the epoch p read, then claimed
    tasks,      \* tasks[p]: the Pendings of p's handle, in BeginAppend order
    scan,       \* scan[p]: what a replay pass read before its transaction
    outcome,    \* outcome[p]: how p's last replay pass ended
    promises,   \* acks returned, each with its signed promise
    faults

logVars   == <<log, published>>
indexVars == <<rows, indexed>>
epochVars == <<epoch, epochLock, mine>>
passVars  == <<scan, outcome>>
vars == <<logVars, indexVars, epochVars, pc, tasks, passVars, promises, faults>>

-----------------------------------------------------------------------------
(***************************************************************************)
(* A Pending.  "queued": Tessera has the entry; "durable": its future has  *)
(* resolved; "checked": Wait has left the pending map and passed the epoch *)
(* check; "looked": Record has done its lookup; "sign": only the promise   *)
(* is missing.  "dup" and "wait" are the two Pendings that append nothing. *)
(***************************************************************************)
Stage == {"queued", "durable", "checked", "looked", "dup", "wait",
          "sign", "acked", "failed"}

Task == [env    : Envelopes,  \* the envelope submitted
         stage  : Stage,
         leaf   : Nat,        \* the leaf this task appended
         first  : Nat,        \* the leaf it duplicates
         names  : Envelopes,  \* the envelope whose leaf hash is promised
         waitOn : Nat]        \* the task of the same handle it waits on

NewTask(e, stage) == [env |-> e, stage |-> stage, leaf |-> 0, first |-> 0,
                      names |-> e, waitOn |-> 0]

Promise == [receipt : Receipts,   \* the statement: receipt_id and leaf hash
            names   : Envelopes,
            index   : Nat,        \* AppendResult.Index
            dup     : BOOLEAN,    \* AppendResult.Duplicate
            signer  : Nat,        \* epoch of the handle that signed
            current : Nat]        \* epoch.json when it signed

NoScan == [from |-> 0, size |-> 0, wipe |-> FALSE]

Rid(e) == ReceiptOf[e]

HeldMutant(p) == TRUE
Held(p) == mine[p] = epoch        \* checkEpoch

Stages(p) == {tasks[p][k].stage : k \in DOMAIN tasks[p]}

\* The caller is one goroutine, inside at most one Wait, and stops at an error.
Ready(p) ==
    /\ pc[p] = "open"
    /\ Threaded \/ Stages(p) \cap {"checked", "looked", "sign", "failed"} = {}

SetTask(p, k, t) == tasks' = [tasks EXCEPT ![p][k] = t]
SetStage(p, k, s) == tasks' = [tasks EXCEPT ![p][k].stage = s]

InFlightMutant(p, r) == {}
\* l.pending[r]: queued and not yet taken out by Wait.
InFlight(p, r) ==
    {k \in DOMAIN tasks[p] : /\ tasks[p][k].stage \in {"queued", "durable"}
                             /\ Rid(tasks[p][k].env) = r}

-----------------------------------------------------------------------------
(***************************************************************************)
(* tlog.Open and Close                                                     *)
(***************************************************************************)

LockFreeMutant == TRUE
LockFree == epochLock = NoProc

\* claimEpoch takes epoch.lock and reads the record.
ClaimRead(p) ==
    /\ pc[p] = "idle" /\ p \in Writers
    /\ LockFree
    /\ epoch < MaxEpoch
    /\ Quiesce => \A q \in Followers : ~(pc[q] = "follow" /\ scan[q].wipe)
    /\ epochLock' = p
    /\ mine' = [mine EXCEPT ![p] = epoch]
    /\ pc' = [pc EXCEPT ![p] = "claim"]
    /\ UNCHANGED <<logVars, indexVars, epoch, tasks, passVars, promises, faults>>

\* ... renames the next record into place, releases the lock, starts the appender.
ClaimWrite(p) ==
    /\ pc[p] = "claim"
    /\ epoch' = mine[p] + 1
    /\ mine' = [mine EXCEPT ![p] = mine[p] + 1]
    /\ epochLock' = NoProc
    /\ pc' = [pc EXCEPT ![p] = "open"]
    /\ UNCHANGED <<logVars, indexVars, tasks, passVars, promises, faults>>

\* Close, deferred by every command: reached with all acks in hand or on an error.
CloseBegin(p) ==
    /\ pc[p] = "open"
    /\ Stages(p) \cap {"checked", "looked", "sign"} = {}
    /\ \/ "failed" \in Stages(p)
       \/ Stages(p) \subseteq {"acked"}
    /\ pc' = [pc EXCEPT ![p] = "closing"]
    /\ UNCHANGED <<logVars, indexVars, epochVars, tasks, passVars, promises, faults>>

CoveredMutant(p) == TRUE
CoveredStrictMutant(p) == \A k \in DOMAIN tasks[p] : tasks[p][k].leaf < published
Covered(p) == \A k \in DOMAIN tasks[p] : tasks[p][k].leaf <= published

\* shutdown returns once a checkpoint covers all this handle added.
CloseEnd(p) ==
    /\ pc[p] = "closing"
    /\ "queued" \notin Stages(p)
    /\ Covered(p)
    /\ pc' = [pc EXCEPT ![p] = "idle"]
    /\ tasks' = [tasks EXCEPT ![p] = <<>>]
    /\ mine' = [mine EXCEPT ![p] = 0]
    /\ UNCHANGED <<logVars, indexVars, epoch, epochLock, passVars, promises, faults>>

-----------------------------------------------------------------------------
(***************************************************************************)
(* BeginAppend                                                             *)
(***************************************************************************)

BegunMutant(p, e) ==
    LET live == InFlight(p, Rid(e))
        seen == LookupCanonical(rows, Rid(e))
    IN  IF live # {} THEN [NewTask(e, "wait") EXCEPT !.waitOn = Lowest(live)]
        ELSE IF seen # 0 THEN [NewTask(e, "dup") EXCEPT !.first = seen]
        ELSE NewTask(e, "queued")

BegunSelfMutant(p, e) ==
    IF InFlight(p, Rid(e)) # {}
    THEN [NewTask(e, "wait") EXCEPT !.waitOn = Len(tasks[p]) + 1]
    ELSE NewTask(e, "queued")

\* The Pending BeginAppend returns: in-flight duplicate, indexed duplicate, or new.
Begun(p, e) ==
    LET live == InFlight(p, Rid(e))
        seen == LookupCanonical(rows, Rid(e))
    IN  IF live # {} THEN [NewTask(e, "wait") EXCEPT !.waitOn = Lowest(live)]
        ELSE IF seen # 0
        THEN [NewTask(e, "dup") EXCEPT !.first = seen, !.names = rows[seen].env]
        ELSE NewTask(e, "queued")

Begin(p, e) ==
    /\ Ready(p)
    /\ Len(tasks[p]) < MaxTasks
    /\ Held(p)
    /\ tasks' = [tasks EXCEPT ![p] = Append(@, Begun(p, e))]
    /\ UNCHANGED <<logVars, indexVars, epochVars, pc, passVars, promises, faults>>

\* ErrFenced from BeginAppend: the command stops, its deferred Close runs.
BeginFenced(p) ==
    /\ Ready(p)
    /\ Len(tasks[p]) < MaxTasks
    /\ ~Held(p)
    /\ pc' = [pc EXCEPT ![p] = "closing"]
    /\ UNCHANGED <<logVars, indexVars, epochVars, tasks, passVars, promises, faults>>

-----------------------------------------------------------------------------
(***************************************************************************)
(* Tessera (external)                                                      *)
(***************************************************************************)

\* The appender takes the oldest queued entry; it becomes durable, its future resolves.
Integrate(p, k) ==
    /\ pc[p] \in {"open", "closing"}
    /\ tasks[p][k].stage = "queued"
    /\ \A j \in 1..(k - 1) : tasks[p][j].stage # "queued"
    /\ Len(log) < MaxLog
    /\ log' = Append(log, tasks[p][k].env)
    /\ SetTask(p, k, [tasks[p][k] EXCEPT !.stage = "durable", !.leaf = Len(log) + 1])
    /\ UNCHANGED <<published, indexVars, epochVars, pc, passVars, promises, faults>>

\* A handle's background task publishes a checkpoint of the integrated tree.
Publish(p) ==
    /\ pc[p] \in {"open", "closing"}
    /\ published < Len(log)
    /\ published' = Len(log)
    /\ UNCHANGED <<log, indexVars, epochVars, pc, tasks, passVars, promises, faults>>

-----------------------------------------------------------------------------
(***************************************************************************)
(* Wait                                                                    *)
(***************************************************************************)

\* The future resolved: out of the pending map, then the fence.
AwaitFuture(p, k) ==
    /\ Ready(p)
    /\ tasks[p][k].stage = "durable"
    /\ SetStage(p, k, IF Held(p) THEN "checked" ELSE "failed")
    /\ UNCHANGED <<logVars, indexVars, epochVars, pc, passVars, promises, faults>>

\* Record, first statement: the canonical row below the new leaf.
RecordLookup(p, k) ==
    LET t == tasks[p][k] IN
    /\ pc[p] = "open"
    /\ t.stage = "checked"
    /\ LET c == LookupBefore(rows, Rid(t.env), t.leaf) IN
       SetTask(p, k, [t EXCEPT !.stage = "looked", !.first = c,
                               !.names = IF c = 0 THEN t.env ELSE rows[c].env])
    /\ UNCHANGED <<logVars, indexVars, epochVars, pc, passVars, promises, faults>>

\* Record, second statement; a duplicate's result passes the fence again.
RecordInsert(p, k) ==
    LET t == tasks[p][k] IN
    /\ pc[p] = "open"
    /\ t.stage = "looked"
    /\ IF Refused(rows, t.leaf, t.env, t.first)
       THEN SetStage(p, k, "failed") /\ UNCHANGED rows
       ELSE /\ rows' = Upsert(rows, t.leaf, t.env, t.first)
            /\ SetStage(p, k, IF t.first = 0 \/ Held(p) THEN "sign" ELSE "failed")
    /\ UNCHANGED <<logVars, indexed, epochVars, pc, passVars, promises, faults>>

\* Another connection holds the database: Record returns SQLITE_BUSY.
RecordBusy(p, k) ==
    /\ pc[p] = "open"
    /\ tasks[p][k].stage \in {"checked", "looked"}
    /\ faults < MaxFaults
    /\ faults' = faults + 1
    /\ SetStage(p, k, "failed")
    /\ UNCHANGED <<logVars, indexVars, epochVars, pc, passVars, promises>>

\* Wait on a Pending BeginAppend resolved from the index: duplicateResult.
AwaitDuplicate(p, k) ==
    /\ Ready(p)
    /\ tasks[p][k].stage = "dup"
    /\ SetStage(p, k, IF Held(p) THEN "sign" ELSE "failed")
    /\ UNCHANGED <<logVars, indexVars, epochVars, pc, passVars, promises, faults>>

\* AppendResult.Index
AckIndex(t) == IF t.first = 0 THEN t.leaf ELSE t.first

\* Wait on an in-flight duplicate: the original's result, or its failure.
AwaitOriginal(p, k) ==
    LET t == tasks[p][k]
        o == tasks[p][t.waitOn] IN
    /\ Ready(p)
    /\ t.stage = "wait"
    /\ o.stage \in {"acked", "failed"}
    /\ IF o.stage = "acked" /\ Held(p)
       THEN SetTask(p, k, [t EXCEPT !.stage = "sign", !.first = AckIndex(o),
                                    !.names = o.names])
       ELSE SetStage(p, k, "failed")
    /\ UNCHANGED <<logVars, indexVars, epochVars, pc, passVars, promises, faults>>

\* signPromise and return of the ack.  No fence between this and the last check.
Sign(p, k) ==
    LET t == tasks[p][k] IN
    /\ pc[p] = "open"
    /\ t.stage = "sign"
    /\ promises' = promises \cup
         {[receipt |-> Rid(t.env), names |-> t.names, index |-> AckIndex(t),
           dup |-> t.first # 0,
           signer |-> mine[p], current |-> epoch]}
    /\ SetStage(p, k, "acked")
    /\ UNCHANGED <<logVars, indexVars, epochVars, pc, passVars, faults>>

-----------------------------------------------------------------------------
(***************************************************************************)
(* index.Follow and index.Rebuild                                          *)
(***************************************************************************)

\* Both read the published checkpoint before their transaction begins.
PassRead(p, c) ==
    /\ pc[p] = "idle" /\ p \in Followers
    /\ c \in Passes
    /\ (Quiesce /\ c = "reindex") =>
          \A q \in Procs : pc[q] = "idle"
    /\ scan' = [scan EXCEPT ![p] =
         [from |-> (IF c = "reindex" THEN 0 ELSE indexed) + 1,
          size |-> published, wipe |-> c = "reindex"]]
    /\ pc' = [pc EXCEPT ![p] = "follow"]
    /\ UNCHANGED <<logVars, indexVars, epochVars, tasks, outcome, promises, faults>>

StartRowsKeepMutant(p) == rows
StartRowsWipeMutant(p) == <<>>
StartRows(p) == IF scan[p].wipe THEN <<>> ELSE rows

MarkerMutant(p) == published
Marker(p) == scan[p].size

\* followDB's transaction: wipe if asked, replay, then the marker.
PassCommit(p) ==
    LET pass == Replay(StartRows(p), log, scan[p].from, scan[p].size) IN
    /\ pc[p] = "follow"
    /\ IF pass.ok
       THEN rows' = pass.rows /\ indexed' = Marker(p)
       ELSE UNCHANGED indexVars
    /\ outcome' = [outcome EXCEPT ![p] = IF pass.ok THEN "ok" ELSE "failed"]
    /\ scan' = [scan EXCEPT ![p] = NoScan]
    /\ pc' = [pc EXCEPT ![p] = "idle"]
    /\ UNCHANGED <<logVars, epochVars, tasks, promises, faults>>

-----------------------------------------------------------------------------
\* The process is killed: its handle, its queue and its locks go with it.
Crash(p) ==
    /\ pc[p] # "idle"
    /\ faults < MaxFaults
    /\ faults' = faults + 1
    /\ epochLock' = IF epochLock = p THEN NoProc ELSE epochLock
    /\ pc' = [pc EXCEPT ![p] = "idle"]
    /\ tasks' = [tasks EXCEPT ![p] = <<>>]
    /\ mine' = [mine EXCEPT ![p] = 0]
    /\ scan' = [scan EXCEPT ![p] = NoScan]
    /\ UNCHANGED <<logVars, indexVars, epoch, outcome, promises>>

Init ==
    /\ log = <<>> /\ published = 0
    /\ rows = <<>> /\ indexed = 0
    /\ epoch = 1 /\ epochLock = NoProc      \* initLog opened the log once
    /\ pc = [p \in Procs |-> "idle"]
    /\ mine = [p \in Procs |-> 0]
    /\ tasks = [p \in Procs |-> <<>>]
    /\ scan = [p \in Procs |-> NoScan]
    /\ outcome = [p \in Procs |-> "none"]
    /\ promises = {}
    /\ faults = 0

TaskStep(p, k) ==
    \/ Integrate(p, k)
    \/ AwaitFuture(p, k)
    \/ RecordLookup(p, k)
    \/ RecordInsert(p, k)
    \/ AwaitDuplicate(p, k)
    \/ AwaitOriginal(p, k)
    \/ Sign(p, k)

Next ==
    \E p \in Procs :
        \/ ClaimRead(p) \/ ClaimWrite(p)
        \/ \E e \in Envelopes : Begin(p, e)
        \/ BeginFenced(p)
        \/ \E k \in DOMAIN tasks[p] : TaskStep(p, k) \/ RecordBusy(p, k)
        \/ Publish(p)
        \/ CloseBegin(p) \/ CloseEnd(p)
        \/ \E c \in Passes : PassRead(p, c)
        \/ PassCommit(p)
        \/ Crash(p)

\* A live process runs on: its appender, its publisher, its Waits, its Close.
Fairness ==
    \A p \in Procs :
        /\ WF_vars(ClaimWrite(p))
        /\ WF_vars(\E k \in DOMAIN tasks[p] : TaskStep(p, k))
        /\ WF_vars(Publish(p))
        /\ WF_vars(CloseBegin(p))
        /\ WF_vars(CloseEnd(p))
        /\ WF_vars(PassCommit(p))

Spec == Init /\ [][Next]_vars
FairSpec == Spec /\ Fairness
=============================================================================
