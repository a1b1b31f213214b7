# A TLA+ model of behalf

behalf records one signed receipt per consequential action of an AI agent, keeps
the receipts in a tamper-evident log and lets a third party check them offline.
This directory holds TLA+ modules of the parts of it whose correctness depends
on the order in which processes, crashes and messages interleave, the TLC
configurations that check them on small instances, and TLAPS proofs of what they
promise for every instance.

`PROJECT.json` lists the components, the runs, the mutants, the line-by-line map
from definitions to source, the findings, the hazards and the theorems.

## 1. The system

An agent's tool calls reach a capture surface (the MCP proxy, or the Claude Code
hooks), which stamps a counter, spools an *intent* before the call and a signed
*completion* after it. A drain moves completions from the spool to the log. The
log's appender dedups, sequences, signs checkpoints and fills an index. Witnesses
cosign checkpoints. Exports of the log are verified offline and queried (`why`,
`diff`).

| component | state it keeps | operations | interacts through |
|---|---|---|---|
| capture spool (`internal/spool`) | segment files, cursors, `.done` names, advisory locks | Open, rotate, append, Close, Recover, Drain, ReadAll | the directory and `flock` |
| MCP proxy (`internal/proxy`) | pending calls, ordinal, spool, run id | Run, request and response pumps, flushOrphans | pipes to client and server, the spool |
| hook capture (`internal/hooks`) | pending intents and pointers in buckets, one spool segment per session, run id files | handlers per hook event, Put, Claim, Find, Sweep, Recover | files, one short-lived process per event |
| emitter (`internal/identity`, `internal/capture`) | emitter key, counter file | load or generate, next counter, receipt of a chain | a lock file |
| content store (`internal/cas`, `internal/payload`) | blobs by digest | Put, Get, ReadRaw; the payload join with its states | files the customer may touch |
| log (`internal/tlog`) | tile log, epoch file, pending and promise records, index, `emitters.jsonl` | Open, Append, BeginAppend, resolve, checkpoint, RegisterKey, Reindex, ExportRun, Status | library goroutines, files, SQLite |
| index (`internal/index`) | rows per leaf, canonical receipt ids | Record, Follow, Rebuild, ListRuns, RunRows, Reconstruct | SQLite |
| witness (`internal/witness`) | per-origin checkpoint head | add-checkpoint, cosign, persist | HTTP, a state file |
| delegation chain (`internal/aat`, `internal/why`) | tokens | Mint, Verify, CompareGrants, CheckScope | the receipt, the export, the offline verifier |
| diff (`internal/diff`) | none | align, compare, attribute causes | the index and the receipts of two runs |
| readers (`cmd/behalf-log` rehydrate and reconstruct, `internal/why` runs, `internal/htmlexport`) | a cursor, a page | open, emit a line, close; list; build | index, log, content store, while they change |
| export and verifier (`internal/exportv1`, `verifier/`) | none | write, read and verify an export or a log directory | files that may have suffered |
| import (`cmd/behalf-log import`) | the receiving log and store | open, append each leaf, retain tokens, end; again after a kill | an export |
| login (`internal/oidclogin`) | device key, login material | login, verify | an identity provider |

### What is hard, and what makes each part correct

* **Spool.** Processes share a directory and coordinate by advisory locks and
  renames; any of them may be killed between two steps. Correct means: custody
  before the request crosses; evidence of every call that crossed survives a
  crash; a drain never skips an undelivered record; one receipt per call; a
  `.done` file hides nothing; every call is eventually receipted.
* **Proxy.** Two pumps share the pending map and the spool. A response closes
  the intent of its own request.
* **Hooks.** Each event is a process of its own, two of a session may overlap,
  and a drain renames segments under them. A pending intent is claimed once, a
  sweep never loses one, an append never lands in a file a drain has retired.
* **Log.** Redelivery, a fenced old appender, a crash between durable commit and
  index. One canonical leaf per receipt id, promises kept, the index equal to
  the log after catching up.
* **Witness.** Concurrent submitters and a crash between rename and reply. Heads
  only grow along consistent histories, and what was cosigned survives restart.
* **Delegation.** Two independent implementations judge one chain, at capture and
  from an export that may lack tokens. A verified hop stands on a verified prefix
  and gains no authority; what the minting side makes the verifying side accepts.
* **Evidence.** The export joins three things that may each be incomplete (index,
  key table, token store), the file or directory suffers on its way, and an import
  may be killed. What is accepted is what was written, damage gets its right name,
  and an import keeps the run.
* **Readers.** They read tables and blobs that change between two of their queries.
  Pages join, a verdict is one the receipts support, a slot is what the store held.
* **Diff.** A large program with caps, anchors and a noise filter. Each step is in
  one pair, nothing that differs is hidden, a consequence has values that show it.

## 2. Modules

| module | role |
|---|---|
| `Spool` | the spool, its proxies and drains: state, actions, `Spec`, `FairSpec` |
| `SpoolProps` | type invariant, safety, refinement and liveness properties of `Spool` |
| `Delivery` | abstract specification: at-least-once delivery |
| `MCSpool` | model values and symmetry for TLC |
| `SpoolProofs` | proved under any concurrency: types, `ConsumedWasDelivered`, one writer to a segment, custody before the boundary, `NoHiddenCompletion` |
| `SpoolSoloProofs` | proved of one process at a time: evidence kept, one receipt per call, `.done` means delivered, `Delivery` implemented |
| `FollowerIndex` | the receipts table: lookup, upsert, the partial unique index, a replay in closed form, the projection of a log prefix |
| `IndexLoop` | the loop of `followDB`, statement by statement, against that closed form |
| `LogService` | the log: epochs, BeginAppend, Wait, promises, Close, Follow, Rebuild, crashes |
| `LogProps` | properties of `LogService` |
| `AppendOnce` | abstract specification: a receipt enters the log once, and acks name that place |
| `MCLog` | model values and symmetry for TLC |
| `LogProofs` | proved: types, promises, rows, rebuilds and the epoch fence; and, of a log used in good order, acks found again, safe follows and `AppendOnce` |
| `TreeHeads` | tree heads, consistency between them |
| `CosignLedger` | abstract specification: cosignatures of one origin agree |
| `Witness` | the witness: requests, judgement, state file, lock, kills, power losses |
| `WitnessProps` | properties of `Witness` |
| `MCWitness` | trees with a fork and symmetry for TLC |
| `Witnessing` | the log's submitters and the protocol client, composed with `Witness` |
| `WitnessingProps`, `MCWitnessing` | properties of the composition; a line and a fork of trees |
| `WitnessProofs` | the witness's safety and its refinement of `CosignLedger`, proved for every instance; what the log records of its witness, proved for the composition |
| `Hooks`, `HooksProps`, `MCHooks` | the hook processes over the pending-intent store; its promises; eight settings |
| `HooksProofs` | counters accounted for, intents not confused, the store served and emptied, proved for every setting |
| `Grants` | the attenuation comparator and its constraint algebra, as operators |
| `Delegation`, `DelegationProps`, `MCDelegation` | the life of one chain from minting to the offline verifier; a menu of grants |
| `DelegationProofs` | earned and nested authority, minted chains, agreement of the two verifiers, proved for chains of any length |
| `ExportFile` | the lines of an export, its Go reader, the file verifier's findings |
| `LogDirectory` | the files of a log directory and what the directory verifier says of them |
| `Evidence`, `EvidenceProps`, `MCEvidence` | catching up, exporting, damage, verifying and importing, over `IndexLoop`, `ExportFile` and `LogDirectory`; five settings |
| `EvidenceProofs` | the replay loop, the export, what a verifier accepts and what it names, proved for every log and any number of changes |
| `Values` | JSON values, as readers and diff see them |
| `RunAlign`, `RunDiff`, `RunCauses` | the diff of two runs, each extending the one before: the alignment in its three tiers, the comparison of two steps, and the causal reading of their differences, as operators |
| `Reading`, `ReadingProps`, `DiffProps`, `MCReading` | the readers of a log that is still written, the diff of two runs among them; their promises, and what the noise filter may be relied on for; eight settings |
| `ReadingProofs` | crossings, pages, slots, verdicts, alignments, comparisons and consequences, proved for logs of any length and values of any depth |

The spool and the log meet at the drain's sink: the records a `Drain` of `Spool` hands
over are the receipts a writer of `LogService` begins to append, and the
at-least-once delivery that `Spool` gives is the redelivery that `LogService`
takes as its input. `Witnessing` is composed with `Witness` in the model itself:
its `Post` is the witness's `Receive`. It takes the published checkpoint of
`LogService` as an input (`Publish`). `Evidence` runs the loop of `IndexLoop`, whose
closed form `LogService` uses, and exports from the table it leaves. `Delegation`
ends where an export of `Evidence` carries tokens. `Hooks` appends its receipts to
a spool whose own steps are those of `Spool`.

A *cast* is the name of one setting a run plays: each new family of modules has a
constant `Casts`, and `Init` picks one, so that one run covers several small
instances, each with the variation it is about, without their product.

### Spool

A process is either a proxy (`proxy.Run`) or a `behalf-log drain` (`cmdDrain`).
`pc` is the system call it is about to make, so that TLC interleaves processes
where the kernel can. The variables of a process are the locals of the
code's loops: `hand` and `list` are the `for _, seg := range segs` of `Recover`
and `Drain`, `cand` and `comp` the candidates and completed ids of `Recover`,
`start`, `pos` and `markDone` those of `Drain`, `seg` the `Spool.seg` that
`appendLine` writes to, `inflight` the `pending` map.

| code | actions |
|---|---|
| `Open`, `Recover` | `Start`, `RecoverProbe`, `RecoverUnprobe`, `RecoverScan` |
| `flushOrphans`, `newCapture`, `RecoverOrphans` | `FlushOrphan`, `Recovered` |
| `pumpRequests`/`onClientLine`/`spoolIntent` | `ClientCall`, then `appendLine` |
| `pumpResponses`/`onServerLine` | `ServerAnswer`, then `appendLine` |
| `appendLine`, `rotate` | `Rotate`, `CreateSegment`, `LockSegment`, `Write`, `ShortWrite` |
| `Drain` | `DrainList`, `DrainRead`, `DrainRecord`, `DrainStops`, `DrainEOF`, `DrainProbe`, `DrainUnprobe`, `DrainStat`, `DrainRename` |
| end of `Run`, end of `cmdDrain`, kill | `Shutdown`, `DrainEnds`, `Crash` |

Abstractions. A segment is a sequence of records and offsets count records; a
record that a short write left incomplete is the flag `torn`, and two lines run
together are `Garbled`. A segment's name is the number of names minted before
it (names sort by time). A lock belongs to the inode, so renaming keeps it, and
a process holds at most one lock per segment. The second half of `isLive`
(release) is a step of its own because `rotate`'s `TryLock` fails in between.
Scanning a segment for recovery is one step: reading does not depend on later
appends except through what is already read, and a later scan is a later step.
Fsync is taken at its word: a record whose `Sync` returned survives. The
cursor needs no fsync in the code and is not lost in the model, since losing it
only delivers again.

### LogService

A writer is a process that opens the log to append (`ingest`, `drain`, `import`);
a follower is one that runs a replay pass (`follow`, `reindex`). A writer's
`tasks` are the `Pending`s of its handle in `BeginAppend` order, and a task's
`stage` says how far its `Wait` has come.

| code | actions |
|---|---|
| `Open`, `claimEpoch`, `lockEpochFile` | `ClaimRead`, `ClaimWrite` |
| `BeginAppend` | `Begin` (in-flight duplicate, indexed duplicate, or queued), `BeginFenced` |
| `Wait`, `resolve` | `AwaitFuture`, `RecordLookup`, `RecordInsert`, `RecordBusy`, `Sign` |
| `duplicateResult`, in-flight duplicates | `AwaitDuplicate`, `AwaitOriginal`, `Sign` |
| `Close` | `CloseBegin`, `CloseEnd` |
| `Rebuild`, `Follow`, `followDB` | `PassRead`, `PassCommit` |
| Tessera (external) | `Integrate`, `Publish` |
| kill | `Crash` |

Abstractions. An envelope is a model value and `ReceiptOf` its receipt id; two
envelopes of one receipt are a redelivery with other bytes, so a promise records
the envelope its leaf hash is of. Log indices count from 1, so that 0 is SQL's
NULL. SQLite transactions and single statements are atomic; `Record`'s lookup and
insert are two statements outside any transaction and so two actions. A replay
pass is one transaction: `PassRead` is what it reads before, `PassCommit` the
whole walk in closed form. `LoopIsReplay`, checked in the run `evidence`, compares
that closed form with the loop on every small input. `BeginAppend` checks the epoch, looks the receipt up
and queues the entry in one action: a fence in between would be caught by the
check every `Wait` makes, which is the one that decides what gets signed.
`migrateSeed`, the keys table and the emitter of a receipt are left out. Tessera
integrates the entries of one handle in the order they were added, integration
is durable, and a checkpoint covers what is integrated; a handle that is closing
or fenced still integrates what it queued.

### Witness and Witnessing

`Witness` is `behalf-witness serve`: processes over one state directory, each with
requests in their handlers. A request's `stage` is where its handler stands:
`Receive` is `addCheckpoint` up to the call of `Cosign` (it reads the held head with
no lock of the witness), `Cosign` judges under `w.mu` against the head held *then*,
and `Rename`, `SyncDir` are the two steps of `flushLocked` a power loss can separate.
`durable` is the set of state files a power loss may leave; the directory's sync
makes it a singleton. `issued` is what a client was sent.

| code | actions |
|---|---|
| `addCheckpoint`, `Inspect`, `Held`, `fail`, `refuse` | `Receive` (`Precheck`), `HangUp` |
| `Cosign`, `checkConsistent` | `Cosign` (`Judge`, `Proves`) |
| `Store.Record`, `flushLocked` | `Cosign`, `Rename`, `SyncDir`, `FlushFails` |
| writing the response | `Sign` |
| `cmdServe`: `OpenStore`, `TryLock`, the end of the process | `Load`, `Serve`, `GiveUp`, `Exit`, `PowerLoss` |
| `witnessLoop`, `witnessPass`, `WitnessDir`, `cmdWitness` | `Start` |
| `Client.Submit`, `Client.post` | `RefuseLocally`, `Post`, `Unreachable`, `Answered`, `Abandon` |
| `submit`, `appendWitnessRecord`, `writeWitnessedCheckpoint` | `Record`, `WriteWitnessed`, `WriteFails` |
| `Close` and `Open` of the log; an operator's restore | `Reopen`, `Restore` |

Abstractions. A tree head is the sequence of its leaves: with a collision-free
hash two roots are equal when the trees are. A consistency proof is the size it
starts from, 0 for the empty one, and verifies when it starts from the held size
and the offered tree carries the held one forward. A submitter of `Witness` may
send any signed or unsigned tree with any old size and any proof; `Witnessing`
narrows that to what `Submit` sends. Key files, `init`, `show`, HTTP statuses that
all mean `unreachable`, and the cosignature counter are left out. A pass of
`Witnessing` has one witness, which is its quorum, and fails open; several
witnesses, and the mode in which Tessera itself waits for them, are not modelled.

### Hooks

A host is one `behalf-hook` process. `job[h]` is what it has in hand and `at` the file
operation it is about to make, so that two hooks of a session interleave where
two processes can. `json`, `links`, `dirs` and `litter` are the records, pointer files,
bucket directories and left-over temporary files of `pending.go`; an intent's
number is its ULID.

| code | actions |
|---|---|
| `handlePreToolUse`, `completeToolCall`, `handlePermission` (of both kinds), `handleSubagent`, `handleSessionBoundary`, `Capture.Recover` | `PreToolUse`, `PostToolUse`, `PermissionRequest`, `PermissionDenied`, `Marker`, `SessionEnd`, `Recover` |
| `NextCounter`, the counter under its lock | `NextCounter` |
| `Put` | `PutBucket`, `PutAlias`, `PutTemp`, `PutRename` |
| `Claim`, `Peek`, `claimBucket`, `readBucket`, `followLinks` | `FollowLinks`, `List`, `Read`, `Take` |
| `Sweep` and the orphans of `Recover` | `SweepScan`, `SweepBucket`, `SweepRead`, `SweepRemove`, `SweepLinks`, `EmitOrphan`, `SweepEnds` |
| sign and spool | `Emit` |
| a killed process, a failed append; hooks installed after the call began | `Fail`, `Unhooked` |

Spooling a receipt is one step (the segment is `Spool`'s). The causal ordinal, the
CAS blobs and the chain of authority ride along with the intent and are left out.

### Delegation

One chain is minted hop by hop and then read by two verifiers. `Grants` is
`CompareGrants` for the two vocabularies: it is the *set* of answers the code can
give, because `compareV1` ranges over Go maps and stops at the first fault.

| code | actions |
|---|---|
| `aat.Mint` of a root, of a further hop; a hop made elsewhere; one its holder mints again; a chain carried without its root | `MintRoot`, `Mint`, `AddOther`, `Renew`, `CarryTail` |
| `Verify`, `verifyHop`, `VerifyRoot`'s report | `Verify` |
| `RetainHopTokens` | `Record` |
| a customer's removal of a token; `gatherHopTokens` | `Prune`, `Export` |
| `aat.rs` | `CheckChain` |
| `CheckScope`, with `limitFor` as the constant operator `CeilingOf` | `CheckScope`, an operator |

Times are small naturals, a decimal is a natural, a key is a name; JWS and JSON
decoding are what they yield (`Garbled` for what does not decode). One hop of a
chain is arbitrary, the others are minted.

### Evidence

| code | actions |
|---|---|
| `RegisterKey`, `saveEmitterKey`, a write cut short | `RegisterKey`, `RegisterTorn` |
| loss of `index.db`, `Reindex`, `Open` with `LoadEmitterKeys` | `DropIndex`, `Reindex`, `OpenLog` |
| `followDB` | `Catch`, the steps of `IndexLoop` |
| `cmdExport`, `ExportRun` | `Export` |
| damage to a log directory; an old backup, a new tree of the same key | `Rot`, `Restore`, `Rewrite` |
| loss or alteration of a token | `Prune` |
| damage to a file | `Lose`, `Cut`, `Swap`, `Repeat`, `Change` |
| `cmdImport`, killed and run again | `ImportOpen`, `ImportBegin`, `ImportIntegrate`, `ImportWait`, `ImportEnd`, `ImportKilled`, `ImportReindex` |

`Reads` is the Go reader, `Findings` the findings of `verify.rs` and `DirProblem` those
of `logdir.rs`: operators, evaluated in every state. A digest is the thing it is
taken over, a signature its key with the bytes signed, a tree root the sequence
of its entries. Nobody forges: a signature altered on the way is one no key has made,
and who has no key of the log signs as a `Stranger`. The directory and the token store
are damaged before an export or not at all (`original` is still empty), the file
after it, so that each run of the model asks about one of them.

### Reading

| code | actions |
|---|---|
| capture, `cas.Put`, the drain delivering again, `Follow` | `Record`, `Redeliver`, `Follow` |
| the customer's disk | `Touch` |
| `rehydrate` with its cursor | `OpenRehydrate`, `EmitLine`, `CloseRehydrate` |
| `Reconstruct` with its cursor | `Reconstruct` |
| `ListRuns` of `behalf runs`: summaries first, then the rows of each run | `OpenListing`, `ListRun`, `CloseListing` |
| `htmlexport.Build`, with `diff.Analyze` for two runs | `BuildPage` |

`RunAlign`, `RunDiff` and `RunCauses` follow `align.go`, `compare.go` and `causality.go`
operator by function. JSON values are trees of atoms, and `Depth` names those that occur
with their depth: what recurs over them (`DiffValue`, `Leaves`) is a function whose
domain is built of these, since the prover knows functions by recursion and no
`RECURSIVE` operators. An atom has a length and a shape (identifier,
timestamp, plain), which is what the noise filter and the link search look at.
The tables of `needlemanWunsch` hold the code's scores in two-hundredths, as integers
in place of floats: the code's alignment is worth as much up to the rounding of its
sums, and ties may be broken differently. `AlignmentIsComplete` speaks of exact scores.

## 3. Runs

`SYMMETRY` permutes processes (and, for the spool, calls), and is used for safety
only. A property that is a conjunction names, in the table, what its parts say.

| run | instance | what it shows |
|---|---|---|
| `spool_exclusive` | 1 proxy, 1 drain, 2 calls, 2 sessions, 2 faults, one process at a time, fairness | evidence kept, one receipt per call, at-least-once delivery (refinement of `Delivery`, which makes `.done` hide nothing the sink lacks), every call that crossed is receipted in the log, no deadlock |
| `spool_concurrent` | proxy and drain overlapping, 2 calls, 3 segments, 1 fault, 1 short write | cursors skip nothing undelivered, no completion is hidden in a `.done` file, custody before the request crosses |
| `log_faults` | 2 writers, 1 follower, 2 envelopes of one receipt, 2 appends per handle, 2 leaves, epochs to 3, 1 crash or refused write | promises durable, at most one stale signature per handle, a rebuild gives the projection |
| `log_orderly` | 1 writer, 2 followers, 3 envelopes of 2 receipts, 3 appends in flight, 3 leaves, epochs to 3, no fault, reindex alone | append-once (refinement of `AppendOnce`), acks resolvable, `FollowIsSafe`: no pass fails, the live index is the projection, nothing below the marker is missing |
| `log_live` | 2 writers, 2 appends per handle, epochs to 3, fairness | `Progress`: promises are redeemed, appends resolve, `Close` returns |
| `witness_serve` | 2 processes, 2 requests in flight, 2 origins, trees of 1 or 2 leaves with a fork, 2 faults, no takeover | no split view, nothing cosigned is forgotten, refinement of `CosignLedger`, no deadlock |
| `witness_honest` | 1 process, the log's loop, 1 reopening or restore, 2 faults, trees of up to 2 leaves with a fork, fairness | refusals have a cause, `RecordIsTrue`: what is recorded as witnessed is backed and one fork is cosigned, every head left published gets an outcome |
| `hooks` | eight settings: parallel equal calls with a prompt, a refusal and a failure; two sessions; three calls; overlapping hooks, also of two calls that nothing tells apart; a recover run | every counter accounted for and never shared by two intents, a receipt closes its own intent, the store serves until the first sweep and empties after the last, every intent closes |
| `hooks_blank_approval` | two sessions, one hook at a time, no failure | a claim of the code this refutes (section 4) |
| `delegation` | chains of up to 3 hops, one of them arbitrary, over two vocabularies of grants | a verified hop stands on a verified prefix and inside its authority, minted chains hold, the two verifiers agree, the scope check reads the leaf |
| `evidence` | five settings: every log of up to 4 leaves with every table an ingest can have left; two changes to a file; two to a directory; keys with torn writes; an import killed twice | the loop is the closed form of `LogService`, an export is the run, what a verifier accepts is whole, damage is named for what it is, an import keeps the run |
| `reading` | eight settings of up to 6 receipts in two runs | alignment is complete and optimal, nothing that differs is hidden, a consequence is shown, pages join, one verdict, crossings keep their receipts, slots are true |

The type invariants of `Spool`, `LogService`, `Witness`, `Witnessing`, `Hooks` and
`Delegation` are proved (section 5) and so in no run.

Bounds of the spool. `SegMax` is the number of records after which `appendLine`
rotates: 1 or 2 makes every append after the first one, or two, rotate.
`MaxSegs` bounds names: in `spool_exclusive` it is larger than any behaviour
needs (6 are never minted), so deadlock is checked; elsewhere the bound stops
rotation, and the runs say `CHECK_DEADLOCK FALSE`. Two calls are enough for one
to be open while the other closes, and for their records to be split over
segments; one crash can hit any step, and a second one the recovery from the
first.

Bounds of the log. Epochs to 3 (the log is created with 1) let one handle fence
another, or be opened again after a crash; two tasks per handle are a pipeline in
which the second is an in-flight duplicate, a later leaf, or not yet waited on
when the first fails. Two envelopes of one receipt are what duplicates need; a
second receipt is there where rows of different receipts must not be confused
(`log_orderly`, `evidence`). Leaf and epoch bounds stop the system, so the log
runs say `CHECK_DEADLOCK FALSE`; a command that has ended has nothing left to do
either.

Bounds of the witness. Three trees suffice for every relation the code tells
apart: equal, carried forward, of one size and different, larger and inconsistent;
`witness_honest` adds the empty tree, which a fresh log publishes and whose size is
that of "nothing held". Two requests are one that read the held head and one that
moves it. Two faults are a failed flush and then a loss of power, or two restarts.
`Recalibrations` is 4 in the code and 1 in `witness_honest`, so that its two faults can exhaust it: the
witness answers a size it read back after a kill and then loses it to a power
loss. `Impatient = FALSE` means that a pass ends only after its request was
handled, though the answer may be lost; with `Impatient = TRUE`, two requests and
no fault everything but `RefusedForCause` (section 4) still holds.
`Takeover = FALSE` means that the serving process does not end while another one
stands between `OpenStore` and `TryLock`.

Bounds of the hooks. Two equal calls, only one of which carries a `tool_use_id`, are
what the content key and its pointers can confuse; two without an id are what they
cannot tell apart at all; a third in another session is what the session must keep
apart. Two hosts overlap at every file operation. A
setting has at most one failure, which may be at any step. Calls, recoveries and
sessions run out, so the run says `CHECK_DEADLOCK FALSE`, as do the next three.

Bounds of delegation. Three hops are a root, a hop with a parent and a child, and
a leaf: `verifyHop` looks at two neighbours, and a property over a prefix needs a
third. The menu holds every shape of grant the two grammars tell apart: ceilings
equal, lower, higher, in another currency, missing, not decimal and given twice; each
kind of constraint, nested ones, one level too deep. All pairs of it are compared,
and chains of three take a smaller part of it.

Bounds of evidence. Four leaves hold a run with a duplicate, a neighbour from
another run and a receipt after both; a tile is two entries wide, so that a tree
of three has a full and a partial tile. Two changes to a file let the second hide
the first. Two kills of an import interrupt its retry.

Bounds of reading. `MaxCells` is 6 (9000000 in the code), so that blocks within and
beyond the alignment table's limit occur; `MaxChanges` is 2 (64), so that a pair can
exceed its budget; `MinLinkLength` is 3, as in the code. Step
keys are missing, repeated, permuted and unique. A second `rehydrate` goes on from
the first one's cursor, with a backfilled row or a leaf delivered twice between.

Fairness. `Spool`'s `FairSpec`: a process that is running takes its next step
(weak fairness of `Step`), and each drain is started again and again, since
`behalf-log drain` is a command the operator repeats. `LogService`'s `FairSpec`:
what a live handle does by itself goes on, that is its appender and checkpoint
publisher (background goroutines of Tessera), the `Wait`s of the one goroutine
that drives it, and the `Close` each command defers; a pass that has begun
commits. Nothing makes a caller open a handle or begin an append. `Witnessing`'s
`AllSpec`: the loop ticks and its pass goes on (a ticker, and a goroutine with a
deadline), a handler the witness has started runs on, and a closed connection
ends its handler. Nothing makes the witness start, the log publish or a command
run. `Hooks`: a process that is not killed runs to its end, and Claude Code delivers
the end of every session (`EveryIntentCloses` needs it: nothing else sweeps).
Crashes, sink errors, refused and short writes are not fair, and are bounded; `log_live` has
none, since a killed process resolves nothing. `Delegation`, `Evidence` and `Reading`
state safety only and no fairness.

## 4. What the checks found

`hooks_blank_approval` is a `violation` run and a finding in `PROJECT.json`. `Sweep`
removes every pointer file of every bucket it walks, those of other sessions' live
intents included. A `PermissionRequest` carries no `tool_use_id` and can reach its
intent by such a pointer only, so after another session has ended it finds none,
and its receipt anchors to no intent although one is on disk.
`ApprovalAnchorsUnswept` (in `StoreServes`) bounds this: until the first sweep it does.

The modules also state claims that the code refutes and that have no run of their
own. With one process at a time the spool keeps every promise (`spool_exclusive`), with
no crash and reindex run alone the log does (`log_orderly`), with no takeover and one
submitter the witness does (`witness_serve`, `witness_honest`). To see a claim fail,
change the named configuration as follows and check the property alone. *Lone* is
`SpoolConcurrent.cfg` with `Calls = {c1}`, `MaxFaults = 0`, `MaxShortWrites = 0`; *stuck* is
`LogOrderly.cfg` with `Followers = {f1}`, `Envelopes = {a1}`, `Receipts = {a}`, `Passes = {"follow"}`,
`MaxTasks = 1`, `MaxLog = 2`, `MaxFaults = 1` and no symmetry.

| property | claim | configuration, and what happens |
|---|---|---|
| `DoneWasDelivered` | spool.go:381-382, a `.done` segment is all consumed and no writer can append to it | *lone*: `rotate` creates a segment before locking it, a drain in between renames the empty file, and later receipts go to a file nobody reads |
| `OrphanIsDead` | spool.go:274-276, calls in flight are not orphans | *lone* with `Calls = {c1, c2}`, `SegMax = 1`: recovery reads a segment its writer has rotated away from |
| `DrainedIntentsClosed` (a `PROPERTY`) | spool.go:9-11, recovery flushes an intent without a completion | *lone* with `MaxFaults = 1` and no symmetry: a proxy that dies between a drain's recovery and its pass leaves an intent that is renamed to `.done` without a receipt |
| `RecordsParse` | spool.go:458-461, a partial record is seen whole or never | *lone* with `Calls = {c1, c2}` and `MaxShortWrites = 1`: after a short write a live process appends behind the partial line, and recoveries and drains fail on it from then on |
| `RecoveredOnce` | orphan.go:18-20, an intent is never recovered twice | *lone* with `Drainers = {d1, d2}`, `MaxFaults = 1`: two recoveries overlap |
| `DonePrefix` | spool.go:51-54, `.done` names are a prefix | *lone* with two proxies, two calls and `SegMax = 1`: a name is minted before its file exists |
| `PassesSucceed` | follow.go:49-50, following after live ingest is safe | *stuck*: a crash between the durable commit and `Record`, then a redelivery, leaves a later leaf canonical; every `Follow` fails from then on, until a reindex |
| `CanonicalIsLowest` | index.go:18-19, the canonical row is the lowest index | *stuck*: the same crash, before any follow |
| `NeverAppendedTwice` | tlog.go:308-310, a duplicate is never appended twice | *stuck* with `Passes = {"reindex"}`, `Quiesce = FALSE`, `MaxTasks = 2`, `MaxEpoch = 2`, `MaxFaults = 0`: a reindex wipes the row of an acked leaf that no checkpoint covers yet. Or with `Threaded = TRUE`, `Followers = {}`, `MaxTasks = 2`, `MaxFaults = 0`: two goroutines on one handle, which the mutex allows and the commands do not do |
| `IndexedBelow` | index.go:488-489, everything below the marker is indexed | *stuck* with `Followers = {f1, f2}`, both passes, `Envelopes = {a1, b1}`, `Receipts = {a, b}`, `Quiesce = FALSE`, `MaxTasks = 2`, `MaxFaults = 0`: a follow read the marker, a reindex with an older checkpoint wiped rows below it, the follow moves the marker on |
| `SignerIsCurrent` | epoch.go:18-20, only the current holder signs | `LogFaults.cfg` without followers and faults: a handle is fenced between its check and its signature. `OneStaleSignature` bounds the damage to one promise |
| `NoSplitView` | store.go:24-29 and main.go:166-168 of the witness, a cosigned head is never forgotten, and the lock keeps two processes from cosigning a fork | `WitnessServe.cfg` with `Origin = {o1}`, `MaxFaults = 1`, `Takeover = TRUE`: a witness reads its state file before it takes the lock, so one that starts while another is ending serves a stale head and cosigns a fork of what the other cosigned |
| `RefusedForCause` | client.go:50-51, a refusal is a finding about the log | `WitnessHonest.cfg` with `Requests = {r1, r2}`, `Commands = {cli}`, `Tree <- Line`, `MaxFaults = 0`, `Recalibrations = 4`, `Restores = FALSE`, `MaxReopens = 0`: `addCheckpoint` compares the old size with a head it read before `Cosign` took its lock; when another request moves the head in between, an honest proof is refused as inconsistent. With `Impatient = TRUE` and `Commands = {}` a single submitter meets it too: its timed-out request is still being handled |
| `MintedIsNotBroadened` | docs/aat-profile-v1.md:206-207, mint-time and capture-time comparisons cannot disagree | `Delegation.cfg`: `compareV1` ranges over Go maps (chain.go:276-290) and answers at the first fault, so of two faults of different kinds one run of it says `unknown` and the next `broadened` |
| `BrokenIsFoundOffline` | docs/aat-profile-v1.md:293, the offline verifier checks all ordering clauses | `Delegation.cfg`: `verifyRootHop` gives a root at another depth than 0 no evidence (verify.go:205), so nothing in the export names its token and `aat.rs` cannot look at it |
| `KeysOutliveIndex` | key.go, a registration outlives `index.db` | `Evidence.cfg`: a write of `emitters.jsonl` cut short swallows the next registration's line, and a reindex finds neither key. `ExportIsTheRun` covers that what is then exported still verifies |

One limit is by design: a pass that finds the witness unreachable marks its head as
submitted, so that head is not offered again by that handle until the checkpoint
changes. `EveryHeadRecorded` therefore promises an outcome on record, not a
cosignature.

Met while modelling or proving, and kept in the models as they are:

* Hooks. hooks.go:60-64 and receipts.go:156-162 say that a receipt is stamped post-only
  when no intent was found. Two overlapping completions of equal calls without an id
  may list one oldest record; the one that finds it taken goes on to the next bucket
  (pending.go:268-271), not to the next record, and stamps post-only although its own
  call's intent lies in the store. The proof of `IntentIsItsOwn` asked for this case:
  `PostOnlyMissedNothing` excepts it by name (`RacedForOne`), and nothing else.
* Export. A file made from an index with gaps omits logged receipts and still
  verifies; the head covers the leaves of the file, not those of the log, and not
  the header's tokens, nor where its keys are from. `import --force` of a leaf whose
  signature is bad makes the run unexportable in the receiving log. `cas.Put` leaves
  an altered blob in place, so an import "retains" a token that the next export then
  drops, and a slot over it stays `unreadable`. The Go reader's lines end at 1 MiB,
  the header's tokens do not.
* Delegation. `Mint` takes the binding it is given (aat.go:236-247): that it names the
  root's own key is the caller's to see to, and a hypothesis of `MintedHolds`. A limit
  on the child alone compares as `unchanged`; a wildcard of the parent with a ceiling
  on one operation is not compared with a child that names no ceiling, which is why
  `VerifiedIsWithin` leaves wildcards out. An unsupported key is `asserted` at capture
  and `malformed` offline. `CheckScope` ignores currencies.
* Readers. `behalf runs` may print `verified` beside counts that include a broken
  receipt indexed between its two queries (`OneVerdict` speaks of the rows it read). A
  blob erased, with its notice, after `rehydrate` opened is reported `missing`. A
  cursor never goes back for rows backfilled below it. `runPrincipal` of the
  listing and of the HTML export look at different receipts and may disagree.
* Diff. `anchorChain` accepts a key that the second run repeats, at its first
  occurrence. Step keys may pair two equal calls crosswise. A changed order in noise
  fields alone is reported as `reordered`. A pair with exactly as many changes as the
  budget is marked truncated. A receipt with two output slots of different states, which
  no capture writes, would differ from its own copy: `diffFields` holds each entry of a
  view against the first one of that path.
* Dedup. A hook receipt logged before the proxy's of the same call is not paired.

## 5. Proofs

Checked by TLAPS for all values of the constants, under the assumptions the modules
name. They say that the sets of processes and keys are disjoint where the code tells
their members apart, that bounds are naturals and trees sequences of leaves
(`ProcAssumption`, `BoundAssumption`, `LogAssumption`, `TreeAssumption`,
`WitnessAssumption`, `WitnessingAssumption`, `CallAssumption`, `KeyAssumption`,
`TileAssumption`, `LoopAssumption`, `AlignAssumption`), that what links is not empty
(`CausesAssumption`), how names and atoms are listed, measured and shaped
(`DiffAssumption`), that a JSON value that occurs has parts that occur and are less
deep, as every finite one has (`JsonAssumption`), that every envelope has a receipt id
(`ExtractAssumption`), and what a setting is (`CastAssumption` of `Hooks` and of
`Delegation`, `EvidenceAssumption`, which adds that a stranger has none of the keys and
that nobody signed the forged payload, and `ReadingAssumption`). `CatalogueAssumption` says
of the receipts that `Reading` records what capture makes true of every receipt: a slot's
digest is of some content, a verdict is broken exactly when a hop is, and what a receipt's
views show is among the JSON values that occur (`Viewable`). `Delegation` rests on three facts about
grants, `ComparatorAssumption` (the comparator answers one of four; without
wildcards what it calls unchanged or attenuated admits nothing the parent does not,
and "broadened" is its only answer of a pair), `WithinAssumption` (admitting no more
is a preorder) and `CeilingAssumption` (`limitFor` reads at most one ceiling, and who
admits no more of an operation has one wherever the other has, none above it):
`Grants` is recursive and out of the prover's reach, so TLC evaluates
them, over the 83 sets of grants of the run `delegation`. TLC evaluates the other assumptions too, in every
run of their modules.

Every theorem about a state goes through an inductive invariant, named below; none
of the properties is inductive as the runs state it.

**Spool, under any concurrency** (`SpoolProofs`).

* `TypeCorrect`, `CursorNeverLoses`. Moving the cursor to `pos` needs to know that what
  lies before `pos` was delivered (`ReadWasDelivered`), which needs the segment in hand
  to be one (`HasHand`). Files only grow at their end and `delivered` only grows (the
  frame lemma `Grows`), so each action owes only what it does to its own process.
* `WriterHoldsLock`, `OneWriter`, by `LockInv`: a probe holds the lock it is about to give
  back, and a process that reads the directory has no segment, so releasing a
  probe's lock never releases a writer's.
* `CustodyHolds`, `CustodyBeforeBoundary`, `NothingHiddenInDone`, by `CustodyInv`. Why a drain
  may rename to `.done` what recovery then skips: a call is closed in the segment
  that opened it or a later one (`Ordered`), a segment has one claimant (`OneClaim`), a
  pass takes segments in name order and stops marking at the first it cannot
  finish (`Passing`, `PassMarks`), hence what a `.done` segment closes, or its writer
  may yet close there, was opened in a `.done` segment (`DoneBehind`). The code relies
  on this order and states it nowhere.

**Spool, one process at a time** (`SpoolSoloProofs`, under `~Concurrent`), with any
number of crashes, short writes and sink errors. Five layers, each over the ones
before: whose the locks are (`AloneInv`), what recovery has read (`SearchInv`), what is
still to be closed (`OnceInv`), the drain's offsets (`OffsetInv`), how often a receipt can
have been lost (`CountInv`: at most once for each fault and short write, so a call is
given at most `MaxFaults + MaxShortWrites + 1`).

* `EvidenceIsKept`, `ReceiptedOnce`, `DoneIsDelivered`.
* `ImplementsDelivery`: a receipt's whole line reaching the file is `Delivery`'s `Spool`, the
  sink's acceptance its `Deliver`, a cursor or `.done` that goes past receipts its
  `Retire`; all other steps stutter.

**Log** (`LogProofs`).

* `TypeCorrect`, `PromisesAreDurable`, `IndexDescribesLog`. A promise is signed several
  steps after its leaf became durable, so the invariant says what a `Pending` knows
  at each stage (`Knows`), and that an in-flight duplicate waits on a `Pending` of its
  receipt (`WaitsFor`). The log only grows, so this survives the steps of others
  (`KnowsKept`). Rows and promises need each other: an ack of a duplicate is read off
  a row, and a row is written from a `Pending`.
* `RebuildsAreReference`: over an empty table no row is refused, and a rebuild gives the
  projection of the prefix it read.
* `EpochsAreDistinct` by `EpochInv`; `OneStalePromise` by `SignerInv`, under `~Threaded`, one
  goroutine to a handle: with several, each can have passed its check.
* `OrderlyHolds`, `AcksAreIndexed`, `FollowingIsSafe`, `ImplementsAppendOnce`, under `Orderly`: one
  writer process, one goroutine to a handle, nothing killed and no write refused,
  and a reindex alone. Section 4 shows what each of these is needed for. `OInv`: a
  leaf has its row or an open handle's `Wait` is bringing it there (`Accounted`), a
  leaf past the checkpoint is an open handle's (`Owed`), what is queued is not in the
  log and queued once (`QueuedOnce`), and everything below a marker has its row
  (`Marked`). In the refinement `Integrate` is `Commit` and `Sign` is `Acknowledge`.

**Witness** (`WitnessProofs`; all but `TypeCorrect` under `~Takeover`, the condition that
section 4 shows to be needed).

* `HeadsAreRemembered`, `OneHistoryCosigned`, `WitnessKeepsPromise`. `NeverForgets` speaks of
  what was sent; `HistoryInv` must also speak of what is signed and not yet sent, and
  of what a failed flush would restore. Every state file a power loss could leave,
  the serving memory, the memory loaded by one that may still get the lock and the
  memory a failed flush would put back carry forward every cosignature that is out
  or signed. Accepting a head keeps one history because `Judge` accepts only what
  carries the held head forward (`AcceptedGrows`); each `Sign` is the ledger's `Cosign`.
* `MemoryIsBehindDisk`, by `BehindInv`.

**Witness and log together** (`WitnessProofs`, second half). As the witness sees it, a step of
the composition is one of its own, or nothing but a fault counted elsewhere
(`WitnessSees`), so its invariants carry over and only the log's side is owed.

* `BothSidesTyped`, without hypothesis.
* `RecordsAreTrue` under `~Takeover`, by `RecordInv`: a request in flight is one pass's
  (`OwnRequests`), and what a pass is about to record was cosigned.
* `RefusalsHaveCause`, under `~Impatient` with one submitter, by `CauseInv`: every head the
  witness holds, has on disk or would put back, and every size the client
  remembers or is told, is of a tree that was published.

**Hooks** (`HooksProofs`), hooks overlapping or not, for any sets of sessions and calls.

* `InvariantHolds`: an intent in the store is numbered and lies in its own call's
  bucket (`Stored`), a process knows only such intents (`AtWork`), numbers that no
  intent has are one event's (`Numbered`), a completion past its own bucket leaves
  nothing of its call behind (`Searched`), every number taken is somewhere (`AllHeld`);
  of hooks one at a time, an intent is in the store, in the hands of the one at
  work, or closed (`Alone`).
* `CountersAreAccounted`, `IntentsAreTheirOwn`.
* `StoreIsServed`, by two invariants of hooks one at a time. Until the first sweep, what
  is in the store is pointed to (`Served`): the pointer comes before its record, and
  `followLinks` removes none whose bucket has one. No hook having failed, the sweep under
  way will still come to every record of an ended session (`Sees`) and, all being
  over, to every bucket (`Visits`): `Emptied`, which also needs that a record lies in a
  bucket that is there (`Housed`).

**Delegation** (`DelegationProofs`), for chains of any length, minted or not.

* `InvariantHolds`: every result is what the table of checks says of its hop and the
  hop below (`AllJudged`), minted chains are well linked (`AllMinted`). `VerifiedIsEarned`
  bounds a hop's depth by every budget below it, which says nothing of the next
  hop; it is inductive with `BudgetsNarrow`.
* `TypesHold`, `VerifiedHops`, `MintedChainsHold`, `VerifiersAgree`.
* `ScopeIsTheLeafs`: `CheckScope` looks for the tightest ceiling of all hops; that it is
  the leaf's needs what `VerifiedHops` says of every pair of hops, not of neighbours.

**Evidence** (`EvidenceProofs`), for any log, table, key table, tile width, and any number
of changes.

* `LoopIsClosedForm`: at each leaf the table of `followDB`'s loop is the closed form of
  the leaves walked so far (`WalkInv`), so the closed form `LogService` uses is the loop.
* `ExportHoldsTheRun`: `OriginalInv`, an export is of the rows of its run in order.
* `AcceptedEvidenceIsWhole`: `FileInv`, a file holds only lines a change can make of the
  written ones; `PassedDirectoryIsWhole`: `DirInv`, under the log's key the signed root
  lists entries somebody could log and covers the reader's checkpoint.
* `DamageNamed`: one lemma for each kind of damage (`CutIsNamed`, `LossIsNamed`, `SwapIsNamed`,
  `RepeatIsNamed`, `AlteredLeaf`, `AlteredHead`) over what one change leaves of an export
  of any length; `AccusedAreGuilty`: the descent through stored hash tiles, damaged
  or not, ends at entries that differ from the signed ones (`TilesTyped`, `Reached`).
* `ImportCarriesRun`, `TrustedImportKeepsRun`: by `CopyInv`, what the machine of the
  import holds, at work or killed, is the emitters of an accepted file and whole
  runs of its leaves, each attempt's in the order of the file, with one row for each
  (receipt, emitter) the log holds. The file accepted must carry the export's
  leaves. The first theorem gets that from the number of changes: with one, an
  accepted header is the writer's or only lacks keys (`HeaderInv`, `OnceInv`). The
  second assumes the header names no key but the writer's (`KeysTrusted`), and allows
  any number. One of the two is needed: three changes (a key of somebody else in the
  header, a leaf and the head signed again) make a file that verifies and holds
  another run, as the format allows.

**Reading** (`ReadingProofs`), for logs, runs and pages of any length. The library's
induction theorems are out of reach, so where a proof walks along a sequence it
takes the least place at which the claim fails (`LeastIs`).

* All rest on `Indexed`: a row is of a leaf, and while nothing was left to the follower
  every leaf has its row.
* `CrossingsHold`: `Folded` says of the crossings after n leaves what the property says of
  them after all: each leaf in one of them, crossings in the order of their first
  leaves, and none paired while an older one alike is not.
* `PagesJoined`: the lines written and the rows still to write are one ascending list
  which holds what the first page saw (`Paged`; `Streamed` for `reconstruct`). While
  nothing is late new leaves only come after, so a receipt keeps its step (`PlacesStay`).
* `SlotsHold`: the erasures a reader took when it opened name only notices in the log
  and all that were indexed then (`Erasures`); the rest is `resolveOne`, case by case.
* `VerdictsAgree`: `Verdicts` says of a listing that a summary found something exactly
  when the rows known then held it, and of a page and of a listed run that each entry
  is a function of the rows it shows, so that equal rows give equal verdicts.
* `AlignmentsHold`: every alignment `Covers` both runs, each step once and in order; what
  covers two stretches, one after the other, covers both (`CoversJoin`), so blocks and
  anchors make a whole. A recursive function over 0..n exists and is what its equation says
  (`WalkIs`), and what holds first and is handed on holds to the end (`UpTo`, in place of
  induction). `Table` says of the cells what one row says of the next; by `TableBounds` no
  matching is worth more than the last cell, and by `TracebackIs` the way back is worth
  just that. Step keys make a bijection (`StepKeysComplete`).
* `ConsequencesShown`: a link is found exactly where two values show one (`LinksShow`), by
  what each change handed over (`HandedIs`); a longest value and a riskiest step exist
  because the order is total on a finite list (`BestIs`).
* `NothingIsHidden`: `diffValue` recurs over a value's parts, so `DiffValue` first has to be
  a function that is what its equation says, which it is because parts are less deep
  (`DeepIs`). Findings are never taken back, so where a comparison ends without one the
  budget was never touched, and whatever it passed over was equal or noise
  (`PlaceIsQuiet`, `ValueIsQuiet`, again by the least depth at which this fails,
  `RankInduction`). `BeyondRuns` of `DiffProps` says without budget, order or list of
  findings what two values differ in beyond what every two runs do: then nothing. An
  opaque pair has two different digests because a view of one field shows nothing
  against itself (`EqualViews`).

Only model-checked: liveness and deadlock, which are out of the prover's reach, and the
comparator of `Grants`, which is `RECURSIVE` and enters the proofs through the
assumptions above.

## 6. Plan

Done: the spool with the proxy's pumps and the drain; the log, its epochs and its
index; the witness and the log's submissions to it; the hooks' intents; the
delegation chain; exports, log directories, verification and import; the readers
and the diff. Proved: what section 5 lists. Next, in this order:

1. The proxy's pending map with a reused JSON-RPC id, and the hooks' session segment
   against a drain that stats and renames without its lock.
2. A quorum of witnesses, each the abstract `CosignLedger`, with the fail-open
   summary; the nonce binding of the login; creation of the emitter's key file.


### Not modelled

Bytes, JSON, signatures and hashes are abstracted throughout: a signature is who
made it and a digest is what it is of. Layout (`render.go` of the diff, the HTML
templates), flag parsing, the installer of the hooks, the desk server and recorder,
demonstrations, benchmarks and generated vectors hold no state that a property
could be about. The login is one process in dialogue with an identity provider
outside the repository; what `VerifyRoot` says of its outcome is an input of
`Delegation`. Tessera and SQLite are modelled by how the code uses them. In `Reading`
the second read of `mismatchFor`, `cause_ref` at capture, slot sizes and the readers'
bound by the checkpoint are left out. `PROJECT.json` gives the reason for each
component that is not, or partly, modelled.
