------------------------------- MODULE Spool -------------------------------
(***************************************************************************)
(* The durable capture spool of internal/spool, with the two programs that *)
(* use it: the MCP proxy (internal/proxy), which recovers, then spools one *)
(* intent and one completion per tools/call, and `behalf-log drain`        *)
(* (cmd/behalf-log), which recovers, closes its own segment and moves      *)
(* completions to the log.  Any number of either may run on one spool      *)
(* directory; each may be killed between any two steps.                    *)
(*                                                                         *)
(* Bytes are abstracted to records: a segment is a sequence of records and *)
(* an offset (cursor, consumed) is a number of records.  A segment's name  *)
(* sorts in the order names are minted, so a name is a number.  The file   *)
(* is the inode: a lock and an open descriptor follow it through a rename, *)
(* an open by path does not.                                               *)
(***************************************************************************)
EXTENDS Naturals, Sequences, FiniteSets

CONSTANTS
    Proxies,        \* proxy processes (proxy.Run)
    Drainers,       \* `behalf-log drain` processes (cmdDrain)
    NoProc,         \* "no process holds the lock"
    Calls,          \* tools/call requests, one intent_id each
    SegMax,         \* records after which appendLine rotates (Spool.max)
    Concurrent,     \* may two processes run on the spool at the same time?
    MaxSegs,        \* bound: segment names minted
    MaxSessions,    \* bound: proxy processes started
    MaxFaults,      \* bound: crashes and sink errors
    MaxShortWrites  \* bound: write(2) calls that stop half way

Procs == Proxies \cup Drainers

ASSUME ProcAssumption ==
    /\ Proxies \cap Drainers = {}
    /\ NoProc \notin Procs

ASSUME BoundAssumption ==
    /\ SegMax \in Nat \ {0}
    /\ MaxSegs \in Nat
    /\ MaxSessions \in Nat
    /\ MaxFaults \in Nat
    /\ MaxShortWrites \in Nat
    /\ Concurrent \in BOOLEAN

Segs == 1..MaxSegs

VARIABLES
    state,      \* state[s]: "absent", "open" (seg-*.jsonl) or "done" (.done)
    recs,       \* recs[s]: the complete records of segment s
    torn,       \* torn[s]: does s end in part of a record?
    cursor,     \* cursor[s]: the .cursor sidecar, 0 when there is none
    lock,       \* lock[s]: who holds the advisory lock on s
    names,      \* segment names minted so far
    pc,         \* pc[p]: the next step of process p
    phase,      \* phase[p]: what p returns to after an append
    seg,        \* seg[p]: Spool.seg, the segment p appends to; 0 is nil
    fresh,      \* fresh[p]: the name rotate is creating
    job,        \* job[p]: the record appendLine is asked to write
    inflight,   \* inflight[p]: calls whose request p forwarded, unanswered
    hand,       \* hand[p]: the segment a Recover or Drain pass is reading
    list,       \* list[p]: the segments the pass has still to take
    live,       \* live[p]: what isLive answered for the segment in hand
    cand,       \* cand[p]: intents found in segments that were not live
    comp,       \* comp[p]: calls a completion was found for
    start, pos, \* drain offsets in the segment in hand: read from, read up to
    markDone,   \* markDone[p]: every segment of this pass so far was finished
    forwarded,  \* calls whose request reached the server
    minted,     \* minted[c]: receipts signed for call c, each a fresh receipt_id
    delivered,  \* receipts the drain's sink accepted
    sessions, faults, shorts

files == <<state, recs, torn, cursor, lock, names>>
writer == <<seg, fresh, job, inflight>>
reader == <<hand, list, live, cand, comp, start, pos, markDone>>
evidence == <<forwarded, minted, delivered>>
bounds == <<sessions, faults, shorts>>
vars == <<state, recs, torn, cursor, lock, names, pc, phase, seg, fresh, job,
          inflight, hand, list, live, cand, comp, start, pos, markDone, forwarded,
          minted, delivered, sessions, faults, shorts>>

-----------------------------------------------------------------------------
(* Records.  A completion carries the receipt that closes the call: a      *)
(* tool_call receipt, or the orphan_intent recovery mints.  Two lines run  *)
(* together by a short write no longer parse.                              *)

Kinds == {"tool_call", "orphan_intent"}
Receipts == [call : Calls, n : Nat, kind : Kinds]
Intent(c) == [type |-> "intent", call |-> c]
Completion(r) == [type |-> "completion", receipt |-> r]
Garbled == [type |-> "garbled"]
Records == [type : {"intent"}, call : Calls]
             \cup [type : {"completion"}, receipt : Receipts] \cup {Garbled}

MintMutant(c, k) == [call |-> c, n |-> minted[c] + 1, kind |-> "intent"]
Mint(c, k) == [call |-> c, n |-> minted[c] + 1, kind |-> k]

IntentsIn(s) == {c \in Calls : \E i \in DOMAIN recs[s] : recs[s][i] = Intent(c)}
ReceiptsIn(s) == {recs[s][i].receipt :
                    i \in {j \in DOMAIN recs[s] : recs[s][j].type = "completion"}}
CompletedIn(s) == {r.call : r \in ReceiptsIn(s)}
IsGarbled(s) == \E i \in DOMAIN recs[s] : recs[s][i] = Garbled

Spooled == UNION {ReceiptsIn(s) : s \in Segs}

\* segments(dir): the names that are there and not .done; a pass takes them in
\* name order
Segments == {s \in Segs : state[s] = "open"}

-----------------------------------------------------------------------------
Init ==
    /\ state = [s \in Segs |-> "absent"]
    /\ recs = [s \in Segs |-> <<>>]
    /\ torn = [s \in Segs |-> FALSE]
    /\ cursor = [s \in Segs |-> 0]
    /\ lock = [s \in Segs |-> NoProc]
    /\ names = 0
    /\ pc = [p \in Procs |-> "down"]
    /\ phase = [p \in Procs |-> "flush"]
    /\ seg = [p \in Procs |-> 0]
    /\ fresh = [p \in Procs |-> 0]
    /\ job = [p \in Procs |-> Garbled]
    /\ inflight = [p \in Procs |-> {}]
    /\ hand = [p \in Procs |-> 0]
    /\ list = [p \in Procs |-> {}]
    /\ live = [p \in Procs |-> FALSE]
    /\ cand = [p \in Procs |-> {}]
    /\ comp = [p \in Procs |-> {}]
    /\ start = [p \in Procs |-> 0]
    /\ pos = [p \in Procs |-> 0]
    /\ markDone = [p \in Procs |-> FALSE]
    /\ forwarded = {}
    /\ minted = [c \in Calls |-> 0]
    /\ delivered = {}
    /\ sessions = 0
    /\ faults = 0
    /\ shorts = 0

(***************************************************************************)
(* Process exit, orderly or not: every descriptor is closed, so every lock *)
(* p holds is released (flock), and everything p kept in memory is gone.   *)
(***************************************************************************)
Unlocked(p) == [s \in Segs |-> IF lock[s] = p THEN NoProc ELSE lock[s]]

Forget(p) ==
    /\ pc' = [pc EXCEPT ![p] = "down"]
    /\ phase' = [phase EXCEPT ![p] = "flush"]
    /\ seg' = [seg EXCEPT ![p] = 0]
    /\ fresh' = [fresh EXCEPT ![p] = 0]
    /\ job' = [job EXCEPT ![p] = Garbled]
    /\ inflight' = [inflight EXCEPT ![p] = {}]
    /\ hand' = [hand EXCEPT ![p] = 0]
    /\ list' = [list EXCEPT ![p] = {}]
    /\ live' = [live EXCEPT ![p] = FALSE]
    /\ cand' = [cand EXCEPT ![p] = {}]
    /\ comp' = [comp EXCEPT ![p] = {}]
    /\ start' = [start EXCEPT ![p] = 0]
    /\ pos' = [pos EXCEPT ![p] = 0]
    /\ markDone' = [markDone EXCEPT ![p] = FALSE]

\* p leaves the spool as it is on disk
Exit(p) ==
    /\ Forget(p)
    /\ lock' = Unlocked(p)
    /\ UNCHANGED <<state, recs, torn, cursor, names>>

-----------------------------------------------------------------------------
(* Open and Recover: list the directory, then per segment isLive (take the *)
(* lock and give it back, or find it taken) and scanSegment.               *)

\* the first segment of S in name order is taken in hand; p goes on at more, or
\* at done when nothing is left
Take(p, S, more, done) ==
    \/ /\ S = {}
       /\ hand' = [hand EXCEPT ![p] = 0]
       /\ list' = [list EXCEPT ![p] = {}]
       /\ pc' = [pc EXCEPT ![p] = done]
    \/ \E s \in S :
       /\ \A t \in S : s <= t
       /\ hand' = [hand EXCEPT ![p] = s]
       /\ list' = [list EXCEPT ![p] = S \ {s}]
       /\ pc' = [pc EXCEPT ![p] = more]

Start(p) ==
    /\ pc[p] = "down"
    /\ Concurrent \/ \A q \in Procs : pc[q] = "down"
    /\ p \in Proxies => sessions < MaxSessions
    /\ sessions' = IF p \in Proxies THEN sessions + 1 ELSE sessions
    /\ Take(p, Segments, "probe", "flush")
    /\ UNCHANGED <<files, writer, phase, live, cand, comp, start, pos, markDone,
                   evidence, faults, shorts>>

\* isLive, first half: open by path and TryLock
Probe(p, here, locked, done) ==
    /\ pc[p] = here
    /\ IF state[hand[p]] # "open"
       THEN Exit(p)
       ELSE /\ IF lock[hand[p]] = NoProc
               THEN /\ lock' = [lock EXCEPT ![hand[p]] = p]
                    /\ live' = [live EXCEPT ![p] = FALSE]
                    /\ pc' = [pc EXCEPT ![p] = locked]
               ELSE /\ live' = [live EXCEPT ![p] = TRUE]
                    /\ pc' = [pc EXCEPT ![p] = done]
                    /\ UNCHANGED lock
            /\ UNCHANGED <<state, recs, torn, cursor, names, phase, writer, hand,
                           list, cand, comp, start, pos, markDone>>
    /\ UNCHANGED <<evidence, bounds>>

\* isLive, second half: the lock it got is released at once
Unprobe(p, here, done) ==
    /\ pc[p] = here
    /\ lock' = [lock EXCEPT ![hand[p]] = NoProc]
    /\ pc' = [pc EXCEPT ![p] = done]
    /\ UNCHANGED <<state, recs, torn, cursor, names, phase, writer, reader,
                   evidence, bounds>>

RecoverProbe(p) == Probe(p, "probe", "unprobe", "scan")
RecoverUnprobe(p) == Unprobe(p, "unprobe", "scan")

\* Read one segment whole; a record that does not parse aborts the recovery
RecoverScan(p) ==
    /\ pc[p] = "scan"
    /\ IF state[hand[p]] # "open" \/ IsGarbled(hand[p])
       THEN Exit(p)
       ELSE /\ cand' = [cand EXCEPT ![p] = @ \cup
                          (IF live[p] THEN {} ELSE IntentsIn(hand[p]))]
            /\ comp' = [comp EXCEPT ![p] = @ \cup CompletedIn(hand[p])]
            /\ live' = [live EXCEPT ![p] = FALSE]
            /\ Take(p, list[p], "probe", "flush")
            /\ UNCHANGED <<files, phase, writer, start, pos, markDone>>
    /\ UNCHANGED <<evidence, bounds>>

OrphansDrainMutant(p) == IF p \in Drainers THEN {} ELSE cand[p] \ comp[p]
OrphansRepeatMutant(p) == cand[p]

\* intents in segments nobody writes, with no completion in any segment; what
\* flushOrphans has appended counts as completed
Orphans(p) == cand[p] \ comp[p]

\* flushOrphans: sign an orphan_intent receipt for one orphan and append it
FlushOrphan(p) ==
    /\ pc[p] = "flush"
    /\ \E c \in Orphans(p) :
        /\ job' = [job EXCEPT ![p] = Completion(Mint(c, "orphan_intent"))]
        /\ minted' = [minted EXCEPT ![c] = @ + 1]
        /\ comp' = [comp EXCEPT ![p] = @ \cup {c}]
    /\ pc' = [pc EXCEPT ![p] = "append"]
    /\ UNCHANGED <<files, phase, seg, fresh, inflight, hand, list, live, cand, start,
                   pos, markDone, forwarded, delivered, bounds>>

\* newCapture returns: a proxy starts serving, RecoverOrphans closes its spool
Recovered(p) ==
    /\ pc[p] = "flush"
    /\ Orphans(p) = {}
    /\ cand' = [cand EXCEPT ![p] = {}]
    /\ comp' = [comp EXCEPT ![p] = {}]
    /\ IF p \in Proxies
       THEN /\ pc' = [pc EXCEPT ![p] = "serve"]
            /\ phase' = [phase EXCEPT ![p] = "serve"]
            /\ UNCHANGED <<seg, lock>>
       ELSE /\ pc' = [pc EXCEPT ![p] = "dlist"]
            /\ seg' = [seg EXCEPT ![p] = 0]
            /\ lock' = Unlocked(p)
            /\ UNCHANGED phase
    /\ UNCHANGED <<state, recs, torn, cursor, names, fresh, job, inflight, hand, list,
                   live, start, pos, markDone, evidence, bounds>>

-----------------------------------------------------------------------------
(* The proxy's pumps.  appendLine runs under Spool.mu, so a process has at *)
(* most one append under way.                                              *)

\* a call the client has not issued yet
Unissued(c) == /\ \A s \in Segs : c \notin IntentsIn(s)
               /\ \A q \in Procs : job[q] # Intent(c)

ClientCallMutant(p) ==
    /\ pc[p] = "serve"
    /\ phase[p] = "serve"
    /\ \E c \in Calls :
        /\ Unissued(c)
        /\ job' = [job EXCEPT ![p] = Intent(c)]
        /\ forwarded' = forwarded \cup {c}
    /\ pc' = [pc EXCEPT ![p] = "append"]
    /\ UNCHANGED <<files, phase, seg, fresh, inflight, reader, minted, delivered, bounds>>

\* onClientLine: a tools/call arrives, its intent must be spooled first
ClientCall(p) ==
    /\ pc[p] = "serve"
    /\ phase[p] = "serve"
    /\ \E c \in Calls :
        /\ Unissued(c)
        /\ job' = [job EXCEPT ![p] = Intent(c)]
    /\ pc' = [pc EXCEPT ![p] = "append"]
    /\ UNCHANGED <<files, phase, seg, fresh, inflight, reader, evidence, bounds>>

\* onServerLine: the response to a call in flight is receipted
ServerAnswer(p) ==
    /\ pc[p] = "serve"
    /\ \E c \in inflight[p] :
        /\ inflight' = [inflight EXCEPT ![p] = @ \ {c}]
        /\ job' = [job EXCEPT ![p] = Completion(Mint(c, "tool_call"))]
        /\ minted' = [minted EXCEPT ![c] = @ + 1]
    /\ pc' = [pc EXCEPT ![p] = "append"]
    /\ UNCHANGED <<files, phase, seg, fresh, reader, forwarded, delivered, bounds>>

\* the server's stdout ends: Run returns and closes the spool
Shutdown(p) ==
    /\ pc[p] = "serve"
    /\ Exit(p)
    /\ UNCHANGED <<evidence, bounds>>

-----------------------------------------------------------------------------
(* appendLine and rotate.                                                  *)

\* the segment in hand takes another record
Room(p) == seg[p] # 0 /\ Len(recs[seg[p]]) < SegMax

\* rotate, up to newSegmentName: the old segment is sealed, its lock released
Rotate(p) ==
    /\ pc[p] = "append"
    /\ ~Room(p)
    /\ names < MaxSegs
    /\ lock' = Unlocked(p)
    /\ seg' = [seg EXCEPT ![p] = 0]
    /\ names' = names + 1
    /\ fresh' = [fresh EXCEPT ![p] = names + 1]
    /\ pc' = [pc EXCEPT ![p] = "create"]
    /\ UNCHANGED <<state, recs, torn, cursor, phase, job, inflight, reader,
                   evidence, bounds>>

\* os.OpenFile(O_CREATE|O_EXCL)
CreateSegment(p) ==
    /\ pc[p] = "create"
    /\ state' = [state EXCEPT ![fresh[p]] = "open"]
    /\ pc' = [pc EXCEPT ![p] = "lock"]
    /\ UNCHANGED <<recs, torn, cursor, lock, names, phase, writer, reader,
                   evidence, bounds>>

\* What an append error does to its caller: newCapture and the response pump
\* give up, the request pump stops reading but answers are still awaited.
AppendFails(p) ==
    IF job[p].type = "intent"
    THEN /\ pc' = [pc EXCEPT ![p] = "serve"]
         /\ phase' = [phase EXCEPT ![p] = "ending"]
         /\ fresh' = [fresh EXCEPT ![p] = 0]
         /\ job' = [job EXCEPT ![p] = Garbled]
         /\ UNCHANGED <<lock, seg, inflight, reader>>
    ELSE /\ Forget(p)
         /\ lock' = Unlocked(p)

GotLockMutant(p) == TRUE
GotLock(p) == lock[fresh[p]] = NoProc

\* flock.TryLock on the fresh segment; losing it to a probe is an error
LockSegment(p) ==
    /\ pc[p] = "lock"
    /\ IF GotLock(p)
       THEN /\ lock' = [lock EXCEPT ![fresh[p]] = p]
            /\ seg' = [seg EXCEPT ![p] = fresh[p]]
            /\ fresh' = [fresh EXCEPT ![p] = 0]
            /\ pc' = [pc EXCEPT ![p] = "append"]
            /\ UNCHANGED <<phase, job, inflight, reader>>
       ELSE AppendFails(p)
    /\ UNCHANGED <<state, recs, torn, cursor, names, evidence, bounds>>

\* A whole line lands in s, behind whatever a short write left there
Written(p) ==
    /\ recs' = [recs EXCEPT ![seg[p]] =
                  Append(@, IF torn[seg[p]] THEN Garbled ELSE job[p])]
    /\ torn' = [torn EXCEPT ![seg[p]] = FALSE]

\* Write and Sync succeed and appendLine returns: an intent's request is
\* forwarded, a completion's response is passed on
Write(p) ==
    /\ pc[p] = "append"
    /\ Room(p)
    /\ Written(p)
    /\ IF job[p].type = "intent"
       THEN /\ forwarded' = forwarded \cup {job[p].call}
            /\ inflight' = [inflight EXCEPT ![p] = @ \cup {job[p].call}]
       ELSE UNCHANGED <<forwarded, inflight>>
    /\ job' = [job EXCEPT ![p] = Garbled]
    /\ pc' = [pc EXCEPT ![p] = IF phase[p] = "flush" THEN "flush" ELSE "serve"]
    /\ UNCHANGED <<state, cursor, lock, names, phase, seg, fresh, reader, minted,
                   delivered, bounds>>

\* write(2) stops half way (a full disk) and appendLine returns the error
ShortWrite(p) ==
    /\ pc[p] = "append"
    /\ Room(p)
    /\ shorts < MaxShortWrites
    /\ shorts' = shorts + 1
    /\ torn' = [torn EXCEPT ![seg[p]] = TRUE]
    /\ AppendFails(p)
    /\ UNCHANGED <<state, recs, cursor, names, evidence, sessions, faults>>

-----------------------------------------------------------------------------
(* Drain.                                                                  *)

DrainList(p) ==
    /\ pc[p] = "dlist"
    /\ markDone' = [markDone EXCEPT ![p] = TRUE]
    /\ Take(p, Segments, "dread", "drained")
    /\ UNCHANGED <<files, phase, writer, live, cand, comp, start, pos, evidence, bounds>>

\* readCursor, then open the segment by path
DrainRead(p) ==
    /\ pc[p] = "dread"
    /\ IF state[hand[p]] # "open"
       THEN Exit(p)
       ELSE /\ start' = [start EXCEPT ![p] = cursor[hand[p]]]
            /\ pos' = [pos EXCEPT ![p] = cursor[hand[p]]]
            /\ pc' = [pc EXCEPT ![p] = "deliver"]
            /\ UNCHANGED <<files, phase, writer, hand, list, live, cand, comp, markDone>>
    /\ UNCHANGED <<evidence, bounds>>

AtEOFMutant(p) == pos[p] + 1 >= Len(recs[hand[p]])
AtEOF(p) == pos[p] = Len(recs[hand[p]])
NextRec(p) == recs[hand[p]][pos[p] + 1]

\* one record: an intent is skipped, a completion goes to the sink
DrainRecord(p) ==
    /\ pc[p] = "deliver"
    /\ ~AtEOF(p)
    /\ NextRec(p) # Garbled
    /\ IF NextRec(p).type = "completion"
       THEN delivered' = delivered \cup {NextRec(p).receipt}
       ELSE UNCHANGED delivered
    /\ pos' = [pos EXCEPT ![p] = @ + 1]
    /\ UNCHANGED <<files, pc, phase, writer, hand, list, live, cand, comp, start,
                   markDone, forwarded, minted, bounds>>

CursorMutant(p) == [cursor EXCEPT ![hand[p]] = IF AtEOF(p) THEN pos[p] ELSE pos[p] + 1]

\* the cursor moves over what the sink accepted, and only if it moved
Cursor(p) == IF pos[p] > start[p] THEN [cursor EXCEPT ![hand[p]] = pos[p]] ELSE cursor

\* the sink refuses a completion, or a record does not parse: cursor, then out
DrainStops(p) ==
    /\ pc[p] = "deliver"
    /\ ~AtEOF(p)
    /\ \/ NextRec(p) = Garbled /\ UNCHANGED faults
       \/ /\ NextRec(p).type = "completion"
          /\ faults < MaxFaults
          /\ faults' = faults + 1
    /\ cursor' = Cursor(p)
    /\ Forget(p)
    /\ lock' = Unlocked(p)
    /\ UNCHANGED <<state, recs, torn, names, evidence, sessions, shorts>>

DrainEOF(p) ==
    /\ pc[p] = "deliver"
    /\ AtEOF(p)
    /\ cursor' = Cursor(p)
    /\ pc' = [pc EXCEPT ![p] = "dprobe"]
    /\ UNCHANGED <<state, recs, torn, lock, names, phase, writer, reader,
                   evidence, bounds>>

DrainProbe(p) == Probe(p, "dprobe", "dunprobe", "dstat")
DrainUnprobe(p) == Unprobe(p, "dunprobe", "dstat")

\* on to the next segment of the pass; the loop's locals go out of scope
Advance(p) ==
    /\ live' = [live EXCEPT ![p] = FALSE]
    /\ start' = [start EXCEPT ![p] = 0]
    /\ pos' = [pos EXCEPT ![p] = 0]
    /\ Take(p, list[p], "dread", "drained")

\* os.Stat: is everything on disk consumed and nobody writing?
Finished(p) == ~live[p] /\ AtEOF(p) /\ ~torn[hand[p]]

\* .done marking stops at the first segment of the pass that is not finished
MarkableMutant(p) == Finished(p)
Markable(p) == markDone[p] /\ Finished(p)

DrainStat(p) ==
    /\ pc[p] = "dstat"
    /\ IF state[hand[p]] # "open"
       THEN Exit(p)
       ELSE /\ IF Markable(p)
               THEN /\ pc' = [pc EXCEPT ![p] = "drename"]
                    /\ UNCHANGED <<hand, list, live, start, pos, markDone>>
               ELSE /\ markDone' = [markDone EXCEPT ![p] = FALSE]
                    /\ Advance(p)
            /\ UNCHANGED <<files, phase, writer, cand, comp>>
    /\ UNCHANGED <<evidence, bounds>>

\* os.Rename to .done, then the cursor is removed
DrainRename(p) ==
    /\ pc[p] = "drename"
    /\ IF state[hand[p]] # "open"
       THEN Exit(p)
       ELSE /\ state' = [state EXCEPT ![hand[p]] = "done"]
            /\ cursor' = [cursor EXCEPT ![hand[p]] = 0]
            /\ Advance(p)
            /\ UNCHANGED <<recs, torn, lock, names, phase, writer, cand, comp,
                           markDone>>
    /\ UNCHANGED <<evidence, bounds>>

DrainEnds(p) ==
    /\ pc[p] = "drained"
    /\ Exit(p)
    /\ UNCHANGED <<evidence, bounds>>

-----------------------------------------------------------------------------
(***************************************************************************)
(* A process is killed.  An append under way leaves nothing, part of its   *)
(* line, or all of it: the caller never learns which.                      *)
(***************************************************************************)
Crash(p) ==
    /\ pc[p] # "down"
    /\ faults < MaxFaults
    /\ faults' = faults + 1
    /\ Forget(p)
    /\ lock' = Unlocked(p)
    /\ \/ UNCHANGED <<recs, torn>>
       \/ /\ pc[p] = "append" /\ Room(p)
          /\ torn' = [torn EXCEPT ![seg[p]] = TRUE]
          /\ UNCHANGED recs
       \/ /\ pc[p] = "append" /\ Room(p)
          /\ Written(p)
    /\ UNCHANGED <<state, cursor, names, evidence, sessions, shorts>>

Recover(p) == RecoverProbe(p) \/ RecoverUnprobe(p) \/ RecoverScan(p)
                \/ FlushOrphan(p) \/ Recovered(p)
Serve(p) == ClientCall(p) \/ ServerAnswer(p) \/ Shutdown(p)
AppendLine(p) == Rotate(p) \/ CreateSegment(p) \/ LockSegment(p) \/ Write(p)
Drain(p) == DrainList(p) \/ DrainRead(p) \/ DrainRecord(p) \/ DrainEOF(p)
              \/ DrainProbe(p) \/ DrainUnprobe(p) \/ DrainStat(p)
              \/ DrainRename(p) \/ DrainEnds(p)
Fault(p) == ShortWrite(p) \/ DrainStops(p) \/ Crash(p)

Next == \E p \in Procs :
            Start(p) \/ Recover(p) \/ Serve(p) \/ AppendLine(p) \/ Drain(p) \/ Fault(p)

Spec == Init /\ [][Next]_vars

(***************************************************************************)
(* A process that runs keeps running, and the operator runs the drain again *)
(* and again (it is a command, not a daemon).  Nothing is asked            *)
(* of proxies, of crashes or of the sink's errors beyond their bounds.     *)
(***************************************************************************)
Step(p) == Recover(p) \/ Serve(p) \/ AppendLine(p) \/ Drain(p)

FairSpec == /\ Spec
            /\ \A p \in Procs : WF_vars(Step(p))
            /\ \A d \in Drainers : WF_vars(Start(d))
=============================================================================
