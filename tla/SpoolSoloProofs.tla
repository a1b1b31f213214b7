--------------------------- MODULE SpoolSoloProofs ---------------------------
(***************************************************************************)
(* What the spool promises when no two processes run on it at one time, as *)
(* the proxy and the drain document it: across every crash, short write    *)
(* and sink error a call that crossed keeps its evidence, the spool never  *)
(* holds two receipts of one call, and spool and drain together implement  *)
(* at-least-once delivery (Delivery).                                      *)
(*                                                                         *)
(* The invariant is stated in layers, each proved from the ones before it: *)
(* who runs and whose the locks are (AloneInv), what recovery has read     *)
(* (SearchInv), what is still to be closed (OnceInv), the drain's offsets  *)
(* (OffsetInv) and how often a receipt can have been lost (CountInv).      *)
(***************************************************************************)
EXTENDS SpoolProofs

Recovering == {"probe", "unprobe", "scan"}
Draining == DrainPass \cup {"dlist", "drained"}

Acts(p) == Start(p) \/ Recover(p) \/ Serve(p) \/ AppendLine(p) \/ Drain(p) \/ Fault(p)

-----------------------------------------------------------------------------
(* One process at a time.                                                  *)

Solo == \A p, q \in Procs : pc[p] # "down" /\ pc[q] # "down" => p = q

\* a process that is down has nothing in memory
Dormant(p) ==
    pc[p] = "down" => /\ seg[p] = 0 /\ job[p] = Garbled /\ inflight[p] = {}
                      /\ cand[p] = {} /\ comp[p] = {} /\ live[p] = FALSE

\* a lock is its writer's or a probe's
LocksKnown(p) ==
    \A s \in Segs : lock[s] = p => seg[p] = s \/ (pc[p] \in Probing /\ hand[p] = s)

\* what p appends to is not .done
ClaimOpen(p) ==
    /\ seg[p] # 0 => state[seg[p]] = "open"
    /\ pc[p] = "lock" => state[fresh[p]] = "open"

AloneInv ==
    /\ ~Concurrent
    /\ Solo
    /\ \A p \in Procs : Dormant(p) /\ LocksKnown(p) /\ ClaimOpen(p)

LEMMA OthersDown ==
    ASSUME AloneInv, NEW p \in Procs, Acts(p), NEW q \in Procs \ {p}
    PROVE  pc[q] = "down"
<1>1. CASE Start(p)
  BY <1>1 DEF AloneInv, Start
<1>2. CASE pc[p] # "down"
  BY <1>2 DEF AloneInv, Solo
<1>3. Recover(p) \/ Serve(p) \/ AppendLine(p) \/ Drain(p) \/ Fault(p) => pc[p] # "down"
  BY DEF Recover, RecoverProbe, Probe, RecoverUnprobe, Unprobe, RecoverScan, FlushOrphan,
         Recovered, Serve, ClientCall, ServerAnswer, Shutdown, AppendLine, Rotate,
         CreateSegment, LockSegment, Write, Drain, DrainList, DrainRead, DrainRecord,
         DrainEOF, DrainProbe, DrainUnprobe, DrainStat, DrainRename, DrainEnds, Fault,
         ShortWrite, DrainStops, Crash
<1>4. QED
  BY <1>1, <1>2, <1>3 DEF Acts

LEMMA ForgetParts ==
    ASSUME TypeOK, NEW p \in Procs, Forget(p)
    PROVE  /\ pc'[p] = "down" /\ phase'[p] = "flush" /\ seg'[p] = 0 /\ fresh'[p] = 0
           /\ job'[p] = Garbled /\ inflight'[p] = {} /\ hand'[p] = 0 /\ list'[p] = {}
           /\ live'[p] = FALSE /\ cand'[p] = {} /\ comp'[p] = {} /\ markDone'[p] = FALSE
BY DEF Forget, TypeOK, ControlOK, WriterOK, ReaderOK

\* what p's own step owes to being alone
LEMMA AloneFrame ==
    ASSUME TypeOK, AloneInv, NEW p \in Procs, Acts(p), OthersStay(p),
           Dormant(p)', LocksKnown(p)', ClaimOpen(p)',
           \A q \in Procs \ {p}, s \in Segs : lock'[s] = q => lock[s] = q
    PROVE  AloneInv'
<1>1. \A q \in Procs \ {p} : pc[q] = "down" /\ pc'[q] = "down"
  BY OthersDown DEF OthersStay
<1>2. ASSUME NEW q \in Procs \ {p} PROVE Dormant(q)' /\ LocksKnown(q)' /\ ClaimOpen(q)'
  <2>1. /\ seg'[q] = 0 /\ seg[q] = 0 /\ hand'[q] = hand[q] /\ Dormant(q)'
    BY <1>1 DEF AloneInv, Dormant, OthersStay
  <2>2. LocksKnown(q)'
    BY <1>1, <2>1 DEF AloneInv, LocksKnown, Probing
  <2>3. QED
    BY <1>1, <2>1, <2>2 DEF ClaimOpen
<1>3. QED
  BY <1>1, <1>2 DEF AloneInv, Solo

\* p lets go of its locks and its segment
LEMMA AloneReleased ==
    ASSUME TypeOK, AloneInv, NEW p \in Procs, Acts(p), OthersStay(p), Dormant(p)',
           lock' = Unlocked(p), seg'[p] = 0, pc'[p] # "lock"
    PROVE  AloneInv'
<1>1. \A s \in Segs : lock'[s] # p
  BY ProcAssumption DEF Unlocked
<1>2. \A q \in Procs \ {p}, s \in Segs : lock'[s] = q => lock[s] = q
  BY ProcAssumption DEF Unlocked
<1>3. QED
  BY <1>1, <1>2, AloneFrame DEF LocksKnown, ClaimOpen

LEMMA AloneForgets ==
    ASSUME TypeOK, AloneInv, NEW p \in Procs, Acts(p), OthersStay(p), Forget(p),
           lock' = Unlocked(p)
    PROVE  AloneInv'
BY ForgetParts, AloneReleased DEF Dormant

\* p keeps its locks and its segment
LEMMA AloneKept ==
    ASSUME TypeOK, AloneInv, NEW p \in Procs, Acts(p), OthersStay(p),
           UNCHANGED <<lock, state>>, seg'[p] = seg[p], pc[p] \notin Probing,
           pc'[p] \notin {"down", "lock"}
    PROVE  AloneInv'
<1>1. LocksKnown(p)'
  BY DEF AloneInv, LocksKnown
<1>2. ClaimOpen(p)' /\ Dormant(p)'
  BY DEF AloneInv, ClaimOpen, Dormant
<1>3. QED
  BY <1>1, <1>2, AloneFrame

LEMMA AloneTakes ==
    ASSUME TypeOK, AloneInv, NEW p \in Procs, Acts(p), OthersStay(p),
           NEW S \in SUBSET Segs, NEW more, NEW done, more # done,
           Take(p, S, more, done), {more, done} \cap {"down", "lock"} = {},
           pc[p] \notin Probing, UNCHANGED <<lock, state, seg>>
    PROVE  AloneInv'
<1>1. pc'[p] \in {more, done}
  BY TakePlaces
<1>2. QED
  BY <1>1, AloneKept

LEMMA AloneProbe ==
    ASSUME TypeOK, HasHand, NoSegment, AloneInv, NEW p \in Procs, Acts(p), OthersStay(p),
           NEW here \in PassPCs \cap Reading, here \notin Probing,
           NEW locked \in Probing, NEW done \in PassPCs \ Probing,
           Probe(p, here, locked, done)
    PROVE  AloneInv' /\ (Exit(p) \/ (live'[p] = FALSE /\ pc'[p] = locked))
<1>1. CASE state[hand[p]] # "open"
  BY <1>1, AloneForgets DEF Probe, Exit
<1>2. CASE state[hand[p]] = "open"
  <2>1. /\ pc[p] = here /\ UNCHANGED <<state, seg, hand>>
        /\ hand[p] \in Segs /\ seg[p] = 0
    BY <1>2 DEF Probe, writer, HasHand, NoSegment
  <2>2. lock[hand[p]] = NoProc
    <3>1. \A q \in Procs \ {p} : pc[q] = "down" /\ seg[q] = 0
      BY OthersDown DEF AloneInv, Dormant
    <3>2. \A q \in Procs : lock[hand[p]] # q
      BY <2>1, <3>1, BoundAssumption DEF AloneInv, LocksKnown, Probing, Segs
    <3>3. QED
      BY <2>1, <3>2 DEF TypeOK, FilesOK
  <2>3. lock' = [lock EXCEPT ![hand[p]] = p] /\ pc'[p] = locked /\ live'[p] = FALSE
    BY <1>2, <2>2 DEF Probe, TypeOK, ControlOK, ReaderOK
  <2>4. LocksKnown(p)'
    BY <2>1, <2>3 DEF AloneInv, LocksKnown, TypeOK, FilesOK
  <2>5. ClaimOpen(p)' /\ Dormant(p)'
    BY <2>1, <2>3 DEF ClaimOpen, Dormant, Probing
  <2>6. \A q \in Procs \ {p}, s \in Segs : lock'[s] = q => lock[s] = q
    BY <2>3 DEF TypeOK, FilesOK
  <2>7. QED
    BY <2>3, <2>4, <2>5, <2>6, AloneFrame
<1>3. QED
  BY <1>1, <1>2

LEMMA AloneUnprobe ==
    ASSUME TypeOK, HasHand, AloneInv, NEW p \in Procs, Acts(p), OthersStay(p),
           NEW here \in Probing, NEW done \in PassPCs \ Probing, Unprobe(p, here, done)
    PROVE  AloneInv'
<1>1. /\ pc[p] = here /\ pc'[p] = done /\ UNCHANGED <<state, seg, hand>>
      /\ lock' = [lock EXCEPT ![hand[p]] = NoProc] /\ hand[p] \in Segs
  BY DEF Unprobe, TypeOK, ControlOK, writer, reader, HasHand, Probing, PassPCs, OffsetPCs
<1>2. LocksKnown(p)'
  BY <1>1, ProcAssumption DEF AloneInv, LocksKnown, TypeOK, FilesOK
<1>3. ClaimOpen(p)' /\ Dormant(p)'
  BY <1>1 DEF AloneInv, ClaimOpen, Dormant, PassPCs, OffsetPCs
<1>4. \A q \in Procs \ {p}, s \in Segs : lock'[s] = q => lock[s] = q
  BY <1>1, ProcAssumption DEF TypeOK, FilesOK
<1>5. QED
  BY <1>2, <1>3, <1>4, AloneFrame

LEMMA AloneRecover ==
    ASSUME TypeOK, HasHand, NoSegment, AloneInv, NEW p \in Procs, Acts(p), OthersStay(p),
           Recover(p)
    PROVE  AloneInv'
<1>1. CASE RecoverProbe(p)
  BY <1>1, AloneProbe DEF RecoverProbe, PassPCs, OffsetPCs, Reading, Probing
<1>2. CASE RecoverUnprobe(p)
  BY <1>2, AloneUnprobe DEF RecoverUnprobe, PassPCs, OffsetPCs, Probing
<1>3. CASE RecoverScan(p) /\ ~Exit(p)
  <2>1. Take(p, list[p], "probe", "flush") /\ list[p] \in SUBSET Segs /\ pc[p] = "scan"
        /\ UNCHANGED <<lock, state, seg>>
    BY <1>3 DEF RecoverScan, TypeOK, ReaderOK, files, writer
  <2>2. {"probe", "flush"} \cap {"down", "lock"} = {}
    OBVIOUS
  <2>3. QED
    BY <2>1, <2>2, AloneTakes DEF Probing
<1>4. CASE RecoverScan(p) /\ Exit(p)
  BY <1>4, AloneForgets DEF Exit
<1>5. CASE FlushOrphan(p)
  <2>1. pc[p] = "flush" /\ pc'[p] = "append" /\ UNCHANGED <<lock, state, seg>>
    BY <1>5 DEF FlushOrphan, TypeOK, ControlOK, files
  <2>2. QED
    BY <2>1, AloneKept DEF Probing
<1>6. CASE Recovered(p) /\ p \in Proxies
  <2>1. pc[p] = "flush" /\ pc'[p] = "serve" /\ UNCHANGED <<lock, state, seg>>
    BY <1>6 DEF Recovered, TypeOK, ControlOK
  <2>2. QED
    BY <2>1, AloneKept DEF Probing
<1>7. CASE Recovered(p) /\ p \notin Proxies
  <2>1. pc'[p] = "dlist" /\ lock' = Unlocked(p) /\ seg'[p] = 0
    BY <1>7 DEF Recovered, TypeOK, ControlOK, WriterOK
  <2>2. QED
    BY <2>1, AloneReleased DEF Dormant
<1>8. QED
  BY <1>1, <1>2, <1>3, <1>4, <1>5, <1>6, <1>7 DEF Recover

\* the fresh segment's lock is always to be had
LEMMA LockIsFree ==
    ASSUME TypeOK, NoSegment, WritersStand, AloneInv, NEW p \in Procs, Acts(p),
           pc[p] = "lock"
    PROVE  GotLock(p)
<1>1. fresh[p] \in Segs /\ seg[p] = 0
  BY BoundAssumption
     DEF WritersStand, Stands, TypeOK, WriterOK, Segs, NoSegment, Reading
<1>2. \A q \in Procs \ {p} : pc[q] = "down" /\ seg[q] = 0
  BY OthersDown DEF AloneInv, Dormant
<1>3. \A q \in Procs : lock[fresh[p]] # q
  BY <1>1, <1>2, BoundAssumption DEF AloneInv, LocksKnown, Probing, Segs
<1>4. QED
  BY <1>1, <1>3 DEF GotLock, TypeOK, FilesOK

LEMMA AloneAppendFails ==
    ASSUME TypeOK, AloneInv, NEW p \in Procs, Acts(p), OthersStay(p), AppendFails(p),
           pc[p] \notin Probing, state' = state
    PROVE  AloneInv'
<1>1. CASE job[p].type = "intent"
  <2>1. pc'[p] = "serve" /\ UNCHANGED <<lock, state, seg>>
    BY <1>1 DEF AppendFails, TypeOK, ControlOK
  <2>2. QED
    BY <2>1, AloneKept
<1>2. CASE job[p].type # "intent"
  BY <1>2, AloneForgets DEF AppendFails
<1>3. QED
  BY <1>1, <1>2

LEMMA AloneAppend ==
    ASSUME TypeOK, NoSegment, WritersStand, AloneInv, NEW p \in Procs, Acts(p),
           OthersStay(p), AppendLine(p)
    PROVE  AloneInv'
<1>1. CASE Rotate(p)
  <2>1. pc'[p] = "create" /\ lock' = Unlocked(p) /\ seg'[p] = 0
    BY <1>1 DEF Rotate, TypeOK, ControlOK, WriterOK
  <2>2. QED
    BY <2>1, AloneReleased DEF Dormant
<1>2. CASE CreateSegment(p)
  <2>1. /\ pc[p] = "create" /\ pc'[p] = "lock" /\ UNCHANGED <<lock, seg, fresh, hand>>
        /\ state' = [state EXCEPT ![fresh[p]] = "open"] /\ fresh[p] \in Segs /\ seg[p] = 0
    BY <1>2, BoundAssumption
       DEF CreateSegment, TypeOK, ControlOK, WriterOK, writer, reader, WritersStand,
           Stands, Segs, NoSegment, Reading
  <2>2. state'[fresh[p]] = "open"
    BY <2>1 DEF TypeOK, FilesOK
  <2>3. LocksKnown(p)' /\ Dormant(p)' /\ ClaimOpen(p)'
    BY <2>1, <2>2 DEF AloneInv, LocksKnown, Dormant, ClaimOpen, Probing
  <2>4. QED
    BY <2>1, <2>3, AloneFrame
<1>3. CASE LockSegment(p)
  <2>1. pc[p] = "lock"
    BY <1>3 DEF LockSegment
  <2>2. /\ pc'[p] = "append" /\ seg'[p] = fresh[p] /\ UNCHANGED <<state, hand>>
        /\ lock' = [lock EXCEPT ![fresh[p]] = p] /\ seg[p] = 0 /\ fresh[p] \in Segs
    BY <1>3, <2>1, LockIsFree, BoundAssumption
       DEF LockSegment, TypeOK, ControlOK, WriterOK, reader, NoSegment, Reading,
           WritersStand, Stands, Segs
  <2>3. LocksKnown(p)'
    BY <2>1, <2>2, BoundAssumption
       DEF AloneInv, LocksKnown, Probing, TypeOK, FilesOK, Segs
  <2>4. Dormant(p)' /\ ClaimOpen(p)'
    BY <2>1, <2>2 DEF AloneInv, Dormant, ClaimOpen
  <2>5. \A q \in Procs \ {p}, s \in Segs : lock'[s] = q => lock[s] = q
    BY <2>2 DEF TypeOK, FilesOK
  <2>6. QED
    BY <2>3, <2>4, <2>5, AloneFrame
<1>4. CASE Write(p)
  <2>1. /\ pc[p] = "append" /\ pc'[p] \in {"flush", "serve"} /\ UNCHANGED <<lock, state, seg>>
    BY <1>4 DEF Write, TypeOK, ControlOK
  <2>2. QED
    BY <2>1, AloneKept DEF Probing
<1>5. QED
  BY <1>1, <1>2, <1>3, <1>4 DEF AppendLine

LEMMA AloneDrain ==
    ASSUME TypeOK, HasHand, NoSegment, AloneInv, NEW p \in Procs, Acts(p), OthersStay(p),
           Drain(p)
    PROVE  AloneInv'
<1>1. {"dread", "drained"} \cap {"down", "lock"} = {} /\ list[p] \in SUBSET Segs
      /\ Segments \in SUBSET Segs
  BY DEF TypeOK, ReaderOK, Segments
<1>2. CASE DrainList(p)
  BY <1>1, <1>2, AloneTakes DEF DrainList, Probing, files, writer
<1>3. CASE Exit(p)
  BY <1>3, AloneForgets DEF Exit
<1>4. CASE (DrainRead(p) /\ ~Exit(p)) \/ DrainRecord(p) \/ DrainEOF(p)
             \/ (DrainStat(p) /\ ~Exit(p) /\ Markable(p))
  <2>1. /\ pc[p] \notin Probing /\ pc'[p] \notin {"down", "lock"}
        /\ UNCHANGED <<lock, state, seg>>
    BY <1>4 DEF DrainRead, DrainRecord, DrainEOF, DrainStat, Probing, TypeOK, ControlOK,
                files, writer
  <2>2. QED
    BY <2>1, AloneKept
<1>5. CASE DrainProbe(p)
  BY <1>5, AloneProbe DEF DrainProbe, PassPCs, OffsetPCs, Reading, Probing
<1>6. CASE DrainUnprobe(p)
  BY <1>6, AloneUnprobe DEF DrainUnprobe, PassPCs, OffsetPCs, Probing
<1>7. CASE DrainStat(p) /\ ~Exit(p) /\ ~Markable(p)
  <2>1. Take(p, list[p], "dread", "drained") /\ pc[p] = "dstat"
        /\ UNCHANGED <<lock, state, seg>>
    BY <1>7 DEF DrainStat, Advance, files, writer
  <2>2. QED
    BY <1>1, <2>1, AloneTakes DEF Probing
<1>8. CASE DrainRename(p) /\ ~Exit(p)
  <2>1. /\ Take(p, list[p], "dread", "drained") /\ pc[p] = "drename"
        /\ UNCHANGED <<lock, seg>>
    BY <1>8 DEF DrainRename, Advance, writer
  <2>2. pc'[p] \in {"dread", "drained"} /\ seg[p] = 0
    BY <1>1, <2>1, TakePlaces DEF NoSegment, Reading
  <2>3. LocksKnown(p)' /\ Dormant(p)' /\ ClaimOpen(p)'
    BY <2>1, <2>2 DEF AloneInv, LocksKnown, Probing, Dormant, ClaimOpen
  <2>4. QED
    BY <2>1, <2>3, AloneFrame
<1>9. QED
  BY <1>2, <1>3, <1>4, <1>5, <1>6, <1>7, <1>8 DEF Drain, DrainRead, DrainStat, DrainRename,
     DrainEnds

LEMMA AloneStep ==
    ASSUME TypeOK, HasHand, NoSegment, WritersStand, AloneInv, NEW p \in Procs, Acts(p),
           OthersStay(p)
    PROVE  AloneInv'
<1>1. CASE Start(p)
  <2>1. {"probe", "flush"} \cap {"down", "lock"} = {} /\ Segments \in SUBSET Segs
    BY DEF Segments
  <2>2. QED
    BY <1>1, <2>1, AloneTakes DEF Start, Probing, files, writer
<1>2. CASE Serve(p)
  <2>1. CASE ClientCall(p) \/ ServerAnswer(p)
    <3>1. pc[p] = "serve" /\ pc'[p] = "append" /\ UNCHANGED <<lock, state, seg>>
      BY <2>1 DEF ClientCall, ServerAnswer, TypeOK, ControlOK, files
    <3>2. QED
      BY <3>1, AloneKept DEF Probing
  <2>2. CASE Shutdown(p)
    BY <2>2, AloneForgets DEF Shutdown, Exit
  <2>3. QED
    BY <1>2, <2>1, <2>2 DEF Serve
<1>3. CASE Fault(p)
  <2>1. CASE ShortWrite(p)
    BY <2>1, AloneAppendFails DEF ShortWrite, Probing
  <2>2. QED
    BY <1>3, <2>1, AloneForgets DEF Fault, DrainStops, Crash
<1>4. QED
  BY <1>1, <1>2, <1>3, AloneRecover, AloneAppend, AloneDrain DEF Acts

-----------------------------------------------------------------------------
(* What recovery has read.                                                 *)

Completed(c) == \E s \in Segs : c \in CompletedIn(s)
HasRead(p, s) == IntentsIn(s) \subseteq cand[p] /\ CompletedIn(s) \subseteq comp[p]
Flushing(p) == pc[p] = "flush" \/ (pc[p] \in Appending /\ phase[p] = "flush")
Searching(p) == pc[p] \in Recovering \/ Flushing(p)

\* what recovery has read is what is there: it finds no segment live, its
\* candidates are open intents, and what it counts as completed is, or is what
\* it is appending
Searches(p) ==
    /\ pc[p] \in {"unprobe", "scan"} => live[p] = FALSE
    /\ pc[p] \in Recovering => \A s \in Segments : s \in Ahead(p) \/ HasRead(p, s)
    /\ Flushing(p) => JobCalls(p) \subseteq comp[p] /\ \A s \in Segments : HasRead(p, s)
    /\ Searching(p) => /\ \A c \in cand[p] : \E s \in Segments : c \in IntentsIn(s)
                       /\ \A c \in comp[p] : Completed(c) \/ c \in JobCalls(p)

SearchInv == \A p \in Procs : Searches(p)

\* a completion written behind whole lines closes its call
LEMMA WrittenCloses ==
    ASSUME TypeOK, NEW p \in Procs, Room(p), Written(p), ~torn[seg[p]],
           NEW c \in JobCalls(p)
    PROVE  Completed(c)'
<1>1. PICK s \in Segs : s = seg[p]
  BY WrittenReads
<1>2. Line(p) = job[p] /\ job[p].type = "completion" /\ job[p].receipt.call = c
  BY DEF Line, JobCalls
<1>3. job[p].receipt \in ReceiptsIn(s)'
  BY <1>1, <1>2, WrittenReads
<1>4. c \in CompletedIn(s)'
  BY <1>2, <1>3 DEF CompletedIn
<1>5. QED
  BY <1>4 DEF Completed

LEMMA NotSearching ==
    ASSUME AloneInv, SearchInv, NEW p \in Procs, Acts(p), OthersStay(p), Searches(p)'
    PROVE  SearchInv'
<1>1. \A q \in Procs \ {p} : pc'[q] = "down"
  BY OthersDown DEF OthersStay
<1>2. \A q \in Procs \ {p} : Searches(q)'
  BY <1>1 DEF Searches, Searching, Recovering, Flushing, Appending, Naming
<1>3. QED
  BY <1>2 DEF SearchInv

LEMMA SearchOver ==
    ASSUME AloneInv, SearchInv, NEW p \in Procs, Acts(p), OthersStay(p),
           pc'[p] \notin Recovering \cup {"flush"},
           pc'[p] \in Appending => phase'[p] # "flush"
    PROVE  SearchInv'
BY NotSearching DEF Searches, Searching, Recovering, Flushing

LEMMA StartSearch ==
    ASSUME TypeOK, CustodyInv, AloneInv, SearchInv, NEW p \in Procs, Acts(p),
           OthersStay(p), Start(p)
    PROVE  SearchInv'
<1>1. /\ pc[p] = "down" /\ Take(p, Segments, "probe", "flush")
      /\ UNCHANGED <<state, recs, live, cand, comp, job>>
  BY DEF Start, files, writer
<1>2. cand[p] = {} /\ comp[p] = {} /\ live[p] = FALSE /\ job[p] = Garbled
  BY <1>1 DEF AloneInv, Dormant
<1>3. Segments \in SUBSET Segs /\ Segments' = Segments
  BY <1>1 DEF Segments
<1>4. JobCalls(p)' = {}
  BY <1>1, <1>2 DEF JobCalls, Garbled
<1>5. /\ pc'[p] \in {"probe", "flush"}
      /\ pc'[p] = "flush" => Segments = {}
      /\ pc'[p] = "probe" => Ahead(p)' = Segments
  BY <1>1, <1>3, TakeParts, SMTT(30)
<1>6. Searches(p)'
  BY <1>1, <1>2, <1>3, <1>4, <1>5
     DEF Searches, Searching, Recovering, Flushing, Appending, Naming
<1>7. QED
  BY <1>6, NotSearching

\* nothing p has read, or has still to read, changes
LEMMA SearchKept ==
    ASSUME AloneInv, SearchInv, NEW p \in Procs, Acts(p), OthersStay(p),
           UNCHANGED <<state, recs, cand, comp, hand, list, job>>,
           Searching(p)' => Searching(p),
           Flushing(p)' => Flushing(p),
           pc'[p] \in Recovering => pc[p] \in Recovering,
           pc'[p] \in {"unprobe", "scan"} => live'[p] = FALSE
    PROVE  SearchInv'
<1>1. \A s \in Segs : IntentsIn(s)' = IntentsIn(s) /\ CompletedIn(s)' = CompletedIn(s)
  BY SameReads
<1>2. Segments' = Segments /\ Segments \subseteq Segs
  BY DEF Segments
<1>3. \A c : Completed(c)' <=> Completed(c)
  BY <1>1 DEF Completed
<1>4. JobCalls(p)' = JobCalls(p) /\ Ahead(p)' = Ahead(p)
  BY DEF JobCalls, Ahead
<1>5. \A s \in Segs : HasRead(p, s)' <=> HasRead(p, s)
  BY <1>1 DEF HasRead
<1>6. Searches(p)'
  BY <1>1, <1>2, <1>3, <1>4, <1>5 DEF SearchInv, Searches
<1>7. QED
  BY <1>6, NotSearching

LEMMA ScanSearch ==
    ASSUME TypeOK, WritersStand, AloneInv, SearchInv, NEW p \in Procs, Acts(p),
           OthersStay(p), RecoverScan(p), ~Exit(p), hand[p] \in Segs
    PROVE  SearchInv'
<1>1. /\ pc[p] = "scan" /\ Take(p, list[p], "probe", "flush")
      /\ cand'[p] = cand[p] \cup (IF live[p] THEN {} ELSE IntentsIn(hand[p]))
      /\ comp'[p] = comp[p] \cup CompletedIn(hand[p])
      /\ state[hand[p]] = "open" /\ UNCHANGED <<state, recs, job>>
  BY DEF RecoverScan, TypeOK, ReaderOK, files, writer
<1>2. PICK w \in Segments : w = hand[p]
  BY <1>1 DEF Segments
<1>3. \A s \in Segs : IntentsIn(s)' = IntentsIn(s) /\ CompletedIn(s)' = CompletedIn(s)
  BY <1>1, SameReads
<1>4. Segments' = Segments /\ Segments \subseteq Segs
  BY <1>1 DEF Segments
<1>5. \A c : Completed(c)' <=> Completed(c)
  BY <1>3 DEF Completed
<1>6. JobCalls(p)' = JobCalls(p) /\ JobCalls(p) = {}
  BY <1>1 DEF JobCalls, WritersStand, Stands, Appending, Naming, Garbled
<1>7. list[p] \in SUBSET Segs
  BY DEF TypeOK, ReaderOK
<1>8. /\ pc'[p] \in {"probe", "flush"}
      /\ pc'[p] = "flush" => list[p] = {}
      /\ pc'[p] = "probe" => Ahead(p)' = list[p]
  BY <1>1, <1>7, TakeParts, SMTT(30)
<1>9. /\ live[p] = FALSE
      /\ \A s \in Segments : s \in list[p] \/ s = w \/ HasRead(p, s)
      /\ \A c \in cand[p] : \E s \in Segments : c \in IntentsIn(s)
      /\ \A c \in comp[p] : Completed(c)
  BY <1>1, <1>2, <1>6 DEF SearchInv, Searches, Searching, Recovering, Ahead
<1>10. cand'[p] = cand[p] \cup IntentsIn(w) /\ comp'[p] = comp[p] \cup CompletedIn(w)
  BY <1>1, <1>2, <1>9
<1>11. \A s \in Segments : s \in list[p] \/ HasRead(p, s)'
  BY <1>3, <1>4, <1>9, <1>10 DEF HasRead
<1>12. /\ \A c \in cand'[p] : \E s \in Segments : c \in IntentsIn(s)
       /\ \A c \in comp'[p] : Completed(c)
  BY <1>4, <1>9, <1>10 DEF Completed
<1>13. Searches(p)'
  BY <1>3, <1>4, <1>5, <1>6, <1>8, <1>11, <1>12
     DEF Searches, Searching, Recovering, Flushing, Appending, Naming
<1>14. QED
  BY <1>13, NotSearching

LEMMA RecoverSearch ==
    ASSUME TypeOK, HasHand, NoSegment, WritersStand, AloneInv, SearchInv,
           NEW p \in Procs, Acts(p), OthersStay(p), Recover(p)
    PROVE  SearchInv'
<1>1. CASE Exit(p)
  BY <1>1, ForgetParts, SearchOver DEF Exit, Recovering, Appending, Naming
<1>2. CASE RecoverProbe(p) /\ ~Exit(p)
  <2>1. live'[p] = FALSE /\ pc'[p] = "unprobe"
    <3>1. Probe(p, "probe", "unprobe", "scan")
      BY <1>2 DEF RecoverProbe
    <3>2. QED
      BY <1>2, <3>1, AloneProbe DEF PassPCs, OffsetPCs, Reading, Probing
  <2>2. pc[p] = "probe" /\ UNCHANGED <<state, recs, cand, comp, hand, list, job>>
    BY <1>2 DEF RecoverProbe, Probe, writer
  <2>3. QED
    BY <2>1, <2>2, SearchKept DEF Searching, Flushing, Recovering, Appending, Naming
<1>3. CASE RecoverUnprobe(p)
  <2>1. /\ pc[p] = "unprobe" /\ pc'[p] = "scan"
        /\ UNCHANGED <<state, recs, cand, comp, hand, list, job, live>>
    BY <1>3 DEF RecoverUnprobe, Unprobe, TypeOK, ControlOK, writer, reader
  <2>2. live'[p] = FALSE
    BY <2>1 DEF SearchInv, Searches
  <2>3. QED
    BY <2>1, <2>2, SearchKept DEF Searching, Flushing, Recovering, Appending, Naming
<1>4. CASE RecoverScan(p) /\ ~Exit(p)
  BY <1>4, ScanSearch DEF RecoverScan, HasHand, PassPCs
<1>5. CASE FlushOrphan(p)
  <2>1. PICK c \in Orphans(p) :
            /\ job' = [job EXCEPT ![p] = Completion(Mint(c, "orphan_intent"))]
            /\ comp' = [comp EXCEPT ![p] = @ \cup {c}]
    BY <1>5 DEF FlushOrphan
  <2>2. /\ pc[p] = "flush" /\ pc'[p] = "append" /\ phase'[p] = phase[p]
        /\ UNCHANGED <<state, recs, cand>> /\ comp'[p] = comp[p] \cup {c} /\ c \in cand[p]
    BY <1>5, <2>1 DEF FlushOrphan, TypeOK, ControlOK, ReaderOK, files, Orphans
  <2>3. \A s \in Segs : IntentsIn(s)' = IntentsIn(s) /\ CompletedIn(s)' = CompletedIn(s)
    BY <2>2, SameReads
  <2>4. Segments' = Segments /\ Segments \subseteq Segs
    BY <2>2 DEF Segments
  <2>5. \A d : Completed(d)' <=> Completed(d)
    BY <2>3 DEF Completed
  <2>6. job'[p].type = "completion" /\ job'[p].receipt.call = c
    BY <2>1 DEF TypeOK, WriterOK, Completion, Mint
  <2>7. c \in Calls /\ JobCalls(p)' = {c}
    BY <2>2, <2>6 DEF JobCalls, TypeOK, ReaderOK
  <2>8. JobCalls(p) = {}
    BY <2>2 DEF JobCalls, WritersStand, Stands, Appending, Naming, Garbled
  <2>9. Searches(p)'
    BY <2>2, <2>3, <2>4, <2>5, <2>7, <2>8
       DEF SearchInv, Searches, Searching, Recovering, Flushing, HasRead, Appending, Naming
  <2>10. QED
    BY <2>9, NotSearching
<1>6. CASE Recovered(p)
  <2>1. pc'[p] \in {"serve", "dlist"}
    BY <1>6 DEF Recovered, TypeOK, ControlOK
  <2>2. QED
    BY <2>1, SearchOver DEF Recovering, Appending, Naming
<1>7. QED
  BY <1>1, <1>2, <1>3, <1>4, <1>5, <1>6 DEF Recover

LEMMA CreateSearch ==
    ASSUME TypeOK, FilesNamed, WritersStand, AloneInv, SearchInv, NEW p \in Procs, Acts(p),
           OthersStay(p), CreateSegment(p)
    PROVE  SearchInv'
<1>1. PICK w \in Segs : w = fresh[p] /\ state[w] = "absent"
  BY BoundAssumption DEF CreateSegment, WritersStand, Stands, TypeOK, WriterOK, Segs
<1>2. /\ pc[p] = "create" /\ pc'[p] = "lock" /\ phase'[p] = phase[p]
      /\ UNCHANGED <<recs, cand, comp, job>>
      /\ state' = [state EXCEPT ![w] = "open"]
  BY <1>1 DEF CreateSegment, TypeOK, ControlOK, writer, reader
<1>3. \A s \in Segs : IntentsIn(s)' = IntentsIn(s) /\ CompletedIn(s)' = CompletedIn(s)
  BY <1>2, SameReads
<1>4. Segments' = Segments \cup {w} /\ Segments \subseteq Segs
  BY <1>1, <1>2 DEF Segments, TypeOK, FilesOK
<1>5. IntentsIn(w) = {} /\ CompletedIn(w) = {}
  BY <1>1 DEF FilesNamed, IntentsIn, CompletedIn, ReceiptsIn
<1>6. \A d : Completed(d)' <=> Completed(d)
  BY <1>3 DEF Completed
<1>7. JobCalls(p)' = JobCalls(p)
  BY <1>2 DEF JobCalls
<1>8. Searches(p)'
  BY <1>2, <1>3, <1>4, <1>5, <1>6, <1>7
     DEF SearchInv, Searches, Searching, Recovering, Flushing, HasRead, Appending, Naming
<1>9. QED
  BY <1>8, NotSearching

LEMMA WriteSearch ==
    ASSUME TypeOK, WritersStand, AloneInv, SearchInv, NEW p \in Procs, Acts(p),
           OthersStay(p), Write(p)
    PROVE  SearchInv'
<1>1. /\ pc[p] = "append" /\ Room(p) /\ Written(p) /\ job'[p] = Garbled
      /\ pc'[p] = (IF phase[p] = "flush" THEN "flush" ELSE "serve")
      /\ UNCHANGED <<state, phase, cand, comp>>
  BY DEF Write, TypeOK, ControlOK, WriterOK, reader
<1>2. CASE phase[p] = "flush"
  <2>1. seg[p] # 0 /\ ~torn[seg[p]] /\ job[p].type # "intent"
    BY <1>1, <1>2 DEF WritersStand, Stands, Room
  <2>2. \A c : job[p] # Intent(c)
    BY <2>1 DEF Intent
  <2>3. \A s \in Segs : /\ IntentsIn(s)' = IntentsIn(s)
                        /\ CompletedIn(s) \subseteq CompletedIn(s)'
                        /\ CompletedIn(s)' \subseteq CompletedIn(s) \cup JobCalls(p)
    BY <1>1, <2>2, WrittenCalls
  <2>4. \A c \in JobCalls(p) : Completed(c)'
    BY <1>1, <2>1, WrittenCloses
  <2>5. \A c : Completed(c) => Completed(c)'
    BY <2>3 DEF Completed
  <2>6. /\ JobCalls(p) \subseteq comp[p]
        /\ \A s \in Segments : HasRead(p, s)
        /\ \A c \in cand[p] : \E s \in Segments : c \in IntentsIn(s)
        /\ \A c \in comp[p] : Completed(c) \/ c \in JobCalls(p)
    BY <1>1, <1>2 DEF SearchInv, Searches, Searching, Flushing, Appending
  <2>7. Segments' = Segments /\ Segments \subseteq Segs
    BY <1>1 DEF Segments
  <2>8. JobCalls(p)' = {}
    BY <1>1 DEF JobCalls, Garbled
  <2>9. \A s \in Segments : HasRead(p, s)'
    BY <1>1, <2>3, <2>6, <2>7 DEF HasRead
  <2>10. /\ \A c \in cand'[p] : \E s \in Segments' : c \in IntentsIn(s)'
         /\ \A c \in comp'[p] : Completed(c)'
    BY <1>1, <2>3, <2>4, <2>5, <2>6, <2>7
  <2>11. Searches(p)'
    BY <1>1, <1>2, <2>7, <2>8, <2>9, <2>10
       DEF Searches, Searching, Recovering, Flushing, Appending, Naming
  <2>12. QED
    BY <2>11, NotSearching
<1>3. CASE phase[p] # "flush"
  BY <1>1, <1>3, SearchOver DEF Recovering, Appending, Naming
<1>4. QED
  BY <1>2, <1>3

\* a drain stays a drain until it exits
LEMMA DrainPlaces ==
    ASSUME TypeOK, NEW p \in Procs, Drain(p)
    PROVE  pc[p] \in Draining /\ (Exit(p) \/ pc'[p] \in Draining)
<1>1. Segments \in SUBSET Segs /\ list[p] \in SUBSET Segs
  BY DEF Segments, TypeOK, ReaderOK
<1>2. CASE DrainList(p)
  <2>1. pc'[p] \in {"dread", "drained"}
    <3>1. Take(p, Segments, "dread", "drained") /\ Segments \in SUBSET Segs
      BY <1>1, <1>2 DEF DrainList
    <3>2. QED
      BY <3>1, TakePlaces
  <2>2. QED
    BY <1>2, <2>1 DEF DrainList, Draining, DrainPass, OffsetPCs
<1>3. CASE DrainStat(p) \/ DrainRename(p)
  <2>1. Advance(p) => pc'[p] \in {"dread", "drained"}
    BY <1>1, TakePlaces DEF Advance
  <2>2. QED
    BY <1>3, <2>1
       DEF DrainStat, DrainRename, Draining, DrainPass, OffsetPCs, TypeOK, ControlOK
<1>4. CASE DrainRead(p) \/ DrainRecord(p) \/ DrainEOF(p) \/ DrainProbe(p)
             \/ DrainUnprobe(p) \/ DrainEnds(p)
  BY <1>4 DEF DrainRead, DrainRecord, DrainEOF, DrainProbe, Probe, DrainUnprobe, Unprobe,
              DrainEnds, Draining, DrainPass, OffsetPCs, TypeOK, ControlOK
<1>5. QED
  BY <1>2, <1>3, <1>4 DEF Drain

LEMMA SearchStep ==
    ASSUME TypeOK, HasHand, NoSegment, CustodyInv, AloneInv, SearchInv,
           NEW p \in Procs, Acts(p), OthersStay(p)
    PROVE  SearchInv'
<1>1. FilesNamed /\ WritersStand
  BY DEF CustodyInv
<1>2. CASE Forget(p)
  BY <1>2, ForgetParts, SearchOver DEF Recovering, Appending, Naming
<1>3. CASE Start(p)
  BY <1>3, StartSearch
<1>4. CASE Recover(p)
  BY <1>1, <1>4, RecoverSearch
<1>5. CASE Serve(p) /\ ~Forget(p)
  <2>1. pc[p] = "serve" /\ pc'[p] = "append" /\ phase'[p] = phase[p]
    BY <1>5 DEF Serve, ClientCall, ServerAnswer, Shutdown, Exit, TypeOK, ControlOK
  <2>2. QED
    BY <1>1, <2>1, SearchOver DEF WritersStand, Stands, Recovering
<1>6. CASE Rotate(p)
  <2>1. /\ pc[p] = "append" /\ pc'[p] = "create" /\ phase'[p] = phase[p]
        /\ UNCHANGED <<state, recs, cand, comp, hand, list, job>>
    BY <1>6 DEF Rotate, TypeOK, ControlOK, reader
  <2>2. QED
    BY <2>1, SearchKept DEF Searching, Flushing, Recovering, Appending, Naming
<1>7. CASE LockSegment(p)
  <2>1. pc[p] = "lock"
    BY <1>7 DEF LockSegment
  <2>2. /\ pc'[p] = "append" /\ phase'[p] = phase[p]
        /\ UNCHANGED <<state, recs, cand, comp, hand, list, job>>
    BY <1>1, <1>7, <2>1, LockIsFree DEF LockSegment, TypeOK, ControlOK, reader
  <2>3. QED
    BY <2>1, <2>2, SearchKept DEF Searching, Flushing, Recovering, Appending, Naming
<1>8. CASE CreateSegment(p) \/ Write(p)
  BY <1>1, <1>8, CreateSearch, WriteSearch
<1>9. CASE Drain(p)
  BY <1>2, <1>9, DrainPlaces, SearchOver
     DEF Exit, Draining, DrainPass, OffsetPCs, Recovering, Appending, Naming
<1>10. CASE Fault(p) /\ ~Forget(p)
  <2>1. pc'[p] = "serve"
    BY <1>10 DEF Fault, ShortWrite, AppendFails, DrainStops, Crash, TypeOK, ControlOK
  <2>2. QED
    BY <2>1, SearchOver DEF Recovering, Appending, Naming
<1>11. QED
  BY <1>2, <1>3, <1>4, <1>5, <1>6, <1>7, <1>8, <1>9, <1>10 DEF Acts, AppendLine

-----------------------------------------------------------------------------
(* What is still to be closed.                                             *)

\* nothing p has in hand is completed yet, and a drain starts only when every
\* intent it will meet is
Closes(p) ==
    /\ inflight[p] # {} => pc[p] \in Pumping /\ phase[p] # "flush"
    /\ \A c \in inflight[p] \cup JobCalls(p) : ~Completed(c)
    /\ inflight[p] \cap JobCalls(p) = {}
    /\ pc[p] \in Draining => \A s \in Segments : \A c \in IntentsIn(s) : Completed(c)

\* a call that crossed is completed, or the next recovery will read its intent
KeptOnDisk ==
    \A c \in forwarded : Completed(c) \/ \E s \in Segments : c \in IntentsIn(s)

OnceInv == (\A p \in Procs : Closes(p)) /\ OneReceiptPerCall /\ KeptOnDisk

\* p's step appends nothing
LEMMA OnceStill ==
    ASSUME AloneInv, OnceInv, NEW p \in Procs, Acts(p), OthersStay(p),
           UNCHANGED <<recs, forwarded>>, Closes(p)',
           \A s \in Segments : s \in Segments' \/ \A c \in IntentsIn(s) : Completed(c)
    PROVE  OnceInv'
<1>1. \A s \in Segs : /\ IntentsIn(s)' = IntentsIn(s) /\ CompletedIn(s)' = CompletedIn(s)
                      /\ ReceiptsIn(s)' = ReceiptsIn(s)
  BY SameReads
<1>2. \A c : Completed(c)' <=> Completed(c)
  BY <1>1 DEF Completed
<1>3. ASSUME NEW q \in Procs \ {p} PROVE Closes(q)'
  <2>1. pc'[q] = "down" /\ inflight'[q] = {} /\ job'[q] = Garbled
    BY OthersDown DEF AloneInv, Dormant, OthersStay
  <2>2. JobCalls(q)' = {}
    BY <2>1 DEF JobCalls, Garbled
  <2>3. QED
    BY <2>1, <2>2 DEF Closes, Draining, DrainPass, OffsetPCs
<1>4. OneReceiptPerCall'
  <2>1. Spooled' = Spooled
    BY <1>1 DEF Spooled
  <2>2. QED
    BY <2>1 DEF OnceInv, OneReceiptPerCall
<1>5. KeptOnDisk'
  BY <1>1, <1>2 DEF OnceInv, KeptOnDisk, Segments
<1>6. QED
  BY <1>3, <1>4, <1>5 DEF OnceInv

\* what p has in hand shrinks, or moves from one hand to the other
LEMMA ClosesKept ==
    ASSUME OnceInv, NEW p \in Procs, recs' = recs,
           inflight'[p] \cup JobCalls(p)' \subseteq inflight[p] \cup JobCalls(p),
           inflight'[p] \subseteq inflight[p], inflight'[p] \cap JobCalls(p)' = {},
           inflight[p] # {} => (pc'[p] \in Pumping /\ phase'[p] # "flush") \/ inflight'[p] = {},
           pc'[p] \in Draining => pc[p] \in Draining /\ Segments' \subseteq Segments
    PROVE  Closes(p)'
<1>1. \A s \in Segs : IntentsIn(s)' = IntentsIn(s) /\ CompletedIn(s)' = CompletedIn(s)
  BY SameReads
<1>2. \A c : Completed(c)' <=> Completed(c)
  BY <1>1 DEF Completed
<1>3. Segments \subseteq Segs
  BY DEF Segments
<1>4. QED
  BY <1>1, <1>2, <1>3 DEF OnceInv, Closes

LEMMA OnceForgets ==
    ASSUME TypeOK, AloneInv, OnceInv, NEW p \in Procs, Acts(p), OthersStay(p), Forget(p),
           UNCHANGED <<state, recs, forwarded>>
    PROVE  OnceInv'
<1>1. pc'[p] = "down" /\ inflight'[p] = {} /\ job'[p] = Garbled
  BY ForgetParts
<1>2. JobCalls(p)' = {}
  BY <1>1 DEF JobCalls, Garbled
<1>3. Closes(p)'
  BY <1>1, <1>2 DEF Closes, Draining, DrainPass, OffsetPCs
<1>4. Segments' = Segments
  BY DEF Segments
<1>5. QED
  BY <1>3, <1>4, OnceStill

\* p keeps what it has in hand
LEMMA OnceKept ==
    ASSUME AloneInv, OnceInv, NEW p \in Procs, Acts(p), OthersStay(p),
           UNCHANGED <<state, recs, forwarded, inflight, job>>,
           inflight[p] # {} => pc'[p] \in Pumping /\ phase'[p] # "flush",
           pc'[p] \in Draining => pc[p] \in Draining
    PROVE  OnceInv'
<1>1. JobCalls(p)' = JobCalls(p) /\ inflight[p] \cap JobCalls(p) = {}
  BY DEF JobCalls, OnceInv, Closes
<1>2. Segments' = Segments
  BY DEF Segments
<1>3. Closes(p)'
  BY <1>1, <1>2, ClosesKept
<1>4. QED
  BY <1>2, <1>3, OnceStill

\* an orphan is not completed anywhere: not in an open segment, which recovery
\* has read, and not in a .done one
LEMMA OrphanIsOpen ==
    ASSUME TypeOK, CustodyInv, SearchInv, NEW p \in Procs, pc[p] = "flush",
           NEW c \in Orphans(p)
    PROVE  ~Completed(c)
<1>1. /\ \A s \in Segments : CompletedIn(s) \subseteq comp[p]
      /\ \E s \in Segments : c \in IntentsIn(s)
  BY DEF SearchInv, Searches, Searching, Flushing, HasRead, Orphans
<1>2. PICK s \in Segments : c \in IntentsIn(s)
  BY <1>1
<1>3. s \in Segs /\ state[s] = "open"
  BY <1>2 DEF Segments
<1>4. SUFFICES ASSUME NEW t \in Segs, c \in CompletedIn(t) PROVE FALSE
  BY DEF Completed
<1>5. t \notin Segments
  BY <1>1, <1>4 DEF Orphans
<1>6. state[t] # "absent"
  BY <1>4 DEF CustodyInv, FilesNamed, CompletedIn, ReceiptsIn
<1>7. state[t] = "done"
  BY <1>5, <1>6 DEF Segments, TypeOK, FilesOK
<1>8. QED
  BY <1>2, <1>3, <1>4, <1>7 DEF CustodyInv, DoneBehind, Bound

LEMMA RecoverOnce ==
    ASSUME TypeOK, CustodyInv, AloneInv, SearchInv, OnceInv, NEW p \in Procs, Acts(p),
           OthersStay(p), Recover(p), ~Forget(p)
    PROVE  OnceInv'
<1>1. pc[p] \notin Pumping
  BY DEF Recover, RecoverProbe, Probe, RecoverUnprobe, Unprobe, RecoverScan, FlushOrphan,
         Recovered, Pumping, Appending, Naming
<1>2. inflight[p] = {} /\ job[p] = Garbled /\ phase[p] = "flush"
  BY <1>1 DEF OnceInv, Closes, CustodyInv, WritersStand, Stands, Pumping
<1>3. JobCalls(p) = {}
  BY <1>2 DEF JobCalls, Garbled
<1>4. CASE RecoverProbe(p) \/ RecoverUnprobe(p) \/ RecoverScan(p)
  <2>1. UNCHANGED <<state, recs, forwarded, inflight, job>>
    BY <1>4 DEF RecoverProbe, Probe, RecoverUnprobe, Unprobe, RecoverScan, Exit, files,
                writer, evidence
  <2>2. pc'[p] \in {"probe", "unprobe", "scan", "flush"}
    <3>1. CASE RecoverScan(p)
      <4>1. Take(p, list[p], "probe", "flush") /\ list[p] \in SUBSET Segs
        BY <3>1 DEF RecoverScan, Exit, TypeOK, ReaderOK
      <4>2. QED
        BY <4>1, TakePlaces
    <3>2. QED
      BY <1>4, <3>1 DEF RecoverProbe, Probe, RecoverUnprobe, Unprobe, Exit, TypeOK, ControlOK
  <2>3. QED
    BY <1>2, <2>1, <2>2, OnceKept DEF Draining, DrainPass, OffsetPCs
<1>5. CASE FlushOrphan(p)
  <2>1. PICK c \in Orphans(p) :
            job' = [job EXCEPT ![p] = Completion(Mint(c, "orphan_intent"))]
    BY <1>5 DEF FlushOrphan
  <2>2. /\ pc[p] = "flush" /\ pc'[p] = "append"
        /\ UNCHANGED <<state, recs, forwarded, inflight>>
    BY <1>5 DEF FlushOrphan, TypeOK, ControlOK, files
  <2>3. job'[p].type = "completion" /\ job'[p].receipt.call = c
    BY <2>1 DEF TypeOK, WriterOK, Completion, Mint
  <2>4. JobCalls(p)' \subseteq {c} /\ ~Completed(c)
    BY <2>2, <2>3, OrphanIsOpen DEF JobCalls
  <2>5. \A d : Completed(d)' <=> Completed(d)
    BY <2>2, SameReads DEF Completed
  <2>6. Closes(p)' /\ Segments' = Segments
    BY <1>2, <2>2, <2>4, <2>5 DEF Closes, Draining, DrainPass, OffsetPCs, Segments
  <2>7. QED
    BY <2>2, <2>6, OnceStill
<1>6. CASE Recovered(p)
  <2>1. /\ pc[p] = "flush" /\ Orphans(p) = {} /\ pc'[p] \in {"serve", "dlist"}
        /\ UNCHANGED <<state, recs, forwarded, inflight, job>>
    BY <1>6 DEF Recovered, TypeOK, ControlOK, evidence
  <2>2. \A s \in Segments : \A c \in IntentsIn(s) : c \in comp[p]
    BY <2>1 DEF SearchInv, Searches, Flushing, HasRead, Orphans
  <2>3. \A c \in comp[p] : Completed(c)
    BY <1>3, <2>1 DEF SearchInv, Searches, Searching, Flushing
  <2>4. \A s \in Segs : IntentsIn(s)' = IntentsIn(s) /\ CompletedIn(s)' = CompletedIn(s)
    BY <2>1, SameReads
  <2>5. (\A d : Completed(d)' <=> Completed(d)) /\ JobCalls(p)' = {}
    BY <1>3, <2>1, <2>4 DEF Completed, JobCalls
  <2>6. Segments' = Segments /\ Segments \subseteq Segs
    BY <2>1 DEF Segments
  <2>7. Closes(p)'
    BY <1>2, <2>1, <2>2, <2>3, <2>4, <2>5, <2>6 DEF Closes
  <2>8. QED
    BY <2>1, <2>6, <2>7, OnceStill
<1>7. QED
  BY <1>4, <1>5, <1>6 DEF Recover

LEMMA ServeOnce ==
    ASSUME TypeOK, CustodyInv, AloneInv, OnceInv, NEW p \in Procs, Acts(p),
           OthersStay(p), Serve(p), ~Forget(p)
    PROVE  OnceInv'
<1>1. /\ pc[p] = "serve" /\ pc'[p] = "append" /\ phase' = phase
      /\ UNCHANGED <<state, recs, forwarded>>
  BY DEF Serve, ClientCall, ServerAnswer, Shutdown, Exit, TypeOK, ControlOK, files, evidence
<1>2. phase[p] # "flush" /\ job[p] = Garbled
  BY <1>1 DEF CustodyInv, WritersStand, Stands, Appending, Naming
<1>3. JobCalls(p) = {} /\ Segments' = Segments
  BY <1>1, <1>2 DEF JobCalls, Garbled, Segments
<1>4. CASE ClientCall(p)
  <2>1. PICK c \in Calls : job' = [job EXCEPT ![p] = Intent(c)]
    BY <1>4 DEF ClientCall
  <2>2. job'[p].type = "intent" /\ inflight' = inflight
    BY <1>4, <2>1 DEF ClientCall, TypeOK, WriterOK, Intent
  <2>3. JobCalls(p)' = {}
    BY <2>2 DEF JobCalls
  <2>4. Closes(p)'
    BY <1>1, <1>2, <1>3, <2>2, <2>3, ClosesKept
       DEF Pumping, Appending, Draining, DrainPass, OffsetPCs
  <2>5. QED
    BY <1>1, <1>3, <2>4, OnceStill
<1>5. CASE ServerAnswer(p)
  <2>1. PICK c \in inflight[p] :
            /\ inflight' = [inflight EXCEPT ![p] = @ \ {c}]
            /\ job' = [job EXCEPT ![p] = Completion(Mint(c, "tool_call"))]
    BY <1>5 DEF ServerAnswer
  <2>2. /\ inflight'[p] = inflight[p] \ {c}
        /\ job'[p].type = "completion" /\ job'[p].receipt.call = c
    BY <2>1 DEF TypeOK, WriterOK, Completion, Mint
  <2>3. JobCalls(p)' \subseteq {c}
    BY <2>2 DEF JobCalls
  <2>4. Closes(p)'
    BY <1>1, <1>2, <1>3, <2>2, <2>3, ClosesKept
       DEF Pumping, Appending, Draining, DrainPass, OffsetPCs
  <2>5. QED
    BY <1>1, <1>3, <2>4, OnceStill
<1>6. QED
  BY <1>4, <1>5 DEF Serve, Shutdown, Exit

\* a whole line lands: it closes a call nothing closed before
LEMMA WrittenOnce ==
    ASSUME TypeOK, CustodyInv, AloneInv, OnceInv, NEW p \in Procs, Acts(p), OthersStay(p),
           pc[p] = "append", Room(p), Written(p), state' = state, job'[p] = Garbled,
           \A c \in inflight'[p] : c \in inflight[p] \/ (c \in Calls /\ job[p] = Intent(c)),
           \A c \in forwarded' : c \in forwarded \/ (c \in Calls /\ job[p] = Intent(c)),
           pc'[p] \notin Draining,
           inflight'[p] # {} => pc'[p] \in Pumping /\ phase'[p] # "flush"
    PROVE  OnceInv'
<1>1. PICK w \in Segs : w = seg[p]
  BY WrittenReads
<1>2. w \in Segments /\ Segments' = Segments /\ Segments \subseteq Segs
  BY <1>1, BoundAssumption DEF AloneInv, ClaimOpen, Segments, Segs
<1>3. \A s \in Segs : /\ IntentsIn(s) \subseteq IntentsIn(s)'
                      /\ CompletedIn(s) \subseteq CompletedIn(s)'
                      /\ \A c \in CompletedIn(s)' : c \in CompletedIn(s) \/ c \in JobCalls(p)
  BY WrittenCalls
<1>4. \A c : Completed(c) => Completed(c)'
  BY <1>3 DEF Completed
<1>5. \A c : Completed(c)' => Completed(c) \/ c \in JobCalls(p)
  BY <1>3 DEF Completed
<1>6. ASSUME NEW c \in Calls, job[p] = Intent(c)
      PROVE  c \in IntentsIn(w)' /\ ~Completed(c) /\ JobCalls(p) = {}
  <2>1. ~torn[w]
    BY <1>1, <1>6, BoundAssumption DEF CustodyInv, WritersStand, Stands, Intent, Segs
  <2>2. c \in IntentsIn(w)'
    BY <1>1, <1>6, <2>1, WrittenReads DEF Line
  <2>3. ~Opened(c)
    BY <1>6 DEF CustodyInv, Opens
  <2>4. ~Completed(c)
    BY <2>3 DEF CustodyInv, Opens, Completed
  <2>5. JobCalls(p) = {}
    BY <1>6 DEF JobCalls, Intent
  <2>6. QED
    BY <2>2, <2>4, <2>5
<1>7. Closes(p)'
  <2>1. JobCalls(p)' = {}
    BY DEF JobCalls, Garbled
  <2>2. \A c \in inflight[p] : ~Completed(c) /\ c \notin JobCalls(p)
    BY DEF OnceInv, Closes
  <2>3. \A c \in inflight'[p] : ~Completed(c)'
    BY <1>5, <1>6, <2>2
  <2>4. QED
    BY <2>1, <2>3 DEF Closes
<1>8. ASSUME NEW q \in Procs \ {p} PROVE Closes(q)'
  <2>1. pc'[q] = "down" /\ inflight'[q] = {} /\ job'[q] = Garbled
    BY OthersDown DEF AloneInv, Dormant, OthersStay
  <2>2. JobCalls(q)' = {}
    BY <2>1 DEF JobCalls, Garbled
  <2>3. QED
    BY <2>1, <2>2 DEF Closes, Draining, DrainPass, OffsetPCs
<1>9. OneReceiptPerCall'
  <2>1. \A s \in Segs \ {w} : ReceiptsIn(s)' = ReceiptsIn(s)
    BY <1>1, WrittenReads, SameReads
  <2>2. ReceiptsIn(w)' = ReceiptsIn(w)
          \cup (IF Line(p).type = "completion" THEN {Line(p).receipt} ELSE {})
    BY <1>1, WrittenReads
  <2>3. \A r \in Spooled' : r \in Spooled \/ (Line(p).type = "completion" /\ r = Line(p).receipt)
    BY <2>1, <2>2 DEF Spooled
  <2>4. Garbled.type # "completion"
    BY DEF Garbled
  <2>5. Line(p).type = "completion" => Line(p).receipt.call \in JobCalls(p)
    BY <2>4, RecordParts DEF Line, JobCalls, TypeOK, WriterOK
  <2>6. \A r \in Spooled : Completed(r.call)
    BY DEF Spooled, Completed, CompletedIn
  <2>7. \A c \in JobCalls(p) : ~Completed(c)
    BY DEF OnceInv, Closes
  <2>8. QED
    BY <2>3, <2>5, <2>6, <2>7 DEF OnceInv, OneReceiptPerCall
<1>10. KeptOnDisk'
  BY <1>2, <1>3, <1>4, <1>6 DEF OnceInv, KeptOnDisk
<1>11. QED
  BY <1>7, <1>8, <1>9, <1>10 DEF OnceInv

LEMMA WriterOnce ==
    ASSUME TypeOK, NoSegment, CustodyInv, AloneInv, OnceInv, NEW p \in Procs, Acts(p),
           OthersStay(p), AppendLine(p)
    PROVE  OnceInv'
<1>1. CASE Rotate(p)
  <2>1. /\ pc[p] = "append" /\ pc'[p] = "create" /\ phase' = phase
        /\ UNCHANGED <<state, recs, forwarded, inflight, job>>
    BY <1>1 DEF Rotate, TypeOK, ControlOK, evidence
  <2>2. QED
    BY <2>1, OnceKept
       DEF OnceInv, Closes, Pumping, Appending, Naming, Draining, DrainPass, OffsetPCs
<1>2. CASE LockSegment(p)
  <2>1. pc[p] = "lock" /\ GotLock(p)
    BY <1>2, LockIsFree DEF LockSegment, CustodyInv
  <2>2. /\ pc'[p] = "append" /\ phase' = phase
        /\ UNCHANGED <<state, recs, forwarded, inflight, job>>
    BY <1>2, <2>1 DEF LockSegment, TypeOK, ControlOK, evidence
  <2>3. QED
    BY <2>2, OnceKept
       DEF OnceInv, Closes, Pumping, Appending, Naming, Draining, DrainPass, OffsetPCs
<1>3. CASE CreateSegment(p)
  <2>1. PICK w \in Segs : w = fresh[p] /\ state[w] = "absent"
    BY <1>3, BoundAssumption
       DEF CreateSegment, CustodyInv, WritersStand, Stands, TypeOK, WriterOK, Segs
  <2>2. /\ pc[p] = "create" /\ pc'[p] = "lock" /\ phase' = phase
        /\ UNCHANGED <<recs, forwarded, inflight, job>>
        /\ state' = [state EXCEPT ![w] = "open"]
    BY <1>3, <2>1 DEF CreateSegment, TypeOK, ControlOK, writer, evidence
  <2>3. Segments \subseteq Segments'
    BY <2>1, <2>2 DEF Segments, TypeOK, FilesOK
  <2>4. JobCalls(p)' = JobCalls(p) /\ inflight[p] \cap JobCalls(p) = {}
    BY <2>2 DEF JobCalls, OnceInv, Closes
  <2>5. Closes(p)'
    BY <2>2, <2>4, ClosesKept
       DEF OnceInv, Closes, Pumping, Appending, Naming, Draining, DrainPass, OffsetPCs
  <2>6. QED
    BY <2>2, <2>3, <2>5, OnceStill
<1>4. CASE Write(p)
  <2>1. /\ pc[p] = "append" /\ Room(p) /\ Written(p) /\ job'[p] = Garbled
        /\ pc'[p] = (IF phase[p] = "flush" THEN "flush" ELSE "serve")
        /\ phase' = phase /\ state' = state
    BY <1>4 DEF Write, TypeOK, ControlOK, WriterOK
  <2>2. \A c : job[p].type = "intent" /\ job[p].call = c => c \in Calls /\ job[p] = Intent(c)
    BY DEF TypeOK, WriterOK, Records, Garbled, Intent
  <2>3. \A c \in inflight'[p] : c \in inflight[p] \/ (c \in Calls /\ job[p] = Intent(c))
    BY <1>4, <2>2 DEF Write, TypeOK, WriterOK
  <2>4. \A c \in forwarded' : c \in forwarded \/ (c \in Calls /\ job[p] = Intent(c))
    BY <1>4, <2>2 DEF Write
  <2>5. inflight'[p] # {} => phase[p] # "flush"
    <3>1. inflight[p] # {} => phase[p] # "flush"
      BY DEF OnceInv, Closes
    <3>2. \A c : job[p] = Intent(c) => phase[p] = "serve"
      BY DEF CustodyInv, WritersStand, Stands, Intent
    <3>3. QED
      BY <2>3, <3>1, <3>2
  <2>6. QED
    BY <2>1, <2>3, <2>4, <2>5, WrittenOnce DEF Pumping, Draining, DrainPass, OffsetPCs
<1>5. QED
  BY <1>1, <1>2, <1>3, <1>4 DEF AppendLine

LEMMA DrainOnce ==
    ASSUME TypeOK, HasHand, CustodyInv, AloneInv, OnceInv, NEW p \in Procs, Acts(p),
           OthersStay(p), Drain(p), ~Exit(p)
    PROVE  OnceInv'
<1>1. pc[p] \in Draining /\ pc'[p] \in Draining
  BY DrainPlaces
<1>2. UNCHANGED <<recs, forwarded, inflight, job>>
  BY DEF Drain, DrainList, DrainRead, DrainRecord, DrainEOF, DrainProbe, Probe,
         DrainUnprobe, Unprobe, DrainStat, DrainRename, DrainEnds, files, writer, evidence
<1>3. inflight[p] = {}
  BY <1>1 DEF OnceInv, Closes, Draining, DrainPass, OffsetPCs, Pumping, Appending, Naming
<1>4. CASE state' = state
  BY <1>1, <1>2, <1>3, <1>4, OnceKept
<1>5. CASE DrainRename(p)
  <2>1. state' = [state EXCEPT ![hand[p]] = "done"]
    BY <1>5 DEF DrainRename
  <2>2. Segments' \subseteq Segments
    BY <2>1 DEF Segments, TypeOK, FilesOK
  <2>3. \A s \in Segments : \A c \in IntentsIn(s) : Completed(c)
    BY <1>1 DEF OnceInv, Closes
  <2>4. JobCalls(p)' = JobCalls(p)
    BY <1>2 DEF JobCalls
  <2>5. Closes(p)'
    BY <1>1, <1>2, <1>3, <2>2, <2>4, ClosesKept
  <2>6. QED
    BY <1>2, <2>3, <2>5, OnceStill
<1>6. QED
  BY <1>4, <1>5 DEF Drain, DrainList, DrainRead, DrainRecord, DrainEOF, DrainProbe, Probe,
     DrainUnprobe, Unprobe, DrainStat, DrainEnds, files

LEMMA CrashOnce ==
    ASSUME TypeOK, CustodyInv, AloneInv, OnceInv, NEW p \in Procs, Acts(p), OthersStay(p),
           Crash(p)
    PROVE  OnceInv'
<1>1. Forget(p) /\ UNCHANGED <<state, forwarded>>
  BY DEF Crash, evidence
<1>2. CASE recs' = recs
  BY <1>1, <1>2, OnceForgets
<1>3. CASE pc[p] = "append" /\ Room(p) /\ Written(p)
  <2>1. pc'[p] = "down" /\ job'[p] = Garbled /\ inflight'[p] = {}
    BY <1>1, ForgetParts
  <2>2. QED
    BY <1>1, <1>3, <2>1, WrittenOnce DEF Draining, DrainPass, OffsetPCs
<1>4. QED
  BY <1>2, <1>3 DEF Crash

LEMMA OnceStep ==
    ASSUME TypeOK, HasHand, NoSegment, CustodyInv, AloneInv, SearchInv, OnceInv,
           NEW p \in Procs, Acts(p), OthersStay(p)
    PROVE  OnceInv'
<1>1. CASE Exit(p) /\ UNCHANGED evidence
  BY <1>1, OnceForgets DEF Exit, evidence
<1>2. CASE Start(p)
  <2>1. pc[p] = "down" /\ UNCHANGED <<state, recs, forwarded, inflight, job>>
    BY <1>2 DEF Start, files, writer, evidence
  <2>2. inflight[p] = {}
    BY <2>1 DEF AloneInv, Dormant
  <2>3. Take(p, Segments, "probe", "flush") /\ Segments \in SUBSET Segs
    BY <1>2 DEF Start, Segments
  <2>4. pc'[p] \in {"probe", "flush"}
    BY <2>3, TakePlaces
  <2>5. QED
    BY <2>1, <2>2, <2>4, OnceKept DEF Draining, DrainPass, OffsetPCs
<1>3. CASE Recover(p)
  <2>1. CASE Forget(p)
    <3>1. UNCHANGED <<state, recs, forwarded>>
      BY <1>3 DEF Recover, RecoverProbe, Probe, RecoverUnprobe, Unprobe, RecoverScan, Exit,
                  FlushOrphan, Recovered, files, evidence
    <3>2. QED
      BY <2>1, <3>1, OnceForgets
  <2>2. QED
    BY <1>3, <2>1, RecoverOnce
<1>4. CASE Serve(p)
  <2>1. CASE Forget(p)
    <3>1. UNCHANGED <<state, recs, forwarded>>
      BY <1>4 DEF Serve, ClientCall, ServerAnswer, Shutdown, Exit, files, evidence
    <3>2. QED
      BY <2>1, <3>1, OnceForgets
  <2>2. QED
    BY <1>4, <2>1, ServeOnce
<1>5. CASE Drain(p)
  <2>1. CASE Exit(p)
    <3>1. forwarded' = forwarded
      BY <1>5 DEF Drain, DrainList, DrainRead, DrainRecord, DrainEOF, DrainProbe, Probe,
                  DrainUnprobe, Unprobe, DrainStat, DrainRename, DrainEnds, evidence
    <3>2. QED
      BY <2>1, <3>1, OnceForgets DEF Exit
  <2>2. QED
    BY <1>5, <2>1, DrainOnce
<1>6. CASE ShortWrite(p)
  <2>1. UNCHANGED <<state, recs, forwarded>> /\ AppendFails(p)
    BY <1>6 DEF ShortWrite, evidence
  <2>2. CASE job[p].type = "intent"
    <3>1. /\ pc'[p] = "serve" /\ phase'[p] = "ending" /\ inflight' = inflight
          /\ job'[p] = Garbled
      BY <2>1, <2>2 DEF AppendFails, TypeOK, ControlOK, WriterOK
    <3>2. JobCalls(p)' = {} /\ Segments' = Segments
      BY <2>1, <3>1 DEF JobCalls, Garbled, Segments
    <3>3. Closes(p)'
      BY <2>1, <3>1, <3>2, ClosesKept DEF Pumping, Draining, DrainPass, OffsetPCs
    <3>4. QED
      BY <2>1, <3>2, <3>3, OnceStill
  <2>3. CASE job[p].type # "intent"
    BY <2>1, <2>3, OnceForgets DEF AppendFails
  <2>4. QED
    BY <2>2, <2>3
<1>7. CASE DrainStops(p)
  BY <1>7, OnceForgets DEF DrainStops, evidence
<1>8. QED
  BY <1>2, <1>3, <1>4, <1>5, <1>6, <1>7, WriterOnce, CrashOnce DEF Acts, Fault

-----------------------------------------------------------------------------
(* The drain's offsets.                                                    *)

\* while p drains nobody moves the cursor it read or the file it reads
Offsets(p) == /\ pc[p] = "deliver" => start[p] = cursor[hand[p]]
              /\ pc[p] = "drename" => AtEOF(p)

OffsetInv == (\A p \in Procs : Offsets(p)) /\ DoneWasDelivered

LEMMA OffsetFrame ==
    ASSUME AloneInv, OffsetInv, NEW p \in Procs, Acts(p), OthersStay(p), Offsets(p)',
           delivered \subseteq delivered',
           \A s \in Segs : state'[s] = "done" =>
               \/ state[s] = "done" /\ ReceiptsIn(s)' = ReceiptsIn(s)
               \/ ReceiptsIn(s)' \subseteq delivered'
    PROVE  OffsetInv'
<1>1. \A q \in Procs \ {p} : pc'[q] = "down"
  BY OthersDown DEF OthersStay
<1>2. \A q \in Procs \ {p} : Offsets(q)'
  BY <1>1 DEF Offsets
<1>3. DoneWasDelivered'
  BY DEF OffsetInv, DoneWasDelivered
<1>4. QED
  BY <1>2, <1>3 DEF OffsetInv

\* p moves no offset and marks nothing
LEMMA OffsetStill ==
    ASSUME AloneInv, OffsetInv, NEW p \in Procs, Acts(p), OthersStay(p),
           UNCHANGED recs, delivered' = delivered,
           pc'[p] \notin {"deliver", "drename"},
           \A s \in Segs : state'[s] = "done" => state[s] = "done"
    PROVE  OffsetInv'
<1>1. \A s \in Segs : ReceiptsIn(s)' = ReceiptsIn(s)
  BY SameReads
<1>2. Offsets(p)'
  BY DEF Offsets
<1>3. QED
  BY <1>1, <1>2, OffsetFrame

\* what is written is written to an open segment
LEMMA OffsetWritten ==
    ASSUME TypeOK, AloneInv, OffsetInv, NEW p \in Procs, Acts(p), OthersStay(p),
           Room(p), Written(p), UNCHANGED <<state, delivered>>,
           pc'[p] \notin {"deliver", "drename"}
    PROVE  OffsetInv'
<1>1. PICK w \in Segs : w = seg[p] /\ \A s \in Segs \ {w} : recs'[s] = recs[s]
  BY WrittenReads
<1>2. state[w] = "open"
  BY <1>1, BoundAssumption DEF AloneInv, ClaimOpen, Segs
<1>3. \A s \in Segs \ {w} : ReceiptsIn(s)' = ReceiptsIn(s)
  BY <1>1, SameReads
<1>4. Offsets(p)'
  BY DEF Offsets
<1>5. QED
  BY <1>2, <1>3, <1>4, OffsetFrame

\* at the end of a segment everything in it has been read
LEMMA ReadToEnd ==
    ASSUME TypeOK, ReadWasDelivered, NEW p \in Procs, pc[p] \in OffsetPCs, AtEOF(p),
           hand[p] \in Segs
    PROVE  ReceiptsIn(hand[p]) \subseteq delivered
<1>1. PICK s \in Segs, n \in Nat : s = hand[p] /\ n = pos[p] /\ n = Len(recs[s])
  BY DEF AtEOF, TypeOK, ReaderOK
<1>2. recs[s] \in Seq(Records)
  BY DEF TypeOK, FilesOK
<1>3. DOMAIN recs[s] = 1..n
  BY <1>1, <1>2
<1>4. \A i \in 1..n : recs[s][i].type = "completion" => recs[s][i].receipt \in delivered
  BY <1>1 DEF ReadWasDelivered, Accepted
<1>5. QED
  BY <1>1, <1>3, <1>4 DEF ReceiptsIn

LEMMA DrainOffset ==
    ASSUME TypeOK, HasHand, ReadWasDelivered, AloneInv, OffsetInv, NEW p \in Procs,
           Acts(p), OthersStay(p), Drain(p), ~Exit(p)
    PROVE  OffsetInv'
<1>1. CASE DrainList(p) \/ DrainEOF(p) \/ DrainProbe(p) \/ DrainUnprobe(p) \/ DrainEnds(p)
             \/ (DrainStat(p) /\ ~Markable(p))
  <2>1. UNCHANGED <<recs, state>> /\ delivered' = delivered
    BY <1>1 DEF DrainList, DrainEOF, DrainProbe, Probe, DrainUnprobe, Unprobe, DrainEnds,
                DrainStat, files, evidence
  <2>2. pc'[p] \notin {"deliver", "drename"}
    <3>1. CASE DrainList(p)
      <4>1. Take(p, Segments, "dread", "drained") /\ Segments \in SUBSET Segs
        BY <3>1 DEF DrainList, Segments
      <4>2. QED
        BY <4>1, TakePlaces
    <3>2. CASE DrainStat(p) /\ ~Markable(p)
      <4>1. Take(p, list[p], "dread", "drained") /\ list[p] \in SUBSET Segs
        BY <3>2 DEF DrainStat, Advance, TypeOK, ReaderOK
      <4>2. QED
        BY <4>1, TakePlaces
    <3>3. QED
      BY <1>1, <3>1, <3>2 DEF DrainEOF, DrainProbe, Probe, DrainUnprobe, Unprobe,
         DrainEnds, TypeOK, ControlOK
  <2>3. QED
    BY <2>1, <2>2, OffsetStill
<1>2. CASE DrainRead(p) \/ DrainRecord(p) \/ (DrainStat(p) /\ Markable(p))
  <2>1. UNCHANGED <<recs, state, cursor>> /\ hand' = hand /\ delivered \subseteq delivered'
    BY <1>2 DEF DrainRead, DrainRecord, DrainStat, files, evidence
  <2>2. \A s \in Segs : ReceiptsIn(s)' = ReceiptsIn(s)
    BY <2>1, SameReads
  <2>3. Offsets(p)'
    <3>1. CASE DrainRead(p)
      <4>1. pc'[p] = "deliver" /\ start'[p] = cursor[hand[p]]
        BY <3>1 DEF DrainRead, TypeOK, ControlOK, ReaderOK
      <4>2. QED
        BY <2>1, <4>1 DEF Offsets
    <3>2. CASE DrainRecord(p)
      BY <2>1, <3>2 DEF DrainRecord, Offsets, OffsetInv
    <3>3. CASE DrainStat(p) /\ Markable(p)
      <4>1. pc'[p] = "drename" /\ pos' = pos /\ AtEOF(p)
        BY <3>3 DEF DrainStat, Markable, Finished, TypeOK, ControlOK
      <4>2. QED
        BY <2>1, <4>1 DEF Offsets, AtEOF
    <3>4. QED
      BY <1>2, <3>1, <3>2, <3>3
  <2>4. QED
    BY <2>1, <2>2, <2>3, OffsetFrame
<1>3. CASE DrainRename(p)
  <2>1. PICK w \in Segs : w = hand[p]
    BY <1>3 DEF DrainRename, HasHand, PassPCs, OffsetPCs
  <2>2. /\ pc[p] = "drename" /\ state' = [state EXCEPT ![w] = "done"]
        /\ recs' = recs /\ delivered' = delivered
    BY <1>3, <2>1 DEF DrainRename, evidence
  <2>3. Take(p, list[p], "dread", "drained") /\ list[p] \in SUBSET Segs
    BY <1>3 DEF DrainRename, Advance, TypeOK, ReaderOK
  <2>4. pc'[p] \in {"dread", "drained"}
    BY <2>3, TakePlaces
  <2>5. ReceiptsIn(w) \subseteq delivered
    BY <2>1, <2>2, ReadToEnd DEF OffsetInv, Offsets, OffsetPCs
  <2>6. \A s \in Segs : ReceiptsIn(s)' = ReceiptsIn(s)
    BY <2>2, SameReads
  <2>7. \A s \in Segs : state'[s] = "done" => state[s] = "done" \/ s = w
    BY <2>2 DEF TypeOK, FilesOK
  <2>8. Offsets(p)'
    BY <2>4 DEF Offsets
  <2>9. QED
    BY <2>2, <2>5, <2>6, <2>7, <2>8, OffsetFrame
<1>4. QED
  BY <1>1, <1>2, <1>3 DEF Drain

LEMMA OffsetStep ==
    ASSUME TypeOK, HasHand, NoSegment, ReadWasDelivered, WritersStand, AloneInv, OffsetInv,
           NEW p \in Procs, Acts(p), OthersStay(p)
    PROVE  OffsetInv'
<1>1. CASE Forget(p) /\ UNCHANGED <<state, recs>> /\ delivered' = delivered
  BY <1>1, ForgetParts, OffsetStill
<1>2. CASE Exit(p) /\ UNCHANGED evidence
  BY <1>1, <1>2 DEF Exit, evidence
<1>3. CASE Start(p)
  <2>1. UNCHANGED <<state, recs>> /\ delivered' = delivered
    BY <1>3 DEF Start, files, evidence
  <2>2. Take(p, Segments, "probe", "flush") /\ Segments \in SUBSET Segs
    BY <1>3 DEF Start, Segments
  <2>3. pc'[p] \in {"probe", "flush"}
    BY <2>2, TakePlaces
  <2>4. QED
    BY <2>1, <2>3, OffsetStill
<1>4. CASE Recover(p) \/ Serve(p) \/ Rotate(p) \/ CreateSegment(p) \/ LockSegment(p)
             \/ ShortWrite(p)
  <2>1. /\ recs' = recs /\ delivered' = delivered
        /\ state' = state \/ state' = [state EXCEPT ![fresh[p]] = "open"]
    BY <1>4 DEF Recover, RecoverProbe, Probe, RecoverUnprobe, Unprobe, RecoverScan, Exit,
                FlushOrphan, Recovered, Serve, ClientCall, ServerAnswer, Shutdown, Rotate,
                CreateSegment, LockSegment, ShortWrite, files, evidence
  <2>2. pc'[p] \notin {"deliver", "drename"}
    <3>1. CASE Forget(p)
      BY <3>1, ForgetParts
    <3>2. CASE RecoverScan(p) /\ ~Forget(p)
      <4>1. Take(p, list[p], "probe", "flush") /\ list[p] \in SUBSET Segs
        BY <3>2 DEF RecoverScan, Exit, TypeOK, ReaderOK
      <4>2. QED
        BY <4>1, TakePlaces
    <3>3. QED
      BY <1>4, <3>1, <3>2
         DEF Recover, RecoverProbe, Probe, RecoverUnprobe, Unprobe, Exit, FlushOrphan,
             Recovered, Serve, ClientCall, ServerAnswer, Shutdown, Rotate, CreateSegment,
             LockSegment, ShortWrite, AppendFails, TypeOK, ControlOK
  <2>3. \A s \in Segs : state'[s] = "done" => state[s] = "done"
    BY <2>1 DEF TypeOK, FilesOK
  <2>4. QED
    BY <2>1, <2>2, <2>3, OffsetStill
<1>5. CASE Write(p)
  <2>1. Room(p) /\ Written(p) /\ UNCHANGED <<state, delivered>>
        /\ pc'[p] \in {"flush", "serve"}
    BY <1>5 DEF Write, TypeOK, ControlOK
  <2>2. QED
    BY <2>1, OffsetWritten
<1>6. CASE Drain(p)
  <2>1. CASE Exit(p)
    <3>1. delivered' = delivered
      BY <1>6, <2>1, DrainPlaces, ForgetParts DEF Exit, Drain, DrainList, DrainRead,
         DrainRecord, DrainEOF, DrainProbe, Probe, DrainUnprobe, Unprobe, DrainStat,
         DrainRename, DrainEnds, evidence, TypeOK, ControlOK
    <3>2. QED
      BY <1>1, <2>1, <3>1 DEF Exit
  <2>2. QED
    BY <1>6, <2>1, DrainOffset
<1>7. CASE DrainStops(p)
  BY <1>1, <1>7 DEF DrainStops, evidence
<1>8. CASE Crash(p)
  <2>1. CASE recs' = recs
    BY <1>1, <1>8, <2>1 DEF Crash, evidence
  <2>2. CASE Room(p) /\ Written(p)
    BY <1>8, <2>2, ForgetParts, OffsetWritten DEF Crash, evidence
  <2>3. QED
    BY <1>8, <2>1, <2>2 DEF Crash
<1>9. QED
  BY <1>3, <1>4, <1>5, <1>6, <1>7, <1>8 DEF Acts, AppendLine, Fault

-----------------------------------------------------------------------------
(* How often a receipt can have been lost.                                 *)

\* a receipt p is about to write is the call's last; outside recovery it is the
\* call's first
Counts(p) ==
    /\ seg[p] # 0 /\ torn[seg[p]] => shorts > 0
    /\ \A c \in inflight[p] : minted[c] = 0
    /\ \A c \in JobCalls(p) : phase[p] # "flush" => minted[c] <= 1
    /\ job[p].type = "completion" =>
          job[p].receipt.n \in 1..minted[job[p].receipt.call]

\* every receipt of a call but the last was lost to a fault or a short write
MintedWithin ==
    \A c \in Calls :
        /\ minted[c] > 0 => Opened(c)
        /\ \/ minted[c] <= faults + shorts
           \/ /\ minted[c] = faults + shorts + 1
              /\ Completed(c) \/ \E p \in Procs : c \in JobCalls(p)

FewReceipts == \A r \in Spooled : r.n \in 1..(MaxFaults + MaxShortWrites + 1)

CountInv == /\ faults <= MaxFaults /\ shorts <= MaxShortWrites
            /\ \A p \in Procs : Counts(p)
            /\ MintedWithin
            /\ FewReceipts

LEMMA CountFrame ==
    ASSUME AloneInv, CountInv, NEW p \in Procs, Acts(p), OthersStay(p),
           faults' <= MaxFaults, shorts' <= MaxShortWrites,
           Counts(p)', MintedWithin', FewReceipts'
    PROVE  CountInv'
<1>1. ASSUME NEW q \in Procs \ {p} PROVE Counts(q)'
  <2>1. seg'[q] = 0 /\ inflight'[q] = {} /\ job'[q] = Garbled
    BY OthersDown DEF AloneInv, Dormant, OthersStay
  <2>2. JobCalls(q)' = {}
    BY <2>1 DEF JobCalls, Garbled
  <2>3. QED
    BY <2>1, <2>2 DEF Counts, Garbled
<1>2. QED
  BY <1>1 DEF CountInv

\* nothing is minted and nothing written
LEMMA CountStill ==
    ASSUME TypeOK, TypeOK', AloneInv, CountInv, NEW p \in Procs, Acts(p), OthersStay(p),
           UNCHANGED <<recs, minted>>, faults <= faults', shorts <= shorts',
           faults' <= MaxFaults, shorts' <= MaxShortWrites,
           JobCalls(p) \subseteq JobCalls(p)' \/ faults + shorts < faults' + shorts',
           Counts(p)'
    PROVE  CountInv'
<1>1. \A s \in Segs : /\ IntentsIn(s)' = IntentsIn(s) /\ CompletedIn(s)' = CompletedIn(s)
                      /\ ReceiptsIn(s)' = ReceiptsIn(s)
  BY SameReads
<1>2. (\A c : Completed(c)' <=> Completed(c)) /\ (\A c : Opened(c)' <=> Opened(c))
      /\ Spooled' = Spooled
  BY <1>1 DEF Completed, Opened, Spooled
<1>3. FewReceipts'
  BY <1>2 DEF CountInv, FewReceipts
<1>4. ASSUME NEW c \in Calls
      PROVE  /\ minted'[c] > 0 => Opened(c)'
             /\ \/ minted'[c] <= faults' + shorts'
                \/ /\ minted'[c] = faults' + shorts' + 1
                   /\ Completed(c)' \/ \E q \in Procs : c \in JobCalls(q)'
  <2>1. /\ faults \in Nat /\ shorts \in Nat /\ faults' \in Nat /\ shorts' \in Nat
        /\ minted[c] \in Nat /\ minted'[c] = minted[c]
    BY DEF TypeOK, BoundsOK, EvidenceOK
  <2>2. /\ minted[c] > 0 => Opened(c)
        /\ \/ minted[c] <= faults + shorts
           \/ /\ minted[c] = faults + shorts + 1
              /\ Completed(c) \/ \E q \in Procs : c \in JobCalls(q)
    BY DEF CountInv, MintedWithin
  <2>3. PICK n \in Nat, n2 \in Nat, m \in Nat :
          n = faults + shorts /\ n2 = faults' + shorts' /\ n <= n2 /\ m = minted[c]
    <3>1. \A f, g, h, k \in Nat : f <= g /\ h <= k => /\ f + h \in Nat /\ g + k \in Nat
                                                     /\ f + h <= g + k
      OBVIOUS
    <3>2. faults + shorts \in Nat /\ faults' + shorts' \in Nat
          /\ faults + shorts <= faults' + shorts'
      BY <2>1, <3>1
    <3>3. QED
      BY <2>1, <3>2
  <2>4. m <= n \/ (m = n + 1 /\ (Completed(c) \/ \E q \in Procs : c \in JobCalls(q)))
    BY <2>2, <2>3
  <2>5. CASE n < n2
    <3>1. m <= n2
      BY <2>4, <2>5
    <3>2. QED
      BY <1>2, <2>1, <2>2, <2>3, <3>1
  <2>6. CASE JobCalls(p) \subseteq JobCalls(p)'
    <3>1. \A q \in Procs : JobCalls(q) \subseteq JobCalls(q)'
      BY <2>6, OthersKept
    <3>2. (\E q \in Procs : c \in JobCalls(q)) => \E q \in Procs : c \in JobCalls(q)'
      BY <3>1
    <3>3. m <= n2 \/ (m = n2 + 1 /\ (Completed(c)' \/ \E q \in Procs : c \in JobCalls(q)'))
      BY <1>2, <2>3, <2>4, <3>2
    <3>4. QED
      BY <1>2, <2>1, <2>2, <2>3, <3>3
  <2>7. QED
    BY <2>3, <2>5, <2>6
<1>5. MintedWithin'
  BY <1>4 DEF MintedWithin
<1>6. QED
  BY <1>3, <1>5, CountFrame

\* p forgets, and what it was appending is lost to a fault or was nothing
LEMMA CountForgets ==
    ASSUME TypeOK, TypeOK', WritersStand, AloneInv, CountInv, NEW p \in Procs, Acts(p),
           OthersStay(p), Forget(p), UNCHANGED <<recs, minted>>,
           faults' = faults \/ (faults < MaxFaults /\ faults' = faults + 1),
           shorts' = shorts \/ (shorts < MaxShortWrites /\ shorts' = shorts + 1),
           pc[p] \in Appending => faults + shorts < faults' + shorts'
    PROVE  CountInv'
<1>1. seg'[p] = 0 /\ inflight'[p] = {} /\ job'[p] = Garbled
  BY ForgetParts
<1>2. JobCalls(p)' = {}
  BY <1>1 DEF JobCalls, Garbled
<1>3. Counts(p)'
  BY <1>1, <1>2 DEF Counts, Garbled
<1>4. pc[p] \notin Appending => JobCalls(p) = {}
  BY DEF WritersStand, Stands, JobCalls, Garbled
<1>5. faults <= faults' /\ shorts <= shorts' /\ faults' <= MaxFaults /\ shorts' <= MaxShortWrites
  BY BoundAssumption DEF CountInv, TypeOK, BoundsOK
<1>6. QED
  BY <1>2, <1>3, <1>4, <1>5, CountStill

\* p keeps its job
LEMMA CountKept ==
    ASSUME TypeOK, TypeOK', AloneInv, CountInv, NEW p \in Procs, Acts(p), OthersStay(p),
           UNCHANGED <<recs, torn, minted, faults, shorts, inflight, job>>,
           seg'[p] \in {0, seg[p]} \/ ~torn[seg'[p]],
           phase'[p] = phase[p] \/ job[p] = Garbled
    PROVE  CountInv'
<1>1. JobCalls(p)' = JobCalls(p)
  BY DEF JobCalls
<1>2. job[p] = Garbled => JobCalls(p) = {}
  BY DEF JobCalls, Garbled
<1>3. Counts(p)'
  BY <1>1, <1>2 DEF CountInv, Counts
<1>4. faults <= faults' /\ shorts <= shorts' /\ faults' <= MaxFaults /\ shorts' <= MaxShortWrites
  BY DEF CountInv, TypeOK, BoundsOK
<1>5. QED
  BY <1>1, <1>3, <1>4, CountStill

\* p signs a receipt for c, whose earlier receipts were all lost
LEMMA CountMints ==
    ASSUME TypeOK, TypeOK', AloneInv, CountInv, NEW p \in Procs, Acts(p), OthersStay(p),
           NEW c \in Calls, NEW k,
           job' = [job EXCEPT ![p] = Completion(Mint(c, k))],
           minted' = [minted EXCEPT ![c] = @ + 1],
           UNCHANGED <<recs, torn, seg, faults, shorts, phase>>,
           inflight'[p] \subseteq inflight[p] \ {c}, JobCalls(p) = {}, Opened(c),
           minted[c] <= faults + shorts, phase[p] # "flush" => minted[c] = 0
    PROVE  CountInv'
<1>1. \A s \in Segs : /\ IntentsIn(s)' = IntentsIn(s) /\ CompletedIn(s)' = CompletedIn(s)
                      /\ ReceiptsIn(s)' = ReceiptsIn(s)
  BY SameReads
<1>2. (\A d : Completed(d)' <=> Completed(d)) /\ (\A d : Opened(d)' <=> Opened(d))
      /\ Spooled' = Spooled
  BY <1>1 DEF Completed, Opened, Spooled
<1>3. /\ faults \in Nat /\ shorts \in Nat /\ minted \in [Calls -> Nat]
      /\ minted[c] \in Nat /\ minted'[c] = minted[c] + 1
      /\ \A d \in Calls \ {c} : minted'[d] = minted[d]
  BY DEF TypeOK, BoundsOK, EvidenceOK
<1>4. /\ job'[p].type = "completion" /\ job'[p].receipt.call = c
      /\ job'[p].receipt.n = minted[c] + 1
  BY DEF TypeOK, WriterOK, Completion, Mint
<1>5. JobCalls(p)' = {c}
  BY <1>4 DEF JobCalls
<1>6. Counts(p)'
  <2>1. inflight[p] \subseteq Calls
    BY DEF TypeOK, WriterOK
  <2>2. \A d \in inflight'[p] : minted'[d] = 0
    BY <1>3, <2>1 DEF CountInv, Counts
  <2>3. phase'[p] # "flush" => minted'[c] <= 1
    BY <1>3
  <2>4. job'[p].receipt.n \in 1..minted'[job'[p].receipt.call]
    BY <1>3, <1>4
  <2>5. QED
    BY <1>5, <2>2, <2>3, <2>4 DEF CountInv, Counts
<1>7. FewReceipts'
  BY <1>2 DEF CountInv, FewReceipts
<1>8. ASSUME NEW d \in Calls
      PROVE  /\ minted'[d] > 0 => Opened(d)'
             /\ \/ minted'[d] <= faults' + shorts'
                \/ /\ minted'[d] = faults' + shorts' + 1
                   /\ Completed(d)' \/ \E q \in Procs : d \in JobCalls(q)'
  <2>1. CASE d = c
    BY <1>2, <1>3, <1>5, <2>1
  <2>2. CASE d # c
    <3>1. \A q \in Procs \ {p} : JobCalls(q)' = JobCalls(q)
      BY OthersKept
    <3>2. (\E q \in Procs : d \in JobCalls(q)) => \E q \in Procs : d \in JobCalls(q)'
      BY <3>1
    <3>3. QED
      BY <1>2, <1>3, <2>2, <3>2 DEF CountInv, MintedWithin
  <2>3. QED
    BY <2>1, <2>2
<1>9. MintedWithin'
  BY <1>8 DEF MintedWithin
<1>10. QED
  BY <1>6, <1>7, <1>9, CountFrame DEF CountInv

\* a whole line lands; one a short write garbled was the call's first
LEMMA WrittenCount ==
    ASSUME TypeOK, TypeOK', CustodyInv, AloneInv, CountInv, NEW p \in Procs, Acts(p),
           OthersStay(p), Room(p), Written(p), UNCHANGED <<minted, shorts>>,
           faults' = faults \/ (faults < MaxFaults /\ faults' = faults + 1),
           job'[p] = Garbled, seg'[p] \in {0, seg[p]},
           \A c \in inflight'[p] : c \in inflight[p] \/ (c \in Calls /\ job[p] = Intent(c))
    PROVE  CountInv'
<1>1. PICK w \in Segs : w = seg[p]
  BY WrittenReads
<1>2. \A s \in Segs : /\ IntentsIn(s) \subseteq IntentsIn(s)'
                      /\ CompletedIn(s) \subseteq CompletedIn(s)'
  BY WrittenCalls
<1>3. (\A c : Completed(c) => Completed(c)') /\ (\A c : Opened(c) => Opened(c)')
  BY <1>2 DEF Completed, Opened
<1>4. /\ faults \in Nat /\ shorts \in Nat /\ faults' \in Nat /\ shorts' = shorts
      /\ minted \in [Calls -> Nat] /\ minted' = minted
      /\ faults' = faults \/ faults' = faults + 1
      /\ faults' <= MaxFaults /\ shorts' <= MaxShortWrites
  BY BoundAssumption DEF TypeOK, BoundsOK, EvidenceOK, CountInv
<1>5. Counts(p)'
  <2>1. JobCalls(p)' = {}
    BY DEF JobCalls, Garbled
  <2>2. seg'[p] # 0 => ~torn'[seg'[p]]
    <3>1. torn' = [torn EXCEPT ![w] = FALSE]
      BY <1>1, WrittenReads
    <3>2. QED
      BY <1>1, <3>1 DEF TypeOK, FilesOK
  <2>3. ASSUME NEW c \in Calls, job[p] = Intent(c) PROVE minted[c] = 0
    <3>1. ~Opened(c)
      BY <2>3 DEF CustodyInv, Opens
    <3>2. QED
      BY <1>4, <3>1 DEF CountInv, MintedWithin
  <2>4. \A c \in inflight'[p] : minted'[c] = 0
    BY <1>4, <2>3 DEF CountInv, Counts
  <2>5. QED
    BY <2>1, <2>2, <2>4 DEF Counts, Garbled
<1>6. ASSUME NEW q \in Procs \ {p} PROVE JobCalls(q) = {}
  <2>1. job[q] = Garbled
    BY OthersDown DEF AloneInv, Dormant
  <2>2. QED
    BY <2>1 DEF JobCalls, Garbled
<1>7. ASSUME NEW c \in Calls
      PROVE  /\ minted'[c] > 0 => Opened(c)'
             /\ \/ minted'[c] <= faults' + shorts'
                \/ /\ minted'[c] = faults' + shorts' + 1
                   /\ Completed(c)' \/ \E q \in Procs : c \in JobCalls(q)'
  <2>1. PICK m \in Nat, f \in Nat, g \in Nat, h \in Nat :
            /\ m = minted[c] /\ f = faults /\ g = faults' /\ h = shorts
            /\ g = f \/ g = f + 1
    BY <1>4
  <2>2. m > 0 => Opened(c)
    BY <2>1 DEF CountInv, MintedWithin
  <2>3. m <= f + h \/ (m = f + h + 1 /\ (Completed(c) \/ c \in JobCalls(p)))
    BY <1>6, <2>1 DEF CountInv, MintedWithin
  <2>4. m <= g + h \/ (m = g + h + 1 /\ Completed(c)')
    <3>1. CASE g = f + 1
      BY <2>1, <2>3, <3>1
    <3>2. CASE g = f /\ (m <= f + h \/ Completed(c))
      BY <1>3, <2>3, <3>2
    <3>3. CASE g = f /\ c \in JobCalls(p) /\ ~torn[w]
      BY <1>1, <2>3, <3>3, WrittenCloses
    <3>4. CASE g = f /\ c \in JobCalls(p) /\ torn[w]
      <4>1. phase[p] = "ending" /\ h > 0
        BY <1>1, <2>1, <3>4, BoundAssumption
           DEF CustodyInv, WritersStand, Stands, CountInv, Counts, Segs
      <4>2. m <= 1
        BY <2>1, <3>4, <4>1 DEF CountInv, Counts
      <4>3. QED
        BY <3>4, <4>1, <4>2
    <3>5. QED
      BY <2>1, <2>3, <3>1, <3>2, <3>3, <3>4
  <2>5. QED
    BY <1>3, <1>4, <2>1, <2>2, <2>4
<1>8. MintedWithin'
  BY <1>7 DEF MintedWithin
<1>9. FewReceipts'
  <2>1. \A s \in Segs \ {w} : ReceiptsIn(s)' = ReceiptsIn(s)
    BY <1>1, WrittenReads, SameReads
  <2>2. ReceiptsIn(w)' = ReceiptsIn(w)
          \cup (IF Line(p).type = "completion" THEN {Line(p).receipt} ELSE {})
    BY <1>1, WrittenReads
  <2>3. \A r \in Spooled' : r \in Spooled \/ (Line(p).type = "completion" /\ r = Line(p).receipt)
    BY <2>1, <2>2 DEF Spooled
  <2>4. Line(p).type = "completion" => Line(p) = job[p]
    BY DEF Line, Garbled
  <2>5. ASSUME job[p].type = "completion"
        PROVE  job[p].receipt.n \in 1..(MaxFaults + MaxShortWrites + 1)
    <3>1. PICK c \in Calls : c = job[p].receipt.call
      BY <2>5, RecordParts DEF TypeOK, WriterOK
    <3>2. PICK m \in Nat, f \in Nat, h \in Nat : m = minted[c] /\ f = faults /\ h = shorts
      BY <1>4
    <3>3. m <= f + h + 1 /\ f <= MaxFaults /\ h <= MaxShortWrites
      BY <3>2 DEF CountInv, MintedWithin
    <3>4. job[p].receipt.n \in 1..m
      BY <2>5, <3>1, <3>2 DEF CountInv, Counts
    <3>5. m <= MaxFaults + MaxShortWrites + 1
      BY <3>3, BoundAssumption
    <3>6. QED
      BY <3>4, <3>5, BoundAssumption
  <2>6. QED
    BY <2>3, <2>4, <2>5 DEF CountInv, FewReceipts
<1>10. QED
  BY <1>4, <1>5, <1>8, <1>9, CountFrame

\* the steps that neither sign nor write
LEMMA QuietCount ==
    ASSUME TypeOK, TypeOK', NoSegment, CustodyInv, AloneInv, CountInv, NEW p \in Procs,
           Acts(p), OthersStay(p), ~Forget(p),
           Start(p) \/ RecoverProbe(p) \/ RecoverUnprobe(p) \/ RecoverScan(p)
             \/ Recovered(p) \/ Rotate(p) \/ CreateSegment(p) \/ LockSegment(p)
             \/ Drain(p)
    PROVE  CountInv'
<1>1. UNCHANGED <<recs, torn, minted, faults, shorts, inflight>>
  BY DEF Start, RecoverProbe, Probe, RecoverUnprobe, Unprobe, RecoverScan, Exit, Recovered,
         Rotate, CreateSegment, LockSegment, AppendFails, Drain, DrainList, DrainRead,
         DrainRecord, DrainEOF, DrainProbe, DrainUnprobe, DrainStat, DrainRename, DrainEnds,
         files, writer, evidence, bounds
<1>2. CASE Start(p) \/ RecoverProbe(p) \/ RecoverUnprobe(p) \/ RecoverScan(p)
             \/ CreateSegment(p) \/ Drain(p)
  <2>1. UNCHANGED <<seg, job, phase>>
    BY <1>2 DEF Start, RecoverProbe, Probe, RecoverUnprobe, Unprobe, RecoverScan, Exit,
         CreateSegment, Drain, DrainList, DrainRead, DrainRecord, DrainEOF, DrainProbe,
         DrainUnprobe, DrainStat, DrainRename, DrainEnds, writer
  <2>2. QED
    BY <1>1, <2>1, CountKept
<1>3. CASE Recovered(p)
  <2>1. /\ pc[p] = "flush" /\ job' = job /\ seg'[p] \in {0, seg[p]}
    BY <1>3 DEF Recovered, TypeOK, WriterOK
  <2>2. job[p] = Garbled
    BY <2>1 DEF CustodyInv, WritersStand, Stands, Appending, Naming
  <2>3. QED
    BY <1>1, <2>1, <2>2, CountKept
<1>4. CASE Rotate(p)
  <2>1. seg'[p] = 0 /\ job' = job /\ phase' = phase
    BY <1>4 DEF Rotate, TypeOK, WriterOK
  <2>2. QED
    BY <1>1, <2>1, CountKept
<1>5. CASE LockSegment(p)
  <2>1. pc[p] = "lock" /\ GotLock(p)
    BY <1>5, LockIsFree DEF LockSegment, CustodyInv
  <2>2. seg'[p] = fresh[p] /\ job' = job /\ phase' = phase
    BY <1>5, <2>1 DEF LockSegment, TypeOK, WriterOK
  <2>3. ~torn[fresh[p]]
    BY <2>1 DEF CustodyInv, WritersStand, Stands
  <2>4. QED
    BY <1>1, <2>2, <2>3, CountKept
<1>6. QED
  BY <1>2, <1>3, <1>4, <1>5

LEMMA ForgetCount ==
    ASSUME TypeOK, TypeOK', NoSegment, CustodyInv, AloneInv, CountInv, NEW p \in Procs,
           Acts(p), OthersStay(p), Forget(p), recs' = recs
    PROVE  CountInv'
<1>1. minted' = minted
  <2>1. pc'[p] = "down"
    BY ForgetParts
  <2>2. ~FlushOrphan(p) /\ ~ServerAnswer(p)
    BY <2>1 DEF FlushOrphan, ServerAnswer, TypeOK, ControlOK
  <2>3. QED
    BY <2>2 DEF Acts, Start, Recover, RecoverProbe, Probe, RecoverUnprobe, Unprobe,
         RecoverScan, Recovered, Serve, ClientCall, Shutdown, AppendLine, Rotate,
         CreateSegment, LockSegment, Write, Drain, DrainList, DrainRead, DrainRecord,
         DrainEOF, DrainProbe, DrainUnprobe, DrainStat, DrainRename, DrainEnds, Fault,
         ShortWrite, DrainStops, Crash, evidence
<1>2. CASE ShortWrite(p)
  BY <1>1, <1>2, CountForgets, BoundAssumption
     DEF ShortWrite, CustodyInv, TypeOK, BoundsOK, bounds
<1>3. CASE Crash(p)
  BY <1>1, <1>3, CountForgets, BoundAssumption
     DEF Crash, CustodyInv, TypeOK, BoundsOK, bounds
<1>4. CASE DrainStops(p)
  <2>1. pc[p] = "deliver" /\ shorts' = shorts
        /\ (faults' = faults \/ (faults < MaxFaults /\ faults' = faults + 1))
    BY <1>4 DEF DrainStops
  <2>2. QED
    BY <1>1, <2>1, CountForgets DEF CustodyInv, Appending, Naming
<1>5. CASE ~Fault(p)
  <2>1. UNCHANGED <<faults, shorts>>
    BY <1>5 DEF Acts, Start, Recover, RecoverProbe, Probe, RecoverUnprobe, Unprobe,
         RecoverScan, FlushOrphan, Recovered, Serve, ClientCall, ServerAnswer, Shutdown,
         AppendLine, Rotate, CreateSegment, LockSegment, Write, Drain, DrainList, DrainRead,
         DrainRecord, DrainEOF, DrainProbe, DrainUnprobe, DrainStat, DrainRename, DrainEnds,
         bounds
  <2>2. pc[p] \notin Appending
    <3>1. pc'[p] = "down"
      BY ForgetParts
    <3>2. ~Rotate(p) /\ ~CreateSegment(p) /\ ~Write(p)
      BY <3>1 DEF Rotate, CreateSegment, Write, TypeOK, ControlOK
    <3>3. ~LockSegment(p)
      <4>1. LockSegment(p) => GotLock(p)
        BY LockIsFree DEF LockSegment, CustodyInv
      <4>2. QED
        BY <3>1, <4>1 DEF LockSegment, TypeOK, ControlOK
    <3>4. ~AppendLine(p)
      BY <3>2, <3>3 DEF AppendLine
    <3>5. QED
      BY <1>5, <3>4 DEF Acts, Start, Recover, RecoverProbe, Probe, RecoverUnprobe, Unprobe,
         RecoverScan, FlushOrphan, Recovered, Serve, ClientCall, ServerAnswer, Shutdown,
         Drain, DrainList, DrainRead, DrainRecord, DrainEOF, DrainProbe, DrainUnprobe,
         DrainStat, DrainRename, DrainEnds, Appending, Naming
  <2>3. QED
    BY <1>1, <2>1, <2>2, CountForgets DEF CustodyInv
<1>6. QED
  BY <1>2, <1>3, <1>4, <1>5 DEF Fault

LEMMA FlushCount ==
    ASSUME TypeOK, TypeOK', CustodyInv, AloneInv, SearchInv, OnceInv, CountInv,
           NEW p \in Procs, Acts(p), OthersStay(p), FlushOrphan(p)
    PROVE  CountInv'
<1>1. PICK c \in Orphans(p) :
        /\ job' = [job EXCEPT ![p] = Completion(Mint(c, "orphan_intent"))]
        /\ minted' = [minted EXCEPT ![c] = @ + 1]
  BY DEF FlushOrphan
<1>2. pc[p] = "flush" /\ UNCHANGED <<recs, torn, seg, faults, shorts, phase, inflight>>
  BY DEF FlushOrphan, files, bounds
<1>3. phase[p] = "flush" /\ job[p] = Garbled
  BY <1>2 DEF CustodyInv, WritersStand, Stands, Pumping, Appending, Naming
<1>4. inflight[p] = {} /\ JobCalls(p) = {}
  BY <1>2, <1>3 DEF OnceInv, Closes, Pumping, Appending, Naming, JobCalls, Garbled
<1>5. c \in Calls /\ Opened(c)
  BY DEF Orphans, CustodyInv, Opens, Owed, TypeOK, ReaderOK
<1>6. ~Completed(c)
  BY <1>2, OrphanIsOpen
<1>7. \A q \in Procs : JobCalls(q) = {}
  <2>1. ASSUME NEW q \in Procs \ {p} PROVE JobCalls(q) = {}
    <3>1. job[q] = Garbled
      BY OthersDown DEF AloneInv, Dormant
    <3>2. QED
      BY <3>1 DEF JobCalls, Garbled
  <2>2. QED
    BY <1>4, <2>1
<1>8. minted[c] <= faults + shorts
  BY <1>5, <1>6, <1>7 DEF CountInv, MintedWithin
<1>9. QED
  BY <1>1, <1>2, <1>3, <1>4, <1>5, <1>8, CountMints

LEMMA AnswerCount ==
    ASSUME TypeOK, TypeOK', CustodyInv, AloneInv, CountInv,
           NEW p \in Procs, Acts(p), OthersStay(p), ServerAnswer(p)
    PROVE  CountInv'
<1>1. PICK c \in inflight[p] :
        /\ inflight' = [inflight EXCEPT ![p] = @ \ {c}]
        /\ job' = [job EXCEPT ![p] = Completion(Mint(c, "tool_call"))]
        /\ minted' = [minted EXCEPT ![c] = @ + 1]
  BY DEF ServerAnswer
<1>2. pc[p] = "serve" /\ UNCHANGED <<recs, torn, seg, faults, shorts, phase>>
  BY DEF ServerAnswer, files, bounds
<1>3. job[p] = Garbled
  BY <1>2 DEF CustodyInv, WritersStand, Stands, Appending, Naming
<1>4. JobCalls(p) = {} /\ inflight'[p] = inflight[p] \ {c}
  BY <1>1, <1>3 DEF JobCalls, Garbled, TypeOK, WriterOK
<1>5. c \in Calls /\ Opened(c)
  BY DEF CustodyInv, Opens, Owed, TypeOK, WriterOK
<1>6. minted[c] = 0
  BY DEF CountInv, Counts
<1>7. minted[c] <= faults + shorts
  BY <1>6 DEF TypeOK, BoundsOK
<1>8. QED
  BY <1>1, <1>2, <1>4, <1>5, <1>6, <1>7, CountMints

LEMMA CountStep ==
    ASSUME TypeOK, TypeOK', NoSegment, CustodyInv, AloneInv, SearchInv, OnceInv, CountInv,
           NEW p \in Procs, Acts(p), OthersStay(p)
    PROVE  CountInv'
<1>1. CASE Forget(p) /\ recs' = recs
  BY <1>1, ForgetCount
<1>2. CASE ~Forget(p) /\ (Start(p) \/ RecoverProbe(p) \/ RecoverUnprobe(p) \/ RecoverScan(p)
             \/ Recovered(p) \/ Rotate(p) \/ CreateSegment(p) \/ LockSegment(p)
             \/ Drain(p))
  BY <1>2, QuietCount
<1>3. CASE ClientCall(p)
  <2>1. PICK c \in Calls : job' = [job EXCEPT ![p] = Intent(c)]
    BY <1>3 DEF ClientCall
  <2>2. job'[p].type = "intent" /\ pc[p] = "serve"
        /\ UNCHANGED <<recs, torn, minted, faults, shorts, inflight, seg, phase>>
    BY <1>3, <2>1 DEF ClientCall, TypeOK, WriterOK, Intent, files, evidence, bounds
  <2>3. job[p] = Garbled
    BY <2>2 DEF CustodyInv, WritersStand, Stands, Appending, Naming
  <2>4. JobCalls(p) = {} /\ JobCalls(p)' = {}
    BY <2>2, <2>3 DEF JobCalls, Garbled
  <2>5. Counts(p)'
    BY <2>2, <2>4 DEF CountInv, Counts
  <2>6. faults <= faults' /\ shorts <= shorts'
        /\ faults' <= MaxFaults /\ shorts' <= MaxShortWrites
    BY <2>2 DEF CountInv, TypeOK, BoundsOK
  <2>7. QED
    BY <2>2, <2>4, <2>5, <2>6, CountStill
<1>4. CASE Write(p)
  <2>1. \A c : job[p].type = "intent" /\ job[p].call = c => c \in Calls /\ job[p] = Intent(c)
    BY DEF TypeOK, WriterOK, Records, Garbled, Intent
  <2>2. \A c \in inflight'[p] : c \in inflight[p] \/ (c \in Calls /\ job[p] = Intent(c))
    BY <1>4, <2>1 DEF Write, TypeOK, WriterOK
  <2>3. /\ Room(p) /\ Written(p) /\ job'[p] = Garbled /\ seg' = seg
        /\ UNCHANGED <<minted, faults, shorts>>
    BY <1>4 DEF Write, TypeOK, WriterOK, bounds
  <2>4. QED
    BY <2>2, <2>3, WrittenCount
<1>5. CASE Crash(p) /\ Room(p) /\ Written(p)
  <2>1. seg'[p] = 0 /\ job'[p] = Garbled /\ inflight'[p] = {}
    BY <1>5, ForgetParts DEF Crash
  <2>2. UNCHANGED <<minted, shorts>> /\ faults < MaxFaults /\ faults' = faults + 1
    BY <1>5 DEF Crash, evidence
  <2>3. QED
    BY <1>5, <2>1, <2>2, WrittenCount
<1>6. CASE ShortWrite(p) /\ ~Forget(p)
  <2>1. /\ UNCHANGED <<recs, minted, faults, inflight>>
        /\ shorts' = shorts + 1 /\ shorts < MaxShortWrites
        /\ job'[p] = Garbled
    BY <1>6 DEF ShortWrite, AppendFails, evidence, TypeOK, WriterOK
  <2>2. JobCalls(p)' = {}
    BY <2>1 DEF JobCalls, Garbled
  <2>3. /\ faults <= faults' /\ shorts <= shorts' /\ faults' <= MaxFaults
        /\ shorts' <= MaxShortWrites /\ shorts' > 0 /\ faults + shorts < faults' + shorts'
    BY <2>1, BoundAssumption DEF CountInv, TypeOK, BoundsOK
  <2>4. Counts(p)'
    BY <2>1, <2>2, <2>3 DEF CountInv, Counts, Garbled
  <2>5. QED
    BY <2>1, <2>3, <2>4, CountStill
<1>7. QED
  <2>1. CASE Recover(p) \/ Serve(p) \/ Start(p) \/ Drain(p) \/ AppendLine(p)
    <3>1. ~Write(p) => recs' = recs
      BY <2>1 DEF Start, Recover, RecoverProbe, Probe, RecoverUnprobe, Unprobe, RecoverScan,
         Exit, FlushOrphan, Recovered, Serve, ClientCall, ServerAnswer, Shutdown, AppendLine,
         Rotate, CreateSegment, LockSegment, Drain, DrainList, DrainRead, DrainRecord,
         DrainEOF, DrainProbe, DrainUnprobe, DrainStat, DrainRename, DrainEnds, files
    <3>2. Shutdown(p) => Forget(p)
      BY DEF Shutdown, Exit
    <3>3. QED
      BY <1>1, <1>2, <1>3, <1>4, <2>1, <3>1, <3>2, FlushCount, AnswerCount
         DEF Recover, Serve, AppendLine
  <2>2. CASE Fault(p)
    <3>1. CASE ShortWrite(p)
      BY <1>1, <1>6, <3>1 DEF ShortWrite
    <3>2. CASE Crash(p)
      BY <1>1, <1>5, <3>2 DEF Crash
    <3>3. CASE DrainStops(p)
      BY <1>1, <3>3 DEF DrainStops
    <3>4. QED
      BY <2>2, <3>1, <3>2, <3>3 DEF Fault
  <2>3. QED
    BY <2>1, <2>2 DEF Acts

-----------------------------------------------------------------------------
(* The theorems.                                                           *)

SoloInv == AloneInv /\ SearchInv /\ OnceInv /\ OffsetInv /\ CountInv

LEMMA SoloInit == Init /\ ~Concurrent => SoloInv
<1> SUFFICES ASSUME Init, ~Concurrent PROVE SoloInv
  OBVIOUS
<1>1. \A s \in Segs : IntentsIn(s) = {} /\ CompletedIn(s) = {} /\ ReceiptsIn(s) = {}
  BY DEF Init, IntentsIn, CompletedIn, ReceiptsIn
<1>2. /\ \A p \in Procs : JobCalls(p) = {}
      /\ \A c : ~Completed(c)
      /\ Spooled = {}
  BY <1>1 DEF Init, JobCalls, Garbled, Completed, Spooled
<1>3. \A p \in Procs : pc[p] = "down" /\ seg[p] = 0 /\ job[p] = Garbled /\ inflight[p] = {}
                       /\ cand[p] = {} /\ comp[p] = {} /\ live[p] = FALSE
  BY DEF Init
<1>4. AloneInv
  <2>1. \A p \in Procs : LocksKnown(p)
    BY ProcAssumption DEF Init, LocksKnown, Procs
  <2>2. QED
    BY <1>3, <2>1 DEF AloneInv, Solo, Dormant, ClaimOpen
<1>5. SearchInv
  BY <1>3 DEF SearchInv, Searches, Searching, Flushing, Recovering, Appending, Naming
<1>6. OnceInv
  BY <1>2, <1>3 DEF Init, OnceInv, Closes, Draining, DrainPass, OffsetPCs,
                    OneReceiptPerCall, KeptOnDisk
<1>7. OffsetInv
  BY <1>3 DEF Init, OffsetInv, Offsets, DoneWasDelivered
<1>8. CountInv
  BY <1>2, <1>3, BoundAssumption
     DEF Init, CountInv, Counts, Garbled, MintedWithin, FewReceipts
<1>9. QED
  BY <1>4, <1>5, <1>6, <1>7, <1>8 DEF SoloInv

LEMMA SoloStutter ==
    ASSUME SoloInv, UNCHANGED vars
    PROVE  SoloInv'
<1>1. \A s \in Segs : /\ IntentsIn(s)' = IntentsIn(s) /\ CompletedIn(s)' = CompletedIn(s)
                      /\ ReceiptsIn(s)' = ReceiptsIn(s)
  BY SameReads DEF vars
<1>2. /\ \A p \in Procs : JobCalls(p)' = JobCalls(p) /\ Ahead(p)' = Ahead(p)
      /\ \A c : Completed(c)' <=> Completed(c)
      /\ \A c : Opened(c)' <=> Opened(c)
      /\ Spooled' = Spooled /\ Segments' = Segments /\ Segments \subseteq Segs
  BY <1>1 DEF vars, JobCalls, Ahead, Completed, Opened, Spooled, Segments
<1>3. AloneInv'
  BY DEF SoloInv, vars, AloneInv, Solo, Dormant, LocksKnown, ClaimOpen
<1>4. SearchInv'
  BY <1>1, <1>2 DEF SoloInv, vars, SearchInv, Searches, Searching, Flushing, HasRead
<1>5. OnceInv'
  BY <1>1, <1>2 DEF SoloInv, vars, OnceInv, Closes, OneReceiptPerCall, KeptOnDisk
<1>6. OffsetInv'
  <2>1. UNCHANGED <<pc, state, recs, hand, pos, start, cursor, markDone, live, torn, delivered>>
    BY DEF vars
  <2>2. \A p \in Procs : Offsets(p)'
    BY <2>1 DEF SoloInv, OffsetInv, Offsets, AtEOF, Finished
  <2>3. DoneWasDelivered'
    BY <1>1, <2>1 DEF SoloInv, OffsetInv, DoneWasDelivered
  <2>4. QED
    BY <2>2, <2>3 DEF OffsetInv
<1>7. CountInv'
  BY <1>2 DEF SoloInv, vars, CountInv, Counts, MintedWithin, FewReceipts
<1>8. QED
  BY <1>3, <1>4, <1>5, <1>6, <1>7 DEF SoloInv

Invariant == IInv /\ LockInv /\ CustodyInv

LEMMA SoloStep == Invariant /\ Invariant' /\ SoloInv /\ [Next]_vars => SoloInv'
<1> SUFFICES ASSUME Invariant, Invariant', SoloInv, [Next]_vars PROVE SoloInv'
  OBVIOUS
<1>1. /\ TypeOK /\ HasHand /\ ReadWasDelivered /\ NoSegment /\ CustodyInv /\ WritersStand
      /\ TypeOK'
  BY DEF Invariant, IInv, LockInv, CustodyInv
<1>2. CASE UNCHANGED vars
  BY <1>2, SoloStutter
<1>3. ASSUME NEW p \in Procs, Acts(p) PROVE SoloInv'
  <2>1. OthersStay(p)
    BY <1>1, <1>3, StepOthers DEF Acts
  <2>2. AloneInv' /\ SearchInv'
    BY <1>1, <1>3, <2>1, AloneStep, SearchStep DEF SoloInv
  <2>3. OnceInv' /\ OffsetInv'
    BY <1>1, <1>3, <2>1, OnceStep, OffsetStep DEF SoloInv
  <2>4. CountInv'
    BY <1>1, <1>3, <2>1, CountStep DEF SoloInv
  <2>5. QED
    BY <2>2, <2>3, <2>4 DEF SoloInv
<1>4. QED
  BY <1>2, <1>3 DEF Next, Acts

LEMMA SoloHolds == Spec /\ ~Concurrent => [](Invariant /\ SoloInv)
<1>1. Init /\ ~Concurrent => SoloInv
  BY SoloInit
<1>2. Invariant /\ Invariant' /\ SoloInv /\ [Next]_vars => SoloInv'
  BY SoloStep
<1>3. Spec => []Invariant
  BY CustodyHolds DEF Invariant
<1>4. QED
  BY <1>1, <1>2, <1>3, PTL DEF Spec

\* Q4, the payment-fired-agent-died case: whatever is killed or torn, a call
\* that crossed is held by a live proxy, receipted, or read by the next recovery.
THEOREM EvidenceIsKept == Spec /\ ~Concurrent => []EvidenceKept
<1>1. SoloInv => EvidenceKept
  <2> SUFFICES ASSUME SoloInv, NEW c \in forwarded
               PROVE  \/ \E s \in Segs : c \in CompletedIn(s)
                      \/ \E s \in Segs : state[s] = "open" /\ c \in IntentsIn(s)
    BY DEF EvidenceKept
  <2>1. QED
    BY DEF SoloInv, OnceInv, KeptOnDisk, Completed, Segments
<1>2. QED
  BY <1>1, SoloHolds, PTL

\* However often recovery is interrupted and run again, no call gets a second
\* receipt in the spool.
THEOREM ReceiptedOnce == Spec /\ ~Concurrent => []OneReceiptPerCall
<1>1. SoloInv => OneReceiptPerCall
  BY DEF SoloInv, OnceInv
<1>2. QED
  BY <1>1, SoloHolds, PTL

\* Renaming a segment to .done hides it from every later drain, and by then the
\* sink has every receipt in it.
THEOREM DoneIsDelivered == Spec /\ ~Concurrent => []DoneWasDelivered
<1>1. SoloInv => DoneWasDelivered
  BY DEF SoloInv, OffsetInv
<1>2. QED
  BY <1>1, SoloHolds, PTL

-----------------------------------------------------------------------------
(* The refinement: spool and drain implement at-least-once delivery.       *)

\* what no later drain will read of segment s
RetiredIn(s) ==
    IF state[s] = "done" THEN ReceiptsIn(s)
    ELSE {r \in ReceiptsIn(s) : \E i \in 1..cursor[s] : recs[s][i] = Completion(r)}

RetiredDelivered == Retired \subseteq delivered

LEMMA RetiredWasDelivered ==
    ASSUME ConsumedWasDelivered, DoneWasDelivered
    PROVE  RetiredDelivered
<1>1. SUFFICES ASSUME NEW s \in Segs, NEW r \in RetiredIn(s) PROVE r \in delivered
  BY DEF Retired, RetiredIn, RetiredDelivered
<1>2. CASE state[s] = "done"
  BY <1>1, <1>2 DEF RetiredIn, DoneWasDelivered
<1>3. CASE state[s] # "done"
  <2>1. PICK i \in 1..cursor[s] : recs[s][i] = Completion(r)
    BY <1>1, <1>3 DEF RetiredIn
  <2>2. recs[s][i].type = "completion" /\ recs[s][i].receipt = r
    BY <2>1 DEF Completion
  <2>3. QED
    BY <2>2 DEF ConsumedWasDelivered, Accepted
<1>4. QED
  BY <1>2, <1>3

\* nothing is spooled or delivered, and offsets and .done marks only advance
LEMMA RetireStep ==
    ASSUME TypeOK, TypeOK', RetiredDelivered', UNCHANGED <<recs, delivered>>,
           \A s \in Segs : /\ state[s] = "done" => state'[s] = "done"
                           /\ state'[s] = "done" \/ cursor[s] <= cursor'[s]
    PROVE  AtLeastOnce!Next
<1>1. \A s \in Segs : ReceiptsIn(s)' = ReceiptsIn(s)
  BY SameReads
<1>2. Spooled' = Spooled
  BY <1>1 DEF Spooled
<1>3. ASSUME NEW s \in Segs PROVE RetiredIn(s) \subseteq RetiredIn(s)'
  <2>1. PICK m \in Nat, n \in Nat : m = cursor[s] /\ n = cursor'[s]
    BY DEF TypeOK, FilesOK
  <2>2. CASE state'[s] = "done"
    BY <1>1, <2>2 DEF RetiredIn
  <2>3. CASE state'[s] # "done"
    <3>1. m <= n /\ state[s] # "done"
      BY <2>1, <2>3
    <3>2. 1..m \subseteq 1..n
      BY <3>1
    <3>3. QED
      BY <1>1, <2>1, <2>3, <3>1, <3>2 DEF RetiredIn, Completion
  <2>4. QED
    BY <2>2, <2>3
<1>4. Retired \subseteq Retired'
  <2>1. Retired = UNION {RetiredIn(s) : s \in Segs}
    BY DEF Retired, RetiredIn
  <2>2. Retired' = UNION {RetiredIn(s)' : s \in Segs}
    BY DEF Retired, RetiredIn
  <2>3. QED
    BY <1>3, <2>1, <2>2
<1>5. PICK R : R = Retired'
  OBVIOUS
<1>6. Retired' \subseteq delivered'
  BY DEF RetiredDelivered
<1>7. R \subseteq delivered /\ Retired' = Retired \cup R
  BY <1>4, <1>5, <1>6
<1>8. AtLeastOnce!Retire(R)
  BY <1>2, <1>7 DEF AtLeastOnce!Retire
<1>9. QED
  BY <1>7, <1>8 DEF AtLeastOnce!Next

\* a whole line lands: a receipt is spooled, or nothing is
LEMMA SpoolStep ==
    ASSUME TypeOK, ConsumedWasDelivered, AloneInv, OnceInv, CountInv', TypeOK',
           NEW p \in Procs, Room(p), Written(p), UNCHANGED <<state, cursor, delivered>>
    PROVE  AtLeastOnce!Next \/ UNCHANGED AtLeastOnce!dvars
<1>1. PICK w \in Segs : w = seg[p]
  BY WrittenReads
<1>2. state[w] # "done"
  BY <1>1, BoundAssumption DEF AloneInv, ClaimOpen, Segs
<1>3. \A s \in Segs \ {w} : recs'[s] = recs[s] /\ ReceiptsIn(s)' = ReceiptsIn(s)
  BY <1>1, WrittenReads, SameReads
<1>4. ReceiptsIn(w)' = ReceiptsIn(w)
        \cup (IF Line(p).type = "completion" THEN {Line(p).receipt} ELSE {})
  BY <1>1, WrittenReads
<1>5. RetiredIn(w)' = RetiredIn(w)
  <2>1. PICK m \in Nat, n \in Nat : m = cursor[w] /\ n = Len(recs[w]) /\ m <= n
    BY DEF TypeOK, FilesOK, ConsumedWasDelivered, Accepted
  <2>2. \A i \in 1..m : recs'[w][i] = recs[w][i]
    <3>1. PICK l : recs'[w] = Append(recs[w], l)
      BY <1>1 DEF Written, TypeOK, FilesOK
    <3>2. recs[w] \in Seq(Records)
      BY DEF TypeOK, FilesOK
    <3>3. l \in Records
      BY <1>1, <3>1 DEF Written, TypeOK, FilesOK, WriterOK, Records
    <3>4. QED
      BY <2>1, <3>1, <3>2, <3>3
  <2>3. ASSUME NEW r, NEW i \in 1..m, recs[w][i] = Completion(r) PROVE r \in ReceiptsIn(w)
    <3>1. i \in DOMAIN recs[w]
      BY <2>1 DEF TypeOK, FilesOK
    <3>2. recs[w][i].type = "completion" /\ recs[w][i].receipt = r
      BY <2>3 DEF Completion
    <3>3. QED
      BY <3>1, <3>2 DEF ReceiptsIn
  <2>4. RetiredIn(w) = {r \in ReceiptsIn(w) : \E i \in 1..m : recs[w][i] = Completion(r)}
    BY <1>2, <2>1 DEF RetiredIn
  <2>5. RetiredIn(w)' = {r \in ReceiptsIn(w)' : \E i \in 1..m : recs'[w][i] = Completion(r)}
    BY <1>2, <2>1 DEF RetiredIn, Completion
  <2>6. QED
    BY <1>4, <2>2, <2>3, <2>4, <2>5
<1>6. Retired' = Retired
  <2>1. Retired = UNION {RetiredIn(s) : s \in Segs}
    BY DEF Retired, RetiredIn
  <2>2. Retired' = UNION {RetiredIn(s)' : s \in Segs}
    BY DEF Retired, RetiredIn
  <2>3. \A s \in Segs \ {w} : RetiredIn(s)' = RetiredIn(s)
    BY <1>3 DEF RetiredIn, Completion
  <2>4. QED
    BY <1>5, <2>1, <2>2, <2>3
<1>7. CASE Line(p).type # "completion"
  <2>1. Spooled' = Spooled
    BY <1>3, <1>4, <1>7 DEF Spooled
  <2>2. QED
    BY <1>6, <2>1 DEF AtLeastOnce!dvars
<1>8. CASE Line(p).type = "completion"
  <2>1. PICK r : r = Line(p).receipt
    OBVIOUS
  <2>2. Spooled' = Spooled \cup {r}
    BY <1>3, <1>4, <1>8, <2>1 DEF Spooled
  <2>3. Line(p) = job[p]
    BY <1>8 DEF Line, Garbled
  <2>4. r \in Receipts /\ r.call \in JobCalls(p)
    BY <1>8, <2>1, <2>3, RecordParts DEF TypeOK, WriterOK, JobCalls
  <2>5. r \notin Spooled
    <3>1. \A q \in Spooled : Completed(q.call)
      BY DEF Spooled, Completed, CompletedIn
    <3>2. QED
      BY <2>4, <3>1 DEF OnceInv, Closes
  <2>6. r.n \in 1..(MaxFaults + MaxShortWrites + 1)
    BY <2>2 DEF CountInv, FewReceipts
  <2>7. r \in [call : Calls, n : 1..(MaxFaults + MaxShortWrites + 1), kind : Kinds]
    BY <2>4, <2>6 DEF Receipts
  <2>8. AtLeastOnce!Spool(r)
    BY <1>6, <2>2, <2>5 DEF AtLeastOnce!Spool
  <2>9. QED
    BY <2>7, <2>8 DEF AtLeastOnce!Next
<1>9. QED
  BY <1>7, <1>8

\* the sink accepts the record the drain has in hand
LEMMA DeliverStep ==
    ASSUME TypeOK, TypeOK', HasHand, ReadWasDelivered, CountInv, RetiredDelivered',
           NEW p \in Procs, DrainRecord(p)
    PROVE  AtLeastOnce!Next
<1>1. pc[p] = "deliver" /\ ~AtEOF(p) /\ UNCHANGED <<state, recs, cursor>>
  BY DEF DrainRecord, files
<1>2. PICK w \in Segs : w = hand[p]
  BY <1>1 DEF HasHand, PassPCs, OffsetPCs
<1>3. CASE NextRec(p).type # "completion"
  <2>1. delivered' = delivered
    BY <1>3 DEF DrainRecord
  <2>2. \A s \in Segs : cursor[s] <= cursor'[s]
    BY <1>1 DEF TypeOK, FilesOK
  <2>3. QED
    BY <1>1, <2>1, <2>2, RetireStep
<1>4. CASE NextRec(p).type = "completion"
  <2>1. PICK r : r = NextRec(p).receipt
    OBVIOUS
  <2>2. delivered' = delivered \cup {r}
    BY <1>4, <2>1 DEF DrainRecord
  <2>3. PICK n \in Nat, m \in Nat : n = pos[p] /\ m = Len(recs[w])
    BY DEF TypeOK, ReaderOK, FilesOK
  <2>4. n # m
    BY <1>1, <1>2, <2>3 DEF AtEOF
  <2>5. n <= m
    BY <1>1, <1>2, <2>3 DEF ReadWasDelivered, Accepted, OffsetPCs
  <2>6. n + 1 \in DOMAIN recs[w]
    BY <2>3, <2>4, <2>5 DEF TypeOK, FilesOK
  <2>7. r \in ReceiptsIn(w) /\ recs[w][n + 1] \in Records
    BY <1>2, <1>4, <2>1, <2>3, <2>6 DEF NextRec, ReceiptsIn, TypeOK, FilesOK
  <2>8. r \in Spooled /\ r \in Receipts
    BY <1>2, <1>4, <2>1, <2>3, <2>7, RecordParts DEF Spooled, NextRec
  <2>9. r \in [call : Calls, n : 1..(MaxFaults + MaxShortWrites + 1), kind : Kinds]
    BY <2>8 DEF CountInv, FewReceipts, Receipts
  <2>10. \A s \in Segs : ReceiptsIn(s)' = ReceiptsIn(s) /\ RetiredIn(s)' = RetiredIn(s)
    BY <1>1, SameReads DEF RetiredIn, Completion
  <2>11. Spooled' = Spooled
    BY <2>10 DEF Spooled
  <2>12. Retired' = Retired
    <3>1. Retired = UNION {RetiredIn(s) : s \in Segs}
      BY DEF Retired, RetiredIn
    <3>2. Retired' = UNION {RetiredIn(s)' : s \in Segs}
      BY DEF Retired, RetiredIn
    <3>3. QED
      BY <2>10, <3>1, <3>2
  <2>13. AtLeastOnce!Deliver(r)
    BY <2>2, <2>8, <2>11, <2>12 DEF AtLeastOnce!Deliver
  <2>14. QED
    BY <2>9, <2>13 DEF AtLeastOnce!Next
<1>5. QED
  BY <1>3, <1>4

LEMMA DeliveryStep ==
    Invariant /\ SoloInv /\ [Next]_vars /\ (Invariant /\ SoloInv /\ RetiredDelivered)'
        => [AtLeastOnce!Next]_AtLeastOnce!dvars
<1> SUFFICES ASSUME Invariant, SoloInv, [Next]_vars,
                    Invariant', SoloInv', RetiredDelivered'
             PROVE  AtLeastOnce!Next \/ UNCHANGED AtLeastOnce!dvars
  OBVIOUS
<1>1. /\ TypeOK /\ HasHand /\ ConsumedWasDelivered /\ ReadWasDelivered
      /\ AloneInv /\ OnceInv /\ OffsetInv /\ CountInv /\ CustodyInv
      /\ TypeOK' /\ CountInv'
  BY DEF Invariant, IInv, SoloInv
<1>2. CASE UNCHANGED <<state, recs, cursor, delivered>>
  <2>1. \A s \in Segs : cursor[s] <= cursor'[s]
    BY <1>1, <1>2 DEF TypeOK, FilesOK
  <2>2. QED
    BY <1>1, <1>2, <2>1, RetireStep
<1>3. ASSUME NEW p \in Procs, Start(p) \/ Recover(p) \/ Serve(p)
      PROVE  UNCHANGED <<state, recs, cursor, delivered>>
  BY <1>3 DEF Start, Recover, RecoverProbe, Probe, RecoverUnprobe, Unprobe, RecoverScan,
              Exit, FlushOrphan, Recovered, Serve, ClientCall, ServerAnswer, Shutdown, files,
              evidence
<1>4. ASSUME NEW p \in Procs, AppendLine(p)
      PROVE  AtLeastOnce!Next \/ UNCHANGED AtLeastOnce!dvars
  <2>1. CASE Rotate(p) \/ LockSegment(p)
    BY <1>2, <2>1 DEF Rotate, LockSegment, evidence
  <2>2. CASE CreateSegment(p)
    <3>1. /\ state' = [state EXCEPT ![fresh[p]] = "open"] /\ state[fresh[p]] = "absent"
          /\ UNCHANGED <<recs, cursor, delivered>>
      BY <1>1, <2>2 DEF CreateSegment, CustodyInv, WritersStand, Stands, evidence
    <3>2. \A s \in Segs : /\ state[s] = "done" => state'[s] = "done"
                          /\ cursor[s] <= cursor'[s]
      BY <1>1, <3>1 DEF TypeOK, FilesOK
    <3>3. QED
      BY <1>1, <3>1, <3>2, RetireStep
  <2>3. CASE Write(p)
    BY <1>1, <2>3, SpoolStep DEF Write
  <2>4. QED
    BY <1>4, <2>1, <2>2, <2>3 DEF AppendLine
<1>5. ASSUME NEW p \in Procs, DrainStops(p) \/ DrainEOF(p)
      PROVE  AtLeastOnce!Next
  <2>1. pc[p] = "deliver" /\ UNCHANGED <<state, recs, delivered>> /\ cursor' = Cursor(p)
    BY <1>5 DEF DrainStops, DrainEOF, evidence
  <2>2. PICK w \in Segs : w = hand[p] /\ start[p] = cursor[w]
    BY <1>1, <2>1 DEF HasHand, PassPCs, OffsetPCs, OffsetInv, Offsets
  <2>3. PICK n \in Nat, m \in Nat : n = start[p] /\ m = pos[p]
    BY <1>1 DEF TypeOK, ReaderOK
  <2>4. cursor' = (IF m > n THEN [cursor EXCEPT ![w] = m] ELSE cursor)
    BY <2>1, <2>2, <2>3 DEF Cursor
  <2>5. \A s \in Segs : cursor[s] <= cursor'[s]
    BY <1>1, <2>2, <2>3, <2>4 DEF TypeOK, FilesOK
  <2>6. QED
    BY <1>1, <2>1, <2>5, RetireStep
<1>6. ASSUME NEW p \in Procs, DrainRename(p)
      PROVE  AtLeastOnce!Next \/ UNCHANGED AtLeastOnce!dvars
  <2>1. recs' = recs /\ delivered' = delivered
    BY <1>6 DEF DrainRename, Exit, evidence
  <2>2. CASE state[hand[p]] # "open"
    <3>1. Exit(p)
      BY <1>6, <2>2 DEF DrainRename
    <3>2. state' = state /\ cursor' = cursor
      BY <3>1 DEF Exit
    <3>3. QED
      BY <1>2, <2>1, <3>2
  <2>3. CASE state[hand[p]] = "open"
    <3>1. /\ state' = [state EXCEPT ![hand[p]] = "done"]
          /\ cursor' = [cursor EXCEPT ![hand[p]] = 0]
      BY <1>6, <2>3 DEF DrainRename
    <3>2. \A s \in Segs : /\ state[s] = "done" => state'[s] = "done"
                          /\ state'[s] = "done" \/ cursor[s] <= cursor'[s]
      BY <1>1, <3>1 DEF TypeOK, FilesOK
    <3>3. QED
      BY <1>1, <2>1, <3>2, RetireStep
  <2>4. QED
    BY <2>2, <2>3
<1>7. ASSUME NEW p \in Procs, Drain(p)
      PROVE  AtLeastOnce!Next \/ UNCHANGED AtLeastOnce!dvars
  <2>1. CASE DrainRecord(p)
    BY <1>1, <2>1, DeliverStep
  <2>2. CASE ~DrainRecord(p) /\ ~DrainEOF(p) /\ ~DrainRename(p)
    BY <1>2, <1>7, <2>2 DEF Drain, DrainList, DrainRead, DrainProbe, Probe, DrainUnprobe,
         Unprobe, DrainStat, DrainEnds, Exit, files, evidence
  <2>3. QED
    BY <1>5, <1>6, <2>1, <2>2
<1>8. ASSUME NEW p \in Procs, Fault(p)
      PROVE  AtLeastOnce!Next \/ UNCHANGED AtLeastOnce!dvars
  <2>1. CASE ShortWrite(p)
    BY <1>2, <2>1 DEF ShortWrite, evidence
  <2>2. CASE Crash(p) /\ recs' = recs
    BY <1>2, <2>2 DEF Crash, evidence
  <2>3. CASE Crash(p) /\ recs' # recs
    BY <1>1, <2>3, SpoolStep DEF Crash, evidence
  <2>4. QED
    BY <1>5, <1>8, <2>1, <2>2, <2>3 DEF Fault
<1>9. CASE UNCHANGED vars
  BY <1>2, <1>9 DEF vars
<1>10. QED
  BY <1>2, <1>3, <1>4, <1>7, <1>8, <1>9 DEF Next

\* Spool and drain implement Delivery: a receipt is spooled once, reaches the sink
\* at least once after that, and is retired only when the sink has it.
THEOREM ImplementsDelivery == Spec /\ ~Concurrent => DeliverySpec
<1>1. Init => AtLeastOnce!Init
  <2> SUFFICES ASSUME Init PROVE AtLeastOnce!Init
    OBVIOUS
  <2>1. \A s \in Segs : ReceiptsIn(s) = {}
    BY DEF Init, ReceiptsIn
  <2>2. Spooled = {} /\ Retired = {} /\ delivered = {}
    BY <2>1 DEF Init, Spooled, Retired
  <2>3. QED
    BY <2>2 DEF AtLeastOnce!Init
<1>2. Invariant /\ SoloInv => RetiredDelivered
  BY RetiredWasDelivered DEF Invariant, IInv, SoloInv, OffsetInv
<1>3. QED
  BY <1>1, <1>2, DeliveryStep, SoloHolds, PTL DEF Spec, DeliverySpec, AtLeastOnce!Spec
=============================================================================
