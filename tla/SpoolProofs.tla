---------------------------- MODULE SpoolProofs ----------------------------
(***************************************************************************)
(* Type correctness of the spool and ConsumedWasDelivered, for any number  *)
(* of processes, calls, segments, crashes and short writes.                *)
(*                                                                         *)
(* The inductive invariant adds to the two what a pass knows of itself:    *)
(* while it reads, it has a segment in hand, and a drain's offset in that  *)
(* segment covers only records the sink has accepted.                      *)
(*                                                                         *)
(* Then the advisory lock: a process that may append to a segment holds    *)
(* the segment's lock, so isLive never takes a segment with a writer for a *)
(* quiescent one, and no two processes write one segment.  The             *)
(* strengthening says whose the other locks are: a probe holds the lock it *)
(* is about to give back, and a process reading the directory has no       *)
(* segment of its own.  Custody, last, for which the order of segments     *)
(* matters, has its invariant at the head of its section.                  *)
(***************************************************************************)
EXTENDS SpoolProps, TLAPS

OffsetPCs == {"deliver", "dprobe", "dunprobe", "dstat", "drename"}
PassPCs == {"probe", "unprobe", "scan", "dread"} \cup OffsetPCs

\* a pass under way has a segment in hand
HasHand == \A p \in Procs : pc[p] \in PassPCs => hand[p] \in Segs

\* what a drain has read, the sink has
ReadWasDelivered ==
    \A p \in Procs : pc[p] \in OffsetPCs => Accepted(hand[p], pos[p])

IInv == TypeOK /\ ConsumedWasDelivered /\ HasHand /\ ReadWasDelivered

-----------------------------------------------------------------------------
(* Records on disk. *)

LEMMA RecordParts ==
    ASSUME NEW r \in Records
    PROVE  /\ r.type = "intent" => r.call \in Calls
           /\ r.type = "completion" => r.receipt \in Receipts /\ r.receipt.call \in Calls
BY DEF Records, Receipts, Garbled

LEMMA SegmentParts ==
    ASSUME TypeOK, NEW s \in Segs
    PROVE  IntentsIn(s) \subseteq Calls /\ CompletedIn(s) \subseteq Calls
<1>1. \A i \in DOMAIN recs[s] : recs[s][i] \in Records
  BY DEF TypeOK, FilesOK
<1>2. QED
  BY <1>1, RecordParts DEF IntentsIn, CompletedIn, ReceiptsIn

\* files only grow at the end, and so does what the sink has
Grows ==
    /\ \A s \in Segs : /\ Len(recs[s]) <= Len(recs'[s])
                       /\ \A i \in 1..Len(recs[s]) : recs'[s][i] = recs[s][i]
    /\ delivered \subseteq delivered'

LEMMA AcceptedKept ==
    ASSUME TypeOK, TypeOK', Grows, NEW s \in Segs, NEW n \in Nat, Accepted(s, n)
    PROVE  Accepted(s, n)'
<1>1. Len(recs[s]) \in Nat /\ Len(recs'[s]) \in Nat
  BY DEF TypeOK, FilesOK
<1>2. n <= Len(recs'[s])
  BY <1>1 DEF Accepted, Grows
<1>3. ASSUME NEW i \in 1..n PROVE recs'[s][i] = recs[s][i]
  BY <1>1 DEF Accepted, Grows
<1>4. QED
  BY <1>2, <1>3 DEF Accepted, Grows

LEMMA WrittenGrows ==
    ASSUME TypeOK, NEW p \in Procs, Room(p), Written(p)
    PROVE  /\ recs' \in [Segs -> Seq(Records)]
           /\ torn' \in [Segs -> BOOLEAN]
           /\ \A s \in Segs : /\ Len(recs[s]) <= Len(recs'[s])
                              /\ \A i \in 1..Len(recs[s]) : recs'[s][i] = recs[s][i]
<1> DEFINE r == IF torn[seg[p]] THEN Garbled ELSE job[p]
<1>1. seg[p] \in Segs
  BY BoundAssumption DEF TypeOK, WriterOK, Room, Segs
<1>2. r \in Records
  BY DEF TypeOK, WriterOK, Records
<1>3. recs' = [recs EXCEPT ![seg[p]] = Append(@, r)]
  BY DEF Written
<1>4. torn' \in [Segs -> BOOLEAN]
  BY DEF Written, TypeOK, FilesOK
<1>5. \A s \in Segs : recs[s] \in Seq(Records)
  BY DEF TypeOK, FilesOK
<1>6. recs' \in [Segs -> Seq(Records)]
  BY <1>1, <1>2, <1>3, <1>5 DEF TypeOK, FilesOK
<1>7. ASSUME NEW s \in Segs
      PROVE  /\ Len(recs[s]) <= Len(recs'[s])
             /\ \A i \in 1..Len(recs[s]) : recs'[s][i] = recs[s][i]
  <2>1. CASE s = seg[p]
    <3> HIDE DEF r
    <3>1. recs[s] \in Seq(Records) /\ recs'[s] = Append(recs[s], r)
      BY <2>1, <1>3, <1>5 DEF TypeOK, FilesOK
    <3>2. QED
      BY <3>1, <1>2
  <2>2. CASE s # seg[p]
    BY <2>2, <1>3, <1>5 DEF TypeOK, FilesOK
  <2>3. QED
    BY <2>1, <2>2
<1>8. QED
  BY <1>4, <1>6, <1>7

-----------------------------------------------------------------------------
(* What a step of p owes the invariant besides the types. *)

LEMMA Frame ==
    ASSUME IInv, TypeOK', NEW p \in Procs, Grows,
           \A q \in Procs \ {p} :
              pc'[q] = pc[q] /\ hand'[q] = hand[q] /\ pos'[q] = pos[q],
           \A s \in Segs : cursor'[s] = cursor[s] \/ Accepted(s, cursor[s])',
           pc'[p] \in PassPCs => hand'[p] \in Segs,
           pc'[p] \in OffsetPCs => Accepted(hand[p], pos[p])'
    PROVE  IInv'
<1>1. ConsumedWasDelivered'
  <2> SUFFICES ASSUME NEW s \in Segs, cursor'[s] = cursor[s]
               PROVE  Accepted(s, cursor[s])'
    BY DEF ConsumedWasDelivered
  <2>1. Accepted(s, cursor[s]) /\ cursor[s] \in Nat
    BY DEF IInv, ConsumedWasDelivered, TypeOK, FilesOK
  <2> DEFINE n == cursor[s]
  <2>3. n \in Nat /\ Accepted(s, n) /\ cursor'[s] = n
    BY <2>1
  <2> HIDE DEF n
  <2>4. n <= Len(recs'[s]) /\ \A i \in 1..n :
          recs'[s][i].type = "completion" => recs'[s][i].receipt \in delivered'
    BY <2>3, AcceptedKept DEF IInv, Accepted
  <2>5. QED
    BY <2>3, <2>4 DEF Accepted
<1>2. HasHand'
  BY DEF IInv, HasHand
<1>3. ReadWasDelivered'
  <2> SUFFICES ASSUME NEW q \in Procs \ {p}, pc'[q] \in OffsetPCs
               PROVE  Accepted(hand[q], pos[q])'
    BY DEF ReadWasDelivered
  <2> DEFINE s == hand[q]
             n == pos[q]
  <2>1. s \in Segs /\ n \in Nat /\ Accepted(s, n) /\ hand'[q] = s /\ pos'[q] = n
    BY DEF IInv, HasHand, ReadWasDelivered, PassPCs, TypeOK, ReaderOK
  <2> HIDE DEF s, n
  <2>2. n <= Len(recs'[s]) /\ \A i \in 1..n :
          recs'[s][i].type = "completion" => recs'[s][i].receipt \in delivered'
    BY <2>1, AcceptedKept DEF IInv, Accepted
  <2>3. QED
    BY <2>1, <2>2 DEF Accepted
<1>4. QED
  BY <1>1, <1>2, <1>3 DEF IInv
-----------------------------------------------------------------------------
(* Types, action by action.  TypeOK is inductive but for the segment in hand, *)
(* so these lemmas take the whole invariant.                               *)

LEMMA TypeInit == Init => TypeOK
BY ProcAssumption, BoundAssumption
   DEF Init, TypeOK, FilesOK, ControlOK, WriterOK, ReaderOK, EvidenceOK, BoundsOK,
       Segs, Procs, Records, Receipts, Garbled, PCs, Phases

LEMMA TakeType ==
    ASSUME ControlOK, ReaderOK, NEW p \in Procs, NEW S \in SUBSET Segs,
           NEW more \in PCs, NEW done \in PCs, Take(p, S, more, done)
    PROVE  /\ pc' \in [Procs -> PCs]
           /\ hand' \in [Procs -> 0..MaxSegs]
           /\ list' \in [Procs -> SUBSET Segs]
           /\ pc'[p] = done \/ (pc'[p] = more /\ hand'[p] \in Segs)
           /\ \A q \in Procs \ {p} : pc'[q] = pc[q] /\ hand'[q] = hand[q]
<1>1. CASE /\ hand' = [hand EXCEPT ![p] = 0]
           /\ list' = [list EXCEPT ![p] = {}]
           /\ pc' = [pc EXCEPT ![p] = done]
  BY <1>1, BoundAssumption DEF ControlOK, ReaderOK
<1>2. CASE \E s \in S : /\ hand' = [hand EXCEPT ![p] = s]
                        /\ list' = [list EXCEPT ![p] = S \ {s}]
                        /\ pc' = [pc EXCEPT ![p] = more]
  <2>1. PICK s \in S : /\ hand' = [hand EXCEPT ![p] = s]
                       /\ list' = [list EXCEPT ![p] = S \ {s}]
                       /\ pc' = [pc EXCEPT ![p] = more]
    BY <1>2
  <2>2. s \in Segs /\ s \in 0..MaxSegs
    BY BoundAssumption DEF Segs
  <2>3. QED
    BY <2>1, <2>2 DEF ControlOK, ReaderOK
<1>3. QED
  BY <1>1, <1>2 DEF Take

LEMMA ForgetType ==
    ASSUME ControlOK, WriterOK, ReaderOK, NEW p \in Procs, Forget(p)
    PROVE  /\ ControlOK' /\ WriterOK' /\ ReaderOK'
           /\ pc'[p] = "down"
           /\ \A q \in Procs \ {p} :
                  pc'[q] = pc[q] /\ hand'[q] = hand[q] /\ pos'[q] = pos[q]
<1>1. ControlOK' /\ pc'[p] = "down"
  BY DEF ControlOK, Forget, PCs, Phases
<1>2. WriterOK'
  BY BoundAssumption DEF WriterOK, Forget, Records, Garbled
<1>3. ReaderOK'
  BY BoundAssumption DEF ReaderOK, Forget
<1>4. QED
  BY <1>1, <1>2, <1>3 DEF Forget, ControlOK, ReaderOK

LEMMA UnlockedType ==
    ASSUME FilesOK, NEW p \in Procs
    PROVE  Unlocked(p) \in [Segs -> Procs \cup {NoProc}]
BY DEF FilesOK, Unlocked

\* Nothing on disk changes but locks, cursors untouched, nothing delivered.
Quiet == UNCHANGED <<recs, cursor, delivered>>

LEMMA QuietGrows == ASSUME TypeOK, Quiet
                    PROVE  /\ Grows
                           /\ \A s \in Segs : cursor'[s] = cursor[s]
BY DEF Quiet, Grows, TypeOK, FilesOK

LEMMA QuietAccepted ==
    ASSUME Quiet, NEW p \in Procs, hand'[p] = hand[p], pos'[p] = pos[p],
           Accepted(hand[p], pos[p])
    PROVE  Accepted(hand[p], pos[p])'
BY DEF Quiet, Accepted

LEMMA ExitStep ==
    ASSUME IInv, NEW p \in Procs, Exit(p), UNCHANGED evidence,
           BoundsOK'
    PROVE  IInv'
<1>1. TypeOK'
  BY ForgetType, UnlockedType DEF IInv, TypeOK, FilesOK, EvidenceOK, Exit, evidence
<1>2. Quiet
  BY DEF Quiet, Exit, evidence
<1>3. pc'[p] = "down" /\ \A q \in Procs \ {p} :
                  pc'[q] = pc[q] /\ hand'[q] = hand[q] /\ pos'[q] = pos[q]
  BY ForgetType DEF IInv, TypeOK, Exit
<1>4. QED
  BY <1>1, <1>2, <1>3, QuietGrows, Frame DEF IInv, PassPCs, OffsetPCs
-----------------------------------------------------------------------------
(* Starting and recovering. *)

LEMMA InHand ==
    ASSUME IInv, NEW p \in Procs, pc[p] \in PassPCs
    PROVE  hand[p] \in Segs
BY DEF IInv, HasHand

LEMMA StartStep == ASSUME IInv, NEW p \in Procs, Start(p) PROVE IInv'
<1>1. Segments \in SUBSET Segs /\ "probe" \in PCs /\ "flush" \in PCs
  BY DEF Segments, PCs
<1>2. /\ pc' \in [Procs -> PCs] /\ hand' \in [Procs -> 0..MaxSegs]
      /\ list' \in [Procs -> SUBSET Segs]
      /\ pc'[p] = "flush" \/ (pc'[p] = "probe" /\ hand'[p] \in Segs)
      /\ \A q \in Procs \ {p} : pc'[q] = pc[q] /\ hand'[q] = hand[q]
  <2>1. Take(p, Segments, "probe", "flush")
    BY DEF Start
  <2>2. ControlOK /\ ReaderOK
    BY DEF IInv, TypeOK
  <2>3. QED
    BY <1>1, <2>1, <2>2, TakeType
<1>3. FilesOK' /\ WriterOK' /\ EvidenceOK'
  BY DEF IInv, TypeOK, FilesOK, WriterOK, EvidenceOK, Start, files, writer, evidence
<1>4. ControlOK' /\ ReaderOK' /\ BoundsOK'
  BY <1>2 DEF IInv, TypeOK, ControlOK, ReaderOK, BoundsOK, Start
<1>5. Quiet /\ pos' = pos
  BY DEF Start, Quiet, files, evidence
<1>6. QED
  BY <1>2, <1>3, <1>4, <1>5, QuietGrows, Frame DEF IInv, TypeOK, PassPCs, OffsetPCs

\* the first half of isLive, for Recover and Drain alike
LEMMA ProbeStep ==
    ASSUME IInv, NEW p \in Procs, NEW here \in PassPCs, NEW locked \in PassPCs,
           NEW done \in PassPCs, Probe(p, here, locked, done),
           here \in OffsetPCs \/ (locked \notin OffsetPCs /\ done \notin OffsetPCs)
    PROVE  IInv'
<1>1. CASE state[hand[p]] # "open"
  BY <1>1, ExitStep DEF Probe, bounds, BoundsOK, IInv, TypeOK
<1>2. CASE state[hand[p]] = "open"
  <2>1. pc[p] = here /\ hand[p] \in Segs /\ locked \in PCs /\ done \in PCs
    BY InHand DEF Probe, PassPCs, OffsetPCs, PCs
  <2>2. \/ lock' = [lock EXCEPT ![hand[p]] = p] /\ pc' = [pc EXCEPT ![p] = locked]
           /\ live' = [live EXCEPT ![p] = FALSE]
        \/ lock' = lock /\ pc' = [pc EXCEPT ![p] = done]
           /\ live' = [live EXCEPT ![p] = TRUE]
    BY <1>2 DEF Probe
  <2>3. UNCHANGED <<state, recs, torn, cursor, names, phase, writer, hand,
                           list, cand, comp, start, pos, markDone, evidence, bounds>>
    BY <1>2 DEF Probe
  <2>4. FilesOK'
    BY <2>1, <2>2, <2>3 DEF IInv, TypeOK, FilesOK
  <2>5. ControlOK' /\ pc'[p] \in {locked, done}
        /\ \A q \in Procs \ {p} : pc'[q] = pc[q]
    BY <2>1, <2>2, <2>3 DEF IInv, TypeOK, ControlOK
  <2>6. WriterOK' /\ EvidenceOK' /\ BoundsOK'
    BY <2>3 DEF IInv, TypeOK, WriterOK, EvidenceOK, BoundsOK, writer, evidence, bounds
  <2>7. ReaderOK'
    BY <2>2, <2>3 DEF IInv, TypeOK, ReaderOK
  <2>8. Quiet
    BY <2>3 DEF Quiet, evidence
  <2>9. pc'[p] \in OffsetPCs => Accepted(hand[p], pos[p])'
    BY <2>1, <2>3, <2>5, <2>8, QuietAccepted DEF IInv, ReadWasDelivered
  <2>10. hand' = hand /\ pos' = pos
    BY <2>3
  <2>11. QED
    BY <2>1, <2>4, <2>5, <2>6, <2>7, <2>8, <2>9, <2>10, QuietGrows, Frame
       DEF IInv, TypeOK
<1>3. QED
  BY <1>1, <1>2

LEMMA UnprobeStep ==
    ASSUME IInv, NEW p \in Procs, NEW here \in PassPCs, NEW done \in PassPCs,
           Unprobe(p, here, done), here \in OffsetPCs \/ done \notin OffsetPCs
    PROVE  IInv'
<1>1. pc[p] = here /\ hand[p] \in Segs /\ done \in PCs
  BY InHand DEF Unprobe, PassPCs, OffsetPCs, PCs
<1>2. TypeOK'
  BY <1>1 DEF IInv, TypeOK, FilesOK, ControlOK, WriterOK, ReaderOK, EvidenceOK,
              BoundsOK, Unprobe, writer, reader, evidence, bounds
<1>3. Quiet /\ hand' = hand /\ pos' = pos
  BY DEF Quiet, Unprobe, reader, evidence
<1>4. pc'[p] = done /\ \A q \in Procs \ {p} : pc'[q] = pc[q]
  BY DEF Unprobe, IInv, TypeOK, ControlOK
<1>5. pc'[p] \in OffsetPCs => Accepted(hand[p], pos[p])'
  BY <1>1, <1>3, <1>4, QuietAccepted DEF IInv, ReadWasDelivered
<1>6. QED
  BY <1>1, <1>2, <1>3, <1>4, <1>5, QuietGrows, Frame DEF IInv

LEMMA RecoverScanStep == ASSUME IInv, NEW p \in Procs, RecoverScan(p) PROVE IInv'
<1>1. CASE state[hand[p]] # "open" \/ IsGarbled(hand[p])
  BY <1>1, ExitStep DEF RecoverScan, bounds, BoundsOK, IInv, TypeOK
<1>2. CASE ~(state[hand[p]] # "open" \/ IsGarbled(hand[p]))
  <2>1. hand[p] \in Segs
    BY InHand DEF RecoverScan, PassPCs
  <2>2. IntentsIn(hand[p]) \subseteq Calls /\ CompletedIn(hand[p]) \subseteq Calls
    BY <2>1, SegmentParts DEF IInv
  <2>3. list[p] \in SUBSET Segs /\ "probe" \in PCs /\ "flush" \in PCs
    BY DEF IInv, TypeOK, ReaderOK, PCs
  <2>4. /\ pc' \in [Procs -> PCs] /\ hand' \in [Procs -> 0..MaxSegs]
        /\ list' \in [Procs -> SUBSET Segs]
        /\ pc'[p] = "flush" \/ (pc'[p] = "probe" /\ hand'[p] \in Segs)
        /\ \A q \in Procs \ {p} : pc'[q] = pc[q] /\ hand'[q] = hand[q]
    <3>1. Take(p, list[p], "probe", "flush")
      BY <1>2 DEF RecoverScan
    <3>2. QED
      BY <2>3, <3>1, TakeType DEF IInv, TypeOK
  <2>5. UNCHANGED <<files, phase, writer, start, pos, markDone, evidence, bounds>>
    BY <1>2 DEF RecoverScan
  <2>6. FilesOK' /\ WriterOK' /\ EvidenceOK' /\ BoundsOK'
    BY <2>5 DEF IInv, TypeOK, FilesOK, WriterOK, EvidenceOK, BoundsOK, files, writer,
                evidence, bounds
  <2>7. cand' \in [Procs -> SUBSET Calls] /\ comp' \in [Procs -> SUBSET Calls]
        /\ live' \in [Procs -> BOOLEAN]
    <3>1. /\ cand' = [cand EXCEPT ![p] = @ \cup
                         (IF live[p] THEN {} ELSE IntentsIn(hand[p]))]
          /\ comp' = [comp EXCEPT ![p] = @ \cup CompletedIn(hand[p])]
          /\ live' = [live EXCEPT ![p] = FALSE]
      BY <1>2 DEF RecoverScan
    <3>2. QED
      BY <2>2, <3>1 DEF IInv, TypeOK, ReaderOK
  <2>8. ControlOK' /\ ReaderOK'
    BY <2>4, <2>5, <2>7 DEF IInv, TypeOK, ControlOK, ReaderOK
  <2>9. Quiet /\ pos' = pos
    BY <2>5 DEF Quiet, files, evidence
  <2>10. QED
    BY <2>4, <2>6, <2>8, <2>9, QuietGrows, Frame DEF IInv, TypeOK, PassPCs, OffsetPCs
<1>3. QED
  BY <1>1, <1>2

\* a step that touches neither the records, the cursors nor a pass under way
LEMMA ControlStep ==
    ASSUME IInv, TypeOK', Quiet, NEW p \in Procs, NEW next \in PCs \ PassPCs,
           pc' = [pc EXCEPT ![p] = next], hand' = hand, pos' = pos
    PROVE  IInv'
<1>1. pc'[p] = next /\ \A q \in Procs \ {p} : pc'[q] = pc[q]
  BY DEF IInv, TypeOK, ControlOK
<1>2. QED
  BY <1>1, QuietGrows, Frame DEF IInv, PassPCs

LEMMA FlushOrphanStep == ASSUME IInv, NEW p \in Procs, FlushOrphan(p) PROVE IInv'
<1>1. PICK c \in Orphans(p) :
        /\ job' = [job EXCEPT ![p] = Completion(Mint(c, "orphan_intent"))]
        /\ minted' = [minted EXCEPT ![c] = @ + 1]
        /\ comp' = [comp EXCEPT ![p] = @ \cup {c}]
  BY DEF FlushOrphan
<1>2. c \in Calls /\ minted[c] \in Nat
  BY DEF IInv, TypeOK, ReaderOK, EvidenceOK, Orphans
<1>3. Completion(Mint(c, "orphan_intent")) \in Records
  BY <1>2 DEF Completion, Mint, Records, Receipts, Kinds
<1>4. UNCHANGED <<files, phase, seg, fresh, inflight, hand, list, live, cand, start,
                   pos, markDone, forwarded, delivered, bounds>>
  BY DEF FlushOrphan
<1>5. pc' = [pc EXCEPT ![p] = "append"] /\ "append" \in PCs \ PassPCs
  BY DEF FlushOrphan, PCs, PassPCs, OffsetPCs
<1>6. FilesOK' /\ ControlOK' /\ BoundsOK'
  BY <1>4, <1>5 DEF IInv, TypeOK, FilesOK, ControlOK, BoundsOK, files, bounds
<1>7. WriterOK' /\ ReaderOK' /\ EvidenceOK'
  BY <1>1, <1>2, <1>3, <1>4 DEF IInv, TypeOK, WriterOK, ReaderOK, EvidenceOK
<1>8. QED
  BY <1>4, <1>5, <1>6, <1>7, ControlStep DEF TypeOK, Quiet, files

LEMMA RecoveredStep == ASSUME IInv, NEW p \in Procs, Recovered(p) PROVE IInv'
<1>1. UNCHANGED <<state, recs, torn, cursor, names, fresh, job, inflight, hand, list,
                   live, start, pos, markDone, evidence, bounds>>
  BY DEF Recovered
<1>2. PICK next \in {"serve", "dlist"} : pc' = [pc EXCEPT ![p] = next]
  BY DEF Recovered
<1>3. next \in PCs \ PassPCs
  BY DEF PCs, PassPCs, OffsetPCs
<1>4. lock' \in [Segs -> Procs \cup {NoProc}] /\ seg' \in [Procs -> 0..MaxSegs]
      /\ phase' \in [Procs -> Phases]
  <2>1. \/ phase' = [phase EXCEPT ![p] = "serve"] /\ UNCHANGED <<seg, lock>>
        \/ /\ seg' = [seg EXCEPT ![p] = 0] /\ lock' = Unlocked(p)
           /\ UNCHANGED phase
    BY DEF Recovered
  <2>2. Unlocked(p) \in [Segs -> Procs \cup {NoProc}]
    BY UnlockedType DEF IInv, TypeOK
  <2>3. lock' \in [Segs -> Procs \cup {NoProc}]
    BY <2>1, <2>2 DEF IInv, TypeOK, FilesOK
  <2>4. QED
    BY <2>1, <2>3, BoundAssumption DEF IInv, TypeOK, ControlOK, WriterOK, Phases
<1>5. cand' \in [Procs -> SUBSET Calls] /\ comp' \in [Procs -> SUBSET Calls]
  BY DEF Recovered, IInv, TypeOK, ReaderOK
<1>6. TypeOK'
  BY <1>1, <1>2, <1>3, <1>4, <1>5 DEF IInv, TypeOK, FilesOK, ControlOK, WriterOK,
     ReaderOK, EvidenceOK, BoundsOK, evidence, bounds
<1>7. QED
  BY <1>1, <1>2, <1>3, <1>6, ControlStep DEF Quiet, evidence
-----------------------------------------------------------------------------
(* The proxy's pumps and appendLine. *)

LEMMA IntentRecord == \A c \in Calls : Intent(c) \in Records
BY DEF Intent, Records

LEMMA ServeStep == ASSUME IInv, NEW p \in Procs, Serve(p) PROVE IInv'
<1>1. CASE ClientCall(p)
  <2>1. PICK c \in Calls : job' = [job EXCEPT ![p] = Intent(c)]
    BY <1>1 DEF ClientCall
  <2>2. pc' = [pc EXCEPT ![p] = "append"] /\ "append" \in PCs \ PassPCs
        /\ UNCHANGED <<files, phase, seg, fresh, inflight, reader, evidence, bounds>>
    BY <1>1 DEF ClientCall, PCs, PassPCs, OffsetPCs
  <2>3. TypeOK'
    BY <2>1, <2>2, IntentRecord
       DEF IInv, TypeOK, FilesOK, ControlOK, WriterOK, ReaderOK, EvidenceOK, BoundsOK,
           files, reader, evidence, bounds
  <2>4. QED
    BY <2>2, <2>3, ControlStep DEF Quiet, files, reader, evidence
<1>2. CASE ServerAnswer(p)
  <2>1. PICK c \in inflight[p] :
          /\ inflight' = [inflight EXCEPT ![p] = @ \ {c}]
          /\ job' = [job EXCEPT ![p] = Completion(Mint(c, "tool_call"))]
          /\ minted' = [minted EXCEPT ![c] = @ + 1]
    BY <1>2 DEF ServerAnswer
  <2>2. pc' = [pc EXCEPT ![p] = "append"] /\ "append" \in PCs \ PassPCs
        /\ UNCHANGED <<files, phase, seg, fresh, reader, forwarded, delivered, bounds>>
    BY <1>2 DEF ServerAnswer, PCs, PassPCs, OffsetPCs
  <2>3. c \in Calls /\ minted[c] \in Nat
    BY DEF IInv, TypeOK, WriterOK, EvidenceOK
  <2>4. Completion(Mint(c, "tool_call")) \in Records
    BY <2>3 DEF Completion, Mint, Records, Receipts, Kinds
  <2>5. WriterOK' /\ EvidenceOK'
    BY <2>1, <2>2, <2>3, <2>4 DEF IInv, TypeOK, WriterOK, EvidenceOK
  <2>6. FilesOK' /\ ControlOK' /\ ReaderOK' /\ BoundsOK'
    BY <2>2 DEF IInv, TypeOK, FilesOK, ControlOK, ReaderOK, BoundsOK, files, reader, bounds
  <2>7. QED
    BY <2>2, <2>5, <2>6, ControlStep DEF TypeOK, Quiet, files, reader
<1>3. CASE Shutdown(p)
  BY <1>3, ExitStep DEF Shutdown, bounds, BoundsOK, IInv, TypeOK
<1>4. QED
  BY <1>1, <1>2, <1>3 DEF Serve

LEMMA RotateStep == ASSUME IInv, NEW p \in Procs, Rotate(p) PROVE IInv'
<1>1. Unlocked(p) \in [Segs -> Procs \cup {NoProc}]
  BY UnlockedType DEF IInv, TypeOK
<1>2. FilesOK' /\ WriterOK'
  BY <1>1, BoundAssumption DEF Rotate, IInv, TypeOK, FilesOK, WriterOK
<1>3. pc' = [pc EXCEPT ![p] = "create"] /\ "create" \in PCs \ PassPCs
  BY DEF Rotate, PCs, PassPCs, OffsetPCs
<1>4. UNCHANGED <<recs, cursor, phase, reader, evidence, bounds>>
  BY DEF Rotate
<1>5. ControlOK' /\ ReaderOK' /\ EvidenceOK' /\ BoundsOK'
  BY <1>3, <1>4 DEF IInv, TypeOK, ControlOK, ReaderOK, EvidenceOK, BoundsOK,
                    reader, evidence, bounds
<1>6. QED
  BY <1>2, <1>3, <1>4, <1>5, ControlStep DEF TypeOK, Quiet, reader, evidence

LEMMA CreateStep == ASSUME IInv, NEW p \in Procs, CreateSegment(p) PROVE IInv'
<1>1. pc' = [pc EXCEPT ![p] = "lock"] /\ "lock" \in PCs \ PassPCs
  BY DEF CreateSegment, PCs, PassPCs, OffsetPCs
<1>2. FilesOK'
  BY DEF CreateSegment, IInv, TypeOK, FilesOK
<1>3. UNCHANGED <<recs, cursor, phase, writer, reader, evidence, bounds>>
  BY DEF CreateSegment
<1>4. ControlOK' /\ WriterOK' /\ ReaderOK' /\ EvidenceOK' /\ BoundsOK'
  BY <1>1, <1>3 DEF IInv, TypeOK, ControlOK, WriterOK, ReaderOK, EvidenceOK, BoundsOK,
                    writer, reader, evidence, bounds
<1>5. QED
  BY <1>1, <1>2, <1>3, <1>4, ControlStep DEF TypeOK, Quiet, reader, evidence

LEMMA AppendFailsType ==
    ASSUME IInv, NEW p \in Procs, AppendFails(p)
    PROVE  /\ ControlOK' /\ WriterOK' /\ ReaderOK'
           /\ lock' \in [Segs -> Procs \cup {NoProc}]
           /\ pc'[p] \notin PassPCs
           /\ \A q \in Procs \ {p} :
                  pc'[q] = pc[q] /\ hand'[q] = hand[q] /\ pos'[q] = pos[q]
<1>1. CASE job[p].type = "intent"
  <2>1. /\ pc' = [pc EXCEPT ![p] = "serve"]
        /\ phase' = [phase EXCEPT ![p] = "ending"]
        /\ fresh' = [fresh EXCEPT ![p] = 0]
        /\ job' = [job EXCEPT ![p] = Garbled]
        /\ UNCHANGED <<lock, seg, inflight, reader>>
    BY <1>1 DEF AppendFails
  <2>2. ControlOK' /\ pc'[p] \notin PassPCs /\ \A q \in Procs \ {p} : pc'[q] = pc[q]
    BY <2>1 DEF IInv, TypeOK, ControlOK, PCs, Phases, PassPCs, OffsetPCs
  <2>3. Garbled \in Records
    BY DEF Records
  <2>4. WriterOK' /\ lock' \in [Segs -> Procs \cup {NoProc}]
    BY <2>1, <2>3, BoundAssumption DEF IInv, TypeOK, FilesOK, WriterOK
  <2>5. ReaderOK' /\ hand' = hand /\ pos' = pos
    BY <2>1 DEF IInv, TypeOK, ReaderOK, reader
  <2>6. QED
    BY <2>2, <2>4, <2>5
<1>2. CASE job[p].type # "intent"
  BY <1>2, ForgetType, UnlockedType
     DEF AppendFails, IInv, TypeOK, PassPCs, OffsetPCs
<1>3. QED
  BY <1>1, <1>2

LEMMA LockStep == ASSUME IInv, NEW p \in Procs, LockSegment(p) PROVE IInv'
<1>1. Quiet /\ UNCHANGED <<state, recs, torn, cursor, names, evidence, bounds>>
  BY DEF LockSegment, Quiet, evidence
<1>2. EvidenceOK' /\ BoundsOK'
  BY <1>1 DEF IInv, TypeOK, EvidenceOK, BoundsOK, evidence, bounds
<1>3. CASE GotLock(p)
  <2>1. /\ lock' = [lock EXCEPT ![fresh[p]] = p]
        /\ seg' = [seg EXCEPT ![p] = fresh[p]]
        /\ fresh' = [fresh EXCEPT ![p] = 0]
        /\ pc' = [pc EXCEPT ![p] = "append"]
        /\ UNCHANGED <<phase, job, inflight, reader>>
    BY <1>3 DEF LockSegment
  <2>2. "append" \in PCs \ PassPCs
    BY DEF PCs, PassPCs, OffsetPCs
  <2>3. FilesOK' /\ ControlOK' /\ WriterOK' /\ ReaderOK'
    <3>1. FilesOK'
      BY <1>1, <2>1 DEF IInv, TypeOK, FilesOK
    <3>2. ControlOK'
      BY <2>1, <2>2 DEF IInv, TypeOK, ControlOK
    <3>3. WriterOK'
      BY <2>1, BoundAssumption DEF IInv, TypeOK, WriterOK
    <3>4. ReaderOK'
      BY <2>1 DEF IInv, TypeOK, ReaderOK, reader
    <3>5. QED
      BY <3>1, <3>2, <3>3, <3>4
  <2>4. QED
    BY <1>1, <1>2, <2>1, <2>2, <2>3, ControlStep DEF TypeOK, reader
<1>4. CASE ~GotLock(p)
  <2>1. AppendFails(p)
    BY <1>4 DEF LockSegment
  <2>2. FilesOK'
    BY <1>1, <2>1, AppendFailsType DEF IInv, TypeOK, FilesOK
  <2>3. TypeOK'
    BY <1>2, <2>1, <2>2, AppendFailsType DEF TypeOK
  <2>4. QED
    BY <1>1, <2>1, <2>3, AppendFailsType, QuietGrows, Frame DEF IInv, OffsetPCs, PassPCs
<1>5. QED
  BY <1>3, <1>4

LEMMA ShortWriteStep == ASSUME IInv, NEW p \in Procs, ShortWrite(p) PROVE IInv'
<1>1. AppendFails(p) /\ torn' = [torn EXCEPT ![seg[p]] = TRUE]
      /\ Quiet /\ UNCHANGED <<state, recs, cursor, names, evidence>>
  BY DEF ShortWrite, Quiet, evidence
<1>2. FilesOK'
  BY <1>1, AppendFailsType DEF IInv, TypeOK, FilesOK
<1>3. EvidenceOK' /\ BoundsOK'
  BY DEF ShortWrite, IInv, TypeOK, EvidenceOK, BoundsOK, evidence
<1>4. TypeOK'
  BY <1>1, <1>2, <1>3, AppendFailsType DEF TypeOK
<1>5. QED
  BY <1>1, <1>4, AppendFailsType, QuietGrows, Frame DEF IInv, OffsetPCs, PassPCs

LEMMA WriteStep == ASSUME IInv, NEW p \in Procs, Write(p) PROVE IInv'
<1>1. Room(p) /\ Written(p)
      /\ UNCHANGED <<state, cursor, lock, names, phase, seg, fresh, reader, minted,
                      delivered, bounds>>
  BY DEF Write
<1>2. PICK next \in {"flush", "serve"} : pc' = [pc EXCEPT ![p] = next]
  BY DEF Write
<1>3. next \in PCs \ PassPCs
  BY <1>2 DEF PCs, PassPCs, OffsetPCs
<1>4. recs' \in [Segs -> Seq(Records)] /\ torn' \in [Segs -> BOOLEAN] /\ Grows
  BY <1>1, WrittenGrows DEF IInv, Grows
<1>5. job[p].type = "intent" => job[p].call \in Calls
  <2>1. job[p] \in Records
    BY DEF IInv, TypeOK, WriterOK
  <2>2. QED
    BY <2>1, RecordParts
<1>6. WriterOK' /\ EvidenceOK'
  BY <1>1, <1>5 DEF Write, IInv, TypeOK, WriterOK, EvidenceOK, Records, Garbled
<1>7. FilesOK' /\ ControlOK' /\ ReaderOK' /\ BoundsOK'
  BY <1>1, <1>2, <1>3, <1>4
     DEF IInv, TypeOK, FilesOK, ControlOK, ReaderOK, BoundsOK, reader, bounds
<1>8. pc'[p] = next /\ hand' = hand /\ pos' = pos
      /\ \A q \in Procs \ {p} : pc'[q] = pc[q]
  BY <1>1, <1>2 DEF IInv, TypeOK, ControlOK, reader
<1>9. QED
  BY <1>1, <1>3, <1>4, <1>6, <1>7, <1>8, Frame DEF IInv, TypeOK, PassPCs
-----------------------------------------------------------------------------
(* Drain.  Only here do offsets move. *)

\* the segment an offset of p belongs to
LEMMA OffsetParts ==
    ASSUME IInv, NEW p \in Procs, pc[p] \in OffsetPCs
    PROVE  /\ hand[p] \in Segs /\ pos[p] \in Nat
           /\ recs[hand[p]] \in Seq(Records) /\ Len(recs[hand[p]]) \in Nat
           /\ Accepted(hand[p], pos[p])
<1>1. hand[p] \in Segs /\ pos[p] \in Nat
  BY InHand DEF PassPCs, IInv, TypeOK, ReaderOK
<1>2. recs[hand[p]] \in Seq(Records)
  BY <1>1 DEF IInv, TypeOK, FilesOK
<1>3. QED
  BY <1>1, <1>2 DEF IInv, ReadWasDelivered

LEMMA DrainListStep == ASSUME IInv, NEW p \in Procs, DrainList(p) PROVE IInv'
<1>1. Take(p, Segments, "dread", "drained") /\ Segments \in SUBSET Segs
      /\ "dread" \in PCs /\ "drained" \in PCs
  BY DEF DrainList, Segments, PCs
<1>2. /\ pc' \in [Procs -> PCs] /\ hand' \in [Procs -> 0..MaxSegs]
      /\ list' \in [Procs -> SUBSET Segs]
      /\ pc'[p] = "drained" \/ (pc'[p] = "dread" /\ hand'[p] \in Segs)
      /\ \A q \in Procs \ {p} : pc'[q] = pc[q] /\ hand'[q] = hand[q]
  BY <1>1, TakeType DEF IInv, TypeOK
<1>3. UNCHANGED <<files, phase, writer, live, cand, comp, start, pos, evidence, bounds>>
      /\ markDone' = [markDone EXCEPT ![p] = TRUE]
  BY DEF DrainList
<1>4. FilesOK' /\ WriterOK' /\ EvidenceOK' /\ BoundsOK'
  BY <1>3 DEF IInv, TypeOK, FilesOK, WriterOK, EvidenceOK, BoundsOK, files, writer,
              evidence, bounds
<1>5. ControlOK' /\ ReaderOK'
  BY <1>2, <1>3 DEF IInv, TypeOK, ControlOK, ReaderOK
<1>6. Quiet /\ pos' = pos
  BY <1>3 DEF Quiet, files, evidence
<1>7. QED
  BY <1>2, <1>4, <1>5, <1>6, QuietGrows, Frame DEF IInv, TypeOK, PassPCs, OffsetPCs

LEMMA DrainReadStep == ASSUME IInv, NEW p \in Procs, DrainRead(p) PROVE IInv'
<1>1. CASE state[hand[p]] # "open"
  BY <1>1, ExitStep DEF DrainRead, bounds, BoundsOK, IInv, TypeOK
<1>2. CASE state[hand[p]] = "open"
  <2>1. hand[p] \in Segs /\ cursor[hand[p]] \in Nat
    BY InHand DEF DrainRead, PassPCs, IInv, TypeOK, FilesOK
  <2>2. /\ start' = [start EXCEPT ![p] = cursor[hand[p]]]
        /\ pos' = [pos EXCEPT ![p] = cursor[hand[p]]]
        /\ pc' = [pc EXCEPT ![p] = "deliver"]
        /\ UNCHANGED <<files, phase, writer, hand, list, live, cand, comp, markDone,
                       evidence, bounds>>
    BY <1>2 DEF DrainRead
  <2>3. ControlOK' /\ ReaderOK'
    BY <2>1, <2>2 DEF IInv, TypeOK, ControlOK, ReaderOK, PCs
  <2>4. FilesOK' /\ WriterOK' /\ EvidenceOK' /\ BoundsOK'
    BY <2>2 DEF IInv, TypeOK, FilesOK, WriterOK, EvidenceOK, BoundsOK, files, writer,
                evidence, bounds
  <2>5. Quiet /\ recs' = recs /\ delivered' = delivered
    BY <2>2 DEF Quiet, files, evidence
  <2>6. /\ pos'[p] = cursor[hand[p]] /\ hand' = hand
        /\ \A q \in Procs \ {p} : pc'[q] = pc[q] /\ pos'[q] = pos[q]
    BY <2>2 DEF IInv, TypeOK, ControlOK, ReaderOK
  <2>7. Accepted(hand[p], pos[p])'
    BY <2>1, <2>5, <2>6 DEF IInv, ConsumedWasDelivered, Accepted
  <2>8. QED
    BY <2>1, <2>3, <2>4, <2>5, <2>6, <2>7, QuietGrows, Frame DEF IInv, TypeOK
<1>3. QED
  BY <1>1, <1>2

LEMMA DrainRecordStep == ASSUME IInv, NEW p \in Procs, DrainRecord(p) PROVE IInv'
<1> DEFINE s == hand[p]
           n == pos[p]
<1>1. /\ s \in Segs /\ n \in Nat /\ recs[s] \in Seq(Records) /\ Len(recs[s]) \in Nat
      /\ n < Len(recs[s]) /\ Accepted(s, n)
  BY OffsetParts DEF DrainRecord, AtEOF, OffsetPCs, Accepted
<1>2. /\ pos' = [pos EXCEPT ![p] = n + 1]
      /\ UNCHANGED <<files, pc, phase, writer, hand, list, live, cand, comp, start,
                     markDone, forwarded, minted, bounds>>
  BY DEF DrainRecord
<1>3. NextRec(p) = recs[s][n + 1] /\ NextRec(p) \in Records
  BY <1>1 DEF NextRec
<1>4. /\ delivered \subseteq delivered' /\ delivered' \subseteq Receipts
      /\ NextRec(p).type = "completion" => NextRec(p).receipt \in delivered'
  <2>1. CASE NextRec(p).type = "completion"
    <3>1. delivered' = delivered \cup {NextRec(p).receipt}
      BY <2>1 DEF DrainRecord
    <3>2. NextRec(p).receipt \in Receipts
      BY <2>1, <1>3, RecordParts
    <3>3. QED
      BY <3>1, <3>2 DEF IInv, TypeOK, EvidenceOK
  <2>2. CASE NextRec(p).type # "completion"
    BY <2>2 DEF DrainRecord, IInv, TypeOK, EvidenceOK
  <2>3. QED
    BY <2>1, <2>2
<1>5. TypeOK'
  <2>1. FilesOK' /\ ControlOK' /\ WriterOK' /\ BoundsOK'
    BY <1>2 DEF IInv, TypeOK, FilesOK, ControlOK, WriterOK, BoundsOK, files, writer, bounds
  <2>2. ReaderOK' /\ EvidenceOK'
    BY <1>1, <1>2, <1>4 DEF IInv, TypeOK, ReaderOK, EvidenceOK
  <2>3. QED
    BY <2>1, <2>2 DEF TypeOK
<1>6. recs' = recs /\ cursor' = cursor /\ Grows
  BY <1>2, <1>4 DEF Grows, files, IInv, TypeOK, FilesOK
<1>7. pos'[p] = n + 1 /\ hand' = hand /\ \A q \in Procs \ {p} : pos'[q] = pos[q]
  BY <1>2 DEF IInv, TypeOK, ReaderOK
<1>8. Accepted(hand[p], pos[p])'
  <2>1. ASSUME NEW i \in 1..(n + 1), recs[s][i].type = "completion"
        PROVE  recs[s][i].receipt \in delivered'
    <3>1. CASE i = n + 1
      BY <3>1, <2>1, <1>3, <1>4
    <3>2. CASE i # n + 1
      BY <3>2, <2>1, <1>1, <1>4 DEF Accepted
    <3>3. QED
      BY <3>1, <3>2
  <2>2. QED
    BY <1>1, <1>6, <1>7, <2>1 DEF Accepted
<1>9. QED
  BY <1>1, <1>2, <1>5, <1>6, <1>7, <1>8, Frame

\* the cursor is only moved up to what the pass has read
LEMMA CursorMoves ==
    ASSUME IInv, NEW p \in Procs, pc[p] \in OffsetPCs, cursor' = Cursor(p),
           UNCHANGED <<recs, delivered>>
    PROVE  /\ cursor' \in [Segs -> Nat]
           /\ \A s \in Segs : cursor'[s] = cursor[s] \/ Accepted(s, cursor[s])'
           /\ Grows
<1>1. hand[p] \in Segs /\ pos[p] \in Nat /\ Accepted(hand[p], pos[p])
  BY OffsetParts
<1>2. \/ cursor' = cursor
      \/ cursor' = [cursor EXCEPT ![hand[p]] = pos[p]]
  BY DEF Cursor
<1>3. cursor' \in [Segs -> Nat]
  BY <1>1, <1>2 DEF IInv, TypeOK, FilesOK
<1>4. ASSUME NEW s \in Segs, cursor'[s] # cursor[s]
      PROVE  Accepted(s, cursor[s])'
  <2>1. s = hand[p] /\ cursor'[s] = pos[p]
    BY <1>1, <1>2, <1>4 DEF IInv, TypeOK, FilesOK
  <2>2. QED
    BY <1>1, <2>1 DEF Accepted
<1>5. Grows
  BY DEF Grows, IInv, TypeOK, FilesOK
<1>6. QED
  BY <1>3, <1>4, <1>5

LEMMA DrainStopsStep == ASSUME IInv, NEW p \in Procs, DrainStops(p) PROVE IInv'
<1>1. pc[p] \in OffsetPCs /\ cursor' = Cursor(p) /\ Forget(p) /\ lock' = Unlocked(p)
      /\ UNCHANGED <<state, recs, torn, names, evidence, sessions, shorts>>
  BY DEF DrainStops, OffsetPCs
<1>2. /\ cursor' \in [Segs -> Nat]
      /\ \A s \in Segs : cursor'[s] = cursor[s] \/ Accepted(s, cursor[s])'
      /\ Grows
  BY <1>1, CursorMoves DEF evidence
<1>3. FilesOK'
  BY <1>1, <1>2, UnlockedType DEF IInv, TypeOK, FilesOK
<1>4. EvidenceOK' /\ BoundsOK'
  BY <1>1 DEF DrainStops, IInv, TypeOK, EvidenceOK, BoundsOK, evidence
<1>5. /\ ControlOK' /\ WriterOK' /\ ReaderOK' /\ pc'[p] = "down"
      /\ \A q \in Procs \ {p} :
             pc'[q] = pc[q] /\ hand'[q] = hand[q] /\ pos'[q] = pos[q]
  BY <1>1, ForgetType DEF IInv, TypeOK
<1>6. QED
  BY <1>2, <1>3, <1>4, <1>5, Frame DEF TypeOK, PassPCs, OffsetPCs

LEMMA DrainEOFStep == ASSUME IInv, NEW p \in Procs, DrainEOF(p) PROVE IInv'
<1>1. pc[p] \in OffsetPCs /\ cursor' = Cursor(p) /\ pc' = [pc EXCEPT ![p] = "dprobe"]
      /\ UNCHANGED <<state, recs, torn, lock, names, phase, writer, reader,
                     evidence, bounds>>
  BY DEF DrainEOF, OffsetPCs
<1>2. /\ cursor' \in [Segs -> Nat]
      /\ \A s \in Segs : cursor'[s] = cursor[s] \/ Accepted(s, cursor[s])'
      /\ Grows
  BY <1>1, CursorMoves DEF evidence
<1>3. FilesOK'
  BY <1>1, <1>2 DEF IInv, TypeOK, FilesOK
<1>4. ControlOK' /\ WriterOK' /\ ReaderOK' /\ EvidenceOK' /\ BoundsOK'
  BY <1>1 DEF IInv, TypeOK, ControlOK, WriterOK, ReaderOK, EvidenceOK, BoundsOK, PCs,
              writer, reader, evidence, bounds
<1>5. hand' = hand /\ pos' = pos /\ \A q \in Procs \ {p} : pc'[q] = pc[q]
  BY <1>1 DEF IInv, TypeOK, ControlOK, reader
<1>6. hand[p] \in Segs /\ Accepted(hand[p], pos[p])'
  BY <1>1, <1>5, OffsetParts DEF Accepted, evidence
<1>7. QED
  BY <1>2, <1>3, <1>4, <1>5, <1>6, Frame DEF TypeOK

LEMMA AdvanceType ==
    ASSUME IInv, NEW p \in Procs, Advance(p),
           UNCHANGED <<phase, writer, cand, comp, evidence, bounds>>,
           markDone' \in [Procs -> BOOLEAN]
    PROVE  /\ ControlOK' /\ WriterOK' /\ ReaderOK' /\ EvidenceOK' /\ BoundsOK'
           /\ pc'[p] \notin OffsetPCs
           /\ pc'[p] \in PassPCs => hand'[p] \in Segs
           /\ \A q \in Procs \ {p} :
                  pc'[q] = pc[q] /\ hand'[q] = hand[q] /\ pos'[q] = pos[q]
<1>1. Take(p, list[p], "dread", "drained") /\ list[p] \in SUBSET Segs
      /\ "dread" \in PCs /\ "drained" \in PCs
  BY DEF Advance, IInv, TypeOK, ReaderOK, PCs
<1>2. /\ pc' \in [Procs -> PCs] /\ hand' \in [Procs -> 0..MaxSegs]
      /\ list' \in [Procs -> SUBSET Segs]
      /\ pc'[p] = "drained" \/ (pc'[p] = "dread" /\ hand'[p] \in Segs)
      /\ \A q \in Procs \ {p} : pc'[q] = pc[q] /\ hand'[q] = hand[q]
  <2>1. ControlOK /\ ReaderOK
    BY DEF IInv, TypeOK
  <2>2. PICK S \in SUBSET Segs, more \in PCs, done \in PCs :
           S = list[p] /\ more = "dread" /\ done = "drained"
    BY <1>1
  <2>3. Take(p, S, more, done)
    BY <1>1, <2>2
  <2>4. /\ pc' \in [Procs -> PCs] /\ hand' \in [Procs -> 0..MaxSegs]
        /\ list' \in [Procs -> SUBSET Segs]
        /\ pc'[p] = done \/ (pc'[p] = more /\ hand'[p] \in Segs)
        /\ \A q \in Procs \ {p} : pc'[q] = pc[q] /\ hand'[q] = hand[q]
    BY <2>1, <2>3, TakeType
  <2>5. QED
    BY <2>2, <2>4
<1>3. /\ live' = [live EXCEPT ![p] = FALSE]
      /\ start' = [start EXCEPT ![p] = 0]
      /\ pos' = [pos EXCEPT ![p] = 0]
  BY DEF Advance
<1>4. ReaderOK' /\ \A q \in Procs \ {p} : pos'[q] = pos[q]
  BY <1>2, <1>3 DEF IInv, TypeOK, ReaderOK
<1>5. ControlOK' /\ WriterOK' /\ EvidenceOK' /\ BoundsOK'
  BY <1>2 DEF IInv, TypeOK, ControlOK, WriterOK, EvidenceOK, BoundsOK, writer, evidence,
              bounds
<1>6. QED
  BY <1>2, <1>4, <1>5 DEF PassPCs, OffsetPCs

LEMMA DrainStatStep == ASSUME IInv, NEW p \in Procs, DrainStat(p) PROVE IInv'
<1>1. CASE state[hand[p]] # "open"
  BY <1>1, ExitStep DEF DrainStat, bounds, BoundsOK, IInv, TypeOK
<1>2. CASE state[hand[p]] = "open" /\ Markable(p)
  <2>1. /\ pc[p] = "dstat" /\ pc' = [pc EXCEPT ![p] = "drename"]
        /\ UNCHANGED <<hand, list, live, start, pos, markDone, files, phase, writer,
                       cand, comp, evidence, bounds>>
    BY <1>2 DEF DrainStat
  <2>2. FilesOK' /\ ControlOK' /\ WriterOK'
    BY <2>1 DEF IInv, TypeOK, FilesOK, ControlOK, WriterOK, PCs, files, writer
  <2>3. ReaderOK' /\ EvidenceOK' /\ BoundsOK'
    BY <2>1 DEF IInv, TypeOK, ReaderOK, EvidenceOK, BoundsOK, evidence, bounds
  <2>4. Quiet /\ hand' = hand /\ pos' = pos /\ \A q \in Procs \ {p} : pc'[q] = pc[q]
    BY <2>1 DEF Quiet, files, evidence, IInv, TypeOK, ControlOK
  <2>5. hand[p] \in Segs /\ Accepted(hand[p], pos[p])
    BY <2>1, OffsetParts DEF OffsetPCs
  <2>6. QED
    BY <2>2, <2>3, <2>4, <2>5, QuietAccepted, QuietGrows, Frame DEF IInv, TypeOK
<1>3. CASE state[hand[p]] = "open" /\ ~Markable(p)
  <2>1. /\ Advance(p) /\ markDone' = [markDone EXCEPT ![p] = FALSE]
        /\ UNCHANGED <<files, phase, writer, cand, comp, evidence, bounds>>
    BY <1>3 DEF DrainStat
  <2>2. markDone' \in [Procs -> BOOLEAN]
    BY <2>1 DEF IInv, TypeOK, ReaderOK
  <2>3. FilesOK' /\ Quiet
    BY <2>1 DEF IInv, TypeOK, FilesOK, Quiet, files, evidence
  <2>4. QED
    BY <2>1, <2>2, <2>3, AdvanceType, QuietGrows, Frame DEF IInv, TypeOK
<1>4. QED
  BY <1>1, <1>2, <1>3

LEMMA DrainRenameStep == ASSUME IInv, NEW p \in Procs, DrainRename(p) PROVE IInv'
<1>1. CASE state[hand[p]] # "open"
  BY <1>1, ExitStep DEF DrainRename, bounds, BoundsOK, IInv, TypeOK
<1>2. CASE state[hand[p]] = "open"
  <2>1. /\ state' = [state EXCEPT ![hand[p]] = "done"]
        /\ cursor' = [cursor EXCEPT ![hand[p]] = 0]
        /\ Advance(p)
        /\ UNCHANGED <<recs, torn, lock, names, phase, writer, cand, comp,
                       markDone, evidence, bounds>>
    BY <1>2 DEF DrainRename
  <2>2. FilesOK'
    BY <2>1 DEF IInv, TypeOK, FilesOK
  <2>3. Grows
    BY <2>1 DEF Grows, IInv, TypeOK, FilesOK, evidence
  <2>4. ASSUME NEW s \in Segs, cursor'[s] # cursor[s]
        PROVE  Accepted(s, cursor[s])'
    <3>1. cursor'[s] = 0 /\ recs' = recs /\ Len(recs[s]) \in Nat
      BY <2>1, <2>4 DEF IInv, TypeOK, FilesOK
    <3>2. QED
      BY <3>1 DEF Accepted
  <2>5. markDone' \in [Procs -> BOOLEAN]
    BY <2>1 DEF IInv, TypeOK, ReaderOK
  <2>6. QED
    BY <2>1, <2>2, <2>3, <2>4, <2>5, AdvanceType, Frame DEF TypeOK
<1>3. QED
  BY <1>1, <1>2

LEMMA CrashStep == ASSUME IInv, NEW p \in Procs, Crash(p) PROVE IInv'
<1>1. Forget(p) /\ lock' = Unlocked(p)
      /\ UNCHANGED <<state, cursor, names, evidence, sessions, shorts>>
  BY DEF Crash
<1>2. \/ UNCHANGED <<recs, torn>>
      \/ torn' = [torn EXCEPT ![seg[p]] = TRUE] /\ recs' = recs
      \/ Room(p) /\ Written(p)
  BY DEF Crash
<1>3. recs' \in [Segs -> Seq(Records)] /\ torn' \in [Segs -> BOOLEAN]
      /\ \A s \in Segs : /\ Len(recs[s]) <= Len(recs'[s])
                         /\ \A i \in 1..Len(recs[s]) : recs'[s][i] = recs[s][i]
  <2>1. CASE Room(p) /\ Written(p)
    BY <2>1, WrittenGrows DEF IInv
  <2>2. CASE recs' = recs
    <3>1. torn' = torn \/ torn' = [torn EXCEPT ![seg[p]] = TRUE] \/ (Room(p) /\ Written(p))
      BY <1>2
    <3>2. CASE torn' = torn \/ torn' = [torn EXCEPT ![seg[p]] = TRUE]
      <4>1. torn' \in [Segs -> BOOLEAN]
        BY <3>2 DEF IInv, TypeOK, FilesOK
      <4>2. recs' \in [Segs -> Seq(Records)] /\ \A s \in Segs : Len(recs[s]) \in Nat
        BY <2>2 DEF IInv, TypeOK, FilesOK
      <4>3. QED
        BY <2>2, <4>1, <4>2
    <3>3. QED
      BY <2>1, <3>1, <3>2
  <2>3. QED
    BY <1>2, <2>1, <2>2
<1>4. FilesOK' /\ Grows
  BY <1>1, <1>3, UnlockedType DEF IInv, TypeOK, FilesOK, Grows, evidence
<1>5. EvidenceOK' /\ BoundsOK'
  BY <1>1 DEF Crash, IInv, TypeOK, EvidenceOK, BoundsOK, evidence
<1>6. /\ ControlOK' /\ WriterOK' /\ ReaderOK' /\ pc'[p] = "down"
      /\ \A q \in Procs \ {p} :
             pc'[q] = pc[q] /\ hand'[q] = hand[q] /\ pos'[q] = pos[q]
  BY <1>1, ForgetType DEF IInv, TypeOK
<1>7. QED
  BY <1>1, <1>4, <1>5, <1>6, Frame DEF TypeOK, PassPCs, OffsetPCs

-----------------------------------------------------------------------------
(* The theorems. *)

LEMMA InitIInv == Init => IInv
<1> SUFFICES ASSUME Init PROVE IInv
  OBVIOUS
<1>1. TypeOK
  BY TypeInit
<1>2. ConsumedWasDelivered
  BY DEF Init, ConsumedWasDelivered, Accepted
<1>3. HasHand /\ ReadWasDelivered
  BY DEF Init, HasHand, ReadWasDelivered, PassPCs, OffsetPCs
<1>4. QED
  BY <1>1, <1>2, <1>3 DEF IInv

LEMMA StepIInv == IInv /\ [Next]_vars => IInv'
<1> SUFFICES ASSUME IInv, [Next]_vars PROVE IInv'
  OBVIOUS
<1>1. CASE UNCHANGED vars
  BY <1>1 DEF vars, IInv, TypeOK, FilesOK, ControlOK, WriterOK, ReaderOK, EvidenceOK,
              BoundsOK, ConsumedWasDelivered, HasHand, ReadWasDelivered, Accepted
<1>2. ASSUME NEW p \in Procs, Start(p) PROVE IInv'
  BY <1>2, StartStep
<1>3. ASSUME NEW p \in Procs, Recover(p) PROVE IInv'
  <2>1. CASE RecoverProbe(p)
    BY <2>1, ProbeStep DEF RecoverProbe, PassPCs, OffsetPCs
  <2>2. CASE RecoverUnprobe(p)
    BY <2>2, UnprobeStep DEF RecoverUnprobe, PassPCs, OffsetPCs
  <2>3. QED
    BY <1>3, <2>1, <2>2, RecoverScanStep, FlushOrphanStep, RecoveredStep DEF Recover
<1>4. ASSUME NEW p \in Procs, Serve(p) PROVE IInv'
  BY <1>4, ServeStep
<1>5. ASSUME NEW p \in Procs, AppendLine(p) PROVE IInv'
  BY <1>5, RotateStep, CreateStep, LockStep, WriteStep DEF AppendLine
<1>6. ASSUME NEW p \in Procs, Drain(p) PROVE IInv'
  <2>1. CASE DrainProbe(p)
    BY <2>1, ProbeStep DEF DrainProbe, PassPCs, OffsetPCs
  <2>2. CASE DrainUnprobe(p)
    BY <2>2, UnprobeStep DEF DrainUnprobe, PassPCs, OffsetPCs
  <2>3. CASE DrainEnds(p)
    BY <2>3, ExitStep DEF DrainEnds, bounds, BoundsOK, IInv, TypeOK
  <2>4. QED
    BY <1>6, <2>1, <2>2, <2>3, DrainListStep, DrainReadStep, DrainRecordStep,
       DrainEOFStep, DrainStatStep, DrainRenameStep DEF Drain
<1>7. ASSUME NEW p \in Procs, Fault(p) PROVE IInv'
  BY <1>7, ShortWriteStep, DrainStopsStep, CrashStep DEF Fault
<1>8. QED
  BY <1>1, <1>2, <1>3, <1>4, <1>5, <1>6, <1>7 DEF Next

LEMMA InvariantHolds == Spec => []IInv
<1>1. Init => IInv
  BY InitIInv
<1>2. IInv /\ [Next]_vars => IInv'
  BY StepIInv
<1>3. QED
  BY <1>1, <1>2, PTL DEF Spec

\* Every reachable state of the spool has its type, for any set of proxies and
\* drains, any segment size and any number of crashes and short writes.
THEOREM TypeCorrect == Spec => []TypeOK
<1>1. IInv => TypeOK
  BY DEF IInv
<1>2. QED
  BY <1>1, InvariantHolds, PTL

\* At-least-once, the half a cursor must keep: whatever processes overlap and
\* wherever they are killed, what Drain's cursor skips the sink has accepted.
THEOREM CursorNeverLoses == Spec => []ConsumedWasDelivered
<1>1. IInv => ConsumedWasDelivered
  BY DEF IInv
<1>2. QED
  BY <1>1, InvariantHolds, PTL

-----------------------------------------------------------------------------
(* The advisory lock.                                                      *)

Probing == {"unprobe", "dunprobe"}

\* not in a pump and not appending
Reading == {"down", "probe", "unprobe", "scan", "create", "lock", "dlist", "dread",
            "deliver", "dprobe", "dunprobe", "dstat", "drename", "drained"}

ProbeHolds == \A p \in Procs : pc[p] \in Probing => lock[hand[p]] = p
NoSegment == \A p \in Procs : pc[p] \in Reading => seg[p] = 0
LockInv == WriterIsLive /\ ProbeHolds /\ NoSegment

Alone(p) == \A q \in Procs \ {p} :
                pc'[q] = pc[q] /\ hand'[q] = hand[q] /\ seg'[q] = seg[q]

\* p lets go of everything
LEMMA Releases ==
    ASSUME TypeOK, HasHand, LockInv, NEW p \in Procs, lock' = Unlocked(p),
           Alone(p), seg'[p] = 0, pc'[p] \notin Probing
    PROVE  LockInv'
<1>1. \A q \in Procs \ {p} : \A s \in Segs : lock[s] = q => lock'[s] = q
  BY DEF Unlocked
<1>2. WriterIsLive'
  BY <1>1, BoundAssumption DEF LockInv, WriterIsLive, Alone, TypeOK, WriterOK, Segs
<1>3. ProbeHolds'
  BY <1>1 DEF LockInv, ProbeHolds, HasHand, Alone, Probing, PassPCs, OffsetPCs
<1>4. NoSegment'
  BY DEF LockInv, NoSegment, Alone
<1>5. QED
  BY <1>2, <1>3, <1>4 DEF LockInv

\* p keeps what it holds
LEMMA Keeps ==
    ASSUME LockInv, NEW p \in Procs, UNCHANGED <<lock, seg>>, Alone(p),
           pc'[p] \notin Probing, pc'[p] \in Reading => seg[p] = 0
    PROVE  LockInv'
BY DEF LockInv, WriterIsLive, ProbeHolds, NoSegment, Alone

LEMMA ForgetAlone ==
    ASSUME TypeOK, NEW p \in Procs, Forget(p)
    PROVE  Alone(p) /\ seg'[p] = 0 /\ pc'[p] \notin Probing
BY DEF Forget, Alone, Probing, TypeOK, ControlOK, WriterOK, ReaderOK

LEMMA ExitLock ==
    ASSUME TypeOK, HasHand, LockInv, NEW p \in Procs, Exit(p)
    PROVE  LockInv'
BY Releases, ForgetAlone DEF Exit

LEMMA TakeLock ==
    ASSUME TypeOK, LockInv, NEW p \in Procs, NEW S \in SUBSET Segs,
           NEW more \in PCs \ Probing, NEW done \in PCs \ Probing,
           Take(p, S, more, done), UNCHANGED <<lock, seg>>, pc[p] \in Reading
    PROVE  LockInv'
<1>1. seg[p] = 0
  BY DEF LockInv, NoSegment
<1>2. pc'[p] \notin Probing /\ \A q \in Procs \ {p} : pc'[q] = pc[q] /\ hand'[q] = hand[q]
  BY TakeType DEF TypeOK
<1>3. QED
  BY <1>1, <1>2, Keeps DEF Alone

-----------------------------------------------------------------------------
LEMMA ProbeLock ==
    ASSUME TypeOK, HasHand, LockInv, NEW p \in Procs, NEW here \in PassPCs \cap Reading,
           NEW locked \in Probing, NEW done \in Reading \ Probing,
           Probe(p, here, locked, done)
    PROVE  LockInv'
<1>1. CASE state[hand[p]] # "open"
  BY <1>1, ExitLock DEF Probe
<1>2. CASE state[hand[p]] = "open" /\ lock[hand[p]] = NoProc
  <2>1. /\ pc[p] = here /\ hand' = hand /\ seg' = seg
        /\ lock' = [lock EXCEPT ![hand[p]] = p] /\ pc' = [pc EXCEPT ![p] = locked]
    BY <1>2 DEF Probe, writer
  <2>2. seg[p] = 0 /\ hand[p] \in Segs
    BY <2>1 DEF LockInv, NoSegment, HasHand
  <2>3. pc'[p] = locked /\ \A q \in Procs \ {p} : pc'[q] = pc[q]
    BY <2>1 DEF TypeOK, ControlOK
  <2>4. lock'[hand[p]] = p
        /\ \A q \in Procs, s \in Segs : lock[s] = q => lock'[s] = q
    BY <1>2, <2>1, <2>2, ProcAssumption DEF TypeOK, FilesOK
  <2>5. WriterIsLive'
    BY <2>1, <2>2, <2>4, BoundAssumption
       DEF LockInv, WriterIsLive, TypeOK, WriterOK, Segs
  <2>6. ProbeHolds'
    BY <2>1, <2>3, <2>4 DEF LockInv, ProbeHolds, HasHand, Probing, PassPCs, OffsetPCs
  <2>7. NoSegment'
    BY <2>1, <2>2, <2>3 DEF LockInv, NoSegment
  <2>8. QED
    BY <2>5, <2>6, <2>7 DEF LockInv
<1>3. CASE state[hand[p]] = "open" /\ lock[hand[p]] # NoProc
  <2>1. /\ pc[p] = here /\ hand' = hand /\ seg' = seg /\ lock' = lock
        /\ pc' = [pc EXCEPT ![p] = done]
    BY <1>3 DEF Probe, writer
  <2>2. pc'[p] = done /\ Alone(p)
    BY <2>1 DEF Alone, TypeOK, ControlOK
  <2>3. QED
    BY <2>1, <2>2, Keeps DEF LockInv, NoSegment
<1>4. QED
  BY <1>1, <1>2, <1>3

LEMMA UnprobeLock ==
    ASSUME TypeOK, HasHand, LockInv, NEW p \in Procs, NEW here \in Probing,
           NEW done \in Reading \ Probing, Unprobe(p, here, done)
    PROVE  LockInv'
<1>1. /\ pc[p] = here /\ hand' = hand /\ seg' = seg
      /\ lock' = [lock EXCEPT ![hand[p]] = NoProc] /\ pc' = [pc EXCEPT ![p] = done]
  BY DEF Unprobe, writer, reader
<1>2. seg[p] = 0 /\ hand[p] \in Segs /\ lock[hand[p]] = p
  BY <1>1 DEF LockInv, NoSegment, ProbeHolds, HasHand, Probing, Reading, PassPCs,
              OffsetPCs
<1>3. pc'[p] = done /\ \A q \in Procs \ {p} : pc'[q] = pc[q]
  BY <1>1 DEF TypeOK, ControlOK
<1>4. \A q \in Procs \ {p}, s \in Segs : lock[s] = q => lock'[s] = q
  BY <1>1, <1>2 DEF TypeOK, FilesOK
<1>5. WriterIsLive'
  BY <1>1, <1>2, <1>4, BoundAssumption DEF LockInv, WriterIsLive, TypeOK, WriterOK, Segs
<1>6. ProbeHolds'
  BY <1>1, <1>3, <1>4 DEF LockInv, ProbeHolds, HasHand, Probing, PassPCs, OffsetPCs
<1>7. NoSegment'
  BY <1>1, <1>2, <1>3 DEF LockInv, NoSegment
<1>8. QED
  BY <1>5, <1>6, <1>7 DEF LockInv

LEMMA RecoverLock ==
    ASSUME TypeOK, HasHand, LockInv, NEW p \in Procs, Recover(p)
    PROVE  LockInv'
<1>1. CASE RecoverProbe(p)
  BY <1>1, ProbeLock DEF RecoverProbe, PassPCs, OffsetPCs, Reading, Probing
<1>2. CASE RecoverUnprobe(p)
  BY <1>2, UnprobeLock DEF RecoverUnprobe, Reading, Probing
<1>3. CASE RecoverScan(p)
  <2>1. CASE Exit(p)
    BY <2>1, ExitLock
  <2>2. CASE Take(p, list[p], "probe", "flush") /\ UNCHANGED <<files, writer>>
    <3>1. pc[p] \in Reading /\ list[p] \in SUBSET Segs
          /\ "probe" \in PCs \ Probing /\ "flush" \in PCs \ Probing
      BY <1>3 DEF RecoverScan, Reading, TypeOK, ReaderOK, PCs, Probing
    <3>2. QED
      BY <2>2, <3>1, TakeLock DEF files, writer
  <2>3. QED
    BY <1>3, <2>1, <2>2 DEF RecoverScan
<1>4. CASE FlushOrphan(p)
  <2>1. pc' = [pc EXCEPT ![p] = "append"] /\ UNCHANGED <<lock, seg, hand>>
    BY <1>4 DEF FlushOrphan, files
  <2>2. QED
    BY <2>1, Keeps DEF Alone, Probing, Reading, TypeOK, ControlOK
<1>5. CASE Recovered(p)
  <2>1. CASE p \in Proxies
    <3>1. pc' = [pc EXCEPT ![p] = "serve"] /\ UNCHANGED <<lock, seg, hand>>
      BY <1>5, <2>1 DEF Recovered
    <3>2. QED
      BY <3>1, Keeps DEF Alone, Probing, Reading, TypeOK, ControlOK
  <2>2. CASE p \notin Proxies
    <3>1. pc' = [pc EXCEPT ![p] = "dlist"] /\ seg' = [seg EXCEPT ![p] = 0]
          /\ lock' = Unlocked(p) /\ hand' = hand
      BY <1>5, <2>2 DEF Recovered
    <3>2. Alone(p) /\ seg'[p] = 0 /\ pc'[p] \notin Probing
      BY <3>1 DEF Alone, Probing, TypeOK, ControlOK, WriterOK
    <3>3. QED
      BY <3>1, <3>2, Releases
  <2>3. QED
    BY <2>1, <2>2
<1>6. QED
  BY <1>1, <1>2, <1>3, <1>4, <1>5 DEF Recover

LEMMA ServeLock ==
    ASSUME TypeOK, HasHand, LockInv, NEW p \in Procs, Serve(p)
    PROVE  LockInv'
<1>1. CASE ClientCall(p) \/ ServerAnswer(p)
  <2>1. pc' = [pc EXCEPT ![p] = "append"] /\ UNCHANGED <<lock, seg, hand>>
    BY <1>1 DEF ClientCall, ServerAnswer, files, reader
  <2>2. QED
    BY <2>1, Keeps DEF Alone, Probing, Reading, TypeOK, ControlOK
<1>2. CASE Shutdown(p)
  BY <1>2, ExitLock DEF Shutdown
<1>3. QED
  BY <1>1, <1>2 DEF Serve

LEMMA AppendFailsLock ==
    ASSUME TypeOK, HasHand, LockInv, NEW p \in Procs, AppendFails(p)
    PROVE  LockInv'
<1>1. CASE job[p].type = "intent"
  <2>1. pc' = [pc EXCEPT ![p] = "serve"] /\ UNCHANGED <<lock, seg, hand>>
    BY <1>1 DEF AppendFails, reader
  <2>2. QED
    BY <2>1, Keeps DEF Alone, Probing, Reading, TypeOK, ControlOK
<1>2. CASE job[p].type # "intent"
  BY <1>2, Releases, ForgetAlone DEF AppendFails
<1>3. QED
  BY <1>1, <1>2

LEMMA AppendLock ==
    ASSUME TypeOK, HasHand, LockInv, NEW p \in Procs, AppendLine(p)
    PROVE  LockInv'
<1>1. CASE Rotate(p)
  <2>1. pc' = [pc EXCEPT ![p] = "create"] /\ seg' = [seg EXCEPT ![p] = 0]
        /\ lock' = Unlocked(p) /\ hand' = hand
    BY <1>1 DEF Rotate, reader
  <2>2. Alone(p) /\ seg'[p] = 0 /\ pc'[p] \notin Probing
    BY <2>1 DEF Alone, Probing, TypeOK, ControlOK, WriterOK
  <2>3. QED
    BY <2>1, <2>2, Releases
<1>2. CASE CreateSegment(p)
  <2>1. /\ pc[p] = "create" /\ pc' = [pc EXCEPT ![p] = "lock"]
        /\ UNCHANGED <<lock, seg, hand>>
    BY <1>2 DEF CreateSegment, writer, reader
  <2>2. seg[p] = 0
    BY <2>1 DEF LockInv, NoSegment, Reading
  <2>3. QED
    BY <2>1, <2>2, Keeps DEF Alone, Probing, TypeOK, ControlOK
<1>3. CASE LockSegment(p) /\ ~GotLock(p)
  BY <1>3, AppendFailsLock DEF LockSegment
<1>4. CASE LockSegment(p) /\ GotLock(p)
  <2>1. /\ pc[p] = "lock" /\ pc' = [pc EXCEPT ![p] = "append"] /\ hand' = hand
        /\ lock[fresh[p]] = NoProc /\ lock' = [lock EXCEPT ![fresh[p]] = p]
        /\ seg' = [seg EXCEPT ![p] = fresh[p]]
    BY <1>4 DEF LockSegment, GotLock, reader
  <2>2. pc'[p] = "append" /\ seg'[p] = fresh[p] /\ Alone(p)
    BY <2>1 DEF Alone, TypeOK, ControlOK, WriterOK
  <2>3. \A q \in Procs, s \in Segs : lock[s] = q => lock'[s] = q
    BY <2>1, ProcAssumption DEF TypeOK, FilesOK
  <2>4. fresh[p] # 0 => lock'[fresh[p]] = p
    BY <2>1, BoundAssumption DEF TypeOK, FilesOK, WriterOK, Segs
  <2>5. WriterIsLive'
    BY <2>2, <2>3, <2>4, BoundAssumption
       DEF LockInv, WriterIsLive, Alone, TypeOK, WriterOK, Segs
  <2>6. ProbeHolds'
    BY <2>2, <2>3 DEF LockInv, ProbeHolds, HasHand, Alone, Probing, PassPCs, OffsetPCs
  <2>7. NoSegment'
    BY <2>2 DEF LockInv, NoSegment, Alone, Reading
  <2>8. QED
    BY <2>5, <2>6, <2>7 DEF LockInv
<1>5. CASE Write(p)
  <2>1. UNCHANGED <<lock, seg, hand>>
        /\ \E next \in {"flush", "serve"} : pc' = [pc EXCEPT ![p] = next]
    BY <1>5 DEF Write, reader
  <2>2. QED
    BY <2>1, Keeps DEF Alone, Probing, Reading, TypeOK, ControlOK
<1>6. QED
  BY <1>1, <1>2, <1>3, <1>4, <1>5 DEF AppendLine

LEMMA AdvanceLock ==
    ASSUME TypeOK, HasHand, LockInv, NEW p \in Procs, Advance(p), pc[p] \in Reading,
           UNCHANGED <<lock, seg>>
    PROVE  LockInv'
<1>1. Take(p, list[p], "dread", "drained") /\ list[p] \in SUBSET Segs
      /\ "dread" \in PCs \ Probing /\ "drained" \in PCs \ Probing
  BY DEF Advance, TypeOK, ReaderOK, PCs, Probing
<1>2. QED
  BY <1>1, TakeLock

LEMMA DrainLock ==
    ASSUME TypeOK, HasHand, LockInv, NEW p \in Procs, Drain(p)
    PROVE  LockInv'
<1>1. CASE DrainList(p)
  <2>1. Take(p, Segments, "dread", "drained") /\ Segments \in SUBSET Segs
        /\ "dread" \in PCs \ Probing /\ "drained" \in PCs \ Probing
        /\ pc[p] \in Reading /\ UNCHANGED <<lock, seg>>
    BY <1>1 DEF DrainList, Segments, PCs, Probing, Reading, files, writer
  <2>2. QED
    BY <2>1, TakeLock
<1>2. CASE Exit(p)
  BY <1>2, ExitLock
<1>3. CASE /\ pc[p] \in Reading /\ UNCHANGED <<lock, seg, hand>>
           /\ \/ pc' = pc /\ pc[p] = "deliver"
              \/ pc' = [pc EXCEPT ![p] = "deliver"]
              \/ pc' = [pc EXCEPT ![p] = "dprobe"]
              \/ pc' = [pc EXCEPT ![p] = "drename"]
  <2>1. seg[p] = 0 /\ Alone(p) /\ pc'[p] \notin Probing
    BY <1>3 DEF LockInv, NoSegment, Alone, Probing, TypeOK, ControlOK
  <2>2. QED
    BY <1>3, <2>1, Keeps
<1>4. CASE DrainRead(p)
  BY <1>2, <1>3, <1>4 DEF DrainRead, Reading, files, writer
<1>5. CASE DrainRecord(p)
  BY <1>3, <1>5 DEF DrainRecord, Reading, files, writer
<1>6. CASE DrainEOF(p)
  BY <1>3, <1>6 DEF DrainEOF, Reading, writer, reader
<1>7. CASE DrainProbe(p)
  BY <1>7, ProbeLock DEF DrainProbe, PassPCs, OffsetPCs, Reading, Probing
<1>8. CASE DrainUnprobe(p)
  BY <1>8, UnprobeLock DEF DrainUnprobe, Reading, Probing
<1>9. CASE DrainStat(p)
  BY <1>2, <1>3, <1>9, AdvanceLock DEF DrainStat, Reading, files, writer
<1>10. CASE DrainRename(p)
  BY <1>2, <1>10, AdvanceLock DEF DrainRename, Reading, writer
<1>11. CASE DrainEnds(p)
  BY <1>2, <1>11 DEF DrainEnds
<1>12. QED
  BY <1>1, <1>4, <1>5, <1>6, <1>7, <1>8, <1>9, <1>10, <1>11 DEF Drain

-----------------------------------------------------------------------------
LEMMA LockStepInv ==
    ASSUME IInv, LockInv, [Next]_vars
    PROVE  LockInv'
<1>1. TypeOK /\ HasHand
  BY DEF IInv
<1>2. CASE UNCHANGED vars
  BY <1>2 DEF vars, LockInv, WriterIsLive, ProbeHolds, NoSegment
<1>3. ASSUME NEW p \in Procs, Start(p) PROVE LockInv'
  <2>1. Take(p, Segments, "probe", "flush") /\ Segments \in SUBSET Segs
        /\ "probe" \in PCs \ Probing /\ "flush" \in PCs \ Probing
        /\ pc[p] \in Reading /\ UNCHANGED <<lock, seg>>
    BY <1>3 DEF Start, Segments, PCs, Probing, Reading, files, writer
  <2>2. QED
    BY <1>1, <2>1, TakeLock
<1>4. ASSUME NEW p \in Procs, Fault(p) PROVE LockInv'
  <2>1. CASE ShortWrite(p)
    BY <1>1, <2>1, AppendFailsLock DEF ShortWrite
  <2>2. CASE DrainStops(p)
    BY <1>1, <2>2, Releases, ForgetAlone DEF DrainStops
  <2>3. CASE Crash(p)
    BY <1>1, <2>3, Releases, ForgetAlone DEF Crash
  <2>4. QED
    BY <1>4, <2>1, <2>2, <2>3 DEF Fault
<1>5. QED
  BY <1>1, <1>2, <1>3, <1>4, RecoverLock, ServeLock, AppendLock, DrainLock DEF Next

LEMMA LockInit == Init => LockInv
BY DEF Init, LockInv, WriterIsLive, ProbeHolds, NoSegment, Probing

\* A process that can append to a segment holds its lock, so isLive reports it
\* live, however probes, rotations and crashes interleave.
THEOREM WriterHoldsLock == Spec => []WriterIsLive
<1>1. Init => LockInv
  BY LockInit
<1>2. IInv /\ LockInv /\ [Next]_vars => LockInv'
  BY LockStepInv
<1>3. LockInv => WriterIsLive
  BY DEF LockInv
<1>4. QED
  BY <1>1, <1>2, <1>3, InvariantHolds, PTL DEF Spec

\* Two processes never append to one segment.
COROLLARY OneWriter ==
    Spec => [](\A p, q \in Procs : seg[p] # 0 /\ seg[p] = seg[q] => p = q)
<1>1. WriterIsLive => \A p, q \in Procs : seg[p] # 0 /\ seg[p] = seg[q] => p = q
  BY DEF WriterIsLive
<1>2. QED
  BY <1>1, WriterHoldsLock, PTL

-----------------------------------------------------------------------------
(***************************************************************************)
(* Custody before the boundary, and no completion hidden in a .done file,  *)
(* for any number of proxies and drains on one spool at a time.            *)
(*                                                                         *)
(* The second is why the drain may skip .done files when recovery looks    *)
(* for orphans.  It rests on an order nobody writes down: a call is closed *)
(* in the segment that opened it or in a later one (Ordered), a drain      *)
(* takes the segments in name order and stops marking at the first it      *)
(* cannot finish (Passing, PassMarks), so whatever a .done segment         *)
(* closes, or its writer may yet close there, was opened in a .done        *)
(* segment (DoneBehind).                                                   *)
(***************************************************************************)

Naming == {"create", "lock"}
Appending == {"append"} \cup Naming
Pumping == {"serve"} \cup Appending

\* the segment p appends to, or is creating
Claim(p) == IF pc[p] \in Naming THEN fresh[p] ELSE seg[p]

\* the call p is appending a completion for
JobCalls(p) == {c \in Calls : job[p].type = "completion" /\ job[p].receipt.call = c}

\* the calls p may yet append a completion for
Owed(p) == inflight[p] \cup cand[p] \cup JobCalls(p)

Opened(c) == \E s \in Segs : c \in IntentsIn(s)

\* segment t closes c, or its writer may yet close c there
Bound(t, c) == c \in CompletedIn(t) \/ \E p \in Procs : Claim(p) = t /\ c \in Owed(p)

\* names are minted before they are used, and a name not yet created is empty
FilesNamed ==
    \A s \in Segs : /\ state[s] # "absent" => s <= names
                    /\ state[s] = "absent" => recs[s] = <<>> /\ ~torn[s]

\* p's own segment exists unless p is creating it, and p asks for no intent
\* behind part of a line
Stands(p) ==
    /\ Claim(p) \in 0..names
    /\ pc[p] = "create" => fresh[p] # 0 /\ state[fresh[p]] = "absent"
    /\ pc[p] = "lock" =>
          fresh[p] # 0 /\ state[fresh[p]] # "absent" /\ ~torn[fresh[p]]
    /\ seg[p] # 0 => state[seg[p]] # "absent"
    /\ seg[p] # 0 /\ torn[seg[p]] => phase[p] = "ending"
    /\ job[p].type = "intent" => phase[p] = "serve"
    /\ job[p] # Garbled => pc[p] \in Appending
    /\ pc[p] \notin Pumping => phase[p] = "flush"
    /\ pc[p] = "serve" => phase[p] # "flush"

WritersStand == \A p \in Procs : Stands(p)

OneClaim == \A p, q \in Procs : Claim(p) # 0 /\ Claim(p) = Claim(q) => p = q

\* the intent comes first, and once
Opens ==
    /\ \A p \in Procs : \A c \in Owed(p) : Opened(c)
    /\ \A s \in Segs : \A c \in CompletedIn(s) : Opened(c)
    /\ \A p \in Procs, c \in Calls : job[p] = Intent(c) =>
          ~Opened(c) /\ \A q \in Procs : job[q] = Intent(c) => p = q

Ordered == \A s, t \in Segs : \A c \in IntentsIn(s) : Bound(t, c) => s <= t

DrainPass == {"dread"} \cup OffsetPCs

\* the segments a pass has not left behind
Ahead(p) == list[p] \cup {hand[p]}

\* a drain takes the segments in name order
InOrder(p) ==
    /\ \A s \in list[p] : hand[p] < s
    /\ \A s \in Ahead(p) : s \in Segs /\ state[s] # "absent"
    /\ pc[p] = "drename" => markDone[p]

Passing == \A p \in Procs : pc[p] \in DrainPass => InOrder(p)

\* while a pass may mark, what the segments ahead of it close was opened ahead
\* of it too, or in a .done segment
MayMark(p) ==
    \A t \in Ahead(p), s \in Segs : \A c \in IntentsIn(s) :
        Bound(t, c) => state[s] = "done" \/ s \in Ahead(p)

PassMarks == \A p \in Procs : pc[p] \in DrainPass /\ markDone[p] => MayMark(p)

DoneBehind ==
    \A s, t \in Segs : \A c \in IntentsIn(s) :
        state[t] = "done" /\ Bound(t, c) => state[s] = "done"

CustodyInv == /\ FilesNamed /\ WritersStand /\ OneClaim /\ Opens /\ Ordered
              /\ Passing /\ PassMarks /\ DoneBehind /\ CustodyBeforeForward

LEMMA CustodyInit == Init => CustodyInv
<1> SUFFICES ASSUME Init PROVE CustodyInv
  OBVIOUS
<1>1. \A s \in Segs : IntentsIn(s) = {} /\ CompletedIn(s) = {}
  BY DEF Init, IntentsIn, CompletedIn, ReceiptsIn
<1>2. \A p \in Procs : Claim(p) = 0 /\ Owed(p) = {} /\ job[p] = Garbled
  BY DEF Init, Claim, Naming, Owed, JobCalls, Garbled
<1>3. FilesNamed /\ Passing /\ PassMarks
  BY DEF Init, FilesNamed, Passing, PassMarks, DrainPass, OffsetPCs
<1>4. WritersStand
  BY <1>2 DEF Init, WritersStand, Stands, Pumping, Appending, Naming, Garbled
<1>5. OneClaim /\ Opens /\ Ordered /\ DoneBehind
  BY <1>1, <1>2 DEF OneClaim, Opens, Ordered, DoneBehind, Intent, Garbled
<1>6. CustodyBeforeForward
  BY DEF Init, CustodyBeforeForward
<1>7. QED
  BY <1>3, <1>4, <1>5, <1>6 DEF CustodyInv

-----------------------------------------------------------------------------
(* A step of p leaves the rest of the processes alone.                     *)

OthersStay(p) ==
    \A q \in Procs \ {p} :
        /\ pc'[q] = pc[q] /\ phase'[q] = phase[q]
        /\ seg'[q] = seg[q] /\ fresh'[q] = fresh[q]
        /\ job'[q] = job[q] /\ inflight'[q] = inflight[q]
        /\ hand'[q] = hand[q] /\ list'[q] = list[q]
        /\ live'[q] = live[q] /\ cand'[q] = cand[q] /\ comp'[q] = comp[q]
        /\ start'[q] = start[q] /\ pos'[q] = pos[q] /\ markDone'[q] = markDone[q]

LEMMA ForgetOthers ==
    ASSUME TypeOK, NEW p \in Procs, Forget(p)
    PROVE  OthersStay(p)
BY DEF OthersStay, Forget, TypeOK, ControlOK, WriterOK, ReaderOK

LEMMA TakeOthers ==
    ASSUME TypeOK, NEW p \in Procs, NEW S, NEW more, NEW done, Take(p, S, more, done)
    PROVE  \A q \in Procs \ {p} :
              pc'[q] = pc[q] /\ hand'[q] = hand[q] /\ list'[q] = list[q]
BY DEF Take, TypeOK, ControlOK, ReaderOK

LEMMA ProbeOthers ==
    ASSUME TypeOK, NEW p \in Procs, NEW here, NEW locked, NEW done,
           Probe(p, here, locked, done)
    PROVE  OthersStay(p)
<1>1. CASE Exit(p)
  BY <1>1, ForgetOthers DEF Exit
<1>2. CASE state[hand[p]] = "open"
  BY <1>2 DEF Probe, OthersStay, TypeOK, ControlOK, ReaderOK, writer
<1>3. QED
  BY <1>1, <1>2 DEF Probe

LEMMA AppendFailsOthers ==
    ASSUME TypeOK, NEW p \in Procs, AppendFails(p)
    PROVE  OthersStay(p)
<1>1. CASE job[p].type = "intent"
  BY <1>1 DEF AppendFails, OthersStay, TypeOK, ControlOK, WriterOK, reader
<1>2. CASE job[p].type # "intent"
  BY <1>2, ForgetOthers DEF AppendFails
<1>3. QED
  BY <1>1, <1>2

LEMMA AdvanceOthers ==
    ASSUME TypeOK, NEW p \in Procs, Advance(p), UNCHANGED <<phase, writer, cand, comp>>,
           markDone' = markDone \/ markDone' = [markDone EXCEPT ![p] = FALSE]
    PROVE  OthersStay(p)
<1>1. \A q \in Procs \ {p} :
              pc'[q] = pc[q] /\ hand'[q] = hand[q] /\ list'[q] = list[q]
  BY TakeOthers DEF Advance
<1>2. QED
  BY <1>1 DEF Advance, OthersStay, TypeOK, ReaderOK, writer

LEMMA StepOthers ==
    ASSUME TypeOK, NEW p \in Procs,
           Start(p) \/ Recover(p) \/ Serve(p) \/ AppendLine(p) \/ Drain(p) \/ Fault(p)
    PROVE  OthersStay(p)
<1>1. CASE Start(p)
  <2>1. Take(p, Segments, "probe", "flush")
    BY <1>1 DEF Start
  <2>2. QED
    BY <1>1, <2>1, TakeOthers DEF Start, OthersStay, writer
<1>2. CASE Recover(p)
  <2>1. CASE RecoverProbe(p)
    BY <2>1, ProbeOthers DEF RecoverProbe
  <2>2. CASE RecoverUnprobe(p)
    BY <2>2 DEF RecoverUnprobe, Unprobe, OthersStay, TypeOK, ControlOK, writer, reader
  <2>3. CASE RecoverScan(p) /\ ~Exit(p)
    <3>1. Take(p, list[p], "probe", "flush")
      BY <2>3 DEF RecoverScan
    <3>2. QED
      BY <2>3, <3>1, TakeOthers
         DEF RecoverScan, OthersStay, TypeOK, ReaderOK, writer
  <2>4. CASE FlushOrphan(p)
    BY <2>4 DEF FlushOrphan, OthersStay, TypeOK, ControlOK, WriterOK, ReaderOK
  <2>5. CASE Recovered(p)
    <3>1. phase' = phase \/ phase' = [phase EXCEPT ![p] = "serve"]
      BY <2>5 DEF Recovered
    <3>2. seg' = seg \/ seg' = [seg EXCEPT ![p] = 0]
      BY <2>5 DEF Recovered
    <3>3. \E next \in PCs : pc' = [pc EXCEPT ![p] = next]
      BY <2>5 DEF Recovered, PCs
    <3>4. QED
      BY <2>5, <3>1, <3>2, <3>3
         DEF Recovered, OthersStay, TypeOK, ControlOK, WriterOK, ReaderOK
  <2>6. QED
    BY <1>2, <2>1, <2>2, <2>3, <2>4, <2>5, ForgetOthers DEF Recover, Exit
<1>3. CASE Serve(p)
  <2>1. CASE ClientCall(p) \/ ServerAnswer(p)
    BY <2>1 DEF ClientCall, ServerAnswer, OthersStay, TypeOK, ControlOK, WriterOK, reader
  <2>2. QED
    BY <1>3, <2>1, ForgetOthers DEF Serve, Shutdown, Exit
<1>4. CASE AppendLine(p)
  <2>1. CASE Rotate(p) \/ CreateSegment(p)
    BY <2>1
       DEF Rotate, CreateSegment, OthersStay, TypeOK, ControlOK, WriterOK, writer, reader
  <2>2. CASE LockSegment(p) /\ ~AppendFails(p)
    BY <2>2 DEF LockSegment, OthersStay, TypeOK, ControlOK, WriterOK, reader
  <2>3. CASE LockSegment(p) /\ AppendFails(p)
    BY <2>3, AppendFailsOthers
  <2>4. CASE Write(p)
    BY <2>4 DEF Write, OthersStay, TypeOK, ControlOK, WriterOK, reader
  <2>5. QED
    BY <1>4, <2>1, <2>2, <2>3, <2>4 DEF AppendLine
<1>5. CASE Drain(p)
  <2>1. CASE DrainList(p)
    <3>1. Take(p, Segments, "dread", "drained")
      BY <2>1 DEF DrainList
    <3>2. QED
      BY <2>1, <3>1, TakeOthers DEF DrainList, OthersStay, TypeOK, ReaderOK, writer
  <2>2. CASE Exit(p)
    BY <2>2, ForgetOthers DEF Exit
  <2>3. CASE DrainRead(p) /\ ~Exit(p)
    BY <2>3 DEF DrainRead, OthersStay, TypeOK, ControlOK, ReaderOK, writer
  <2>4. CASE DrainRecord(p)
    BY <2>4 DEF DrainRecord, OthersStay, TypeOK, ReaderOK, writer
  <2>5. CASE DrainEOF(p)
    BY <2>5 DEF DrainEOF, OthersStay, TypeOK, ControlOK, writer, reader
  <2>6. CASE DrainProbe(p)
    BY <2>6, ProbeOthers DEF DrainProbe
  <2>7. CASE DrainUnprobe(p)
    BY <2>7 DEF DrainUnprobe, Unprobe, OthersStay, TypeOK, ControlOK, writer, reader
  <2>8. CASE DrainStat(p) /\ Markable(p) /\ ~Exit(p)
    BY <2>8 DEF DrainStat, OthersStay, TypeOK, ControlOK, writer
  <2>9. CASE DrainStat(p) /\ ~Markable(p) /\ ~Exit(p)
    BY <2>9, AdvanceOthers DEF DrainStat
  <2>10. CASE DrainRename(p) /\ ~Exit(p)
    BY <2>10, AdvanceOthers DEF DrainRename
  <2>11. CASE DrainEnds(p)
    BY <2>2, <2>11 DEF DrainEnds
  <2>12. QED
    BY <1>5, <2>1, <2>2, <2>3, <2>4, <2>5, <2>6, <2>7, <2>8, <2>9, <2>10, <2>11 DEF Drain
<1>6. CASE Fault(p)
  BY <1>6, ForgetOthers, AppendFailsOthers DEF Fault, ShortWrite, DrainStops, Crash
<1>7. QED
  BY <1>1, <1>2, <1>3, <1>4, <1>5, <1>6

-----------------------------------------------------------------------------
(* What one write does to the files.                                       *)

\* the line that lands: behind part of a line it does not parse
Line(p) == IF torn[seg[p]] THEN Garbled ELSE job[p]

LEMMA WrittenReads ==
    ASSUME TypeOK, NEW p \in Procs, Room(p), Written(p)
    PROVE  /\ seg[p] \in Segs
           /\ torn' = [torn EXCEPT ![seg[p]] = FALSE]
           /\ \A s \in Segs \ {seg[p]} : recs'[s] = recs[s]
           /\ \A s \in Segs : s = seg[p] =>
                /\ IntentsIn(s)' = IntentsIn(s) \cup {c \in Calls : Line(p) = Intent(c)}
                /\ ReceiptsIn(s)' = ReceiptsIn(s)
                     \cup (IF Line(p).type = "completion" THEN {Line(p).receipt} ELSE {})
<1>1. seg[p] \in Segs /\ torn' = [torn EXCEPT ![seg[p]] = FALSE]
  BY BoundAssumption DEF TypeOK, WriterOK, Room, Segs, Written
<1>2. \A s \in Segs \ {seg[p]} : recs'[s] = recs[s]
  BY DEF Written, TypeOK, FilesOK
<1>3. SUFFICES ASSUME NEW s \in Segs, s = seg[p]
               PROVE  /\ IntentsIn(s)' = IntentsIn(s) \cup {c \in Calls : Line(p) = Intent(c)}
                      /\ ReceiptsIn(s)' = ReceiptsIn(s)
                           \cup (IF Line(p).type = "completion" THEN {Line(p).receipt} ELSE {})
  BY <1>1, <1>2
<1>4. PICK r : r = Line(p)
  OBVIOUS
<1>5. recs[s] \in Seq(Records) /\ r \in Records
  BY <1>3, <1>4 DEF TypeOK, FilesOK, WriterOK, Line, Records
<1>6. recs'[s] = Append(recs[s], r)
  BY <1>1, <1>3, <1>4 DEF Written, Line, TypeOK, FilesOK
<1>7. PICK n \in Nat : n = Len(recs[s])
  BY <1>5
<1>8. /\ DOMAIN recs[s] = 1..n /\ DOMAIN recs'[s] = 1..(n + 1)
      /\ \A i \in 1..n : recs'[s][i] = recs[s][i]
      /\ recs'[s][n + 1] = r
  BY <1>5, <1>6, <1>7
<1>9. \A i : i \in 1..(n + 1) <=> i \in 1..n \/ i = n + 1
  BY <1>7
<1>10. IntentsIn(s)' = IntentsIn(s) \cup {c \in Calls : r = Intent(c)}
  <2>1. IntentsIn(s)' = {c \in Calls : \E i \in DOMAIN recs'[s] : recs'[s][i] = Intent(c)}
    BY DEF IntentsIn, Intent
  <2>2. QED
    BY <1>8, <1>9, <2>1 DEF IntentsIn
<1>11. ReceiptsIn(s)' = ReceiptsIn(s) \cup (IF r.type = "completion" THEN {r.receipt} ELSE {})
  <2>1. ReceiptsIn(s)' = {recs'[s][i].receipt :
                            i \in {j \in DOMAIN recs'[s] : recs'[s][j].type = "completion"}}
    BY DEF ReceiptsIn
  <2>2. QED
    BY <1>8, <1>9, <2>1 DEF ReceiptsIn
<1>12. QED
  BY <1>4, <1>10, <1>11

LEMMA SameReads ==
    ASSUME NEW s \in Segs, recs'[s] = recs[s]
    PROVE  IntentsIn(s)' = IntentsIn(s) /\ ReceiptsIn(s)' = ReceiptsIn(s)
           /\ CompletedIn(s)' = CompletedIn(s)
BY DEF IntentsIn, ReceiptsIn, CompletedIn, Intent

\* the call a written line closes was owed, the call it opens was asked for
LEMMA WrittenCalls ==
    ASSUME TypeOK, NEW p \in Procs, Room(p), Written(p), NEW s \in Segs
    PROVE  /\ IntentsIn(s) \subseteq IntentsIn(s)'
           /\ CompletedIn(s) \subseteq CompletedIn(s)'
           /\ \A c \in IntentsIn(s)' : \/ c \in IntentsIn(s)
                                       \/ s = seg[p] /\ ~torn[s] /\ job[p] = Intent(c)
           /\ \A c \in CompletedIn(s)' : \/ c \in CompletedIn(s)
                                         \/ s = seg[p] /\ ~torn[s] /\ c \in JobCalls(p)
<1>1. CASE s # seg[p]
  BY <1>1, WrittenReads, SameReads
<1>2. CASE s = seg[p]
  <2>1. IntentsIn(s)' = IntentsIn(s) \cup {c \in Calls : Line(p) = Intent(c)}
    BY <1>2, WrittenReads
  <2>2. ReceiptsIn(s)' = ReceiptsIn(s)
          \cup (IF Line(p).type = "completion" THEN {Line(p).receipt} ELSE {})
    BY <1>2, WrittenReads
  <2>3. CompletedIn(s)' = {r.call : r \in ReceiptsIn(s)'}
    BY DEF CompletedIn
  <2>4. Line(p) # Garbled => ~torn[s] /\ Line(p) = job[p]
    BY <1>2 DEF Line
  <2>5. Garbled.type # "completion" /\ \A c : Garbled # Intent(c)
    BY DEF Garbled, Intent
  <2>6. Line(p).type = "completion" => Line(p).receipt.call \in JobCalls(p)
    BY <2>4, <2>5, RecordParts DEF JobCalls, TypeOK, WriterOK
  <2>7. QED
    BY <1>2, <2>1, <2>2, <2>3, <2>4, <2>5, <2>6 DEF CompletedIn
<1>3. QED
  BY <1>1, <1>2

LEMMA OthersKept ==
    ASSUME NEW p \in Procs, OthersStay(p), NEW q \in Procs \ {p}
    PROVE  /\ Claim(q)' = Claim(q) /\ Owed(q)' = Owed(q) /\ JobCalls(q)' = JobCalls(q)
           /\ job'[q] = job[q] /\ Ahead(q)' = Ahead(q)
BY DEF OthersStay, Claim, Owed, JobCalls, Ahead

\* a segment another process stands on is not disturbed
LEMMA OtherStands ==
    ASSUME TypeOK, WritersStand, NoSegment, NEW p \in Procs, OthersStay(p),
           NEW q \in Procs \ {p}, names' \in Nat, names <= names',
           \A s \in Segs : /\ s = Claim(q) => state'[s] = state[s]
                           /\ s = Claim(q) => torn'[s] = torn[s]
    PROVE  Stands(q)'
<1>1. Stands(q) /\ Claim(q)' = Claim(q)
  BY OthersKept DEF WritersStand
<1>2. /\ pc'[q] = pc[q] /\ phase'[q] = phase[q] /\ seg'[q] = seg[q]
      /\ fresh'[q] = fresh[q] /\ job'[q] = job[q]
  BY DEF OthersStay
<1>3. /\ pc[q] \in Naming => Claim(q) = fresh[q]
      /\ seg[q] # 0 => Claim(q) = seg[q]
  BY DEF Claim, NoSegment, Naming, Reading
<1>4. /\ seg[q] # 0 => seg[q] \in Segs
      /\ fresh[q] # 0 => fresh[q] \in Segs
  BY BoundAssumption DEF TypeOK, WriterOK, Segs
<1>5. Claim(q) \in 0..names'
  BY <1>1, BoundAssumption DEF Stands, TypeOK, FilesOK
<1>6. QED
  BY <1>1, <1>2, <1>3, <1>4, <1>5 DEF Stands, Naming

-----------------------------------------------------------------------------
(* Steps that append nothing and mint no name.                             *)

\* what the pass of p knows after the step: it knew it before, or has just
\* listed the directory
KnowsMarks(p) ==
    \/ pc[p] \in DrainPass /\ markDone[p] /\ Ahead(p)' = Ahead(p)
    \/ Ahead(p)' = Segments

\* an intent asked for after the step was asked for before it, or is new
AsksFresh(p) ==
    \A c \in Calls : job'[p] = Intent(c) => job[p] = Intent(c) \/ Unissued(c)

LEMMA StillInv ==
    ASSUME TypeOK, NoSegment, CustodyInv, NEW p \in Procs, OthersStay(p),
           UNCHANGED <<state, recs, names, forwarded>>,
           \A s \in Segs : torn'[s] = torn[s] \/ s = seg[p],
           Stands(p)', Claim(p)' \in {0, Claim(p)},
           Claim(p)' # 0 => Owed(p)' \subseteq Owed(p),
           \A c \in Owed(p)' : Opened(c), AsksFresh(p),
           pc'[p] \in DrainPass => InOrder(p)' /\ (markDone'[p] => KnowsMarks(p))
    PROVE  CustodyInv'
<1>1. \A s \in Segs : IntentsIn(s)' = IntentsIn(s) /\ CompletedIn(s)' = CompletedIn(s)
  BY SameReads
<1>2. \A c : Opened(c)' <=> Opened(c)
  BY <1>1 DEF Opened
<1>3. \A q \in Procs \ {p} : /\ Claim(q)' = Claim(q) /\ Owed(q)' = Owed(q)
                             /\ job'[q] = job[q] /\ Ahead(q)' = Ahead(q)
  BY OthersKept
<1>4. \A t \in Segs : \A c : Bound(t, c)' => Bound(t, c)
  <2> SUFFICES ASSUME NEW t \in Segs, NEW c, Bound(t, c)' PROVE Bound(t, c)
    OBVIOUS
  <2>1. t # 0
    BY BoundAssumption DEF Segs
  <2>2. QED
    BY <1>1, <1>3, <2>1 DEF Bound
<1>5. OneClaim'
  BY <1>3 DEF CustodyInv, OneClaim
<1>6. FilesNamed'
  <2>1. seg[p] # 0 => state[seg[p]] # "absent"
    BY DEF CustodyInv, WritersStand, Stands
  <2>2. \A s \in Segs : s # 0
    BY BoundAssumption DEF Segs
  <2>3. QED
    BY <2>1, <2>2 DEF CustodyInv, FilesNamed
<1>7. WritersStand'
  <2> SUFFICES ASSUME NEW q \in Procs \ {p} PROVE Stands(q)'
    BY DEF WritersStand
  <2>1. seg[p] # 0 => Claim(p) = seg[p]
    BY DEF Claim, NoSegment, Naming, Reading
  <2>2. \A s \in Segs : s = Claim(q) => torn'[s] = torn[s]
    <3>1. \A s \in Segs : s # 0
      BY BoundAssumption DEF Segs
    <3>2. QED
      BY <2>1, <3>1 DEF CustodyInv, OneClaim
  <2>3. names \in Nat /\ names <= names'
    BY BoundAssumption DEF TypeOK, FilesOK
  <2>4. QED
    BY <2>2, <2>3, OtherStands DEF CustodyInv
<1>8. Opens'
  <2>1. \A q \in Procs : \A c \in Owed(q)' : Opened(c)'
    BY <1>2, <1>3 DEF CustodyInv, Opens
  <2>2. \A s \in Segs : \A c \in CompletedIn(s)' : Opened(c)'
    BY <1>1, <1>2 DEF CustodyInv, Opens
  <2>3. \A q \in Procs, c \in Calls : job'[q] = Intent(c) =>
            ~Opened(c) /\ \A r \in Procs : job'[r] = Intent(c) => q = r
    BY <1>3 DEF CustodyInv, Opens, AsksFresh, Unissued, Opened
  <2>4. QED
    BY <1>2, <2>1, <2>2, <2>3 DEF Opens, Intent
<1>9. Ordered' /\ DoneBehind'
  BY <1>1, <1>4 DEF CustodyInv, Ordered, DoneBehind
<1>10. Passing'
  <2>1. \A q \in Procs \ {p} : pc'[q] \in DrainPass => InOrder(q)'
    BY <1>3 DEF CustodyInv, Passing, InOrder, OthersStay
  <2>2. QED
    BY <2>1 DEF Passing
<1>11. PassMarks'
  <2> SUFFICES ASSUME NEW q \in Procs, pc'[q] \in DrainPass, markDone'[q]
               PROVE  MayMark(q)'
    BY DEF PassMarks
  <2>1. \/ Ahead(q)' = Segments
        \/ pc[q] \in DrainPass /\ MayMark(q) /\ Ahead(q)' = Ahead(q)
    BY <1>3 DEF CustodyInv, PassMarks, KnowsMarks, OthersStay
  <2>2. CASE pc[q] \in DrainPass /\ MayMark(q) /\ Ahead(q)' = Ahead(q)
    <3>1. Ahead(q) \subseteq Segs
      BY <2>2 DEF CustodyInv, Passing, InOrder
    <3>2. QED
      BY <1>1, <1>4, <2>2, <3>1 DEF MayMark
  <2>3. CASE Ahead(q)' = Segments
    <3>1. \A s \in Segs : \A c \in IntentsIn(s) : state[s] = "done" \/ s \in Segments
      BY DEF CustodyInv, FilesNamed, Segments, IntentsIn, TypeOK, FilesOK
    <3>2. QED
      BY <1>1, <2>3, <3>1 DEF MayMark
  <2>4. QED
    BY <2>1, <2>2, <2>3
<1>12. CustodyBeforeForward'
  BY <1>1 DEF CustodyInv, CustodyBeforeForward
<1>13. QED
  BY <1>5, <1>6, <1>7, <1>8, <1>9, <1>10, <1>11, <1>12 DEF CustodyInv

-----------------------------------------------------------------------------
(* Steps that change the files.                                            *)

\* a whole line lands, whether or not its writer lives to know
LEMMA WrittenInv ==
    ASSUME TypeOK, NoSegment, CustodyInv, NEW p \in Procs, OthersStay(p),
           pc[p] = "append", Room(p), Written(p), UNCHANGED <<state, names>>,
           Stands(p)', Claim(p)' \in {0, Claim(p)}, job'[p] = Garbled,
           \A c \in Owed(p)' : c \in Owed(p) \/ job[p] = Intent(c),
           \A c \in forwarded' : c \in forwarded \/ (job[p] = Intent(c) /\ c \in Calls),
           pc'[p] \notin DrainPass
    PROVE  CustodyInv'
<1>1. PICK w \in Segs : w = seg[p] /\ Claim(p) = w
  BY WrittenReads DEF Claim, Naming
<1>2. \A s \in Segs : /\ IntentsIn(s) \subseteq IntentsIn(s)'
                      /\ CompletedIn(s) \subseteq CompletedIn(s)'
                      /\ \A c \in IntentsIn(s)' :
                            c \in IntentsIn(s) \/ (s = w /\ job[p] = Intent(c))
                      /\ \A c \in CompletedIn(s)' :
                            c \in CompletedIn(s) \/ (s = w /\ c \in JobCalls(p))
  BY <1>1, WrittenCalls
<1>3. \A s \in Segs : IntentsIn(s) \subseteq Calls /\ IntentsIn(s)' \subseteq Calls
  BY SegmentParts DEF IntentsIn
<1>4. \A q \in Procs \ {p} : /\ Claim(q)' = Claim(q) /\ Owed(q)' = Owed(q)
                             /\ job'[q] = job[q] /\ Ahead(q)' = Ahead(q)
  BY OthersKept
<1>5. JobCalls(p) \subseteq Owed(p) /\ state[w] # "absent"
  BY <1>1, BoundAssumption DEF Owed, CustodyInv, WritersStand, Stands, Segs
<1>6. \A t \in Segs : \A c : Bound(t, c)' => Bound(t, c) \/ (t = w /\ job[p] = Intent(c))
  <2> SUFFICES ASSUME NEW t \in Segs, NEW c, Bound(t, c)'
               PROVE  Bound(t, c) \/ (t = w /\ job[p] = Intent(c))
    OBVIOUS
  <2>1. t # 0
    BY BoundAssumption DEF Segs
  <2>2. CASE c \in CompletedIn(t)'
    BY <1>1, <1>2, <1>5, <2>2 DEF Bound
  <2>3. CASE \E q \in Procs \ {p} : Claim(q)' = t /\ c \in Owed(q)'
    BY <1>4, <2>3 DEF Bound
  <2>4. CASE Claim(p)' = t /\ c \in Owed(p)'
    BY <1>1, <2>1, <2>4 DEF Bound
  <2>5. QED
    BY <2>2, <2>3, <2>4 DEF Bound
<1>7. \A c : Opened(c) => Opened(c)'
  BY <1>2 DEF Opened
<1>8. ASSUME NEW c \in Calls, job[p] = Intent(c)
      PROVE  /\ w \in Segs /\ c \in IntentsIn(w)' /\ ~Opened(c)
             /\ \A t \in Segs : ~Bound(t, c)
             /\ \A q \in Procs \ {p} : job[q] # Intent(c)
  <2>1. ~torn[w]
    BY <1>1, <1>8, BoundAssumption
       DEF CustodyInv, WritersStand, Stands, Intent, Segs
  <2>2. c \in IntentsIn(w)'
    BY <1>1, <1>8, <2>1, WrittenReads DEF Line
  <2>3. ~Opened(c) /\ \A q \in Procs \ {p} : job[q] # Intent(c)
    BY <1>8 DEF CustodyInv, Opens
  <2>4. \A t \in Segs : ~Bound(t, c)
    BY <2>3 DEF CustodyInv, Opens, Bound
  <2>5. QED
    BY <2>2, <2>3, <2>4
<1>9. OneClaim'
  BY <1>4 DEF CustodyInv, OneClaim
<1>10. FilesNamed'
  BY <1>1, <1>5, WrittenReads DEF CustodyInv, FilesNamed, TypeOK, FilesOK
<1>11. WritersStand'
  <2> SUFFICES ASSUME NEW q \in Procs \ {p} PROVE Stands(q)'
    BY DEF WritersStand
  <2>1. Claim(q) # w
    BY <1>1, BoundAssumption DEF CustodyInv, OneClaim, Segs
  <2>2. \A s \in Segs : s = Claim(q) => torn'[s] = torn[s]
    BY <1>1, <2>1, WrittenReads DEF TypeOK, FilesOK
  <2>3. names \in Nat /\ names <= names'
    BY BoundAssumption DEF TypeOK, FilesOK
  <2>4. QED
    BY <2>2, <2>3, OtherStands DEF CustodyInv
<1>12. Opens'
  <2>1. \A q \in Procs : \A c \in Owed(q) : Opened(c)
    BY DEF CustodyInv, Opens
  <2>2. \A c : job[p] = Intent(c) => job[p] \in Records /\ job[p].type = "intent"
             /\ job[p].call = c
    BY DEF TypeOK, WriterOK, Intent
  <2>3. \A c : job[p] = Intent(c) => c \in Calls
    BY <2>2, RecordParts
  <2>4. \A c \in Calls : job[p] = Intent(c) => Opened(c)'
    BY <1>8 DEF Opened
  <2>5. \A q \in Procs : \A c \in Owed(q)' : Opened(c)'
    BY <1>4, <1>7, <2>1, <2>3, <2>4
  <2>6. \A s \in Segs : \A c \in CompletedIn(s)' : Opened(c)'
    BY <1>2, <1>5, <1>7, <2>1 DEF CustodyInv, Opens
  <2>7. ASSUME NEW q \in Procs, NEW c \in Calls, job'[q] = Intent(c)
        PROVE  ~Opened(c)' /\ \A r \in Procs : job'[r] = Intent(c) => q = r
    <3>1. q # p /\ job[q] = Intent(c) /\ Garbled # Intent(c)
      BY <1>4, <2>7 DEF Garbled, Intent
    <3>2. ~Opened(c) /\ \A r \in Procs : job[r] = Intent(c) => q = r
      BY <3>1 DEF CustodyInv, Opens
    <3>3. ~Opened(c)'
      BY <1>2, <3>1, <3>2 DEF Opened
    <3>4. QED
      BY <1>4, <3>1, <3>2, <3>3
  <2>8. QED
    BY <2>5, <2>6, <2>7 DEF Opens, Intent
<1>13. ASSUME NEW s \in Segs, NEW t \in Segs, NEW c \in IntentsIn(s)', Bound(t, c)'
       PROVE  \/ s = t
              \/ c \in IntentsIn(s) /\ Bound(t, c)
  <2>1. c \in Calls
    BY <1>3
  <2>2. CASE job[p] = Intent(c)
    <3>1. ~Opened(c) /\ ~Bound(t, c)
      BY <1>8, <2>1, <2>2
    <3>2. s = w /\ t = w
      BY <1>2, <1>6, <1>13, <3>1 DEF Opened
    <3>3. QED
      BY <3>2
  <2>3. CASE job[p] # Intent(c)
    BY <1>2, <1>6, <1>13, <2>3
  <2>4. QED
    BY <2>2, <2>3
<1>14. Ordered'
  <2>1. \A s \in Segs : s <= s
    BY DEF Segs
  <2>2. QED
    BY <1>13, <2>1 DEF CustodyInv, Ordered
<1>15. DoneBehind'
  BY <1>13 DEF CustodyInv, DoneBehind
<1>16. Passing'
  BY <1>4 DEF CustodyInv, Passing, InOrder, OthersStay
<1>17. PassMarks'
  <2> SUFFICES ASSUME NEW q \in Procs \ {p}, pc'[q] \in DrainPass, markDone'[q]
               PROVE  MayMark(q)'
    BY DEF PassMarks
  <2>1. MayMark(q) /\ Ahead(q) \subseteq Segs
    BY DEF CustodyInv, PassMarks, Passing, InOrder, OthersStay
  <2>2. QED
    BY <1>4, <1>13, <2>1 DEF MayMark
<1>18. CustodyBeforeForward'
  BY <1>2, <1>5, <1>8 DEF CustodyInv, CustodyBeforeForward
<1>19. QED
  BY <1>9, <1>10, <1>11, <1>12, <1>14, <1>15, <1>16, <1>17, <1>18 DEF CustodyInv

\* the name a rotation mints lies behind every segment there is
LEMMA RotateInv ==
    ASSUME TypeOK, NoSegment, CustodyInv, NEW p \in Procs, OthersStay(p), Rotate(p)
    PROVE  CustodyInv'
<1>1. /\ pc[p] = "append" /\ pc'[p] = "create" /\ seg'[p] = 0 /\ fresh'[p] = names + 1
      /\ names' = names + 1 /\ names \in Nat /\ names + 1 \in Segs
      /\ phase'[p] = phase[p] /\ job'[p] = job[p] /\ Owed(p)' = Owed(p)
      /\ UNCHANGED <<state, recs, torn, forwarded>>
  BY BoundAssumption DEF Rotate, TypeOK, FilesOK, ControlOK, WriterOK, Segs, reader,
                         evidence, Owed, JobCalls
<1>2. \A s \in Segs : IntentsIn(s)' = IntentsIn(s) /\ CompletedIn(s)' = CompletedIn(s)
  BY <1>1, SameReads
<1>3. \A q \in Procs \ {p} : /\ Claim(q)' = Claim(q) /\ Owed(q)' = Owed(q)
                             /\ job'[q] = job[q] /\ Ahead(q)' = Ahead(q)
  BY OthersKept
<1>4. Claim(p)' = names + 1 /\ state[names + 1] = "absent"
  BY <1>1 DEF Claim, Naming, CustodyInv, FilesNamed, Segs
<1>5. \A t \in Segs : \A c : Bound(t, c)' => Bound(t, c) \/ t = names + 1
  BY <1>2, <1>3, <1>4 DEF Bound
<1>6. \A s \in Segs : IntentsIn(s) # {} => s <= names
  BY DEF CustodyInv, FilesNamed, IntentsIn
<1>7. OneClaim'
  <2>1. \A q \in Procs \ {p} : Claim(q)' # names + 1
    BY <1>1, <1>3 DEF CustodyInv, WritersStand, Stands
  <2>2. QED
    BY <1>3, <1>4, <2>1 DEF CustodyInv, OneClaim
<1>8. FilesNamed'
  BY <1>1 DEF CustodyInv, FilesNamed, Segs
<1>9. WritersStand'
  <2>1. \A q \in Procs \ {p} : Stands(q)'
    BY <1>1, OtherStands DEF CustodyInv
  <2>2. Stands(p)'
    BY <1>1, <1>4 DEF Stands, CustodyInv, WritersStand, Pumping, Appending, Naming
  <2>3. QED
    BY <2>1, <2>2 DEF WritersStand
<1>10. Opens'
  <2>1. \A c : Opened(c)' <=> Opened(c)
    BY <1>2 DEF Opened
  <2>2. QED
    BY <1>1, <1>2, <1>3, <2>1 DEF CustodyInv, Opens, Intent
<1>11. Ordered'
  BY <1>1, <1>2, <1>5, <1>6 DEF CustodyInv, Ordered, Segs
<1>12. DoneBehind'
  BY <1>1, <1>2, <1>4, <1>5 DEF CustodyInv, DoneBehind
<1>13. Passing'
  BY <1>1, <1>3 DEF CustodyInv, Passing, InOrder, OthersStay, DrainPass, OffsetPCs
<1>14. PassMarks'
  <2> SUFFICES ASSUME NEW q \in Procs \ {p}, pc'[q] \in DrainPass, markDone'[q]
               PROVE  MayMark(q)'
    BY <1>1 DEF PassMarks, DrainPass, OffsetPCs
  <2>1. MayMark(q) /\ Ahead(q) \subseteq Segs /\ names + 1 \notin Ahead(q)
    BY <1>4 DEF CustodyInv, PassMarks, Passing, InOrder, OthersStay
  <2>2. QED
    BY <1>1, <1>2, <1>3, <1>5, <2>1 DEF MayMark
<1>15. CustodyBeforeForward'
  BY <1>1, <1>2 DEF CustodyInv, CustodyBeforeForward
<1>16. QED
  BY <1>7, <1>8, <1>9, <1>10, <1>11, <1>12, <1>13, <1>14, <1>15 DEF CustodyInv

LEMMA CreateInv ==
    ASSUME TypeOK, NoSegment, CustodyInv, NEW p \in Procs, OthersStay(p), CreateSegment(p)
    PROVE  CustodyInv'
<1>1. PICK w : w = fresh[p]
  OBVIOUS
<1>2. /\ pc[p] = "create" /\ pc'[p] = "lock" /\ seg'[p] = seg[p] /\ fresh'[p] = w
      /\ phase'[p] = phase[p] /\ job'[p] = job[p]
      /\ UNCHANGED <<recs, torn, names, forwarded>>
      /\ Owed(p)' = Owed(p) /\ Claim(p) = w /\ Claim(p)' = w
  BY <1>1 DEF CreateSegment, TypeOK, ControlOK, writer, reader, evidence, Owed, JobCalls,
              Claim, Naming
<1>3. w \in Segs /\ w # 0 /\ state[w] = "absent" /\ w <= names /\ seg[p] = 0
  BY <1>1, <1>2, BoundAssumption
     DEF CustodyInv, WritersStand, Stands, TypeOK, WriterOK, FilesOK, Segs, NoSegment,
         Reading
<1>4. state'[w] = "open" /\ \A s \in Segs \ {w} : state'[s] = state[s]
  BY <1>1, <1>3 DEF CreateSegment, TypeOK, FilesOK
<1>5. \A s \in Segs : IntentsIn(s)' = IntentsIn(s) /\ CompletedIn(s)' = CompletedIn(s)
  BY <1>2, SameReads
<1>6. \A q \in Procs : /\ Claim(q)' = Claim(q) /\ Owed(q)' = Owed(q) /\ job'[q] = job[q]
  BY <1>2, OthersKept
<1>7. \A t \in Segs : \A c : Bound(t, c)' => Bound(t, c)
  BY <1>5, <1>6 DEF Bound
<1>8. OneClaim' /\ Opens'
  BY <1>5, <1>6 DEF CustodyInv, OneClaim, Opens, Opened, Intent
<1>9. FilesNamed'
  BY <1>2, <1>3, <1>4 DEF CustodyInv, FilesNamed
<1>10. WritersStand'
  <2>1. Stands(p)'
    BY <1>2, <1>3, <1>4, <1>6
       DEF Stands, CustodyInv, WritersStand, FilesNamed, Pumping, Appending, Naming
  <2>2. ASSUME NEW q \in Procs \ {p} PROVE Stands(q)'
    <3>1. Claim(q) # w
      BY <1>2, <1>3, BoundAssumption DEF CustodyInv, OneClaim, Segs
    <3>2. names \in Nat /\ names <= names'
      BY <1>2, BoundAssumption DEF TypeOK, FilesOK
    <3>3. QED
      BY <1>2, <1>4, <3>1, <3>2, OtherStands DEF CustodyInv
  <2>3. QED
    BY <2>1, <2>2 DEF WritersStand
<1>11. Ordered' /\ DoneBehind'
  BY <1>3, <1>4, <1>5, <1>7 DEF CustodyInv, Ordered, DoneBehind
<1>12. \A q \in Procs : pc'[q] \in DrainPass =>
          q # p /\ pc[q] \in DrainPass /\ Ahead(q)' = Ahead(q) /\ w \notin Ahead(q)
  BY <1>2, <1>3, OthersKept
     DEF OthersStay, DrainPass, OffsetPCs, CustodyInv, Passing, InOrder
<1>13. Passing'
  BY <1>4, <1>12 DEF CustodyInv, Passing, InOrder, OthersStay
<1>14. PassMarks'
  <2> SUFFICES ASSUME NEW q \in Procs, pc'[q] \in DrainPass, markDone'[q]
               PROVE  MayMark(q)'
    BY DEF PassMarks
  <2>1. MayMark(q) /\ Ahead(q) \subseteq Segs
    BY <1>12 DEF CustodyInv, PassMarks, Passing, InOrder, OthersStay
  <2>2. QED
    BY <1>3, <1>4, <1>5, <1>7, <1>12, <2>1 DEF MayMark
<1>15. CustodyBeforeForward'
  BY <1>2, <1>4, <1>5 DEF CustodyInv, CustodyBeforeForward
<1>16. QED
  BY <1>8, <1>9, <1>10, <1>11, <1>13, <1>14, <1>15 DEF CustodyInv

-----------------------------------------------------------------------------
(* Passes over the directory.                                              *)

\* a Take goes on, or is done
LEMMA TakePlaces ==
    ASSUME TypeOK, NEW p \in Procs, NEW S, NEW more, NEW done, Take(p, S, more, done)
    PROVE  pc'[p] \in {more, done}
BY DEF Take, TypeOK, ControlOK

\* Take puts the first of S in hand and leaves the rest for later
LEMMA TakeParts ==
    ASSUME TypeOK, NEW p \in Procs, NEW S \in SUBSET Segs, NEW more, NEW done,
           more # done, Take(p, S, more, done)
    PROVE  /\ pc'[p] \in {more, done}
           /\ pc'[p] = done => S = {}
           /\ pc'[p] = more => /\ hand'[p] \in S
                               /\ list'[p] = S \ {hand'[p]}
                               /\ Ahead(p)' = S
                               /\ \A t \in list'[p] : hand'[p] < t
<1>1. CASE S = {} /\ pc' = [pc EXCEPT ![p] = done]
  BY <1>1 DEF TypeOK, ControlOK
<1>2. CASE \E s \in S : /\ \A t \in S : s <= t
                        /\ hand' = [hand EXCEPT ![p] = s]
                        /\ list' = [list EXCEPT ![p] = S \ {s}]
                        /\ pc' = [pc EXCEPT ![p] = more]
  <2>1. PICK s \in S : /\ \A t \in S : s <= t
                       /\ hand' = [hand EXCEPT ![p] = s]
                       /\ list' = [list EXCEPT ![p] = S \ {s}]
                       /\ pc' = [pc EXCEPT ![p] = more]
    BY <1>2
  <2>2. pc'[p] = more /\ hand'[p] = s /\ list'[p] = S \ {s}
    BY <2>1 DEF TypeOK, ControlOK, ReaderOK
  <2>3. \A t \in S \ {s} : s < t
    BY <2>1 DEF Segs
  <2>4. QED
    BY <2>2, <2>3 DEF Ahead
<1>3. QED
  BY <1>1, <1>2 DEF Take

\* p forgets everything: it claims nothing and owes nothing
LEMMA Forgotten ==
    ASSUME TypeOK, CustodyInv, NEW p \in Procs, Forget(p)
    PROVE  /\ Claim(p)' = 0 /\ Owed(p)' = {} /\ job'[p] = Garbled /\ pc'[p] = "down"
           /\ OthersStay(p) /\ AsksFresh(p)
           /\ names' = names => Stands(p)'
<1>1. /\ pc'[p] = "down" /\ phase'[p] = "flush" /\ seg'[p] = 0 /\ fresh'[p] = 0
      /\ job'[p] = Garbled /\ inflight'[p] = {} /\ cand'[p] = {}
  BY DEF Forget, TypeOK, ControlOK, WriterOK, ReaderOK
<1>2. Claim(p)' = 0 /\ Owed(p)' = {}
  BY <1>1 DEF Claim, Naming, Owed, JobCalls, Garbled
<1>3. AsksFresh(p)
  BY <1>1 DEF AsksFresh, Garbled, Intent
<1>4. ASSUME names' = names PROVE Stands(p)'
  BY <1>1, <1>2, <1>4, BoundAssumption
     DEF Stands, Naming, Appending, Pumping, Garbled, TypeOK, FilesOK
<1>5. QED
  BY <1>1, <1>2, <1>3, <1>4, ForgetOthers

\* p forgets, and at most tears its last line off
LEMMA ForgetInv ==
    ASSUME TypeOK, NoSegment, CustodyInv, NEW p \in Procs, Forget(p),
           UNCHANGED <<state, recs, names, forwarded>>,
           \A s \in Segs : torn'[s] = torn[s] \/ s = seg[p]
    PROVE  CustodyInv'
BY Forgotten, StillInv DEF DrainPass, OffsetPCs

LEMMA ExitInv ==
    ASSUME TypeOK, NoSegment, CustodyInv, NEW p \in Procs, Exit(p), UNCHANGED evidence
    PROVE  CustodyInv'
BY ForgetInv DEF Exit, evidence

\* p's own segment, its job and what it owes are as they were
OwnKept(p) ==
    /\ seg'[p] = seg[p] /\ fresh'[p] = fresh[p] /\ phase'[p] = phase[p]
    /\ job'[p] = job[p] /\ inflight'[p] = inflight[p] /\ cand'[p] = cand[p]

\* p goes from one step of a pass to another
LEMMA OwnKeptInv ==
    ASSUME TypeOK, NoSegment, CustodyInv, NEW p \in Procs, OthersStay(p), OwnKept(p),
           UNCHANGED <<state, recs, torn, names, forwarded>>,
           pc[p] \notin Pumping, pc'[p] \notin Pumping,
           pc'[p] \in DrainPass => InOrder(p)' /\ (markDone'[p] => KnowsMarks(p))
    PROVE  CustodyInv'
<1>1. /\ Claim(p) = seg[p] /\ Claim(p)' = seg[p] /\ Owed(p)' = Owed(p) /\ AsksFresh(p)
  BY DEF OwnKept, Claim, Pumping, Appending, Owed, JobCalls, AsksFresh
<1>2. Stands(p)'
  BY <1>1 DEF OwnKept, CustodyInv, WritersStand, Stands, Pumping, Appending, Naming
<1>3. \A c \in Owed(p)' : Opened(c)
  BY <1>1 DEF CustodyInv, Opens
<1>4. QED
  BY <1>1, <1>2, <1>3, StillInv

\* the pass of p stays where it is
LEMMA PassKept ==
    ASSUME CustodyInv, NEW p \in Procs, pc[p] \in DrainPass, state' = state,
           hand'[p] = hand[p], list'[p] = list[p],
           markDone'[p] = markDone[p],
           pc'[p] = "drename" => markDone[p]
    PROVE  InOrder(p)' /\ (markDone'[p] => KnowsMarks(p))
BY DEF CustodyInv, Passing, InOrder, KnowsMarks, Ahead

LEMMA ProbeInv ==
    ASSUME TypeOK, NoSegment, CustodyInv, NEW p \in Procs, NEW here \in PassPCs,
           NEW locked \in PassPCs \ {"drename"}, NEW done \in PassPCs \ {"drename"},
           Probe(p, here, locked, done),
           here \in DrainPass \/ (locked \notin DrainPass /\ done \notin DrainPass)
    PROVE  CustodyInv'
<1>1. CASE Exit(p)
  BY <1>1, ExitInv DEF Probe
<1>2. CASE state[hand[p]] = "open"
  <2>1. /\ pc[p] = here /\ pc'[p] \in {locked, done}
        /\ UNCHANGED <<state, recs, torn, names, forwarded, hand, list, markDone>>
        /\ UNCHANGED <<seg, fresh, phase, job, inflight, cand>>
    BY <1>2 DEF Probe, TypeOK, ControlOK, writer, evidence
  <2>2. OthersStay(p) /\ OwnKept(p)
    BY <2>1, ProbeOthers DEF OwnKept
  <2>3. pc[p] \notin Pumping /\ pc'[p] \notin Pumping
    BY <2>1 DEF PassPCs, OffsetPCs, Pumping, Appending, Naming
  <2>4. pc'[p] \in DrainPass => InOrder(p)' /\ (markDone'[p] => KnowsMarks(p))
    BY <2>1, PassKept
  <2>5. QED
    BY <2>1, <2>2, <2>3, <2>4, OwnKeptInv
<1>3. QED
  BY <1>1, <1>2 DEF Probe

LEMMA UnprobeInv ==
    ASSUME TypeOK, NoSegment, CustodyInv, NEW p \in Procs, NEW here \in PassPCs,
           NEW done \in PassPCs \ {"drename"}, Unprobe(p, here, done), OthersStay(p),
           here \in DrainPass \/ done \notin DrainPass
    PROVE  CustodyInv'
<1>1. /\ pc[p] = here /\ pc'[p] = done
      /\ UNCHANGED <<state, recs, torn, names, forwarded, hand, list, markDone>>
      /\ UNCHANGED <<seg, fresh, phase, job, inflight, cand>>
  BY DEF Unprobe, TypeOK, ControlOK, writer, reader, evidence
<1>2. pc[p] \notin Pumping /\ pc'[p] \notin Pumping
  BY <1>1 DEF PassPCs, OffsetPCs, Pumping, Appending, Naming
<1>3. pc'[p] \in DrainPass => InOrder(p)' /\ (markDone'[p] => KnowsMarks(p))
  BY <1>1, PassKept
<1>4. QED
  BY <1>1, <1>2, <1>3, OwnKeptInv DEF OwnKept

-----------------------------------------------------------------------------
(* The actions.                                                            *)

LEMMA StartCustody ==
    ASSUME TypeOK, NoSegment, CustodyInv, NEW p \in Procs, OthersStay(p), Start(p)
    PROVE  CustodyInv'
<1>1. /\ pc[p] = "down" /\ Take(p, Segments, "probe", "flush")
      /\ UNCHANGED <<state, recs, torn, names, forwarded>>
      /\ UNCHANGED <<seg, fresh, phase, job, inflight, cand>>
  BY DEF Start, files, writer, evidence
<1>2. Segments \in SUBSET Segs
  BY DEF Segments
<1>3. pc'[p] \in {"probe", "flush"}
  BY <1>1, TakePlaces
<1>4. QED
  BY <1>1, <1>3, OwnKeptInv
     DEF OwnKept, Pumping, Appending, Naming, DrainPass, OffsetPCs

LEMMA ScanCustody ==
    ASSUME TypeOK, NoSegment, CustodyInv, NEW p \in Procs, OthersStay(p), RecoverScan(p),
           hand[p] \in Segs
    PROVE  CustodyInv'
<1>1. CASE Exit(p)
  BY <1>1, ExitInv DEF RecoverScan
<1>2. CASE ~Exit(p)
  <2>1. /\ pc[p] = "scan" /\ Take(p, list[p], "probe", "flush")
        /\ cand'[p] = cand[p] \cup (IF live[p] THEN {} ELSE IntentsIn(hand[p]))
        /\ UNCHANGED <<state, recs, torn, names, forwarded>>
        /\ UNCHANGED <<seg, fresh, phase, job, inflight>>
    BY <1>2 DEF RecoverScan, TypeOK, ReaderOK, files, writer, evidence
  <2>2. list[p] \in SUBSET Segs
    BY DEF TypeOK, ReaderOK
  <2>3. pc'[p] \in {"probe", "flush"}
    BY <2>1, <2>2, TakePlaces
  <2>4. Claim(p) = 0 /\ Claim(p)' = 0
    BY <2>1, <2>3 DEF Claim, Naming, NoSegment, Reading
  <2>5. \A c \in Owed(p)' : c \in Owed(p) \/ c \in IntentsIn(hand[p])
    BY <2>1 DEF Owed, JobCalls
  <2>6. \A c \in Owed(p)' : Opened(c)
    BY <2>5 DEF CustodyInv, Opens, Opened
  <2>7. Stands(p)'
    BY <2>1, <2>3, <2>4
       DEF CustodyInv, WritersStand, Stands, Pumping, Appending, Naming
  <2>8. AsksFresh(p)
    BY <2>1 DEF AsksFresh
  <2>9. QED
    BY <2>1, <2>3, <2>4, <2>6, <2>7, <2>8, StillInv DEF DrainPass, OffsetPCs
<1>3. QED
  BY <1>1, <1>2

\* p asks for an append
LEMMA AsksInv ==
    ASSUME TypeOK, NoSegment, CustodyInv, NEW p \in Procs, OthersStay(p),
           pc[p] \in {"flush", "serve"}, pc'[p] = "append",
           UNCHANGED <<state, recs, torn, names, forwarded, seg, fresh, phase, cand>>,
           inflight'[p] \subseteq inflight[p],
           JobCalls(p)' \subseteq Owed(p), AsksFresh(p),
           job'[p].type = "intent" => phase[p] = "serve"
    PROVE  CustodyInv'
<1>1. Claim(p)' = Claim(p)
  BY DEF Claim, Naming
<1>2. Owed(p)' \subseteq Owed(p)
  BY DEF Owed
<1>3. Stands(p)'
  BY <1>1 DEF CustodyInv, WritersStand, Stands, Pumping, Appending, Naming
<1>4. \A c \in Owed(p)' : Opened(c)
  BY <1>2 DEF CustodyInv, Opens
<1>5. QED
  BY <1>1, <1>2, <1>3, <1>4, StillInv DEF DrainPass, OffsetPCs

LEMMA FlushCustody ==
    ASSUME TypeOK, NoSegment, CustodyInv, NEW p \in Procs, OthersStay(p), FlushOrphan(p)
    PROVE  CustodyInv'
<1>1. PICK c \in Orphans(p) :
          job' = [job EXCEPT ![p] = Completion(Mint(c, "orphan_intent"))]
  BY DEF FlushOrphan
<1>2. job'[p].type = "completion" /\ job'[p].receipt.call = c /\ c \in Owed(p)
  BY <1>1 DEF TypeOK, WriterOK, Completion, Mint, Orphans, Owed
<1>3. JobCalls(p)' \subseteq Owed(p) /\ AsksFresh(p)
  BY <1>2 DEF JobCalls, AsksFresh, Intent
<1>4. pc[p] = "flush" /\ pc'[p] = "append"
      /\ UNCHANGED <<state, recs, torn, names, forwarded, seg, fresh, phase, cand, inflight>>
  BY DEF FlushOrphan, TypeOK, ControlOK, files
<1>5. QED
  BY <1>2, <1>3, <1>4, AsksInv

LEMMA AnswerCustody ==
    ASSUME TypeOK, NoSegment, CustodyInv, NEW p \in Procs, OthersStay(p), ServerAnswer(p)
    PROVE  CustodyInv'
<1>1. PICK c \in inflight[p] :
          /\ inflight' = [inflight EXCEPT ![p] = @ \ {c}]
          /\ job' = [job EXCEPT ![p] = Completion(Mint(c, "tool_call"))]
  BY DEF ServerAnswer
<1>2. /\ job'[p].type = "completion" /\ job'[p].receipt.call = c /\ c \in Owed(p)
      /\ inflight'[p] \subseteq inflight[p]
  BY <1>1 DEF TypeOK, WriterOK, Completion, Mint, Owed
<1>3. JobCalls(p)' \subseteq Owed(p) /\ AsksFresh(p)
  BY <1>2 DEF JobCalls, AsksFresh, Intent
<1>4. pc[p] = "serve" /\ pc'[p] = "append"
      /\ UNCHANGED <<state, recs, torn, names, forwarded, seg, fresh, phase, cand>>
  BY DEF ServerAnswer, TypeOK, ControlOK, files, reader
<1>5. QED
  BY <1>2, <1>3, <1>4, AsksInv

LEMMA CallCustody ==
    ASSUME TypeOK, NoSegment, CustodyInv, NEW p \in Procs, OthersStay(p), ClientCall(p)
    PROVE  CustodyInv'
<1>1. PICK c \in Calls : Unissued(c) /\ job' = [job EXCEPT ![p] = Intent(c)]
  BY DEF ClientCall
<1>2. job'[p] = Intent(c)
  BY <1>1 DEF TypeOK, WriterOK
<1>3. JobCalls(p)' = {}
  BY <1>2 DEF JobCalls, Intent
<1>4. AsksFresh(p)
  BY <1>1, <1>2 DEF AsksFresh, Intent
<1>5. pc[p] = "serve" /\ phase[p] = "serve" /\ pc'[p] = "append"
      /\ UNCHANGED <<state, recs, torn, names, forwarded, seg, fresh, phase, cand, inflight>>
  BY DEF ClientCall, TypeOK, ControlOK, files, reader, evidence
<1>6. QED
  BY <1>3, <1>4, <1>5, AsksInv

LEMMA RecoveredCustody ==
    ASSUME TypeOK, NoSegment, CustodyInv, NEW p \in Procs, OthersStay(p), Recovered(p)
    PROVE  CustodyInv'
<1>1. /\ pc[p] = "flush" /\ cand'[p] = {}
      /\ UNCHANGED <<state, recs, torn, names, forwarded, fresh, job, inflight>>
  BY DEF Recovered, TypeOK, ReaderOK, evidence
<1>2. \/ pc'[p] = "serve" /\ phase'[p] = "serve" /\ seg' = seg
      \/ pc'[p] = "dlist" /\ phase'[p] = phase[p] /\ seg'[p] = 0
  BY DEF Recovered, TypeOK, ControlOK, WriterOK
<1>3. Claim(p) = seg[p] /\ Claim(p)' = seg'[p]
  BY <1>1, <1>2 DEF Claim, Naming
<1>4. Owed(p)' \subseteq Owed(p) /\ AsksFresh(p)
  BY <1>1 DEF Owed, JobCalls, AsksFresh
<1>5. \A c \in Owed(p)' : Opened(c)
  BY <1>4 DEF CustodyInv, Opens
<1>6. Stands(p)'
  <2>1. Stands(p) /\ names \in Nat
    BY BoundAssumption DEF CustodyInv, WritersStand, TypeOK, FilesOK
  <2>2. QED
    BY <1>1, <1>2, <1>3, <2>1, BoundAssumption DEF Stands, Pumping, Appending, Naming
<1>7. QED
  BY <1>1, <1>2, <1>3, <1>4, <1>5, <1>6, StillInv DEF DrainPass, OffsetPCs

LEMMA RecoverCustody ==
    ASSUME TypeOK, HasHand, NoSegment, CustodyInv, NEW p \in Procs, OthersStay(p),
           Recover(p)
    PROVE  CustodyInv'
<1>1. CASE RecoverProbe(p)
  BY <1>1, ProbeInv DEF RecoverProbe, PassPCs, OffsetPCs, DrainPass
<1>2. CASE RecoverUnprobe(p)
  BY <1>2, UnprobeInv DEF RecoverUnprobe, PassPCs, OffsetPCs, DrainPass
<1>3. CASE RecoverScan(p)
  <2>1. hand[p] \in Segs
    BY <1>3 DEF RecoverScan, HasHand, PassPCs
  <2>2. QED
    BY <1>3, <2>1, ScanCustody
<1>4. QED
  BY <1>1, <1>2, <1>3, FlushCustody, RecoveredCustody DEF Recover

LEMMA AppendFailsCustody ==
    ASSUME TypeOK, NoSegment, CustodyInv, NEW p \in Procs, OthersStay(p), AppendFails(p),
           pc[p] \in {"append", "lock"}, UNCHANGED <<state, recs, names, forwarded>>,
           \A s \in Segs : torn'[s] = torn[s] \/ s = seg[p]
    PROVE  CustodyInv'
<1>1. CASE job[p].type = "intent"
  <2>1. /\ pc'[p] = "serve" /\ phase'[p] = "ending" /\ fresh'[p] = 0
        /\ job'[p] = Garbled /\ UNCHANGED <<seg, inflight, cand>>
    BY <1>1 DEF AppendFails, TypeOK, ControlOK, WriterOK, reader
  <2>2. Claim(p)' = seg[p] /\ Claim(p)' \in {0, Claim(p)}
    BY <2>1 DEF Claim, Naming, NoSegment, Reading
  <2>3. Owed(p)' \subseteq Owed(p) /\ AsksFresh(p)
    BY <2>1 DEF Owed, JobCalls, AsksFresh, Garbled, Intent
  <2>4. \A c \in Owed(p)' : Opened(c)
    BY <2>3 DEF CustodyInv, Opens
  <2>5. Stands(p)'
    <3>1. Stands(p) /\ names \in Nat
      BY BoundAssumption DEF CustodyInv, WritersStand, TypeOK, FilesOK
    <3>2. QED
      BY <2>1, <2>2, <3>1, BoundAssumption
         DEF Stands, Pumping, Appending, Naming, Garbled
  <2>6. QED
    BY <2>1, <2>2, <2>3, <2>4, <2>5, StillInv DEF DrainPass, OffsetPCs
<1>2. CASE job[p].type # "intent"
  BY <1>2, ForgetInv DEF AppendFails
<1>3. QED
  BY <1>1, <1>2

LEMMA LockCustody ==
    ASSUME TypeOK, NoSegment, CustodyInv, NEW p \in Procs, OthersStay(p), LockSegment(p)
    PROVE  CustodyInv'
<1>1. CASE AppendFails(p)
  BY <1>1, AppendFailsCustody DEF LockSegment, evidence
<1>2. CASE ~AppendFails(p)
  <2>1. /\ pc[p] = "lock" /\ pc'[p] = "append" /\ seg'[p] = fresh[p] /\ fresh'[p] = 0
        /\ UNCHANGED <<state, recs, torn, names, forwarded, phase, job, inflight, cand>>
    BY <1>2 DEF LockSegment, TypeOK, ControlOK, WriterOK, reader, evidence
  <2>2. Claim(p)' = Claim(p) /\ Claim(p) = fresh[p]
    BY <2>1 DEF Claim, Naming
  <2>3. Owed(p)' = Owed(p) /\ AsksFresh(p)
    BY <2>1 DEF Owed, JobCalls, AsksFresh
  <2>4. \A c \in Owed(p)' : Opened(c)
    BY <2>3 DEF CustodyInv, Opens
  <2>5. Stands(p)'
    BY <2>1, <2>2 DEF CustodyInv, WritersStand, Stands, Pumping, Appending, Naming
  <2>6. QED
    BY <2>1, <2>2, <2>3, <2>4, <2>5, StillInv DEF DrainPass, OffsetPCs
<1>3. QED
  BY <1>1, <1>2

LEMMA WriteCustody ==
    ASSUME TypeOK, NoSegment, CustodyInv, NEW p \in Procs, OthersStay(p), Write(p)
    PROVE  CustodyInv'
<1>1. /\ pc[p] = "append" /\ Room(p) /\ Written(p) /\ job'[p] = Garbled
      /\ pc'[p] = (IF phase[p] = "flush" THEN "flush" ELSE "serve")
      /\ UNCHANGED <<state, names, phase, seg, fresh, cand>>
  BY DEF Write, TypeOK, ControlOK, WriterOK, reader
<1>2. seg[p] \in Segs /\ torn' = [torn EXCEPT ![seg[p]] = FALSE]
  BY <1>1, WrittenReads
<1>3. Claim(p)' = Claim(p) /\ Claim(p) = seg[p]
  BY <1>1 DEF Claim, Naming
<1>4. \A c : job[p].type = "intent" /\ job[p].call = c => c \in Calls /\ job[p] = Intent(c)
  BY DEF TypeOK, WriterOK, Records, Garbled, Intent
<1>5. \A c \in Owed(p)' : c \in Owed(p) \/ job[p] = Intent(c)
  <2>1. \A c \in inflight'[p] : c \in inflight[p] \/ job[p] = Intent(c)
    BY <1>4 DEF Write, TypeOK, WriterOK
  <2>2. JobCalls(p)' = {}
    BY <1>1 DEF JobCalls, Garbled
  <2>3. QED
    BY <1>1, <2>1, <2>2 DEF Owed
<1>6. \A c \in forwarded' : c \in forwarded \/ (job[p] = Intent(c) /\ c \in Calls)
  BY <1>4 DEF Write
<1>7. Stands(p)'
  <2>1. torn'[seg[p]] = FALSE
    BY <1>2 DEF TypeOK, FilesOK
  <2>2. Stands(p) /\ phase[p] \in Phases
    BY DEF CustodyInv, WritersStand, TypeOK, ControlOK
  <2>3. QED
    BY <1>1, <1>3, <2>1, <2>2 DEF Stands, Pumping, Appending, Naming, Garbled
<1>8. pc'[p] \notin DrainPass
  BY <1>1 DEF DrainPass, OffsetPCs
<1>9. QED
  BY <1>1, <1>3, <1>5, <1>6, <1>7, <1>8, WrittenInv

-----------------------------------------------------------------------------
LEMMA DrainListCustody ==
    ASSUME TypeOK, NoSegment, CustodyInv, NEW p \in Procs, OthersStay(p), DrainList(p)
    PROVE  CustodyInv'
<1>1. /\ pc[p] = "dlist" /\ Take(p, Segments, "dread", "drained")
      /\ UNCHANGED <<state, recs, torn, names, forwarded>>
      /\ UNCHANGED <<seg, fresh, phase, job, inflight, cand>>
  BY DEF DrainList, files, writer, evidence
<1>2. Segments \in SUBSET Segs
  BY DEF Segments
<1>3. /\ pc'[p] \in {"dread", "drained"}
      /\ pc'[p] = "dread" => /\ Ahead(p)' = Segments
                             /\ \A t \in list'[p] : hand'[p] < t
  <2>1. PICK S, more, done : S = Segments /\ more = "dread" /\ done = "drained"
    OBVIOUS
  <2>2. S \in SUBSET Segs /\ Take(p, S, more, done) /\ more # done
    BY <1>1, <1>2, <2>1
  <2>3. /\ pc'[p] \in {more, done}
        /\ pc'[p] = done => S = {}
        /\ pc'[p] = more => /\ hand'[p] \in S
                            /\ list'[p] = S \ {hand'[p]}
                            /\ Ahead(p)' = S
                            /\ \A t \in list'[p] : hand'[p] < t
    BY <2>2, TakeParts
  <2>4. QED
    BY <2>1, <2>3
<1>4. pc'[p] \in DrainPass => InOrder(p)' /\ KnowsMarks(p)
  BY <1>1, <1>3 DEF InOrder, KnowsMarks, Segments, DrainPass, OffsetPCs
<1>5. QED
  BY <1>1, <1>3, <1>4, OwnKeptInv DEF OwnKept, Pumping, Appending, Naming

\* a step of a pass that keeps its place
LEMMA PassStepInv ==
    ASSUME TypeOK, NoSegment, CustodyInv, NEW p \in Procs, OthersStay(p), OwnKept(p),
           UNCHANGED <<state, recs, torn, names, forwarded>>,
           pc[p] \in DrainPass, pc'[p] \in DrainPass,
           hand'[p] = hand[p], list'[p] = list[p], markDone'[p] = markDone[p],
           pc'[p] = "drename" => markDone[p]
    PROVE  CustodyInv'
BY PassKept, OwnKeptInv DEF Pumping, Appending, Naming, DrainPass, OffsetPCs

\* on to the next segment
LEMMA AdvanceParts ==
    ASSUME TypeOK, CustodyInv, NEW p \in Procs, pc[p] \in DrainPass, Advance(p)
    PROVE  /\ pc'[p] \in {"dread", "drained"}
           /\ pc'[p] = "dread" =>
                 /\ hand'[p] \in list[p] /\ Ahead(p)' = list[p]
                 /\ \A t \in list'[p] : hand'[p] < t
<1>1. Take(p, list[p], "dread", "drained") /\ list[p] \in SUBSET Segs
  BY DEF Advance, TypeOK, ReaderOK
<1>2. QED
  BY <1>1, TakeParts, SMTT(30)

LEMMA DrainStatCustody ==
    ASSUME TypeOK, NoSegment, CustodyInv, NEW p \in Procs, OthersStay(p), DrainStat(p)
    PROVE  CustodyInv'
<1>1. CASE Exit(p)
  BY <1>1, ExitInv DEF DrainStat
<1>2. CASE ~Exit(p) /\ Markable(p)
  <2>1. /\ pc[p] = "dstat" /\ pc'[p] = "drename" /\ markDone[p]
        /\ UNCHANGED <<state, recs, torn, names, forwarded, hand, list, markDone>>
        /\ UNCHANGED <<seg, fresh, phase, job, inflight, cand>>
    BY <1>2 DEF DrainStat, Markable, TypeOK, ControlOK, files, writer, evidence
  <2>2. QED
    BY <2>1, PassStepInv DEF OwnKept, DrainPass, OffsetPCs
<1>3. CASE ~Exit(p) /\ ~Markable(p)
  <2>1. /\ pc[p] = "dstat" /\ Advance(p) /\ ~markDone'[p]
        /\ UNCHANGED <<state, recs, torn, names, forwarded>>
        /\ UNCHANGED <<seg, fresh, phase, job, inflight, cand>>
    BY <1>3 DEF DrainStat, TypeOK, ReaderOK, files, writer, evidence
  <2>2. /\ pc'[p] \in {"dread", "drained"}
        /\ pc'[p] = "dread" =>
              /\ hand'[p] \in list[p] /\ Ahead(p)' = list[p]
              /\ \A t \in list'[p] : hand'[p] < t
    BY <2>1, AdvanceParts DEF DrainPass, OffsetPCs
  <2>3. \A s \in list[p] : s \in Segs /\ state[s] # "absent"
    BY <2>1 DEF CustodyInv, Passing, InOrder, Ahead, DrainPass, OffsetPCs
  <2>4. pc'[p] \in DrainPass => InOrder(p)'
    BY <2>1, <2>2, <2>3 DEF InOrder, DrainPass, OffsetPCs
  <2>5. QED
    BY <2>1, <2>2, <2>4, OwnKeptInv DEF OwnKept, Pumping, Appending, Naming
<1>4. QED
  BY <1>1, <1>2, <1>3

\* A segment is marked done: all it closes was opened in it or in segments done
\* before it.
LEMMA DrainRenameCustody ==
    ASSUME TypeOK, HasHand, NoSegment, CustodyInv, NEW p \in Procs, OthersStay(p),
           DrainRename(p), ~Exit(p)
    PROVE  CustodyInv'
<1>1. PICK w : w = hand[p]
  OBVIOUS
<1>2. /\ pc[p] = "drename" /\ state[w] = "open" /\ w \in Segs /\ Advance(p)
      /\ UNCHANGED <<recs, torn, names, forwarded, markDone>>
      /\ UNCHANGED <<seg, fresh, phase, job, inflight, cand>>
  BY <1>1 DEF DrainRename, HasHand, PassPCs, OffsetPCs, writer, evidence
<1>3. state'[w] = "done" /\ \A s \in Segs \ {w} : state'[s] = state[s]
  BY <1>1, <1>2 DEF DrainRename, TypeOK, FilesOK
<1>4. /\ pc'[p] \in {"dread", "drained"}
      /\ pc'[p] = "dread" =>
            /\ hand'[p] \in list[p] /\ Ahead(p)' = list[p]
            /\ \A t \in list'[p] : hand'[p] < t
  BY <1>2, AdvanceParts DEF DrainPass, OffsetPCs
<1>5. /\ InOrder(p) /\ markDone[p] /\ MayMark(p) /\ Ahead(p) = list[p] \cup {w}
      /\ \A s \in list[p] : w < s
  BY <1>1, <1>2 DEF CustodyInv, Passing, PassMarks, InOrder, Ahead, DrainPass, OffsetPCs
<1>6. \A s \in Segs : IntentsIn(s)' = IntentsIn(s) /\ CompletedIn(s)' = CompletedIn(s)
  BY <1>2, SameReads
<1>7. /\ Claim(p) = seg[p] /\ Claim(p)' = seg[p] /\ Owed(p)' = Owed(p) /\ job'[p] = job[p]
  BY <1>2, <1>4 DEF Claim, Naming, Owed, JobCalls
<1>8. \A q \in Procs : /\ Claim(q)' = Claim(q) /\ Owed(q)' = Owed(q) /\ job'[q] = job[q]
  BY <1>7, OthersKept
<1>9. \A t \in Segs : \A c : Bound(t, c)' => Bound(t, c)
  BY <1>6, <1>8 DEF Bound
<1>10. OneClaim' /\ Opens'
  BY <1>6, <1>8 DEF CustodyInv, OneClaim, Opens, Opened, Intent
<1>11. FilesNamed' /\ Ordered'
  BY <1>2, <1>3, <1>6, <1>9 DEF CustodyInv, FilesNamed, Ordered
<1>12. ASSUME NEW q \in Procs PROVE Stands(q)'
  <2>1. Stands(q) /\ Claim(q)' = Claim(q)
    BY <1>8 DEF CustodyInv, WritersStand
  <2>2. /\ phase'[q] = phase[q] /\ seg'[q] = seg[q] /\ fresh'[q] = fresh[q]
        /\ job'[q] = job[q]
        /\ pc'[q] = pc[q] \/ (pc[q] \notin Pumping /\ pc'[q] \notin Pumping)
    BY <1>2, <1>4 DEF OthersStay, Pumping, Appending, Naming
  <2>3. /\ seg[q] # 0 => seg[q] \in Segs
        /\ fresh[q] # 0 => fresh[q] \in Segs
    BY BoundAssumption DEF TypeOK, WriterOK, Segs
  <2>4. \A s \in Segs : /\ state[s] = "absent" => state'[s] = "absent"
                        /\ state[s] # "absent" => state'[s] # "absent"
    BY <1>2, <1>3
  <2>5. QED
    BY <1>2, <2>1, <2>2, <2>3, <2>4 DEF Stands, Pumping, Appending, Naming
<1>13. \A s \in Segs : state[s] = "done" => state'[s] = "done"
  BY <1>2, <1>3
<1>14. DoneBehind'
  <2> SUFFICES ASSUME NEW s \in Segs, NEW t \in Segs, NEW c \in IntentsIn(s),
                      state'[t] = "done", Bound(t, c)
               PROVE  state'[s] = "done"
    BY <1>6, <1>9 DEF DoneBehind
  <2>1. CASE t = w
    <3>1. state[s] = "done" \/ s = w \/ s \in list[p]
      BY <1>5, <2>1 DEF MayMark
    <3>2. s <= w
      BY <2>1 DEF CustodyInv, Ordered
    <3>3. s \notin list[p]
      BY <1>2, <1>5, <3>2, BoundAssumption DEF Segs
    <3>4. QED
      BY <1>3, <1>13, <3>1, <3>3
  <2>2. CASE t # w
    BY <1>3, <1>13, <2>2 DEF CustodyInv, DoneBehind
  <2>3. QED
    BY <2>1, <2>2
<1>15. ASSUME NEW q \in Procs, pc'[q] \in DrainPass
       PROVE  InOrder(q)' /\ (markDone'[q] => MayMark(q)')
  <2>1. CASE q = p
    <3>1. Ahead(q)' = list[p] /\ list[p] \subseteq Segs
      BY <1>4, <1>15, <2>1 DEF DrainPass, OffsetPCs, TypeOK, ReaderOK
    <3>2. InOrder(q)'
      BY <1>3, <1>4, <1>5, <1>15, <2>1, <3>1 DEF InOrder, DrainPass, OffsetPCs
    <3>3. MayMark(q)'
      BY <1>3, <1>5, <1>6, <1>9, <1>13, <3>1 DEF MayMark
    <3>4. QED
      BY <3>2, <3>3
  <2>2. CASE q # p
    <3>1. pc[q] \in DrainPass /\ Ahead(q)' = Ahead(q) /\ markDone'[q] = markDone[q]
      BY <1>15, <2>2, OthersKept DEF OthersStay
    <3>2. InOrder(q) /\ (markDone[q] => MayMark(q))
      BY <3>1 DEF CustodyInv, Passing, PassMarks
    <3>3. InOrder(q)'
      BY <1>3, <2>2, <3>1, <3>2 DEF InOrder, OthersStay
    <3>4. markDone[q] => MayMark(q)'
      BY <1>6, <1>9, <1>13, <3>1, <3>2 DEF MayMark, InOrder
    <3>5. QED
      BY <3>1, <3>3, <3>4
  <2>3. QED
    BY <2>1, <2>2
<1>16. CustodyBeforeForward'
  BY <1>2, <1>3, <1>6 DEF CustodyInv, CustodyBeforeForward
<1>17. QED
  BY <1>10, <1>11, <1>12, <1>14, <1>15, <1>16
     DEF CustodyInv, WritersStand, Passing, PassMarks

LEMMA DrainCustody ==
    ASSUME TypeOK, HasHand, NoSegment, CustodyInv, NEW p \in Procs, OthersStay(p), Drain(p)
    PROVE  CustodyInv'
<1>1. CASE DrainRead(p)
  <2>1. CASE Exit(p)
    BY <1>1, <2>1, ExitInv DEF DrainRead
  <2>2. CASE ~Exit(p)
    <3>1. /\ pc[p] = "dread" /\ pc'[p] = "deliver"
          /\ UNCHANGED <<state, recs, torn, names, forwarded, hand, list, markDone>>
          /\ UNCHANGED <<seg, fresh, phase, job, inflight, cand>>
      BY <1>1, <2>2 DEF DrainRead, TypeOK, ControlOK, files, writer, evidence
    <3>2. QED
      BY <3>1, PassStepInv DEF OwnKept, DrainPass, OffsetPCs
  <2>3. QED
    BY <2>1, <2>2
<1>2. CASE DrainRecord(p)
  <2>1. /\ pc[p] = "deliver" /\ pc' = pc
        /\ UNCHANGED <<state, recs, torn, names, forwarded, hand, list, markDone>>
        /\ UNCHANGED <<seg, fresh, phase, job, inflight, cand>>
    BY <1>2 DEF DrainRecord, files, writer
  <2>2. QED
    BY <2>1, PassStepInv DEF OwnKept, DrainPass, OffsetPCs
<1>3. CASE DrainEOF(p)
  <2>1. /\ pc[p] = "deliver" /\ pc'[p] = "dprobe"
        /\ UNCHANGED <<state, recs, torn, names, forwarded, hand, list, markDone>>
        /\ UNCHANGED <<seg, fresh, phase, job, inflight, cand>>
    BY <1>3 DEF DrainEOF, TypeOK, ControlOK, writer, reader, evidence
  <2>2. QED
    BY <2>1, PassStepInv DEF OwnKept, DrainPass, OffsetPCs
<1>4. CASE DrainProbe(p)
  BY <1>4, ProbeInv DEF DrainProbe, PassPCs, OffsetPCs, DrainPass
<1>5. CASE DrainUnprobe(p)
  BY <1>5, UnprobeInv DEF DrainUnprobe, PassPCs, OffsetPCs, DrainPass
<1>6. CASE DrainRename(p)
  BY <1>6, ExitInv, DrainRenameCustody DEF DrainRename
<1>7. CASE DrainEnds(p)
  BY <1>7, ExitInv DEF DrainEnds
<1>8. QED
  BY <1>1, <1>2, <1>3, <1>4, <1>5, <1>6, <1>7, DrainListCustody, DrainStatCustody
     DEF Drain

\* a killed process leaves nothing of its line, part of it, or all of it
LEMMA CrashCustody ==
    ASSUME TypeOK, NoSegment, CustodyInv, NEW p \in Procs, OthersStay(p), Crash(p)
    PROVE  CustodyInv'
<1>1. Forget(p) /\ UNCHANGED <<state, names, forwarded>>
  BY DEF Crash, evidence
<1>2. CASE UNCHANGED <<recs, torn>>
  BY <1>1, <1>2, ForgetInv
<1>3. CASE torn' = [torn EXCEPT ![seg[p]] = TRUE] /\ recs' = recs
  <2>1. \A s \in Segs : torn'[s] = torn[s] \/ s = seg[p]
    BY <1>3 DEF TypeOK, FilesOK
  <2>2. QED
    BY <1>1, <1>3, <2>1, ForgetInv
<1>4. CASE pc[p] = "append" /\ Room(p) /\ Written(p)
  <2>1. pc'[p] \notin DrainPass /\ \A c \in Owed(p)' : c \in Owed(p) \/ job[p] = Intent(c)
    BY <1>1, Forgotten DEF DrainPass, OffsetPCs
  <2>2. QED
    BY <1>1, <1>4, <2>1, Forgotten, WrittenInv
<1>5. QED
  BY <1>2, <1>3, <1>4 DEF Crash

LEMMA FaultCustody ==
    ASSUME TypeOK, NoSegment, CustodyInv, NEW p \in Procs, OthersStay(p), Fault(p)
    PROVE  CustodyInv'
<1>1. CASE ShortWrite(p)
  <2>1. \A s \in Segs : torn'[s] = torn[s] \/ s = seg[p]
    BY <1>1 DEF ShortWrite, TypeOK, FilesOK
  <2>2. QED
    BY <1>1, <2>1, AppendFailsCustody DEF ShortWrite, evidence
<1>2. CASE DrainStops(p)
  BY <1>2, ForgetInv DEF DrainStops, evidence
<1>3. QED
  BY <1>1, <1>2, CrashCustody DEF Fault

LEMMA CustodyStep == IInv /\ LockInv /\ CustodyInv /\ [Next]_vars => CustodyInv'
<1> SUFFICES ASSUME IInv, LockInv, CustodyInv, [Next]_vars PROVE CustodyInv'
  OBVIOUS
<1>1. TypeOK /\ HasHand /\ NoSegment
  BY DEF IInv, LockInv
<1>2. CASE UNCHANGED vars
  <2>1. \A s \in Segs : IntentsIn(s)' = IntentsIn(s) /\ CompletedIn(s)' = CompletedIn(s)
    BY <1>2, SameReads DEF vars
  <2>2. \A q \in Procs : Claim(q)' = Claim(q) /\ Owed(q)' = Owed(q) /\ Ahead(q)' = Ahead(q)
    BY <1>2 DEF vars, Claim, Owed, JobCalls, Ahead
  <2>3. \A t \in Segs : \A c : Bound(t, c)' <=> Bound(t, c)
    BY <2>1, <2>2 DEF Bound
  <2>4. FilesNamed' /\ WritersStand' /\ OneClaim'
    BY <1>2, <2>2 DEF vars, CustodyInv, FilesNamed, WritersStand, Stands, OneClaim
  <2>5. Opens' /\ Ordered' /\ DoneBehind' /\ CustodyBeforeForward'
    BY <1>2, <2>1, <2>2, <2>3
       DEF vars, CustodyInv, Opens, Opened, Intent, Ordered, DoneBehind,
           CustodyBeforeForward
  <2>6. Passing'
    BY <1>2, <2>2 DEF vars, CustodyInv, Passing, InOrder
  <2>7. PassMarks'
    BY <1>2, <2>1, <2>2, <2>3 DEF vars, CustodyInv, Passing, InOrder, PassMarks, MayMark
  <2>8. QED
    BY <2>4, <2>5, <2>6, <2>7 DEF CustodyInv
<1>3. ASSUME NEW p \in Procs, AppendLine(p), OthersStay(p) PROVE CustodyInv'
  BY <1>1, <1>3, RotateInv, CreateInv, LockCustody, WriteCustody DEF AppendLine
<1>4. ASSUME NEW p \in Procs, Serve(p), OthersStay(p) PROVE CustodyInv'
  BY <1>1, <1>4, CallCustody, AnswerCustody, ExitInv DEF Serve, Shutdown
<1>5. QED
  BY <1>1, <1>2, <1>3, <1>4, StepOthers, StartCustody, RecoverCustody, DrainCustody,
     FaultCustody DEF Next

\* The invariant holds of every behaviour, however many processes overlap.
THEOREM CustodyHolds == Spec => [](IInv /\ LockInv /\ CustodyInv)
<1>1. Init => LockInv /\ CustodyInv
  BY LockInit, CustodyInit
<1>2. IInv /\ LockInv /\ CustodyInv /\ [Next]_vars => LockInv' /\ CustodyInv'
  BY LockStepInv, CustodyStep
<1>3. QED
  BY <1>1, <1>2, InvariantHolds, PTL DEF Spec

\* A request is forwarded only when its intent is on disk in a segment that is
\* there, whatever is killed, torn or overlapped: onClientLine spools first.
THEOREM CustodyBeforeBoundary == Spec => []CustodyBeforeForward
<1>1. CustodyInv => CustodyBeforeForward
  BY DEF CustodyInv
<1>2. QED
  BY <1>1, CustodyHolds, PTL

\* An intent in a segment recovery reads never has its completion in a .done
\* file recovery skips: the comment Recover relies on, for overlapping drains too.
THEOREM NothingHiddenInDone == Spec => []NoHiddenCompletion
<1>1. CustodyInv => NoHiddenCompletion
  BY DEF CustodyInv, DoneBehind, NoHiddenCompletion, Bound
<1>2. QED
  BY <1>1, CustodyHolds, PTL
=============================================================================
