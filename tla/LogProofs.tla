----------------------------- MODULE LogProofs -----------------------------
(***************************************************************************)
(* For any number of writers, followers, envelopes and receipts, and any   *)
(* number of crashes and refused writes: types, PromisedIsDurable,         *)
(* RowsAreLeaves, RebuildIsReference; EpochsDistinct and OneStaleSignature;*)
(* and, of a log used in good order (Orderly, below), AckedIsIndexed,      *)
(* FollowIsSafe and the refinement of AppendOnce.                          *)
(*                                                                         *)
(* The inductive invariant adds what a Pending knows at each stage of its  *)
(* Wait: which leaf it appended, which leaf it duplicates, and that the    *)
(* envelope it will promise is the one stored there.  The log only grows,  *)
(* so what a Pending knows stays true whatever the other processes do.     *)
(***************************************************************************)
EXTENDS LogProps, TLAPS, WellFoundedInduction, FiniteSetTheorems

\* what a Pending knows of the leaves
Knows(leaves, t) ==
    /\ t.leaf <= Len(leaves)
    /\ t.leaf # 0 => leaves[t.leaf] = t.env
    /\ t.first <= Len(leaves)
    /\ t.first # 0 => leaves[t.first] = t.names
    /\ t.first = 0 => t.names = t.env
    /\ Rid(t.names) = Rid(t.env)
    /\ t.stage \in {"durable", "checked", "looked"} => t.leaf # 0
    /\ t.stage = "looked" => t.first < t.leaf
    /\ t.stage = "dup" => t.first # 0
    /\ t.stage \in {"sign", "acked"} => AckIndex(t) # 0

\* an in-flight duplicate waits on a Pending of its handle and receipt
WaitsFor(ts, t) ==
    t.stage = "wait" =>
        t.waitOn \in DOMAIN ts /\ Rid(ts[t.waitOn].env) = Rid(t.env)

TasksKnow ==
    \A p \in Procs : \A k \in DOMAIN tasks[p] :
        Knows(log, tasks[p][k]) /\ WaitsFor(tasks[p], tasks[p][k])

\* a pass has read a checkpoint, and a rebuild starts at the first leaf
ScansOK ==
    \A p \in Procs : pc[p] = "follow" =>
        /\ scan[p].from # 0
        /\ scan[p].size <= published
        /\ scan[p].wipe => scan[p].from = 1

IInv == TypeOK /\ ScansOK /\ TasksKnow /\ RowsAreLeaves /\ PromisedIsDurable

-----------------------------------------------------------------------------
(* Lookups. *)

LEMMA LeastExists ==
    ASSUME NEW S \in SUBSET Nat, S # {}
    PROVE  \E x \in S : \A y \in S : x <= y
<1> DEFINE R == {ss \in Nat \X Nat : ss[1] < ss[2]}
<1>1. IsWellFoundedOn(R, Nat)
  BY NatLessThanWellFounded DEF OpToRel
<1>2. PICK x \in S : \A y \in S : ~ (<<y, x>> \in R)
  BY <1>1, WFMin
<1>3. ASSUME NEW y \in S PROVE x <= y
  <2>1. x \in Nat /\ y \in Nat
    OBVIOUS
  <2>2. ~(y < x)
    BY <1>2, <2>1
  <2>3. QED
    BY <2>1, <2>2
<1>4. QED
  BY <1>3

LEMMA LowestIsLeast ==
    ASSUME NEW S \in SUBSET Nat, S # {}
    PROVE  Lowest(S) \in S /\ \A j \in S : Lowest(S) <= j
BY LeastExists DEF Lowest

LEMMA FirstIsNoneOrMember ==
    ASSUME NEW S \in SUBSET Nat
    PROVE  First(S) \in Nat /\ (First(S) # 0 => First(S) \in S)
BY LowestIsLeast DEF First

\* a lookup yields nothing or a row of the receipt, which is stored as it says
LEMMA LookupFinds ==
    ASSUME TypeOK, RowsAreLeaves, NEW r \in Receipts, NEW b \in Nat,
           NEW c, c \in {LookupCanonical(rows, r), LookupBefore(rows, r, b)}
    PROVE  /\ c \in Nat /\ c <= Len(log)
           /\ c # 0 => /\ rows[c].env \in Envelopes
                       /\ log[c] = rows[c].env
                       /\ ReceiptOf[rows[c].env] = r
           /\ c = LookupBefore(rows, r, b) /\ c # 0 => c < b
<1>1. Canonical(rows, r) \subseteq 1..Len(log) /\ Len(log) \in Nat
  BY DEF TypeOK, Canonical
<1>2. Canonical(rows, r) \subseteq Nat
  BY <1>1
<1>3. c \in Nat /\ (c # 0 => c \in Canonical(rows, r))
  BY <1>2, FirstIsNoneOrMember DEF LookupCanonical, LookupBefore
<1>4. c = LookupBefore(rows, r, b) /\ c # 0 => c < b
  BY <1>2, FirstIsNoneOrMember DEF LookupBefore
<1>5. c # 0 => c \in DOMAIN rows /\ ReceiptOf[rows[c].env] = r /\ c \in 1..Len(log)
  BY <1>1, <1>3 DEF Canonical
<1>6. QED
  BY <1>1, <1>3, <1>4, <1>5 DEF RowsAreLeaves, TypeOK, Row
-----------------------------------------------------------------------------
(* The log only grows. *)

Grows ==
    /\ log' \in Seq(Envelopes)
    /\ Len(log) <= Len(log')
    /\ \A i \in 1..Len(log) : log'[i] = log[i]

LEMMA SameLogGrows == ASSUME TypeOK, log' = log PROVE Grows
BY DEF TypeOK, Grows

LEMMA AppendGrows ==
    ASSUME TypeOK, NEW e \in Envelopes, log' = Append(log, e)
    PROVE  Grows /\ Len(log') = Len(log) + 1 /\ log'[Len(log) + 1] = e
BY DEF TypeOK, Grows

LEMMA KnowsKept ==
    ASSUME TypeOK, Grows, NEW t \in Task, Knows(log, t)
    PROVE  Knows(log', t)
<1>1. t.leaf \in Nat /\ t.first \in Nat /\ Len(log) \in Nat /\ Len(log') \in Nat
  BY DEF TypeOK, Task, Grows
<1>2. t.leaf <= Len(log') /\ t.first <= Len(log')
  BY <1>1 DEF Grows, Knows
<1>3. t.leaf # 0 => log'[t.leaf] = t.env
  BY <1>1 DEF Grows, Knows
<1>4. t.first # 0 => log'[t.first] = t.names
  BY <1>1 DEF Grows, Knows
<1>5. QED
  BY <1>2, <1>3, <1>4 DEF Knows, Rid, AckIndex

LEMMA RowsKept ==
    ASSUME TypeOK, Grows, RowsAreLeaves, rows' = rows
    PROVE  RowsAreLeaves'
<1> SUFFICES ASSUME NEW i \in DOMAIN rows
             PROVE  /\ i \in 1..Len(log')
                    /\ rows[i].env = log'[i]
                    /\ rows[i].duplicateOf # 0 =>
                         /\ rows[i].duplicateOf \in 1..(i - 1)
                         /\ ReceiptOf[log'[rows[i].duplicateOf]] = ReceiptOf[log'[i]]
  BY DEF RowsAreLeaves
<1> DEFINE d == rows[i].duplicateOf
<1>1. i \in 1..Len(log) /\ Len(log) \in Nat /\ Len(log') \in Nat
  BY DEF RowsAreLeaves, TypeOK, Grows
<1>2. i \in 1..Len(log') /\ log'[i] = log[i]
  BY <1>1 DEF Grows
<1>3. ASSUME d # 0 PROVE d \in 1..(i - 1) /\ log'[d] = log[d]
  BY <1>1, <1>3 DEF Grows, RowsAreLeaves
<1>4. QED
  BY <1>2, <1>3 DEF RowsAreLeaves

LEMMA PromisesKept ==
    ASSUME TypeOK, Grows, PromisedIsDurable, promises' = promises
    PROVE  PromisedIsDurable'
<1>1. Len(log) \in Nat /\ Len(log') \in Nat
  BY DEF TypeOK, Grows
<1>2. QED
  BY <1>1 DEF PromisedIsDurable, Grows

-----------------------------------------------------------------------------
(* A step of one Pending. *)

LEMMA TaskFacts ==
    ASSUME IInv, NEW p \in Procs, NEW k \in DOMAIN tasks[p]
    PROVE  /\ tasks[p] \in Seq(Task) /\ tasks[p][k] \in Task
           /\ Knows(log, tasks[p][k]) /\ WaitsFor(tasks[p], tasks[p][k])
BY DEF IInv, TypeOK, TasksKnow

LEMMA TaskChanged ==
    ASSUME IInv, Grows, NEW p \in Procs, NEW k \in DOMAIN tasks[p],
           NEW t \in Task, SetTask(p, k, t),
           Rid(t.env) = Rid(tasks[p][k].env), Knows(log', t),
           WaitsFor(tasks[p], t)
    PROVE  tasks' \in [Procs -> Seq(Task)] /\ TasksKnow'
<1>1. tasks \in [Procs -> Seq(Task)] /\ tasks[p] \in Seq(Task)
  BY DEF IInv, TypeOK
<1>2. tasks' = [tasks EXCEPT ![p] = [tasks[p] EXCEPT ![k] = t]]
  BY DEF SetTask
<1>3. [tasks[p] EXCEPT ![k] = t] \in Seq(Task)
  BY <1>1
<1>4. tasks' \in [Procs -> Seq(Task)]
  BY <1>1, <1>2, <1>3
<1>5. ASSUME NEW q \in Procs, NEW j \in DOMAIN tasks'[q]
      PROVE  Knows(log', tasks'[q][j]) /\ WaitsFor(tasks'[q], tasks'[q][j])
  <2>1. CASE q # p
    <3>1. tasks'[q] = tasks[q]
      BY <1>1, <1>2, <2>1
    <3>2. tasks[q][j] \in Task /\ Knows(log, tasks[q][j]) /\ WaitsFor(tasks[q], tasks[q][j])
      BY <3>1, <1>5, TaskFacts
    <3> DEFINE u == tasks[q][j]
    <3>3. u \in Task /\ Knows(log, u)
      BY <3>2
    <3> HIDE DEF u
    <3>4. Knows(log', u)
      BY <3>3, KnowsKept DEF IInv
    <3>5. tasks'[q][j] = u
      BY <3>1 DEF u
    <3>6. QED
      BY <3>1, <3>2, <3>4, <3>5 DEF WaitsFor, Rid
  <2>2. CASE q = p
    <3>1. tasks'[p] = [tasks[p] EXCEPT ![k] = t] /\ DOMAIN tasks'[p] = DOMAIN tasks[p]
      BY <1>1, <1>2
    <3>2. \A i \in DOMAIN tasks[p] : Rid(tasks'[p][i].env) = Rid(tasks[p][i].env)
      BY <3>1, <1>1 DEF Rid
    <3>3. j \in DOMAIN tasks[p]
      BY <1>5, <2>2, <3>1
    <3>4. CASE j = k
      <4>1. tasks'[p][k] = t
        BY <3>1, <1>1
      <4>2. QED
        BY <4>1, <3>4, <3>1, <3>2, <2>2 DEF WaitsFor, Rid
    <3>5. CASE j # k
      <4> DEFINE u == tasks[p][j]
      <4>1. u \in Task /\ Knows(log, u) /\ WaitsFor(tasks[p], u)
        BY <3>3, TaskFacts
      <4>2. tasks'[p][j] = u
        BY <3>1, <3>5, <3>3, <1>1
      <4> HIDE DEF u
      <4>3. Knows(log', u)
        BY <4>1, KnowsKept DEF IInv
      <4>4. QED
        BY <4>1, <4>2, <4>3, <3>1, <3>2, <2>2 DEF WaitsFor, Rid
    <3>6. QED
      BY <3>4, <3>5
  <2>3. QED
    BY <2>1, <2>2
<1>6. QED
  BY <1>4, <1>5 DEF TasksKnow

\* tasks that nobody touches, or that go with their handle
LEMMA TasksKept ==
    ASSUME IInv, Grows, NEW S \in SUBSET Procs,
           tasks' = [q \in Procs |-> IF q \in S THEN <<>> ELSE tasks[q]]
    PROVE  tasks' \in [Procs -> Seq(Task)] /\ TasksKnow'
<1>1. tasks \in [Procs -> Seq(Task)]
  BY DEF IInv, TypeOK
<1>2. <<>> \in Seq(Task) /\ DOMAIN <<>> = {}
  OBVIOUS
<1>3. tasks' \in [Procs -> Seq(Task)]
  BY <1>1, <1>2
<1>4. ASSUME NEW q \in Procs, NEW j \in DOMAIN tasks'[q]
      PROVE  Knows(log', tasks'[q][j]) /\ WaitsFor(tasks'[q], tasks'[q][j])
  <2> DEFINE u == tasks[q][j]
  <2>1. tasks'[q] = tasks[q]
    BY <1>2, <1>4
  <2>2. u \in Task /\ Knows(log, u) /\ WaitsFor(tasks[q], u)
    BY <2>1, TaskFacts
  <2>3. tasks'[q][j] = u
    BY <2>1
  <2> HIDE DEF u
  <2>4. Knows(log', u)
    BY <2>2, KnowsKept DEF IInv
  <2>5. QED
    BY <2>1, <2>2, <2>3, <2>4 DEF WaitsFor, Rid
<1>5. QED
  BY <1>3, <1>4 DEF TasksKnow
-----------------------------------------------------------------------------
(* Steps that leave the leaves, the rows and the promises alone. *)

ControlOK ==
    /\ published \in 0..Len(log)
    /\ indexed \in 0..published
    /\ epoch \in Nat
    /\ epochLock \in Procs \cup {NoProc}
    /\ pc \in [Procs -> {"idle", "claim", "open", "closing", "follow"}]
    /\ mine \in [Procs -> Nat]
    /\ scan \in [Procs -> ScanType]
    /\ outcome \in [Procs -> {"none", "ok", "failed"}]
    /\ faults \in Nat

LEMMA DataKept ==
    ASSUME IInv, UNCHANGED <<log, rows, promises>>, ControlOK', ScansOK',
           tasks' \in [Procs -> Seq(Task)], TasksKnow'
    PROVE  IInv'
<1>1. TypeOK' /\ Grows
  BY SameLogGrows DEF IInv, TypeOK, ControlOK
<1>2. RowsAreLeaves' /\ PromisedIsDurable'
  BY <1>1, RowsKept, PromisesKept DEF IInv
<1>3. QED
  BY <1>1, <1>2 DEF IInv

LEMMA TasksUntouched ==
    ASSUME IInv, UNCHANGED <<log, tasks>>
    PROVE  tasks' \in [Procs -> Seq(Task)] /\ TasksKnow'
<1>1. tasks' = [q \in Procs |-> IF q \in {} THEN <<>> ELSE tasks[q]]
  BY DEF IInv, TypeOK
<1>2. Grows
  BY SameLogGrows DEF IInv
<1> DEFINE S == {}
<1>3. S \in SUBSET Procs /\ tasks' = [q \in Procs |-> IF q \in S THEN <<>> ELSE tasks[q]]
  BY <1>1
<1> HIDE DEF S
<1>4. QED
  BY <1>2, <1>3, TasksKept

LEMMA TaskMoved ==
    ASSUME IInv, NEW p \in Procs, NEW k \in DOMAIN tasks[p], NEW t \in Task,
           UNCHANGED <<logVars, indexVars, epochVars, pc, passVars, promises>>,
           faults' \in Nat, SetTask(p, k, t),
           Rid(t.env) = Rid(tasks[p][k].env), Knows(log, t), WaitsFor(tasks[p], t)
    PROVE  IInv'
<1>1. Grows /\ log' = log
  BY SameLogGrows DEF IInv, logVars
<1>2. tasks' \in [Procs -> Seq(Task)] /\ TasksKnow'
  BY <1>1, TaskChanged
<1>3. ControlOK' /\ ScansOK'
  BY DEF ControlOK, ScansOK, IInv, TypeOK, logVars, indexVars, epochVars, passVars
<1>4. QED
  BY <1>2, <1>3, DataKept DEF logVars, indexVars

\* a new stage, where the stage asks for nothing more
LEMMA StageMoved ==
    ASSUME IInv, NEW p \in Procs, NEW k \in DOMAIN tasks[p], NEW s \in Stage,
           UNCHANGED <<logVars, indexVars, epochVars, pc, passVars, promises>>,
           faults' \in Nat, SetStage(p, k, s),
           Knows(log, [tasks[p][k] EXCEPT !.stage = s]), s # "wait"
    PROVE  IInv'
<1> DEFINE t == [tasks[p][k] EXCEPT !.stage = s]
<1>1. tasks[p][k] \in Task /\ tasks[p] \in Seq(Task) /\ tasks \in [Procs -> Seq(Task)]
  BY TaskFacts DEF IInv, TypeOK
<1>2. t \in Task /\ t.env = tasks[p][k].env /\ t.stage = s
  BY <1>1 DEF Task
<1>3. SetTask(p, k, t)
  BY <1>1 DEF SetTask, SetStage
<1>4. WaitsFor(tasks[p], t)
  BY <1>2 DEF WaitsFor
<1> HIDE DEF t
<1>5. Knows(log, t)
  BY DEF t
<1>6. \A u \in Task : SetTask(p, k, u) /\ Rid(u.env) = Rid(tasks[p][k].env)
                        /\ Knows(log, u) /\ WaitsFor(tasks[p], u) => IInv'
  BY TaskMoved
<1>7. QED
  BY <1>2, <1>3, <1>4, <1>5, <1>6

-----------------------------------------------------------------------------
(* Action by action. *)

LEMMA HandleSteps ==
    ASSUME IInv, NEW p \in Procs,
           ClaimRead(p) \/ ClaimWrite(p) \/ CloseBegin(p) \/ BeginFenced(p) \/ Publish(p)
    PROVE  IInv'
<1> USE DEF ControlOK, ScansOK, TypeOK, logVars, indexVars, epochVars, passVars
<1>1. UNCHANGED <<log, rows, promises, tasks>>
  BY DEF ClaimRead, ClaimWrite, CloseBegin, BeginFenced, Publish
<1>2. ASSUME ClaimRead(p) PROVE ControlOK' /\ ScansOK'
  BY <1>2 DEF ClaimRead, IInv
<1>3. ASSUME ClaimWrite(p) PROVE ControlOK' /\ ScansOK'
  BY <1>3 DEF ClaimWrite, IInv
<1>4. ASSUME CloseBegin(p) PROVE ControlOK' /\ ScansOK'
  BY <1>4 DEF CloseBegin, IInv
<1>5. ASSUME BeginFenced(p) PROVE ControlOK' /\ ScansOK'
  BY <1>5 DEF BeginFenced, IInv
<1>6. ASSUME Publish(p) PROVE ControlOK' /\ ScansOK'
  <2>1. published \in Nat /\ Len(log) \in Nat /\ published' = Len(log) /\ published < Len(log)
    BY <1>6 DEF Publish, IInv
  <2>2. ControlOK'
    BY <1>6, <2>1 DEF Publish, IInv
  <2>3. ASSUME NEW q \in Procs, pc[q] = "follow" PROVE scan[q].size <= published'
    BY <2>1, <2>3 DEF IInv, ScanType
  <2>4. QED
    BY <1>6, <2>2, <2>3 DEF Publish, IInv
<1>7. ControlOK' /\ ScansOK'
  BY <1>2, <1>3, <1>4, <1>5, <1>6
<1> HIDE DEF ControlOK, ScansOK, TypeOK
<1>8. tasks' \in [Procs -> Seq(Task)] /\ TasksKnow'
  BY <1>1, TasksUntouched
<1>9. QED
  BY <1>1, <1>7, <1>8, DataKept
LEMMA EndSteps ==
    ASSUME IInv, NEW p \in Procs, CloseEnd(p) \/ Crash(p)
    PROVE  IInv'
<1>1. UNCHANGED <<log, rows, promises>> /\ Grows
  BY SameLogGrows DEF CloseEnd, Crash, logVars, indexVars, IInv
<1>2. tasks' \in [Procs -> Seq(Task)] /\ TasksKnow'
  <2> DEFINE S == {p}
  <2>1. S \in SUBSET Procs /\ tasks' = [q \in Procs |-> IF q \in S THEN <<>> ELSE tasks[q]]
    BY DEF CloseEnd, Crash, IInv, TypeOK
  <2> HIDE DEF S
  <2>2. QED
    BY <1>1, <2>1, TasksKept
<1>3. ASSUME CloseEnd(p) PROVE ControlOK' /\ ScansOK'
  BY <1>3 DEF CloseEnd, ControlOK, ScansOK, IInv, TypeOK, logVars, indexVars, passVars
<1>4. ASSUME Crash(p) PROVE ControlOK' /\ ScansOK'
  <2>1. NoScan \in ScanType
    BY DEF NoScan, ScanType
  <2>2. ControlOK'
    BY <1>4, <2>1 DEF Crash, ControlOK, IInv, TypeOK, logVars, indexVars
  <2>3. ASSUME NEW q \in Procs, pc'[q] = "follow"
        PROVE  scan'[q] = scan[q] /\ published' = published /\ pc[q] = "follow"
    BY <1>4, <2>3 DEF Crash, IInv, TypeOK, logVars
  <2>4. QED
    BY <2>2, <2>3 DEF ScansOK, IInv
<1>5. QED
  BY <1>1, <1>2, <1>3, <1>4, DataKept

LEMMA PassReads ==
    ASSUME IInv, NEW p \in Procs, NEW c \in Passes, PassRead(p, c)
    PROVE  IInv'
<1> DEFINE t == [from |-> (IF c = "reindex" THEN 0 ELSE indexed) + 1,
                 size |-> published, wipe |-> c = "reindex"]
<1>0. indexed \in Nat /\ published \in Nat
  BY DEF IInv, TypeOK
<1>1. t \in ScanType /\ t.from # 0 /\ t.size = published /\ (t.wipe => t.from = 1)
  <2> DEFINE f == (IF c = "reindex" THEN 0 ELSE indexed) + 1
  <2>1. f \in Nat /\ f # 0
    BY <1>0
  <2>2. c = "reindex" => f = 1
    OBVIOUS
  <2> HIDE DEF f
  <2>3. t = [from |-> f, size |-> published, wipe |-> c = "reindex"]
    BY DEF f
  <2> HIDE DEF t
  <2>4. QED
    BY <1>0, <2>1, <2>2, <2>3 DEF ScanType
<1>2. /\ UNCHANGED <<log, rows, promises, tasks, published, indexed, epoch, epochLock,
                     mine, outcome, faults>>
      /\ scan' = [scan EXCEPT ![p] = t] /\ pc' = [pc EXCEPT ![p] = "follow"]
  BY DEF PassRead, logVars, indexVars, epochVars
<1> HIDE DEF t
<1>3. ControlOK'
  BY <1>1, <1>2 DEF ControlOK, IInv, TypeOK
<1>4. ScansOK'
  <2>1. ASSUME NEW q \in Procs, q # p, pc'[q] = "follow"
        PROVE  scan'[q] = scan[q] /\ pc[q] = "follow"
    BY <1>2, <2>1 DEF IInv, TypeOK
  <2>2. scan'[p] = t /\ published \in Nat
    BY <1>2 DEF IInv, TypeOK
  <2>3. QED
    BY <1>1, <1>2, <2>1, <2>2 DEF ScansOK, IInv
<1>5. QED
  BY <1>2, <1>3, <1>4, TasksUntouched, DataKept

LEMMA StageSteps ==
    ASSUME IInv, NEW p \in Procs, NEW k \in DOMAIN tasks[p],
           AwaitFuture(p, k) \/ AwaitDuplicate(p, k) \/ RecordBusy(p, k)
    PROVE  IInv'
<1> DEFINE t == tasks[p][k]
           u(s) == [t EXCEPT !.stage = s]
<1>1. t \in Task /\ Knows(log, t)
  BY TaskFacts
<1>2. faults' \in Nat /\ UNCHANGED <<logVars, indexVars, epochVars, pc, passVars, promises>>
  BY DEF AwaitFuture, AwaitDuplicate, RecordBusy, IInv, TypeOK
<1>3. PICK s \in Stage :
        /\ SetStage(p, k, s)
        /\ s \in {"checked", "sign", "failed"}
        /\ s = "checked" => t.stage = "durable"
        /\ s = "sign" => t.stage = "dup"
  BY DEF AwaitFuture, AwaitDuplicate, RecordBusy, Stage
<1>4. /\ u(s).stage = s /\ u(s).leaf = t.leaf /\ u(s).first = t.first
      /\ u(s).names = t.names /\ u(s).env = t.env
  BY <1>1 DEF Task
<1> HIDE DEF u
<1>5. Knows(log, u(s))
  BY <1>1, <1>3, <1>4 DEF Knows, AckIndex
<1>6. Knows(log, [tasks[p][k] EXCEPT !.stage = s])
  BY <1>5 DEF u
<1>7. QED
  BY <1>2, <1>3, <1>6, StageMoved
LEMMA LookupStep ==
    ASSUME IInv, NEW p \in Procs, NEW k \in DOMAIN tasks[p], RecordLookup(p, k)
    PROVE  IInv'
<1> DEFINE t == tasks[p][k]
           c == LookupBefore(rows, Rid(t.env), t.leaf)
           u == [t EXCEPT !.stage = "looked", !.first = c,
                          !.names = IF c = 0 THEN t.env ELSE rows[c].env]
<1>1. t \in Task /\ Knows(log, t) /\ t.env \in Envelopes /\ t.leaf \in Nat
  BY TaskFacts DEF Task
<1>2. faults' \in Nat /\ UNCHANGED <<logVars, indexVars, epochVars, pc, passVars, promises>>
  BY DEF RecordLookup, IInv, TypeOK
<1>3. t.stage = "checked" /\ SetTask(p, k, u)
  BY DEF RecordLookup
<1>4. Rid(t.env) \in Receipts
  BY <1>1, ExtractAssumption DEF Rid
<1>5. /\ c \in Nat /\ c <= Len(log)
      /\ c # 0 => /\ rows[c].env \in Envelopes
                  /\ log[c] = rows[c].env
                  /\ ReceiptOf[rows[c].env] = Rid(t.env)
                  /\ c < t.leaf
  BY <1>1, <1>4, LookupFinds DEF IInv
<1> HIDE DEF c
<1>6. /\ u \in Task /\ u.stage = "looked" /\ u.first = c /\ u.leaf = t.leaf
      /\ u.env = t.env /\ u.names = IF c = 0 THEN t.env ELSE rows[c].env
  BY <1>1, <1>5 DEF Task, Stage
<1> HIDE DEF u
<1>7. t.leaf # 0
  BY <1>1, <1>3 DEF Knows
<1>8. Knows(log, u) /\ WaitsFor(tasks[p], u) /\ Rid(u.env) = Rid(t.env)
  BY <1>1, <1>5, <1>6, <1>7 DEF Knows, WaitsFor, Rid
<1> HIDE DEF t
<1>9. Rid(u.env) = Rid(tasks[p][k].env)
  BY <1>8 DEF t
<1>10. QED
  BY <1>2, <1>3, <1>6, <1>8, <1>9, TaskMoved

LEMMA OriginalStep ==
    ASSUME IInv, NEW p \in Procs, NEW k \in DOMAIN tasks[p], AwaitOriginal(p, k)
    PROVE  IInv'
<1> DEFINE t == tasks[p][k]
           o == tasks[p][t.waitOn]
           u == [t EXCEPT !.stage = "sign", !.first = AckIndex(o), !.names = o.names]
           f == [t EXCEPT !.stage = "failed"]
<1>1. t \in Task /\ Knows(log, t) /\ WaitsFor(tasks[p], t) /\ t.stage = "wait"
  BY TaskFacts DEF AwaitOriginal
<1>2. faults' \in Nat /\ UNCHANGED <<logVars, indexVars, epochVars, pc, passVars, promises>>
  BY DEF AwaitOriginal, IInv, TypeOK
<1>3. t.waitOn \in DOMAIN tasks[p] /\ Rid(o.env) = Rid(t.env)
  BY <1>1 DEF WaitsFor
<1>4. o \in Task /\ Knows(log, o)
  BY <1>3, TaskFacts
<1>5. CASE SetStage(p, k, "failed")
  <2>1. /\ f.stage = "failed" /\ f.leaf = t.leaf /\ f.first = t.first
        /\ f.names = t.names /\ f.env = t.env
    BY <1>1 DEF Task
  <2> HIDE DEF f
  <2>2. Knows(log, f)
    BY <1>1, <2>1 DEF Knows
  <2>3. Knows(log, [tasks[p][k] EXCEPT !.stage = "failed"]) /\ "failed" \in Stage
    BY <2>2 DEF f, Stage
  <2>4. QED
    BY <1>2, <1>5, <2>3, StageMoved
<1>6. CASE o.stage = "acked" /\ SetTask(p, k, u)
  <2>1. /\ AckIndex(o) \in Nat /\ AckIndex(o) # 0 /\ AckIndex(o) <= Len(log)
        /\ log[AckIndex(o)] = o.names /\ o.names \in Envelopes
        /\ Rid(o.names) = Rid(t.env)
    BY <1>3, <1>4, <1>6 DEF AckIndex, Knows, Task
  <2>2. /\ u \in Task /\ u.stage = "sign" /\ u.first = AckIndex(o) /\ u.leaf = t.leaf
        /\ u.env = t.env /\ u.names = o.names
    BY <1>1, <2>1 DEF Task, Stage
  <2> HIDE DEF u
  <2>3. Knows(log, u)
    <3>1. AckIndex(u) = u.first
      BY <2>1, <2>2 DEF AckIndex
    <3>2. QED
      BY <1>1, <2>1, <2>2, <3>1 DEF Knows
  <2>4. WaitsFor(tasks[p], u) /\ Rid(u.env) = Rid(tasks[p][k].env)
    BY <2>2 DEF WaitsFor
  <2>5. QED
    BY <1>2, <1>6, <2>2, <2>3, <2>4, TaskMoved
<1>7. QED
  BY <1>5, <1>6 DEF AwaitOriginal
LEMMA IntegrateStep ==
    ASSUME IInv, NEW p \in Procs, NEW k \in DOMAIN tasks[p], Integrate(p, k)
    PROVE  IInv'
<1> DEFINE t == tasks[p][k]
           n == Len(log) + 1
           u == [t EXCEPT !.stage = "durable", !.leaf = n]
<1>1. t \in Task /\ Knows(log, t) /\ t.env \in Envelopes
  BY TaskFacts DEF Task
<1>2. Grows /\ Len(log') = n /\ log'[n] = t.env /\ Len(log) \in Nat
  BY <1>1, AppendGrows DEF Integrate, IInv, TypeOK
<1> HIDE DEF n
<1>3. n \in Nat /\ n # 0
  BY <1>2 DEF n
<1>4. /\ u \in Task /\ u.stage = "durable" /\ u.leaf = n /\ u.first = t.first
      /\ u.names = t.names /\ u.env = t.env
  BY <1>1, <1>3 DEF Task, Stage
<1>5. SetTask(p, k, u)
  BY DEF Integrate, n
<1> HIDE DEF u
<1>6. Knows(log', u)
  <2>1. Knows(log', t)
    BY <1>1, <1>2, KnowsKept DEF IInv
  <2>2. QED
    BY <1>2, <1>3, <1>4, <2>1 DEF Knows
<1>7. Rid(u.env) = Rid(tasks[p][k].env) /\ WaitsFor(tasks[p], u)
  BY <1>4 DEF WaitsFor
<1>8. tasks' \in [Procs -> Seq(Task)] /\ TasksKnow'
  BY <1>2, <1>4, <1>5, <1>6, <1>7, TaskChanged
<1>9. UNCHANGED <<published, rows, promises, indexed, epoch, epochLock, mine, pc, scan,
                 outcome, faults>>
  BY DEF Integrate, indexVars, epochVars, passVars
<1>10. TypeOK'
  BY <1>2, <1>8, <1>9 DEF TypeOK, IInv, Grows, n
<1>11. RowsAreLeaves' /\ PromisedIsDurable'
  BY <1>2, <1>9, RowsKept, PromisesKept DEF IInv
<1>12. ScansOK'
  BY <1>9 DEF ScansOK, IInv
<1>13. QED
  BY <1>8, <1>10, <1>11, <1>12 DEF IInv

LEMMA BeginStep ==
    ASSUME IInv, NEW p \in Procs, NEW e \in Envelopes, Begin(p, e)
    PROVE  IInv'
<1> DEFINE t == Begun(p, e)
           ts == tasks[p]
           live == InFlight(p, Rid(e))
           seen == LookupCanonical(rows, Rid(e))
<1>1. ts \in Seq(Task) /\ tasks \in [Procs -> Seq(Task)] /\ Len(ts) \in Nat
  BY DEF IInv, TypeOK
<1>2. Rid(e) \in Receipts
  BY ExtractAssumption DEF Rid
<1>3. t \in Task /\ Knows(log, t)
      /\ (t.stage = "wait" => t.waitOn \in DOMAIN ts /\ Rid(ts[t.waitOn].env) = Rid(t.env))
  <2>1. \A st \in Stage : NewTask(e, st) \in Task
    BY DEF NewTask, Task
  <2>2. "wait" \in Stage /\ "dup" \in Stage /\ "queued" \in Stage
    BY DEF Stage
  <2>3. CASE live # {}
    <3>1. live \in SUBSET Nat /\ live \subseteq DOMAIN ts
      BY <1>1 DEF InFlight
    <3>2. Lowest(live) \in live
      BY <2>3, <3>1, LowestIsLeast
    <3>3. Lowest(live) \in Nat /\ Lowest(live) \in DOMAIN ts /\ Rid(ts[Lowest(live)].env) = Rid(e)
      BY <3>1, <3>2 DEF InFlight
    <3>4. t = [NewTask(e, "wait") EXCEPT !.waitOn = Lowest(live)]
      BY <2>3 DEF Begun
    <3> HIDE DEF live
    <3>5. /\ t.stage = "wait" /\ t.waitOn = Lowest(live) /\ t.env = e /\ t.names = e
          /\ t.first = 0 /\ t.leaf = 0 /\ t \in Task
      BY <2>1, <2>2, <3>3, <3>4 DEF NewTask, Task
    <3> HIDE DEF t
    <3>6. Knows(log, t)
      BY <1>1, <3>5 DEF Knows, IInv, TypeOK
    <3>7. QED
      BY <3>3, <3>5, <3>6
  <2>4. CASE live = {} /\ seen # 0
    <3>1. /\ seen \in Nat /\ seen <= Len(log) /\ rows[seen].env \in Envelopes
          /\ log[seen] = rows[seen].env /\ ReceiptOf[rows[seen].env] = Rid(e)
      BY <1>2, <2>4, LookupFinds DEF IInv
    <3>2. t = [NewTask(e, "dup") EXCEPT !.first = seen, !.names = rows[seen].env]
      BY <2>4 DEF Begun
    <3> HIDE DEF seen
    <3>3. /\ t.stage = "dup" /\ t.env = e /\ t.names = rows[seen].env
          /\ t.first = seen /\ t.leaf = 0 /\ t \in Task
      BY <2>1, <2>2, <3>1, <3>2 DEF NewTask, Task
    <3> HIDE DEF t
    <3>4. Knows(log, t)
      BY <2>4, <3>1, <3>3 DEF Knows, Rid, IInv, TypeOK
    <3>5. QED
      BY <3>3, <3>4
  <2>5. CASE live = {} /\ seen = 0
    <3>1. t = NewTask(e, "queued")
      BY <2>5 DEF Begun
    <3>2. /\ t.stage = "queued" /\ t.env = e /\ t.names = e
          /\ t.first = 0 /\ t.leaf = 0 /\ t \in Task
      BY <2>1, <2>2, <3>1 DEF NewTask
    <3> HIDE DEF t
    <3>3. Knows(log, t)
      BY <3>2 DEF Knows, IInv, TypeOK
    <3>4. QED
      BY <3>2, <3>3
  <2>6. QED
    BY <2>3, <2>4, <2>5
<1>4. tasks' = [tasks EXCEPT ![p] = Append(ts, t)]
  BY DEF Begin
<1> HIDE DEF t
<1>5. Append(ts, t) \in Seq(Task) /\ DOMAIN Append(ts, t) = 1..(Len(ts) + 1)
      /\ Append(ts, t)[Len(ts) + 1] = t
      /\ \A j \in DOMAIN ts : j \in DOMAIN Append(ts, t) /\ Append(ts, t)[j] = ts[j]
  BY <1>1, <1>3
<1>6. tasks' \in [Procs -> Seq(Task)] /\ tasks'[p] = Append(ts, t)
  BY <1>1, <1>4, <1>5
<1>7. log' = log
  BY DEF Begin, logVars
<1>8. ASSUME NEW q \in Procs, NEW j \in DOMAIN tasks'[q]
      PROVE  Knows(log', tasks'[q][j]) /\ WaitsFor(tasks'[q], tasks'[q][j])
  <2>1. CASE q # p
    <3>1. tasks'[q] = tasks[q]
      BY <1>1, <1>4, <2>1
    <3>2. QED
      BY <1>7, <1>8, <3>1, TaskFacts
  <2>2. CASE q = p /\ j \in DOMAIN ts
    <3>1. tasks'[p][j] = ts[j] /\ Knows(log, ts[j]) /\ WaitsFor(ts, ts[j])
      BY <1>5, <1>6, <2>2, TaskFacts
    <3>2. WaitsFor(tasks'[p], ts[j])
      BY <1>5, <1>6, <3>1 DEF WaitsFor
    <3>3. QED
      BY <1>7, <2>2, <3>1, <3>2
  <2>3. CASE q = p /\ j = Len(ts) + 1
    <3>1. tasks'[p][j] = t
      BY <1>5, <1>6, <2>3
    <3>2. WaitsFor(tasks'[p], t)
      BY <1>3, <1>5, <1>6 DEF WaitsFor
    <3>3. QED
      BY <1>3, <1>7, <2>3, <3>1, <3>2
  <2>4. q = p => j \in DOMAIN ts \/ j = Len(ts) + 1
    BY <1>1, <1>5, <1>6, <1>8
  <2>5. QED
    BY <2>1, <2>2, <2>3, <2>4
<1>9. ControlOK' /\ ScansOK'
  BY DEF Begin, ControlOK, ScansOK, IInv, TypeOK, logVars, indexVars, epochVars, passVars
<1>10. QED
  BY <1>6, <1>8, <1>9, DataKept DEF TasksKnow, Begin, logVars, indexVars
LEMMA InsertStep ==
    ASSUME IInv, NEW p \in Procs, NEW k \in DOMAIN tasks[p], RecordInsert(p, k)
    PROVE  IInv'
<1> DEFINE t == tasks[p][k]
           u(s) == [t EXCEPT !.stage = s]
           new == [env |-> t.env, duplicateOf |-> t.first]
<1>1. /\ t \in Task /\ Knows(log, t) /\ t.stage = "looked"
      /\ t.env \in Envelopes /\ t.names \in Envelopes
      /\ t.leaf \in Nat /\ t.first \in Nat /\ Len(log) \in Nat
  <2>1. t \in Task /\ Knows(log, t)
    BY TaskFacts
  <2>2. t.stage = "looked" /\ Len(log) \in Nat
    BY DEF RecordInsert, IInv, TypeOK
  <2>3. QED
    BY <2>1, <2>2 DEF Task
<1>2. UNCHANGED <<log, published, indexed, epoch, epochLock, mine, pc, scan, outcome,
                  promises, faults>>
  BY DEF RecordInsert, logVars, epochVars, passVars
<1>3. Grows
  BY <1>2, SameLogGrows DEF IInv
<1>4. PICK s \in {"sign", "failed"} : SetStage(p, k, s)
  BY DEF RecordInsert
<1>5. tasks' \in [Procs -> Seq(Task)] /\ TasksKnow'
  <2>1. u(s) \in Task /\ u(s).stage = s /\ u(s).leaf = t.leaf /\ u(s).first = t.first
        /\ u(s).names = t.names /\ u(s).env = t.env
    BY <1>1, <1>4 DEF Task, Stage
  <2>2. SetTask(p, k, u(s))
    BY <1>1, <1>4 DEF SetTask, SetStage, IInv, TypeOK
  <2> DEFINE v == u(s)
  <2>3. v \in Task /\ v.stage \in {"sign", "failed"} /\ v.leaf = t.leaf /\ v.first = t.first
        /\ v.names = t.names /\ v.env = t.env /\ SetTask(p, k, v)
    BY <1>4, <2>1, <2>2
  <2> HIDE DEF v, u
  <2>4. Knows(log', v) /\ WaitsFor(tasks[p], v) /\ Rid(v.env) = Rid(tasks[p][k].env)
    BY <1>1, <1>2, <2>3 DEF Knows, WaitsFor, AckIndex
  <2>5. QED
    BY <1>3, <2>3, <2>4, TaskChanged
<1>6. CASE rows' = rows
  <2>1. TypeOK'
    BY <1>2, <1>5, <1>6 DEF IInv, TypeOK
  <2>2. RowsAreLeaves' /\ PromisedIsDurable' /\ ScansOK'
    BY <1>2, <1>3, <1>6, RowsKept, PromisesKept DEF IInv, ScansOK
  <2>3. QED
    BY <1>5, <2>1, <2>2 DEF IInv
<1>7. CASE rows' = Upsert(rows, t.leaf, t.env, t.first)
  <2> HIDE DEF t
  <2>1. /\ DOMAIN rows' = DOMAIN rows \cup {t.leaf} /\ rows'[t.leaf] = new
        /\ \A i \in DOMAIN rows : i # t.leaf => rows'[i] = rows[i]
    BY <1>7 DEF Upsert
  <2>2. t.leaf \in 1..Len(log) /\ new \in Row /\ log[t.leaf] = t.env
    BY <1>1 DEF Knows, Row
  <2>3. t.first # 0 =>
          t.first \in 1..(t.leaf - 1) /\ ReceiptOf[log[t.first]] = ReceiptOf[log[t.leaf]]
    BY <1>1, <2>2 DEF Knows, Rid
  <2>4. TypeOK'
    BY <1>2, <1>5, <2>1, <2>2 DEF IInv, TypeOK
  <2>5. RowsAreLeaves'
    <3> SUFFICES ASSUME NEW i \in DOMAIN rows'
                 PROVE  /\ i \in 1..Len(log)
                        /\ rows'[i].env = log[i]
                        /\ rows'[i].duplicateOf # 0 =>
                              /\ rows'[i].duplicateOf \in 1..(i - 1)
                              /\ ReceiptOf[log[rows'[i].duplicateOf]] = ReceiptOf[log[i]]
      BY <1>2 DEF RowsAreLeaves
    <3>1. CASE i = t.leaf
      BY <3>1, <2>1, <2>2, <2>3
    <3>2. CASE i # t.leaf
      BY <3>2, <2>1 DEF IInv, RowsAreLeaves
    <3>3. QED
      BY <3>1, <3>2
  <2>6. PromisedIsDurable' /\ ScansOK'
    BY <1>2, <1>3, PromisesKept DEF IInv, ScansOK
  <2>7. QED
    BY <1>5, <2>4, <2>5, <2>6 DEF IInv
<1>8. QED
  BY <1>6, <1>7 DEF RecordInsert

LEMMA SignStep ==
    ASSUME IInv, NEW p \in Procs, NEW k \in DOMAIN tasks[p], Sign(p, k)
    PROVE  IInv'
<1> DEFINE t == tasks[p][k]
           v == [t EXCEPT !.stage = "acked"]
           pr == [receipt |-> Rid(t.env), names |-> t.names, index |-> AckIndex(t),
                  dup |-> t.first # 0, signer |-> mine[p], current |-> epoch]
<1>1. /\ t \in Task /\ Knows(log, t) /\ t.stage = "sign"
      /\ t.env \in Envelopes /\ t.names \in Envelopes
      /\ t.leaf \in Nat /\ t.first \in Nat /\ Len(log) \in Nat
  <2>1. t \in Task /\ Knows(log, t)
    BY TaskFacts
  <2>2. t.stage = "sign" /\ Len(log) \in Nat
    BY DEF Sign, IInv, TypeOK
  <2>3. QED
    BY <2>1, <2>2 DEF Task
<1>2. UNCHANGED <<log, published, rows, indexed, epoch, epochLock, mine, pc, scan, outcome,
                  faults>>
  BY DEF Sign, logVars, indexVars, epochVars, passVars
<1>3. Grows
  BY <1>2, SameLogGrows DEF IInv
<1>4. tasks' \in [Procs -> Seq(Task)] /\ TasksKnow'
  <2>1. v \in Task /\ v.stage = "acked" /\ v.leaf = t.leaf /\ v.first = t.first
        /\ v.names = t.names /\ v.env = t.env
    BY <1>1 DEF Task, Stage
  <2>2. SetTask(p, k, v)
    BY <1>1 DEF Sign, SetTask, SetStage, IInv, TypeOK
  <2> HIDE DEF v
  <2>3. Knows(log', v) /\ WaitsFor(tasks[p], v) /\ Rid(v.env) = Rid(tasks[p][k].env)
    BY <1>1, <1>2, <2>1 DEF Knows, WaitsFor, AckIndex
  <2>4. QED
    BY <1>3, <2>1, <2>2, <2>3, TaskChanged
<1>5. promises' = promises \cup {pr}
  BY DEF Sign
<1>6. AckIndex(t) \in 1..Len(log) /\ log[AckIndex(t)] = t.names /\ Rid(t.names) = Rid(t.env)
  BY <1>1 DEF Knows, AckIndex
<1>7. Rid(t.env) \in Receipts /\ mine[p] \in Nat /\ epoch \in Nat
  BY <1>1, ExtractAssumption DEF Rid, IInv, TypeOK
<1> HIDE DEF t
<1>8. pr \in Promise /\ pr.index = AckIndex(t) /\ pr.names = t.names /\ pr.receipt = Rid(t.env)
  BY <1>1, <1>6, <1>7 DEF Promise
<1> HIDE DEF pr
<1>9. TypeOK'
  BY <1>2, <1>4, <1>5, <1>8 DEF IInv, TypeOK
<1>10. PromisedIsDurable'
  BY <1>2, <1>5, <1>6, <1>8 DEF IInv, PromisedIsDurable, Rid
<1>11. RowsAreLeaves' /\ ScansOK'
  BY <1>2, <1>3, RowsKept DEF IInv, ScansOK
<1>12. QED
  BY <1>4, <1>9, <1>10, <1>11 DEF IInv

-----------------------------------------------------------------------------
(* The replay. *)

\* a pass over leaves it has read keeps every row true to its leaf
LEMMA WalkedRows ==
    ASSUME IInv, NEW p \in Procs, pc[p] = "follow",
           NEW rs, rs = StartRows(p), NEW i \in DOMAIN Walked(rs, log, scan[p].from, scan[p].size)
    PROVE  LET w == Walked(rs, log, scan[p].from, scan[p].size) IN
           /\ i \in 1..Len(log)
           /\ w[i] \in Row
           /\ w[i].env = log[i]
           /\ w[i].duplicateOf # 0 =>
                /\ w[i].duplicateOf \in 1..(i - 1)
                /\ ReceiptOf[log[w[i].duplicateOf]] = ReceiptOf[log[i]]
<1> DEFINE from == scan[p].from
           size == scan[p].size
           w == Walked(rs, log, from, size)
           r == ReceiptOf[log[i]]
           S == {j \in Canonical(rs, r) : j < from}
                   \cup {j \in from..(i - 1) : ReceiptOf[log[j]] = r}
<1>1. /\ from \in Nat /\ from # 0 /\ size \in Nat /\ size <= Len(log) /\ Len(log) \in Nat
      /\ log \in Seq(Envelopes)
  <2>1. scan[p] \in ScanType /\ published \in 0..Len(log) /\ log \in Seq(Envelopes)
    BY DEF IInv, TypeOK
  <2>2. from # 0 /\ size <= published
    BY DEF IInv, ScansOK
  <2>3. QED
    BY <2>1, <2>2 DEF ScanType
<1>2. /\ DOMAIN rs \subseteq DOMAIN rows
      /\ \A j \in DOMAIN rs : rs[j] = rows[j]
  BY DEF StartRows
<1>3. \A j \in DOMAIN rs :
        /\ j \in 1..Len(log) /\ rs[j] \in Row /\ rs[j].env = log[j]
        /\ rs[j].duplicateOf # 0 =>
             /\ rs[j].duplicateOf \in 1..(j - 1)
             /\ ReceiptOf[log[rs[j].duplicateOf]] = ReceiptOf[log[j]]
  BY <1>2 DEF IInv, TypeOK, RowsAreLeaves
<1>4. DOMAIN w = DOMAIN rs \cup from..size
  BY DEF Walked
<1> HIDE DEF from, size
<1>5. i \in DOMAIN rs \/ i \in from..size
  BY <1>4 DEF from, size
<1>6. CASE i \notin from..size
  <2>1. i \in DOMAIN rs /\ w[i] = rs[i]
    BY <1>4, <1>5, <1>6 DEF Walked
  <2>2. QED
    BY <1>3, <2>1 DEF from, size
<1>7. CASE i \in from..size
  <2>1. i \in Nat /\ i \in 1..Len(log) /\ log[i] \in Envelopes /\ from <= i
    BY <1>1, <1>7
  <2>2. w[i] = [env |-> log[i], duplicateOf |-> First(S)]
    BY <1>4, <1>7 DEF Walked, WalkDup
  <2>3. \A j \in S : j \in 1..(i - 1) /\ ReceiptOf[log[j]] = r
    <3>1. ASSUME NEW j \in Canonical(rs, r), j < from
          PROVE  j \in 1..(i - 1) /\ ReceiptOf[log[j]] = r
      <4>1. j \in DOMAIN rs /\ ReceiptOf[rs[j].env] = r
        BY DEF Canonical
      <4>2. j \in 1..Len(log) /\ ReceiptOf[log[j]] = r
        BY <1>3, <4>1
      <4>3. QED
        BY <1>1, <2>1, <3>1, <4>2
    <3>2. ASSUME NEW j \in from..(i - 1), ReceiptOf[log[j]] = r
          PROVE  j \in 1..(i - 1)
      BY <1>1, <2>1
    <3>3. QED
      BY <3>1, <3>2
  <2> HIDE DEF S
  <2>4. S \in SUBSET Nat
    BY <2>1, <2>3
  <2>5. First(S) \in Nat /\ (First(S) # 0 => First(S) \in S)
    BY <2>4, FirstIsNoneOrMember
  <2> HIDE DEF w
  <2>6. /\ w[i] \in Row /\ w[i].env = log[i] /\ w[i].duplicateOf = First(S)
    BY <2>1, <2>2, <2>5 DEF Row
  <2>7. QED
    BY <2>1, <2>3, <2>5, <2>6 DEF w, from, size
<1>8. QED
  BY <1>6, <1>7

LEMMA CommitStep ==
    ASSUME IInv, NEW p \in Procs, PassCommit(p)
    PROVE  IInv'
<1> DEFINE rs == StartRows(p)
           w == Walked(rs, log, scan[p].from, scan[p].size)
<1>1. /\ UNCHANGED <<log, published, epoch, epochLock, mine, tasks, promises, faults>>
      /\ scan' = [scan EXCEPT ![p] = NoScan] /\ pc' = [pc EXCEPT ![p] = "idle"]
      /\ outcome' \in [Procs -> {"none", "ok", "failed"}]
      /\ pc[p] = "follow"
  BY DEF PassCommit, logVars, epochVars, IInv, TypeOK
<1>2. Grows
  BY <1>1, SameLogGrows DEF IInv
<1>3. \/ rows' = rows /\ indexed' = indexed
      \/ rows' = w /\ indexed' = scan[p].size
  BY DEF PassCommit, Replay, Marker, indexVars
<1>4. scan[p].size \in 0..published /\ NoScan \in ScanType
  <2>1. scan[p] \in ScanType /\ scan[p].size <= published
    BY <1>1 DEF IInv, TypeOK, ScansOK
  <2>2. QED
    BY <2>1 DEF ScanType, NoScan, IInv, TypeOK
<1>5. \A i \in DOMAIN w :
           /\ i \in 1..Len(log)
           /\ w[i] \in Row
           /\ w[i].env = log[i]
           /\ w[i].duplicateOf # 0 =>
                /\ w[i].duplicateOf \in 1..(i - 1)
                /\ ReceiptOf[log[w[i].duplicateOf]] = ReceiptOf[log[i]]
  BY <1>1, WalkedRows
<1> HIDE DEF w
<1>6. TypeOK'
  <2>1. indexed' \in 0..published
    BY <1>3, <1>4 DEF IInv, TypeOK
  <2>2. DOMAIN rows' \subseteq 1..Len(log) /\ \A i \in DOMAIN rows' : rows'[i] \in Row
    BY <1>3, <1>5 DEF IInv, TypeOK
  <2>3. scan' \in [Procs -> ScanType]
        /\ pc' \in [Procs -> {"idle", "claim", "open", "closing", "follow"}]
    BY <1>1, <1>4 DEF IInv, TypeOK
  <2>4. QED
    BY <1>1, <2>1, <2>2, <2>3 DEF IInv, TypeOK
<1>7. RowsAreLeaves'
  BY <1>1, <1>3, <1>5 DEF IInv, RowsAreLeaves
<1>8. ScansOK'
  <2>1. ASSUME NEW q \in Procs, pc'[q] = "follow" PROVE pc[q] = "follow" /\ scan'[q] = scan[q]
    BY <1>1, <2>1 DEF IInv, TypeOK
  <2>2. QED
    BY <1>1, <2>1 DEF ScansOK, IInv
<1>9. PromisedIsDurable' /\ TasksKnow'
  BY <1>1, <1>2, PromisesKept, TasksUntouched DEF IInv
<1>10. QED
  BY <1>6, <1>7, <1>8, <1>9 DEF IInv
-----------------------------------------------------------------------------
(* The invariant. *)

LEMMA InitIInv == Init => IInv
<1> SUFFICES ASSUME Init PROVE IInv
  OBVIOUS
<1> USE DEF Init
<1>1. NoScan \in ScanType
  BY DEF NoScan, ScanType
<1>2. TypeOK
  BY <1>1 DEF TypeOK
<1>3. ScansOK /\ TasksKnow /\ RowsAreLeaves /\ PromisedIsDurable
  BY DEF ScansOK, TasksKnow, RowsAreLeaves, PromisedIsDurable
<1>4. QED
  BY <1>2, <1>3 DEF IInv

LEMMA StutterIInv == ASSUME IInv, UNCHANGED vars PROVE IInv'
<1> USE DEF vars, logVars, indexVars, epochVars, passVars
<1>1. ControlOK' /\ ScansOK'
  BY DEF ControlOK, ScansOK, IInv, TypeOK
<1>2. UNCHANGED <<log, rows, promises, tasks>>
  OBVIOUS
<1>3. QED
  BY <1>1, <1>2, TasksUntouched, DataKept

LEMMA NextIInv == ASSUME IInv, [Next]_vars PROVE IInv'
<1>1. CASE UNCHANGED vars
  BY <1>1, StutterIInv
<1>2. ASSUME NEW p \in Procs,
             \/ ClaimRead(p) \/ ClaimWrite(p)
             \/ BeginFenced(p) \/ Publish(p) \/ CloseBegin(p)
      PROVE  IInv'
  BY <1>2, HandleSteps
<1>3. ASSUME NEW p \in Procs, CloseEnd(p) \/ Crash(p) PROVE IInv'
  BY <1>3, EndSteps
<1>4. ASSUME NEW p \in Procs, NEW e \in Envelopes, Begin(p, e) PROVE IInv'
  BY <1>4, BeginStep
<1>5. ASSUME NEW p \in Procs, NEW c \in Passes, PassRead(p, c) PROVE IInv'
  BY <1>5, PassReads
<1>6. ASSUME NEW p \in Procs, PassCommit(p) PROVE IInv'
  BY <1>6, CommitStep
<1>7. ASSUME NEW p \in Procs, NEW k \in DOMAIN tasks[p],
             TaskStep(p, k) \/ RecordBusy(p, k)
      PROVE  IInv'
  BY <1>7, IntegrateStep, StageSteps, LookupStep, InsertStep, OriginalStep, SignStep
     DEF TaskStep
<1>8. QED
  BY <1>1, <1>2, <1>3, <1>4, <1>5, <1>6, <1>7 DEF Next

THEOREM InvariantHolds == Spec => []IInv
<1>1. Init => IInv
  BY InitIInv
<1>2. IInv /\ [Next]_vars => IInv'
  BY NextIInv
<1>3. QED
  BY <1>1, <1>2, PTL DEF Spec

\* Every variable of the log service keeps its type: leaves, rows within the
\* log, the marker within the checkpoint and the checkpoint within the log.
THEOREM TypeCorrect == Spec => []TypeOK
<1>1. IInv => TypeOK
  BY DEF IInv
<1>2. QED
  BY <1>1, InvariantHolds, PTL

\* However many handles, crashes, fences, refused writes and rebuilds: a
\* promise tlog signs names a durable leaf of its receipt, at the acked index.
THEOREM PromisesAreDurable == Spec => []PromisedIsDurable
<1>1. IInv => PromisedIsDurable
  BY DEF IInv
<1>2. QED
  BY <1>1, InvariantHolds, PTL

\* However Record, Follow and Rebuild interleave, a row describes the leaf at
\* its log index and duplicates an earlier leaf of the same receipt.
THEOREM IndexDescribesLog == Spec => []RowsAreLeaves
<1>1. IInv => RowsAreLeaves
  BY DEF IInv
<1>2. QED
  BY <1>1, InvariantHolds, PTL

-----------------------------------------------------------------------------
(* Rebuild. *)

\* the closed form of a walk over an empty table is the projection
LEMMA RebuildProjects ==
    ASSUME NEW leaves \in Seq(Envelopes), NEW n \in Nat, n <= Len(leaves)
    PROVE  Replay(<<>>, leaves, 1, n) = [ok |-> TRUE, rows |-> ReferenceIndex(leaves, n)]
<1>1. \A r : Canonical(<<>>, r) = {}
  BY DEF Canonical
<1>2. ~WalkRefused(<<>>, leaves, 1, n)
  BY <1>1 DEF WalkRefused
<1>3. ASSUME NEW i \in 1..n
      PROVE  [env |-> leaves[i], duplicateOf |-> WalkDup(<<>>, leaves, 1, i)]
                = Projection(leaves, i)
  <2> DEFINE r == ReceiptOf[leaves[i]]
             S == {j \in 1..(i - 1) : ReceiptOf[leaves[j]] = r}
             T == Occurrences(leaves, r, i)
  <2>1. WalkDup(<<>>, leaves, 1, i) = First(S)
    BY <1>1 DEF WalkDup
  <2>2. T = S \cup {i} /\ i \notin S /\ T \in SUBSET Nat /\ S \in SUBSET Nat
    BY DEF Occurrences
  <2>3. \A j \in S : j < i
    OBVIOUS
  <2> HIDE DEF S, T
  <2>4. Lowest(T) \in T /\ \A j \in T : Lowest(T) <= j
    BY <2>2, LowestIsLeast
  <2>5. S # {} => Lowest(S) \in S /\ \A j \in S : Lowest(S) <= j
    BY <2>2, LowestIsLeast
  <2>6. First(S) = IF Lowest(T) = i THEN 0 ELSE Lowest(T)
    <3>1. CASE S = {}
      BY <3>1, <2>2, <2>4 DEF First
    <3>2. CASE S # {}
      <4>1. Lowest(S) \in T /\ Lowest(T) \in Nat /\ Lowest(S) \in Nat
        BY <3>2, <2>2, <2>4, <2>5
      <4>2. Lowest(T) <= Lowest(S) /\ Lowest(S) < i
        BY <3>2, <4>1, <2>3, <2>4, <2>5
      <4>3. Lowest(T) # i /\ Lowest(T) \in S
        BY <4>1, <4>2, <2>2, <2>4
      <4>4. Lowest(S) <= Lowest(T)
        BY <3>2, <4>3, <2>5
      <4>5. Lowest(S) = Lowest(T)
        BY <4>1, <4>2, <4>4
      <4>6. QED
        BY <3>2, <4>3, <4>5 DEF First
    <3>3. QED
      BY <3>1, <3>2
  <2>7. Projection(leaves, i) =
          [env |-> leaves[i], duplicateOf |-> IF Lowest(T) = i THEN 0 ELSE Lowest(T)]
    BY DEF Projection, T
  <2>8. QED
    BY <2>1, <2>6, <2>7
<1>4. DOMAIN <<>> \cup 1..n = 1..n
  OBVIOUS
<1>5. Walked(<<>>, leaves, 1, n) = ReferenceIndex(leaves, n)
  BY <1>3, <1>4 DEF Walked, ReferenceIndex
<1>6. QED
  BY <1>2, <1>5 DEF Replay

\* Whatever the table held and whoever else writes, index.Rebuild leaves the
\* projection of the leaves its checkpoint covers, and never fails.
THEOREM RebuildsAreReference == Spec => RebuildIsReference
<1> DEFINE Right == \A p \in Procs : (PassCommit(p) /\ scan[p].wipe) =>
                       /\ outcome'[p] = "ok"
                       /\ rows' = ReferenceIndex(log, scan[p].size)
<1>1. ASSUME IInv, NEW p \in Procs, PassCommit(p), scan[p].wipe
      PROVE  outcome'[p] = "ok" /\ rows' = ReferenceIndex(log, scan[p].size)
  <2>1. /\ scan[p].from = 1 /\ StartRows(p) = <<>>
        /\ log \in Seq(Envelopes) /\ scan[p].size \in Nat /\ scan[p].size <= Len(log)
    <3>1. scan[p] \in ScanType /\ published \in 0..Len(log) /\ log \in Seq(Envelopes)
      BY <1>1 DEF IInv, TypeOK
    <3>2. scan[p].from = 1 /\ scan[p].size <= published
      BY <1>1 DEF IInv, ScansOK, PassCommit
    <3>3. QED
      BY <1>1, <3>1, <3>2 DEF ScanType, StartRows
  <2>2. Replay(StartRows(p), log, scan[p].from, scan[p].size)
          = [ok |-> TRUE, rows |-> ReferenceIndex(log, scan[p].size)]
    BY <2>1, RebuildProjects
  <2>3. rows' = ReferenceIndex(log, scan[p].size)
    BY <1>1, <2>2 DEF PassCommit
  <2>4. outcome' = [outcome EXCEPT ![p] = "ok"]
    BY <1>1, <2>2 DEF PassCommit
  <2>5. outcome'[p] = "ok"
    BY <1>1, <2>4 DEF IInv, TypeOK
  <2>6. QED
    BY <2>3, <2>5
<1>2. IInv => Right
  BY <1>1
<1> HIDE DEF Right
<1>3. IInv /\ [Next]_vars => [Right]_vars
  BY <1>2
<1>4. [][Right]_vars => RebuildIsReference
  BY PTL DEF RebuildIsReference, Right
<1>5. QED
  BY <1>3, <1>4, InvariantHolds, PTL DEF Spec

-----------------------------------------------------------------------------
(***************************************************************************)
(* The epoch fence: handles have distinct epochs, and, when one goroutine  *)
(* drives each handle, a fenced handle signs at most one more promise.     *)
(*                                                                         *)
(* Why at most one: a Pending is in the middle of its Wait (past the epoch *)
(* check, not yet acked) for at most one k at a time, and only a handle    *)
(* that holds the epoch lets another one in.  So the promise a handle      *)
(* signs after it was fenced is the one it was building, and once that is  *)
(* signed no Pending of the handle is in the middle any more.              *)
(***************************************************************************)

\* Pendings past their epoch check and not yet acked
Middle(p) ==
    {k \in DOMAIN tasks[p] : tasks[p][k].stage \in {"checked", "looked", "sign"}}

Stale(e) == {pr \in promises : pr.signer = e /\ pr.current # e}

EpochInv ==
    /\ \A p \in Procs : pc[p] = "claim" => epochLock = p /\ mine[p] = epoch
    /\ EpochsDistinct

SignerInv ==
    /\ \A pr \in promises : pr.signer <= pr.current /\ pr.current <= epoch
    /\ \A p \in Procs : \A j, k \in Middle(p) : j = k
    /\ \A p \in Procs : Live(p) /\ Stale(mine[p]) # {} => Middle(p) = {}
    /\ \A e \in Nat : \A x, y \in Stale(e) : x = y

-----------------------------------------------------------------------------
LEMMA EpochSteps ==
    ASSUME IInv, EpochInv, NEW p \in Procs,
           \/ ClaimRead(p) \/ ClaimWrite(p) \/ CloseBegin(p) \/ CloseEnd(p)
           \/ BeginFenced(p) \/ Crash(p)
           \/ \E c \in Passes : PassRead(p, c)
           \/ PassCommit(p)
           \/ UNCHANGED <<pc, epochVars>>
    PROVE  EpochInv'
<1>1. /\ mine \in [Procs -> Nat] /\ epoch \in Nat /\ NoProc \notin Procs
      /\ pc \in [Procs -> {"idle", "claim", "open", "closing", "follow"}]
  BY LogAssumption DEF IInv, TypeOK
<1> USE DEF EpochInv, EpochsDistinct, Live, epochVars
<1>2. CASE ClaimRead(p)
  <2>1. /\ epochLock = NoProc /\ epoch' = epoch /\ epochLock' = p
        /\ mine' = [mine EXCEPT ![p] = epoch] /\ pc' = [pc EXCEPT ![p] = "claim"]
    BY <1>2 DEF ClaimRead, LockFree
  <2>2. \A q \in Procs : pc[q] # "claim"
    BY <1>1, <2>1
  <2>3. QED
    BY <1>1, <2>1, <2>2
<1>3. CASE ClaimWrite(p)
  <2>1. /\ pc[p] = "claim" /\ epochLock = p /\ mine[p] = epoch
        /\ epoch' = epoch + 1 /\ mine' = [mine EXCEPT ![p] = epoch + 1]
        /\ pc' = [pc EXCEPT ![p] = "open"]
    BY <1>3 DEF ClaimWrite
  <2>2. \A q \in Procs : q # p => pc[q] # "claim"
    BY <2>1
  <2>3. QED
    BY <1>1, <2>1, <2>2
<1>4. CASE CloseBegin(p) \/ BeginFenced(p)
  <2>1. /\ pc[p] = "open" /\ epoch' = epoch /\ epochLock' = epochLock /\ mine' = mine
        /\ pc' = [pc EXCEPT ![p] = "closing"]
    BY <1>4 DEF CloseBegin, BeginFenced, Ready
  <2>2. \A q \in Procs :
          /\ pc'[q] = "claim" => pc[q] = "claim"
          /\ pc'[q] \in {"open", "closing"} => pc[q] \in {"open", "closing"}
    BY <1>1, <2>1
  <2>3. QED
    BY <1>1, <2>1, <2>2
<1>5. CASE CloseEnd(p) \/ Crash(p)
  <2>1. /\ epoch' = epoch /\ mine' = [mine EXCEPT ![p] = 0] /\ pc' = [pc EXCEPT ![p] = "idle"]
        /\ epochLock # p => epochLock' = epochLock
    BY <1>1, <1>5 DEF CloseEnd, Crash
  <2>2. \A q \in Procs : pc'[q] # "idle" => q # p /\ pc'[q] = pc[q] /\ mine'[q] = mine[q]
    BY <1>1, <2>1
  <2>3. QED
    BY <1>1, <2>1, <2>2
<1>6. CASE PassCommit(p) \/ \E c \in Passes : PassRead(p, c)
  <2>1. /\ epoch' = epoch /\ epochLock' = epochLock /\ mine' = mine
        /\ pc' = [pc EXCEPT ![p] = "idle"] \/ pc' = [pc EXCEPT ![p] = "follow"]
    BY <1>6 DEF PassCommit, PassRead
  <2>2. QED
    BY <1>1, <2>1
<1>7. CASE UNCHANGED <<pc, epochVars>>
  BY <1>7
<1>8. QED
  BY <1>2, <1>3, <1>4, <1>5, <1>6, <1>7

LEMMA NextEpochInv == ASSUME IInv, EpochInv, [Next]_vars PROVE EpochInv'
<1>1. CASE UNCHANGED vars
  BY <1>1 DEF vars, EpochInv, EpochsDistinct, Live, epochVars
<1>2. CASE Next
  <2>1. ASSUME NEW p \in Procs, NEW k \in DOMAIN tasks[p], TaskStep(p, k) \/ RecordBusy(p, k)
        PROVE  UNCHANGED <<pc, epochVars>>
    BY <2>1 DEF TaskStep, Integrate, AwaitFuture, RecordLookup, RecordInsert, RecordBusy,
                AwaitDuplicate, AwaitOriginal, Sign
  <2>2. ASSUME NEW p \in Procs, Publish(p) \/ \E e \in Envelopes : Begin(p, e)
        PROVE  UNCHANGED <<pc, epochVars>>
    BY <2>2 DEF Publish, Begin
  <2>3. QED
    BY <1>2, <2>1, <2>2, EpochSteps DEF Next
<1>3. QED
  BY <1>1, <1>2

LEMMA EpochInvHolds == Spec => []EpochInv
<1>1. Init => EpochInv
  BY DEF Init, EpochInv, EpochsDistinct, Live
<1>2. IInv /\ EpochInv /\ [Next]_vars => EpochInv'
  BY NextEpochInv
<1>3. QED
  BY <1>1, <1>2, InvariantHolds, PTL DEF Spec

\* Whatever handles are opened, closed or killed, and whoever races for
\* epoch.lock, no two open handles hold one epoch (claimEpoch).
THEOREM EpochsAreDistinct == Spec => []EpochsDistinct
<1>1. EpochInv => EpochsDistinct
  BY DEF EpochInv
<1>2. QED
  BY <1>1, EpochInvHolds, PTL

-----------------------------------------------------------------------------
(* Who is in the middle of a Wait. *)

MiddleStages == {"checked", "looked", "sign"}

\* a step of Pending k leaves every other Pending where it was
Moved(p, k, s) ==
    /\ \A q \in Procs : q # p => Middle(q)' = Middle(q)
    /\ \A j : j # k => (j \in Middle(p)' <=> j \in Middle(p))
    /\ k \in Middle(p)' <=> s \in MiddleStages

LEMMA MiddleSet ==
    ASSUME IInv, NEW p \in Procs, NEW k \in DOMAIN tasks[p], NEW t, SetTask(p, k, t)
    PROVE  Moved(p, k, t.stage)
<1>1. tasks \in [Procs -> Seq(Task)] /\ tasks[p] \in Seq(Task)
  BY DEF IInv, TypeOK
<1>2. tasks' = [tasks EXCEPT ![p] = [tasks[p] EXCEPT ![k] = t]]
  BY DEF SetTask
<1>3. \A q \in Procs : q # p => tasks'[q] = tasks[q]
  BY <1>1, <1>2
<1>4. tasks'[p] = [tasks[p] EXCEPT ![k] = t]
  BY <1>1, <1>2
<1>5. /\ DOMAIN tasks'[p] = DOMAIN tasks[p] /\ tasks'[p][k] = t
      /\ \A j \in DOMAIN tasks[p] : j # k => tasks'[p][j] = tasks[p][j]
  BY <1>1, <1>4
<1>6. QED
  BY <1>3, <1>5 DEF Moved, Middle, MiddleStages

LEMMA MiddleStaged ==
    ASSUME IInv, NEW p \in Procs, NEW k \in DOMAIN tasks[p], NEW s, SetStage(p, k, s)
    PROVE  Moved(p, k, s)
<1> DEFINE t == [tasks[p][k] EXCEPT !.stage = s]
<1>1. tasks[p][k] \in Task /\ tasks \in [Procs -> Seq(Task)]
  BY TaskFacts DEF IInv, TypeOK
<1>2. t.stage = s
  BY <1>1 DEF Task
<1>3. SetTask(p, k, t)
  BY <1>1 DEF SetTask, SetStage
<1> HIDE DEF t
<1>4. QED
  BY <1>2, <1>3, MiddleSet

\* into the middle goes one Pending at a time, of a handle that holds the epoch
Enters(p, k) ==
    /\ Middle(p) = {} /\ Middle(p)' \subseteq {k}
    /\ Middle(p)' # {} => Held(p)
    /\ promises' = promises

Stays(p) == Middle(p)' \subseteq Middle(p) /\ promises' = promises

Signs(p, k) ==
    /\ k \in Middle(p) /\ Middle(p)' \subseteq Middle(p) \ {k}
    /\ \E pr \in Promise : /\ pr.signer = mine[p] /\ pr.current = epoch
                           /\ promises' = promises \cup {pr}

LEMMA MiddleSteps ==
    ASSUME IInv, ~Threaded, NEW p \in Procs, NEW k \in DOMAIN tasks[p],
           TaskStep(p, k) \/ RecordBusy(p, k)
    PROVE  /\ \A q \in Procs : q # p => Middle(q)' = Middle(q)
           /\ Enters(p, k) \/ Stays(p) \/ Signs(p, k)
           /\ UNCHANGED <<pc, epochVars>> /\ pc[p] \in {"open", "closing"}
<1> DEFINE others == \A q \in Procs : q # p => Middle(q)' = Middle(q)
<1>1. UNCHANGED <<pc, epochVars>> /\ pc[p] \in {"open", "closing"}
  BY DEF TaskStep, Integrate, AwaitFuture, RecordLookup, RecordInsert, RecordBusy,
         AwaitDuplicate, AwaitOriginal, Sign, Ready
<1>2. Ready(p) => Middle(p) = {}
  BY DEF Ready, Stages, Middle
<1>3. tasks[p][k].stage \in MiddleStages <=> k \in Middle(p)
  BY DEF Middle, MiddleStages
<1>4. CASE Integrate(p, k)
  <2> DEFINE t == [tasks[p][k] EXCEPT !.stage = "durable", !.leaf = Len(log) + 1]
  <2>1. tasks[p][k] \in Task
    BY TaskFacts
  <2>2. SetTask(p, k, t) /\ t.stage = "durable"
    BY <1>4, <2>1 DEF Integrate, Task
  <2> HIDE DEF t
  <2>3. Moved(p, k, "durable")
    BY <2>2, MiddleSet
  <2>4. promises' = promises
    BY <1>4 DEF Integrate
  <2>5. QED
    BY <1>1, <2>3, <2>4 DEF Moved, MiddleStages, Stays
<1>5. ASSUME NEW s, SetStage(p, k, s), Ready(p), promises' = promises,
             s = "failed" \/ Held(p)
      PROVE  others /\ Enters(p, k)
  <2>1. Moved(p, k, s)
    BY <1>5, MiddleStaged
  <2>2. QED
    BY <1>2, <1>5, <2>1 DEF Moved, MiddleStages, Enters
<1>6. CASE AwaitFuture(p, k)
  BY <1>1, <1>5, <1>6 DEF AwaitFuture
<1>7. CASE AwaitDuplicate(p, k)
  BY <1>1, <1>5, <1>7 DEF AwaitDuplicate
<1>8. CASE AwaitOriginal(p, k)
  <2>1. CASE SetStage(p, k, "failed")
    BY <1>1, <1>5, <1>8, <2>1 DEF AwaitOriginal
  <2>2. CASE Held(p) /\ ~SetStage(p, k, "failed")
    <3>1. PICK t : SetTask(p, k, t)
      BY <1>8, <2>2 DEF AwaitOriginal
    <3>2. Moved(p, k, t.stage)
      BY <3>1, MiddleSet
    <3>3. QED
      BY <1>1, <1>2, <1>8, <2>2, <3>2 DEF Moved, Enters, AwaitOriginal
  <2>3. QED
    BY <1>8, <2>1, <2>2 DEF AwaitOriginal
<1>9. CASE RecordLookup(p, k)
  <2>1. PICK t : SetTask(p, k, t)
    BY <1>9 DEF RecordLookup
  <2>2. Moved(p, k, t.stage)
    BY <2>1, MiddleSet
  <2>3. QED
    BY <1>1, <1>3, <1>9, <2>2 DEF Moved, Stays, RecordLookup, MiddleStages
<1>10. CASE RecordInsert(p, k) \/ RecordBusy(p, k)
  <2>1. PICK s : SetStage(p, k, s)
    BY <1>10 DEF RecordInsert, RecordBusy
  <2>2. Moved(p, k, s)
    BY <2>1, MiddleStaged
  <2>3. tasks[p][k].stage \in MiddleStages /\ promises' = promises
    BY <1>10 DEF RecordInsert, RecordBusy, MiddleStages
  <2>4. QED
    BY <1>1, <1>3, <2>2, <2>3 DEF Moved, Stays
<1>11. CASE Sign(p, k)
  <2>1. Moved(p, k, "acked")
    BY <1>11, MiddleStaged DEF Sign
  <2> DEFINE t == tasks[p][k]
             pr == [receipt |-> Rid(t.env), names |-> t.names, index |-> AckIndex(t),
                    dup |-> t.first # 0, signer |-> mine[p], current |-> epoch]
  <2>2. promises' = promises \cup {pr} /\ t.stage = "sign"
    BY <1>11 DEF Sign
  <2>3. pr \in promises' /\ promises' \subseteq Promise
    BY <2>2, SignStep, <1>11 DEF IInv, TypeOK
  <2>4. pr.signer = mine[p] /\ pr.current = epoch
    OBVIOUS
  <2>5. k \in Middle(p) /\ Middle(p)' \subseteq Middle(p) \ {k}
    BY <1>3, <2>1, <2>2 DEF Moved, MiddleStages
  <2> HIDE DEF pr
  <2>6. QED
    BY <1>1, <2>1, <2>2, <2>3, <2>4, <2>5 DEF Moved, Signs
<1>12. QED
  BY <1>4, <1>6, <1>7, <1>8, <1>9, <1>10, <1>11 DEF TaskStep
-----------------------------------------------------------------------------
(* Who has signed what. *)

LEMMA SignerFrame ==
    ASSUME SignerInv, promises' = promises, epoch' = epoch,
           \A q \in Procs : Live(q)' => Live(q) /\ mine'[q] = mine[q],
           \A q \in Procs : Middle(q)' \subseteq Middle(q)
    PROVE  SignerInv'
<1>1. \A e : Stale(e)' = Stale(e)
  BY DEF Stale
<1>2. \A q \in Procs : Live(q)' /\ Stale(mine[q])' # {} => Middle(q)' = {}
  BY <1>1 DEF SignerInv, Stale
<1>3. QED
  BY <1>1, <1>2 DEF SignerInv, Stale

LEMMA SameMiddle == ASSUME tasks' = tasks, NEW q \in Procs PROVE Middle(q)' = Middle(q)
BY DEF Middle

LEMMA SignerHandleSteps ==
    ASSUME IInv, EpochInv, SignerInv, NEW p \in Procs,
           \/ ClaimRead(p) \/ ClaimWrite(p) \/ CloseBegin(p) \/ CloseEnd(p)
           \/ BeginFenced(p) \/ Crash(p) \/ Publish(p)
           \/ \E c \in Passes : PassRead(p, c)
           \/ PassCommit(p)
    PROVE  SignerInv'
<1>1. /\ mine \in [Procs -> Nat] /\ epoch \in Nat
      /\ pc \in [Procs -> {"idle", "claim", "open", "closing", "follow"}]
      /\ tasks \in [Procs -> Seq(Task)] /\ promises \subseteq Promise
  BY DEF IInv, TypeOK
<1>2. CASE ClaimWrite(p)
  <2>1. /\ promises' = promises /\ tasks' = tasks /\ epoch' = epoch + 1
        /\ mine' = [mine EXCEPT ![p] = epoch + 1]
        /\ \A q \in Procs : Live(q)' => Live(q) \/ q = p
    BY <1>1, <1>2 DEF ClaimWrite, Live, EpochInv
  <2>2. \A pr \in promises : /\ pr.signer \in Nat /\ pr.current \in Nat
                            /\ pr.signer <= pr.current /\ pr.current <= epoch
    BY <1>1 DEF SignerInv, Promise
  <2>3. Stale(epoch) = {} /\ Stale(epoch + 1) = {}
    BY <1>1, <2>2 DEF Stale
  <2>4. \A e : Stale(e)' = Stale(e)
    BY <2>1 DEF Stale
  <2>5. ASSUME NEW q \in Procs, Live(q)', Stale(mine[q])' # {}
        PROVE  Middle(q)' = {}
    <3>1. CASE q = p
      BY <1>1, <2>1, <2>3, <2>5, <3>1 DEF Stale
    <3>2. CASE q # p
      <4>1. Live(q) /\ mine'[q] = mine[q] /\ Middle(q)' = Middle(q)
        BY <1>1, <2>1, <2>5, <3>2, SameMiddle
      <4>2. QED
        BY <2>1, <2>5, <4>1 DEF SignerInv, Stale
    <3>3. QED
      BY <3>1, <3>2
  <2>6. \A pr \in promises' : pr.signer <= pr.current /\ pr.current <= epoch'
    BY <1>1, <2>1, <2>2
  <2>7. \A q \in Procs : Middle(q)' = Middle(q)
    BY <2>1, SameMiddle
  <2>8. QED
    BY <2>4, <2>5, <2>6, <2>7 DEF SignerInv
<1>3. CASE ~ClaimWrite(p)
  <2>1. promises' = promises /\ epoch' = epoch
    BY <1>3 DEF ClaimRead, CloseBegin, CloseEnd, BeginFenced, Crash, Publish, PassRead,
                PassCommit, epochVars
  <2>2. \A q \in Procs : Live(q)' => Live(q) /\ mine'[q] = mine[q]
    <3>1. CASE ClaimRead(p)
      BY <1>1, <3>1 DEF ClaimRead, Live
    <3>2. CASE CloseBegin(p) \/ BeginFenced(p)
      BY <1>1, <3>2 DEF CloseBegin, BeginFenced, Ready, Live, epochVars
    <3>3. CASE CloseEnd(p) \/ Crash(p)
      BY <1>1, <3>3 DEF CloseEnd, Crash, Live
    <3>4. CASE Publish(p)
      BY <3>4 DEF Publish, Live, epochVars
    <3>5. CASE PassCommit(p) \/ \E c \in Passes : PassRead(p, c)
      BY <1>1, <3>5 DEF PassCommit, PassRead, Live, epochVars
    <3>6. QED
      BY <1>3, <3>1, <3>2, <3>3, <3>4, <3>5
  <2>3. \A q \in Procs : Middle(q)' \subseteq Middle(q)
    <3>1. CASE tasks' = tasks
      BY <3>1, SameMiddle
    <3>2. CASE tasks' = [tasks EXCEPT ![p] = <<>>]
      <4>1. \A q \in Procs : tasks'[q] = tasks[q] \/ tasks'[q] = <<>>
        BY <1>1, <3>2
      <4>2. QED
        BY <4>1 DEF Middle
    <3>3. QED
      BY <1>3, <3>1, <3>2 DEF ClaimRead, CloseBegin, CloseEnd, BeginFenced, Crash, Publish,
                              PassRead, PassCommit
  <2>4. QED
    BY <2>1, <2>2, <2>3, SignerFrame
<1>4. QED
  BY <1>2, <1>3

LEMMA SignerBeginStep ==
    ASSUME IInv, SignerInv, NEW p \in Procs, NEW e \in Envelopes, Begin(p, e)
    PROVE  SignerInv'
<1>1. UNCHANGED <<promises, epoch, mine, pc>> /\ tasks' = [tasks EXCEPT ![p] = Append(@, Begun(p, e))]
  BY DEF Begin, epochVars
<1> DEFINE t == Begun(p, e)
<1>2. t.stage \in {"wait", "dup", "queued"}
  BY DEF Begun, NewTask
<1> HIDE DEF t
<1>3. tasks \in [Procs -> Seq(Task)] /\ tasks[p] \in Seq(Task)
  BY DEF IInv, TypeOK
<1>4. /\ \A q \in Procs : q # p => tasks'[q] = tasks[q]
      /\ tasks'[p] = Append(tasks[p], t)
  BY <1>1, <1>3 DEF t
<1>5. \A q \in Procs : Middle(q)' \subseteq Middle(q)
  <2>1. Middle(p)' \subseteq Middle(p)
    <3>1. ASSUME NEW k \in Middle(p)' PROVE k \in Middle(p)
      <4>1. k \in 1..(Len(tasks[p]) + 1) /\ tasks'[p][k].stage \in {"checked", "looked", "sign"}
        BY <1>3, <1>4 DEF Middle
      <4>2. k # Len(tasks[p]) + 1
        BY <1>2, <1>3, <1>4, <4>1
      <4>3. k \in DOMAIN tasks[p] /\ tasks'[p][k] = tasks[p][k]
        BY <1>3, <1>4, <4>1, <4>2
      <4>4. QED
        BY <4>1, <4>3 DEF Middle
    <3>2. QED
      BY <3>1
  <2>2. \A q \in Procs : q # p => Middle(q)' = Middle(q)
    BY <1>4 DEF Middle
  <2>3. QED
    BY <2>1, <2>2
<1>6. QED
  BY <1>1, <1>5, SignerFrame DEF Live

LEMMA SignerTaskSteps ==
    ASSUME IInv, EpochInv, SignerInv, ~Threaded,
           NEW p \in Procs, NEW k \in DOMAIN tasks[p], TaskStep(p, k) \/ RecordBusy(p, k)
    PROVE  SignerInv'
<1>1. /\ mine \in [Procs -> Nat] /\ epoch \in Nat /\ promises \subseteq Promise
  BY DEF IInv, TypeOK
<1>2. /\ \A q \in Procs : q # p => Middle(q)' = Middle(q)
      /\ UNCHANGED <<pc, mine, epoch>> /\ Live(p)
  BY MiddleSteps DEF Live, epochVars
<1>3. \A pr \in promises : /\ pr.signer \in Nat /\ pr.current \in Nat
                          /\ pr.signer <= pr.current /\ pr.current <= epoch
  BY <1>1 DEF SignerInv, Promise
<1>4. CASE Stays(p)
  BY <1>2, <1>4, SignerFrame DEF Stays, Live
<1>5. CASE Enters(p, k)
  <2>1. \A e : Stale(e)' = Stale(e)
    BY <1>5 DEF Stale, Enters
  <2>2. Stale(epoch) = {}
    BY <1>1, <1>3 DEF Stale
  <2>3. ASSUME NEW q \in Procs, Live(q)', Stale(mine[q])' # {} PROVE Middle(q)' = {}
    BY <1>2, <1>5, <2>1, <2>2, <2>3 DEF Enters, Held, SignerInv, Live, Stale
  <2>4. \A q \in Procs : \A i, j \in Middle(q)' : i = j
    BY <1>2, <1>5 DEF Enters, SignerInv
  <2>5. promises' = promises
    BY <1>5 DEF Enters
  <2>6. QED
    BY <1>2, <2>1, <2>3, <2>4, <2>5 DEF SignerInv
<1>6. CASE Signs(p, k)
  <2>1. PICK pr \in Promise : /\ pr.signer = mine[p] /\ pr.current = epoch
                             /\ promises' = promises \cup {pr}
    BY <1>6 DEF Signs
  <2>2. Middle(p)' = {} /\ Middle(p) # {}
    BY <1>6 DEF Signs, SignerInv
  <2>3. mine[p] <= epoch /\ \A q \in Procs : Live(q) /\ mine[q] = mine[p] => q = p
    BY <1>2 DEF EpochInv, EpochsDistinct
  <2>4. Stale(mine[p]) = {}
    BY <1>2, <2>2 DEF SignerInv
  <2>5. \A e : e # mine[p] => Stale(e)' = Stale(e)
    BY <2>1 DEF Stale
  <2>6. Stale(mine[p])' \subseteq {pr}
    BY <1>2, <2>1, <2>4 DEF Stale
  <2>7. \A x \in promises' : x.signer <= x.current /\ x.current <= epoch'
    BY <1>1, <1>2, <1>3, <2>1, <2>3
  <2>8. \A q \in Procs : \A i, j \in Middle(q)' : i = j
    BY <1>2, <2>2 DEF SignerInv
  <2>9. ASSUME NEW q \in Procs, Live(q)', Stale(mine[q])' # {} PROVE Middle(q)' = {}
    <3>1. CASE q = p
      BY <2>2, <3>1
    <3>2. CASE q # p
      <4>1. Live(q) /\ mine'[q] = mine[q] /\ mine[q] # mine[p]
        BY <1>2, <2>3, <2>9, <3>2 DEF Live
      <4>2. Stale(mine[q]) # {}
        BY <2>1, <2>9, <4>1 DEF Stale
      <4>3. QED
        BY <1>2, <3>2, <4>1, <4>2 DEF SignerInv
    <3>3. QED
      BY <3>1, <3>2
  <2>10. ASSUME NEW e \in Nat, NEW x \in Stale(e)', NEW y \in Stale(e)' PROVE x = y
    <3>1. CASE e = mine[p]
      BY <1>2, <2>6, <2>10, <3>1
    <3>2. CASE e # mine[p]
      BY <2>5, <2>10, <3>2 DEF SignerInv
    <3>3. QED
      BY <3>1, <3>2
  <2>11. QED
    BY <2>7, <2>8, <2>9, <2>10 DEF SignerInv
<1>7. QED
  BY <1>4, <1>5, <1>6, MiddleSteps

LEMMA NextSignerInv ==
    ASSUME IInv, EpochInv, SignerInv, ~Threaded, [Next]_vars
    PROVE  SignerInv'
<1>1. CASE UNCHANGED vars
  BY <1>1, SignerFrame, SameMiddle DEF vars, Live, epochVars
<1>2. CASE Next
  BY <1>2, SignerHandleSteps, SignerBeginStep, SignerTaskSteps DEF Next
<1>3. QED
  BY <1>1, <1>2

LEMMA AtMostOne ==
    ASSUME NEW S, \A x, y \in S : x = y
    PROVE  Cardinality(S) <= 1
<1>1. CASE S = {}
  BY <1>1, FS_EmptySet
<1>2. CASE S # {}
  <2>1. PICK x : S = {x}
    BY <1>2
  <2>2. QED
    BY <2>1, FS_Singleton
<1>3. QED
  BY <1>1, <1>2

\* With one goroutine per handle, as the commands use it: whatever fences a
\* handle and whenever, it signs at most one promise after it was fenced.
THEOREM OneStalePromise == ~Threaded => (Spec => []OneStaleSignature)
<1> SUFFICES ASSUME ~Threaded PROVE Spec => []OneStaleSignature
  OBVIOUS
<1>1. Init => SignerInv
  BY DEF Init, SignerInv, Stale, Middle
<1>2. IInv /\ EpochInv /\ SignerInv /\ [Next]_vars => SignerInv'
  BY NextSignerInv
<1>3. IInv /\ SignerInv => OneStaleSignature
  <2> SUFFICES ASSUME IInv, SignerInv, NEW e \in 1..epoch
               PROVE  Cardinality(Stale(e)) <= 1
    BY DEF OneStaleSignature, Stale
  <2>1. e \in Nat
    BY DEF IInv, TypeOK
  <2>2. QED
    BY <2>1, AtMostOne DEF SignerInv
<1>4. QED
  BY <1>1, <1>2, <1>3, InvariantHolds, EpochInvHolds, PTL DEF Spec

-----------------------------------------------------------------------------
(* A log that one process appends to, however often it opens and closes it,
   one goroutine to a handle, with nothing killed, no index write refused and
   a reindex run alone: what the comments of tlog and index promise in those
   conditions, for any number of envelopes, receipts and followers.

   Why a receipt enters the log once: a leaf is either in the index, where
   the lookup of BeginAppend finds it, or on its way there in a Wait of the
   open handle, where the pending map finds it; and while a Wait is past the
   pending map the only caller is inside it.  Close leaves nothing on its way,
   so the next handle and a reindex find every leaf in the index or below the
   checkpoint. *)

Orderly ==
    /\ MaxFaults = 0 /\ Quiesce /\ ~Threaded
    /\ \A v, w \in Writers : v = w

\* The leaf of such a Pending has no row yet.
OnItsWay(t) == t.stage \in {"durable", "checked", "looked"}

\* A receipt is in the log once.
Apart ==
    \A i, j \in 1..Len(log) : Rid(log[i]) = Rid(log[j]) => i = j

\* What Tessera holds is not in the log, and held once.
QueuedOnce ==
    \A p \in Procs : \A k \in DOMAIN tasks[p] : tasks[p][k].stage = "queued" =>
        /\ \A i \in 1..Len(log) : Rid(log[i]) # Rid(tasks[p][k].env)
        /\ \A l \in DOMAIN tasks[p] :
               /\ tasks[p][l].stage = "queued"
               /\ Rid(tasks[p][l].env) = Rid(tasks[p][k].env)
               => l = k

\* Only an open handle has Pendings, it is not fenced, and followers follow.
Holding ==
    \A p \in Procs :
        /\ pc[p] \in {"claim", "open", "closing"} => p \in Writers /\ Held(p)
        /\ DOMAIN tasks[p] # {} => pc[p] \in {"open", "closing"}
        /\ pc[p] = "follow" => p \in Followers

\* Nothing fails, what is resolved has its row, and Close finds all acked.
Settled ==
    \A p \in Procs : \A k \in DOMAIN tasks[p] :
        /\ tasks[p][k].stage # "failed"
        /\ pc[p] = "closing" => tasks[p][k].stage = "acked"
        /\ tasks[p][k].stage = "looked" => tasks[p][k].first = 0
        /\ tasks[p][k].stage \in {"dup", "sign", "acked"} =>
               AckIndex(tasks[p][k]) \in DOMAIN rows

\* A leaf is in the index or on its way there.
Accounted ==
    \A i \in 1..Len(log) :
        \/ i \in DOMAIN rows
        \/ \E p \in Procs : \E k \in DOMAIN tasks[p] :
               OnItsWay(tasks[p][k]) /\ tasks[p][k].leaf = i

\* A leaf the checkpoint does not cover is one an open handle answers for.
Owed ==
    \A i \in (published + 1)..Len(log) :
        \E p \in Procs : \E k \in DOMAIN tasks[p] : tasks[p][k].leaf = i

\* The marker, and the ones passes start from, have everything below them.
Marked ==
    /\ 1..indexed \subseteq DOMAIN rows
    /\ \A p \in Procs : pc[p] = "follow" => 1..(scan[p].from - 1) \subseteq DOMAIN rows

\* A reindex has read the whole log and no writer is at work.
Alone ==
    \A p \in Procs : (pc[p] = "follow" /\ scan[p].wipe) =>
        /\ scan[p].size = Len(log)
        /\ \A q \in Procs : pc[q] \notin {"claim", "open", "closing"}

Acked == \A pr \in promises : pr.index \in DOMAIN rows

OInv == /\ Apart /\ QueuedOnce /\ Holding /\ Settled /\ Accounted /\ Owed
        /\ Marked /\ Alone /\ Acked /\ PassesSucceed

-----------------------------------------------------------------------------
(* What the order of things gives. *)

\* no row duplicates another: the rows of a receipt are its leaf's
LEMMA RowsStandAlone ==
    ASSUME IInv, Apart
    PROVE  /\ \A i \in DOMAIN rows : i \in 1..Len(log) /\ rows[i].env = log[i]
                                     /\ rows[i].duplicateOf = 0
           /\ \A r : \A i : i \in Canonical(rows, r) <=>
                  i \in DOMAIN rows /\ Rid(log[i]) = r
<1>1. Len(log) \in Nat
  BY DEF IInv, TypeOK
<1>2. ASSUME NEW i \in DOMAIN rows
      PROVE  i \in 1..Len(log) /\ rows[i].env = log[i] /\ rows[i].duplicateOf = 0
  <2>1. i \in 1..Len(log) /\ rows[i].env = log[i]
    BY DEF IInv, RowsAreLeaves
  <2>2. ASSUME rows[i].duplicateOf # 0 PROVE FALSE
    <3> DEFINE d == rows[i].duplicateOf
    <3>1. d \in 1..(i - 1) /\ Rid(log[d]) = Rid(log[i])
      BY <2>2 DEF IInv, RowsAreLeaves, Rid
    <3> HIDE DEF d
    <3>2. d \in 1..Len(log) /\ d # i
      BY <1>1, <2>1, <3>1
    <3>3. QED
      BY <2>1, <3>1, <3>2 DEF Apart
  <2>3. QED
    BY <2>1, <2>2
<1>3. QED
  BY <1>2 DEF Canonical, Rid

\* so a lookup finds the leaf of the receipt, once it has its row
LEMMA LookupFindsLeaf ==
    ASSUME IInv, Apart, NEW i \in DOMAIN rows
    PROVE  LookupCanonical(rows, Rid(log[i])) = i
<1>1. \A j \in DOMAIN rows : j \in 1..Len(log)
  BY RowsStandAlone
<1>2. \A j : j \in Canonical(rows, Rid(log[i])) <=> j \in DOMAIN rows /\ Rid(log[j]) = Rid(log[i])
  BY RowsStandAlone
<1>3. Canonical(rows, Rid(log[i])) = {i}
  BY <1>1, <1>2 DEF Apart
<1>4. Lowest({i}) = i
  <2>1. i \in Nat
    BY <1>1
  <2>2. {i} \in SUBSET Nat /\ {i} # {}
    BY <2>1
  <2>3. QED
    BY <2>2, LowestIsLeast
<1>5. QED
  BY <1>3, <1>4 DEF LookupCanonical, First

\* the Pendings after one of them was replaced
LEMMA TaskReplaced ==
    ASSUME IInv, NEW p \in Procs, NEW k \in DOMAIN tasks[p], NEW t, SetTask(p, k, t)
    PROVE  /\ \A q \in Procs : DOMAIN tasks'[q] = DOMAIN tasks[q]
           /\ \A q \in Procs : \A j \in DOMAIN tasks[q] :
                  tasks'[q][j] = IF q = p /\ j = k THEN t ELSE tasks[q][j]
<1>1. tasks \in [Procs -> Seq(Task)]
  BY DEF IInv, TypeOK
<1>2. tasks' = [tasks EXCEPT ![p] = [tasks[p] EXCEPT ![k] = t]]
  BY DEF SetTask
<1>3. QED
  BY <1>1, <1>2

LEMMA StageIsTask ==
    ASSUME IInv, NEW p \in Procs, NEW k \in DOMAIN tasks[p], NEW s, SetStage(p, k, s)
    PROVE  SetTask(p, k, [tasks[p][k] EXCEPT !.stage = s])
<1>1. tasks[p] \in Seq(Task) /\ tasks \in [Procs -> Seq(Task)] /\ tasks[p][k] \in Task
  BY TaskFacts DEF IInv, TypeOK
<1>2. QED
  BY <1>1 DEF SetStage, SetTask

\* a step of a Wait that leaves the leaves alone
LEMMA WaitMoves ==
    ASSUME IInv, OInv, NEW p \in Procs, NEW k \in DOMAIN tasks[p], NEW t,
           SetTask(p, k, t), pc[p] = "open",
           UNCHANGED <<log, published, indexed, pc, mine, epoch, scan, outcome>>,
           DOMAIN rows \subseteq DOMAIN rows',
           \A pr \in promises' \ promises : pr.index \in DOMAIN rows',
           t.leaf = tasks[p][k].leaf, t.env = tasks[p][k].env,
           t.stage \notin {"queued", "failed"},
           OnItsWay(tasks[p][k]) => OnItsWay(t) \/ t.leaf \in DOMAIN rows',
           t.stage = "looked" => t.first = 0,
           t.stage \in {"dup", "sign", "acked"} => AckIndex(t) \in DOMAIN rows'
    PROVE  OInv'
<1>1. /\ \A q \in Procs : DOMAIN tasks'[q] = DOMAIN tasks[q]
      /\ \A q \in Procs : \A j \in DOMAIN tasks[q] :
             tasks'[q][j] = IF q = p /\ j = k THEN t ELSE tasks[q][j]
  BY TaskReplaced
<1>2. Apart' /\ Alone' /\ PassesSucceed'
  BY DEF OInv, Apart, Alone, PassesSucceed
<1>3. QueuedOnce'
  BY <1>1 DEF OInv, QueuedOnce
<1>4. Holding'
  BY <1>1 DEF OInv, Holding, Held
<1>5. Settled'
  BY <1>1 DEF OInv, Settled
<1>6. Accounted'
  BY <1>1 DEF OInv, Accounted
<1>7. Owed'
  BY <1>1 DEF OInv, Owed
<1>8. Marked' /\ Acked'
  BY DEF OInv, Marked, Acked
<1>9. QED
  BY <1>2, <1>3, <1>4, <1>5, <1>6, <1>7, <1>8 DEF OInv
-----------------------------------------------------------------------------
(* Handles and passes. *)

\* steps that leave the leaves, the rows and the Pendings alone
LEMMA ControlMoves ==
    ASSUME IInv, OInv, UNCHANGED <<log, rows, tasks, promises, outcome>>,
           published' = published \/ published' = Len(log),
           indexed' = indexed, Holding',
           \A p \in Procs : pc'[p] = "closing" =>
               pc[p] = "closing" \/ \A k \in DOMAIN tasks[p] : tasks[p][k].stage = "acked",
           Alone',
           \A p \in Procs : pc'[p] = "follow" =>
               1..(scan'[p].from - 1) \subseteq DOMAIN rows
    PROVE  OInv'
<1>1. Apart' /\ QueuedOnce' /\ Accounted' /\ Acked' /\ PassesSucceed'
  BY DEF OInv, Apart, QueuedOnce, Accounted, Acked, PassesSucceed
<1>2. Settled'
  BY DEF OInv, Settled
<1>3. Owed'
  <2>1. CASE published' = published
    BY <2>1 DEF OInv, Owed
  <2>2. CASE published' = Len(log)
    <3>1. (published' + 1)..Len(log') = {}
      BY <2>2 DEF IInv, TypeOK
    <3>2. QED
      BY <3>1 DEF Owed
  <2>3. QED
    BY <2>1, <2>2
<1>4. Marked'
  BY DEF OInv, Marked
<1>5. QED
  BY <1>1, <1>2, <1>3, <1>4 DEF OInv

LEMMA OrderlyHandles ==
    ASSUME Orderly, IInv, OInv, NEW p \in Procs,
           ClaimRead(p) \/ ClaimWrite(p) \/ CloseBegin(p) \/ BeginFenced(p) \/ Publish(p)
    PROVE  OInv'
<1>1. /\ pc \in [Procs -> {"idle", "claim", "open", "closing", "follow"}]
      /\ mine \in [Procs -> Nat] /\ epoch \in Nat
      /\ Procs = Writers \cup Followers /\ Writers \cap Followers = {}
  BY LogAssumption DEF IInv, TypeOK, Procs
<1>2. /\ UNCHANGED <<log, rows, tasks, promises, outcome, indexed, scan>>
      /\ published' = published \/ published' = Len(log)
  BY DEF ClaimRead, ClaimWrite, CloseBegin, BeginFenced, Publish, logVars, indexVars, passVars
<1>3. \A q \in Procs : pc'[q] = "follow" => pc[q] = "follow"
  BY <1>1 DEF ClaimRead, ClaimWrite, CloseBegin, BeginFenced, Publish
<1>4. \A q \in Procs : pc'[q] = "follow" => 1..(scan'[q].from - 1) \subseteq DOMAIN rows
  BY <1>2, <1>3 DEF OInv, Marked
<1>5. CASE ClaimRead(p)
  <2>1. /\ pc[p] = "idle" /\ p \in Writers /\ epoch' = epoch
        /\ mine' = [mine EXCEPT ![p] = epoch] /\ pc' = [pc EXCEPT ![p] = "claim"]
        /\ \A q \in Followers : ~(pc[q] = "follow" /\ scan[q].wipe)
    BY <1>5 DEF ClaimRead, Orderly
  <2>2. Holding'
    BY <1>1, <1>2, <2>1 DEF OInv, Holding, Held, Orderly
  <2>3. Alone'
    BY <1>2, <1>3, <2>1 DEF OInv, Holding, Alone
  <2>4. \A q \in Procs : pc'[q] = "closing" => pc[q] = "closing"
    BY <1>1, <2>1
  <2>5. QED
    BY <1>2, <1>4, <2>2, <2>3, <2>4, ControlMoves
<1>6. CASE ClaimWrite(p)
  <2>1. /\ pc[p] = "claim" /\ epoch' = mine[p] + 1
        /\ mine' = [mine EXCEPT ![p] = mine[p] + 1] /\ pc' = [pc EXCEPT ![p] = "open"]
    BY <1>6 DEF ClaimWrite
  <2>2. \A q \in Procs : pc[q] \in {"claim", "open", "closing"} => q = p
    BY <2>1 DEF OInv, Holding, Orderly
  <2>3. Holding'
    <3>1. ASSUME NEW q \in Procs
          PROVE  /\ pc'[q] \in {"claim", "open", "closing"} => q \in Writers /\ mine'[q] = epoch'
                 /\ DOMAIN tasks'[q] # {} => pc'[q] \in {"open", "closing"}
                 /\ pc'[q] = "follow" => q \in Followers
      <4>1. CASE q = p
        BY <1>1, <1>2, <2>1, <4>1 DEF OInv, Holding
      <4>2. CASE q # p
        <5>1. pc'[q] = pc[q] /\ pc[q] \notin {"claim", "open", "closing"}
          BY <1>1, <2>1, <2>2, <4>2
        <5>2. QED
          BY <1>2, <5>1 DEF OInv, Holding
      <4>3. QED
        BY <4>1, <4>2
    <3>2. QED
      BY <3>1 DEF Holding, Held
  <2>4. Alone'
    <3>1. ASSUME NEW q \in Procs, pc[q] = "follow", scan[q].wipe PROVE FALSE
      BY <2>1, <3>1 DEF OInv, Alone
    <3>2. QED
      BY <1>2, <1>3, <3>1 DEF Alone
  <2>5. \A q \in Procs : pc'[q] = "closing" => pc[q] = "closing"
    BY <1>1, <2>1
  <2>6. QED
    BY <1>2, <1>4, <2>3, <2>4, <2>5, ControlMoves
<1>7. CASE BeginFenced(p)
  BY <1>7 DEF BeginFenced, Ready, OInv, Holding
<1>8. CASE CloseBegin(p)
  <2>1. /\ pc[p] = "open" /\ mine' = mine /\ epoch' = epoch
        /\ pc' = [pc EXCEPT ![p] = "closing"]
        /\ "failed" \in Stages(p) \/ Stages(p) \subseteq {"acked"}
    BY <1>8 DEF CloseBegin, epochVars
  <2>2. \A k \in DOMAIN tasks[p] : tasks[p][k].stage = "acked"
    BY <2>1 DEF Stages, OInv, Settled
  <2>3. Holding'
    BY <1>1, <1>2, <2>1 DEF OInv, Holding, Held
  <2>4. Alone'
    <3>1. ASSUME NEW q \in Procs, pc[q] = "follow", scan[q].wipe PROVE FALSE
      BY <2>1, <3>1 DEF OInv, Alone
    <3>2. QED
      BY <1>2, <1>3, <3>1 DEF Alone
  <2>5. \A q \in Procs : pc'[q] = "closing" =>
            pc[q] = "closing" \/ \A k \in DOMAIN tasks[q] : tasks[q][k].stage = "acked"
    BY <1>1, <2>1, <2>2
  <2>6. QED
    BY <1>2, <1>4, <2>3, <2>4, <2>5, ControlMoves
<1>9. CASE Publish(p)
  <2>1. pc' = pc /\ mine' = mine /\ epoch' = epoch
    BY <1>9 DEF Publish, epochVars
  <2>2. Holding' /\ Alone'
    BY <1>2, <2>1 DEF OInv, Holding, Held, Alone
  <2>3. QED
    BY <1>2, <1>4, <2>1, <2>2, ControlMoves
<1>10. QED
  BY <1>5, <1>6, <1>7, <1>8, <1>9

\* Close returns with every leaf indexed and below the checkpoint
LEMMA OrderlyClose ==
    ASSUME Orderly, IInv, OInv, NEW p \in Procs, CloseEnd(p)
    PROVE  OInv'
<1>1. /\ pc \in [Procs -> {"idle", "claim", "open", "closing", "follow"}]
      /\ mine \in [Procs -> Nat] /\ tasks \in [Procs -> Seq(Task)]
      /\ published \in 0..Len(log) /\ Len(log) \in Nat
  BY DEF IInv, TypeOK
<1>2. /\ pc[p] = "closing" /\ Covered(p)
      /\ pc' = [pc EXCEPT ![p] = "idle"] /\ tasks' = [tasks EXCEPT ![p] = <<>>]
      /\ mine' = [mine EXCEPT ![p] = 0]
      /\ UNCHANGED <<log, published, rows, indexed, epoch, scan, outcome, promises>>
  BY DEF CloseEnd, logVars, indexVars, passVars
<1>3. \A q \in Procs : DOMAIN tasks[q] # {} => q = p
  BY <1>2 DEF OInv, Holding, Orderly
<1>4. /\ DOMAIN tasks'[p] = {}
      /\ \A q \in Procs : q # p => tasks'[q] = tasks[q] /\ pc'[q] = pc[q] /\ mine'[q] = mine[q]
      /\ \A q \in Procs : DOMAIN tasks'[q] = {}
  BY <1>1, <1>2, <1>3
<1>5. \A k \in DOMAIN tasks[p] : tasks[p][k].stage = "acked" /\ tasks[p][k].leaf <= published
  BY <1>2 DEF OInv, Settled, Covered
<1>6. \A i \in 1..Len(log) : i \in DOMAIN rows
  BY <1>3, <1>5 DEF OInv, Accounted, OnItsWay
<1>7. (published + 1)..Len(log) = {}
  <2>1. ASSUME NEW i \in (published + 1)..Len(log) PROVE FALSE
    <3>1. PICK q \in Procs : \E k \in DOMAIN tasks[q] : tasks[q][k].leaf = i
      BY DEF OInv, Owed
    <3>2. i <= published
      BY <1>3, <1>5, <3>1
    <3>3. QED
      BY <1>1, <3>2
  <2>2. QED
    BY <2>1
<1>8. Apart' /\ Acked' /\ PassesSucceed' /\ Accounted' /\ Owed'
  BY <1>2, <1>6, <1>7 DEF OInv, Apart, Acked, PassesSucceed, Accounted, Owed
<1>9. QueuedOnce' /\ Settled'
  BY <1>4 DEF QueuedOnce, Settled
<1>10. \A q \in Procs : pc'[q] # "idle" => q # p /\ pc'[q] = pc[q]
  BY <1>1, <1>2
<1>11. Marked' /\ Alone'
  BY <1>2, <1>10 DEF OInv, Marked, Alone
<1>12. Holding'
  BY <1>2, <1>4, <1>10 DEF OInv, Holding, Held
<1>13. QED
  BY <1>8, <1>9, <1>11, <1>12 DEF OInv

LEMMA OrderlyPassReads ==
    ASSUME Orderly, IInv, OInv, NEW p \in Procs, NEW c \in Passes, PassRead(p, c)
    PROVE  OInv'
<1>1. /\ pc \in [Procs -> {"idle", "claim", "open", "closing", "follow"}]
      /\ scan \in [Procs -> ScanType] /\ indexed \in Nat
      /\ published \in 0..Len(log) /\ Len(log) \in Nat
      /\ Procs = Writers \cup Followers
  BY DEF IInv, TypeOK, Procs
<1>2. /\ pc[p] = "idle" /\ p \in Followers
      /\ c = "reindex" => \A q \in Procs : pc[q] = "idle"
      /\ scan' = [scan EXCEPT ![p] =
           [from |-> (IF c = "reindex" THEN 0 ELSE indexed) + 1,
            size |-> published, wipe |-> c = "reindex"]]
      /\ pc' = [pc EXCEPT ![p] = "follow"]
      /\ UNCHANGED <<log, published, rows, indexed, tasks, mine, epoch, outcome, promises>>
  BY DEF PassRead, Orderly, logVars, indexVars, epochVars
<1>3. /\ pc'[p] = "follow" /\ scan'[p].size = published /\ scan'[p].wipe = (c = "reindex")
      /\ scan'[p].from = (IF c = "reindex" THEN 0 ELSE indexed) + 1
      /\ \A q \in Procs : q # p => pc'[q] = pc[q] /\ scan'[q] = scan[q]
  BY <1>1, <1>2
<1>4. Holding'
  BY <1>2, <1>3 DEF OInv, Holding, Held
<1>5. Alone'
  <2>1. ASSUME NEW q \in Procs, pc'[q] = "follow", scan'[q].wipe
        PROVE  /\ scan'[q].size = Len(log')
               /\ \A w \in Procs : pc'[w] \notin {"claim", "open", "closing"}
    <3>1. CASE q = p
      <4>1. \A w \in Procs : pc[w] = "idle"
        BY <1>2, <1>3, <2>1, <3>1
      <4>2. \A w \in Procs : DOMAIN tasks[w] = {}
        BY <4>1 DEF OInv, Holding
      <4>3. (published + 1)..Len(log) = {}
        BY <4>2 DEF OInv, Owed
      <4>4. published = Len(log)
        <5>1. published < Len(log) => Len(log) \in (published + 1)..Len(log)
          BY <1>1
        <5>2. QED
          BY <1>1, <4>3, <5>1
      <4>5. QED
        BY <1>2, <1>3, <3>1, <4>1, <4>4
    <3>2. CASE q # p
      BY <1>2, <1>3, <2>1, <3>2 DEF OInv, Alone
    <3>3. QED
      BY <3>1, <3>2
  <2>2. QED
    BY <2>1 DEF Alone
<1>6. \A q \in Procs : pc'[q] = "closing" => pc[q] = "closing"
  BY <1>3
<1>7. \A q \in Procs : pc'[q] = "follow" => 1..(scan'[q].from - 1) \subseteq DOMAIN rows
  <2>1. CASE c = "reindex"
    <3>1. 1..(scan'[p].from - 1) = {}
      BY <1>3, <2>1
    <3>2. QED
      BY <1>3, <3>1 DEF OInv, Marked
  <2>2. CASE c # "reindex"
    <3>1. 1..(scan'[p].from - 1) = 1..indexed
      BY <1>1, <1>3, <2>2
    <3>2. QED
      BY <1>3, <3>1 DEF OInv, Marked
  <2>3. QED
    BY <2>1, <2>2
<1>8. QED
  BY <1>2, <1>4, <1>5, <1>6, <1>7, ControlMoves

\* no pass is refused, and it leaves every row it found
LEMMA OrderlyCommit ==
    ASSUME Orderly, IInv, OInv, NEW p \in Procs, PassCommit(p)
    PROVE  OInv'
<1> DEFINE rs == StartRows(p)
           from == scan[p].from
           size == scan[p].size
<1>1. /\ pc \in [Procs -> {"idle", "claim", "open", "closing", "follow"}]
      /\ scan \in [Procs -> ScanType] /\ outcome \in [Procs -> {"none", "ok", "failed"}]
      /\ published \in 0..Len(log) /\ Len(log) \in Nat
      /\ from \in Nat /\ size \in Nat /\ pc[p] = "follow"
      /\ from # 0 /\ size <= published
      /\ scan[p].wipe => from = 1
  BY DEF IInv, TypeOK, ScansOK, PassCommit, ScanType
<1> HIDE DEF from, size
<1>2. /\ UNCHANGED <<log, published, tasks, mine, epoch, promises>>
      /\ scan' = [scan EXCEPT ![p] = NoScan] /\ pc' = [pc EXCEPT ![p] = "idle"]
  BY DEF PassCommit, logVars, epochVars
<1>3. DOMAIN rs \subseteq DOMAIN rows /\ \A j \in DOMAIN rs : rs[j] = rows[j]
  BY DEF StartRows
<1>4. ~WalkRefused(rs, log, from, size)
  <2>1. ASSUME NEW i \in from..size, NEW j \in Canonical(rs, ReceiptOf[log[i]]), j > i
        PROVE  FALSE
    <3>1. j \in DOMAIN rs /\ ReceiptOf[rs[j].env] = ReceiptOf[log[i]]
      BY DEF Canonical
    <3>2. j \in 1..Len(log) /\ Rid(log[j]) = Rid(log[i])
      BY <1>3, <3>1, RowsStandAlone DEF OInv, Rid
    <3>3. i \in 1..Len(log)
      BY <1>1
    <3>4. j = i
      BY <3>2, <3>3 DEF OInv, Apart
    <3>5. QED
      BY <2>1, <3>3, <3>4
  <2>2. QED
    BY <2>1 DEF WalkRefused
<1>5. /\ rows' = Walked(rs, log, from, size) /\ indexed' = size
      /\ outcome' = [outcome EXCEPT ![p] = "ok"]
  BY <1>4 DEF PassCommit, Replay, Marker, from, size
<1>6. DOMAIN rows' = DOMAIN rs \cup from..size
  BY <1>5 DEF Walked
<1>7. DOMAIN rows \subseteq DOMAIN rows' /\ 1..size \subseteq DOMAIN rows'
  <2>1. CASE scan[p].wipe
    <3>1. from = 1 /\ size = Len(log)
      <4>1. Alone
        BY DEF OInv
      <4>2. from = 1
        BY <1>1, <2>1
      <4>3. scan[p].size = Len(log)
        BY <1>1, <2>1, <4>1 DEF Alone
      <4>4. QED
        BY <4>2, <4>3 DEF size
    <3>2. DOMAIN rows \subseteq 1..Len(log)
      BY DEF IInv, TypeOK
    <3>3. QED
      BY <1>6, <3>1, <3>2
  <2>2. CASE ~scan[p].wipe
    <3>1. rs = rows
      BY <2>2 DEF StartRows
    <3>2. 1..(from - 1) \subseteq DOMAIN rows
      BY <1>1 DEF OInv, Marked, from
    <3>3. \A i \in 1..size : i \in 1..(from - 1) \/ i \in from..size
      BY <1>1
    <3>4. QED
      BY <1>6, <3>1, <3>2, <3>3
  <2>3. QED
    BY <2>1, <2>2
<1> HIDE DEF rs
<1>8. \A q \in Procs : pc'[q] # "idle" => pc'[q] = pc[q] /\ scan'[q] = scan[q]
  BY <1>1, <1>2
<1>9. \A q \in Procs : pc[q] \in {"claim", "open", "closing"} => pc'[q] = pc[q]
  BY <1>1, <1>2
<1>10. Apart' /\ QueuedOnce' /\ Owed'
  BY <1>2 DEF OInv, Apart, QueuedOnce, Owed
<1>11. Holding'
  BY <1>2, <1>8, <1>9 DEF OInv, Holding, Held
<1>12. Settled'
  BY <1>2, <1>7, <1>8 DEF OInv, Settled
<1>13. Accounted' /\ Acked'
  BY <1>2, <1>7 DEF OInv, Accounted, Acked
<1>14. Marked'
  BY <1>5, <1>7, <1>8 DEF OInv, Marked, size
<1>15. Alone'
  BY <1>2, <1>8 DEF OInv, Alone
<1>16. PassesSucceed'
  BY <1>1, <1>5 DEF OInv, PassesSucceed
<1>17. QED
  BY <1>10, <1>11, <1>12, <1>13, <1>14, <1>15, <1>16 DEF OInv
-----------------------------------------------------------------------------
(* Pendings. *)

\* a Pending that goes to Tessera is the first of its receipt
LEMMA OrderlyBegin ==
    ASSUME Orderly, IInv, OInv, NEW p \in Procs, NEW e \in Envelopes, Begin(p, e)
    PROVE  OInv'
<1> DEFINE t == Begun(p, e)
           n == Len(tasks[p]) + 1
<1>1. /\ tasks \in [Procs -> Seq(Task)] /\ tasks[p] \in Seq(Task)
      /\ Len(log) \in Nat /\ ReceiptOf[e] \in Receipts
  BY ExtractAssumption DEF IInv, TypeOK
<1>2. /\ tasks' = [tasks EXCEPT ![p] = Append(tasks[p], t)]
      /\ pc[p] = "open" /\ Stages(p) \cap {"checked", "looked", "sign", "failed"} = {}
      /\ UNCHANGED <<log, published, rows, indexed, pc, mine, epoch, scan, outcome, promises>>
  BY DEF Begin, Ready, Orderly, logVars, indexVars, epochVars, passVars
<1>3. /\ t.env = e /\ t.stage \in {"queued", "dup", "wait"}
      /\ t.stage = "dup" => AckIndex(t) \in DOMAIN rows
      /\ t.stage = "queued" =>
           InFlight(p, Rid(e)) = {} /\ LookupCanonical(rows, Rid(e)) = 0
  <2> DEFINE seen == LookupCanonical(rows, Rid(e))
  <2>1. \A i \in DOMAIN rows : i \in Nat
    BY DEF IInv, TypeOK
  <2>2. Canonical(rows, Rid(e)) \in SUBSET Nat
    BY <2>1 DEF Canonical
  <2>3. seen # 0 => seen \in DOMAIN rows
    BY <2>2, FirstIsNoneOrMember DEF LookupCanonical, Canonical
  <2> HIDE DEF seen
  <2>4. CASE InFlight(p, Rid(e)) # {}
    BY <2>4 DEF Begun, NewTask
  <2>5. CASE InFlight(p, Rid(e)) = {} /\ seen # 0
    <3>1. t = [NewTask(e, "dup") EXCEPT !.first = seen, !.names = rows[seen].env]
      BY <2>5 DEF Begun, seen
    <3>2. t.env = e /\ t.stage = "dup" /\ t.first = seen
      BY <3>1 DEF NewTask
    <3> HIDE DEF t
    <3>3. AckIndex(t) = seen
      BY <2>5, <3>2 DEF AckIndex
    <3>4. QED
      BY <2>3, <2>5, <3>2, <3>3
  <2>6. CASE InFlight(p, Rid(e)) = {} /\ seen = 0
    BY <2>6 DEF Begun, NewTask, seen
  <2>7. QED
    BY <2>4, <2>5, <2>6
<1> HIDE DEF t
<1>4. /\ \A q \in Procs : q # p => tasks'[q] = tasks[q]
      /\ DOMAIN tasks'[p] = DOMAIN tasks[p] \cup {n}
      /\ n \notin DOMAIN tasks[p]
      /\ tasks'[p][n] = t
      /\ \A k \in DOMAIN tasks[p] : tasks'[p][k] = tasks[p][k]
  <2>1. tasks'[p] = Append(tasks[p], t) /\ \A q \in Procs : q # p => tasks'[q] = tasks[q]
    BY <1>1, <1>2
  <2>2. /\ DOMAIN tasks[p] = 1..Len(tasks[p]) /\ Len(tasks[p]) \in Nat
        /\ DOMAIN Append(tasks[p], t) = 1..(Len(tasks[p]) + 1)
        /\ Append(tasks[p], t)[Len(tasks[p]) + 1] = t
        /\ \A k \in 1..Len(tasks[p]) : Append(tasks[p], t)[k] = tasks[p][k]
    BY <1>1
  <2>3. QED
    BY <2>1, <2>2
<1> HIDE DEF n
<1>5. \A q \in Procs : DOMAIN tasks[q] # {} => q = p
  BY <1>2 DEF OInv, Holding, Orderly
\* a receipt that is neither in flight nor indexed is not in the log
<1>6. ASSUME t.stage = "queued" PROVE \A i \in 1..Len(log) : Rid(log[i]) # Rid(e)
  <2>1. ASSUME NEW i \in 1..Len(log), Rid(log[i]) = Rid(e) PROVE FALSE
    <3>1. CASE i \in DOMAIN rows
      <4>1. LookupCanonical(rows, Rid(e)) = i
        BY <2>1, <3>1, LookupFindsLeaf DEF OInv
      <4>2. QED
        BY <1>3, <1>6, <4>1
    <3>2. CASE i \notin DOMAIN rows
      <4>1. PICK k \in DOMAIN tasks[p] : OnItsWay(tasks[p][k]) /\ tasks[p][k].leaf = i
        BY <1>5, <3>2 DEF OInv, Accounted
      <4>2. tasks[p][k].stage = "durable"
        BY <1>2, <4>1 DEF Stages, OnItsWay
      <4>3. log[i] = tasks[p][k].env
        BY <4>1, TaskFacts DEF Knows
      <4>4. k \in InFlight(p, Rid(e))
        BY <2>1, <4>2, <4>3 DEF InFlight
      <4>5. QED
        BY <1>3, <1>6, <4>4
    <3>3. QED
      BY <3>1, <3>2
  <2>2. QED
    BY <2>1
<1>7. \A q \in Procs : \A k \in DOMAIN tasks[q] :
          k \in DOMAIN tasks'[q] /\ tasks'[q][k] = tasks[q][k]
  BY <1>4
<1>8. Apart' /\ Marked' /\ Alone' /\ Acked' /\ PassesSucceed'
  BY <1>2 DEF OInv, Apart, Marked, Alone, Acked, PassesSucceed
<1>9. Accounted'
  BY <1>2, <1>7 DEF OInv, Accounted
<1>10. Owed'
  BY <1>2, <1>7 DEF OInv, Owed
<1>11. Holding'
  BY <1>2, <1>4 DEF OInv, Holding, Held
<1>12. Settled'
  <2>1. ASSUME NEW q \in Procs, NEW k \in DOMAIN tasks'[q]
        PROVE  \/ k \in DOMAIN tasks[q] /\ tasks'[q][k] = tasks[q][k]
               \/ q = p /\ tasks'[q][k] = t
    BY <1>4
  <2>2. QED
    BY <1>2, <1>3, <2>1 DEF OInv, Settled
<1>13. QueuedOnce'
  <2>1. ASSUME NEW q \in Procs, NEW k \in DOMAIN tasks'[q], tasks'[q][k].stage = "queued"
        PROVE  \A i \in 1..Len(log) : Rid(log[i]) # Rid(tasks'[q][k].env)
    <3>1. CASE k \in DOMAIN tasks[q]
      BY <1>7, <2>1, <3>1 DEF OInv, QueuedOnce
    <3>2. CASE k \notin DOMAIN tasks[q]
      <4>1. tasks'[q][k] = t
        BY <1>4, <2>1, <3>2
      <4>2. QED
        BY <1>3, <1>6, <2>1, <4>1
    <3>3. QED
      BY <3>1, <3>2
  <2>2. ASSUME t.stage = "queued", NEW k \in DOMAIN tasks[p], tasks[p][k].stage = "queued"
        PROVE  Rid(tasks[p][k].env) # Rid(e)
    <3>1. k \notin InFlight(p, Rid(e))
      BY <1>3, <2>2
    <3>2. QED
      BY <2>2, <3>1 DEF InFlight
  <2>3. ASSUME NEW q \in Procs, NEW k \in DOMAIN tasks'[q], tasks'[q][k].stage = "queued",
               NEW l \in DOMAIN tasks'[q], tasks'[q][l].stage = "queued",
               Rid(tasks'[q][l].env) = Rid(tasks'[q][k].env)
        PROVE  l = k
    <3>1. CASE k \in DOMAIN tasks[q] /\ l \in DOMAIN tasks[q]
      BY <1>7, <2>3, <3>1 DEF OInv, QueuedOnce
    <3>2. CASE k \in DOMAIN tasks[q] /\ l \notin DOMAIN tasks[q]
      <4>1. q = p /\ tasks'[q][l] = t /\ tasks'[q][k] = tasks[p][k]
        BY <1>4, <2>3, <3>2
      <4>2. QED
        BY <1>3, <2>2, <2>3, <3>2, <4>1
    <3>3. CASE k \notin DOMAIN tasks[q] /\ l \in DOMAIN tasks[q]
      <4>1. q = p /\ tasks'[q][k] = t /\ tasks'[q][l] = tasks[p][l]
        BY <1>4, <2>3, <3>3
      <4>2. QED
        BY <1>3, <2>2, <2>3, <3>3, <4>1
    <3>4. CASE k \notin DOMAIN tasks[q] /\ l \notin DOMAIN tasks[q]
      BY <1>4, <2>3, <3>4
    <3>5. QED
      BY <3>1, <3>2, <3>3, <3>4
  <2>4. QED
    BY <1>2, <2>1, <2>3 DEF QueuedOnce
<1>14. QED
  BY <1>8, <1>9, <1>10, <1>11, <1>12, <1>13 DEF OInv

\* Tessera appends a receipt the log does not have
LEMMA OrderlyIntegrate ==
    ASSUME Orderly, IInv, OInv, NEW p \in Procs, NEW k \in DOMAIN tasks[p], Integrate(p, k)
    PROVE  OInv'
<1> DEFINE e == tasks[p][k].env
           n == Len(log) + 1
           t == [tasks[p][k] EXCEPT !.stage = "durable", !.leaf = n]
<1>1. /\ tasks[p][k] \in Task /\ e \in Envelopes /\ Len(log) \in Nat /\ log \in Seq(Envelopes)
      /\ published \in 0..Len(log)
  <2>1. tasks[p][k] \in Task
    BY TaskFacts
  <2>2. e \in Envelopes
    BY <2>1 DEF Task
  <2>3. QED
    BY <2>1, <2>2 DEF IInv, TypeOK
<1>2. /\ pc[p] \in {"open", "closing"} /\ tasks[p][k].stage = "queued"
      /\ log' = Append(log, e) /\ SetTask(p, k, t)
      /\ UNCHANGED <<published, rows, indexed, pc, mine, epoch, scan, outcome, promises>>
  BY DEF Integrate, indexVars, epochVars, passVars
<1>3. t.env = e /\ t.stage = "durable" /\ t.leaf = n
  BY <1>1 DEF Task
<1> HIDE DEF t
<1>4. /\ \A q \in Procs : DOMAIN tasks'[q] = DOMAIN tasks[q]
      /\ \A q \in Procs : \A j \in DOMAIN tasks[q] :
             tasks'[q][j] = IF q = p /\ j = k THEN t ELSE tasks[q][j]
  BY <1>2, TaskReplaced
<1>5. /\ Len(log') = n /\ log'[n] = e
      /\ \A i \in 1..Len(log) : log'[i] = log[i]
      /\ \A i \in 1..Len(log') : i \in 1..Len(log) \/ i = n
  BY <1>1, <1>2
<1>6. \A i \in 1..Len(log) : Rid(log[i]) # Rid(e)
  BY <1>2 DEF OInv, QueuedOnce
<1>7. Apart'
  <2>1. ASSUME NEW i \in 1..Len(log'), NEW j \in 1..Len(log'), Rid(log'[i]) = Rid(log'[j])
        PROVE  i = j
    <3>1. CASE i \in 1..Len(log) /\ j \in 1..Len(log)
      BY <1>5, <2>1, <3>1 DEF OInv, Apart
    <3>2. CASE i \notin 1..Len(log) \/ j \notin 1..Len(log)
      BY <1>5, <1>6, <2>1, <3>2
    <3>3. QED
      BY <3>1, <3>2
  <2>2. QED
    BY <2>1 DEF Apart, Rid
<1>8. \A q \in Procs : DOMAIN tasks[q] # {} => q = p
  BY <1>2 DEF OInv, Holding, Orderly
<1>9. QueuedOnce'
  <2>1. ASSUME NEW q \in Procs, NEW l \in DOMAIN tasks[q], tasks'[q][l].stage = "queued"
        PROVE  /\ q = p /\ l # k /\ tasks'[q][l] = tasks[p][l]
               /\ tasks[p][l].stage = "queued"
    BY <1>3, <1>4, <1>8, <2>1
  <2>2. ASSUME NEW l \in DOMAIN tasks[p], l # k, tasks[p][l].stage = "queued"
        PROVE  \A i \in 1..Len(log') : Rid(log'[i]) # Rid(tasks[p][l].env)
    <3>1. Rid(tasks[p][l].env) # Rid(e)
      BY <1>2, <2>2 DEF OInv, QueuedOnce
    <3>2. \A i \in 1..Len(log) : Rid(log[i]) # Rid(tasks[p][l].env)
      BY <2>2 DEF OInv, QueuedOnce
    <3>3. QED
      BY <1>5, <3>1, <3>2
  <2>3. QED
    BY <1>4, <2>1, <2>2 DEF OInv, QueuedOnce, Rid
<1>10. Holding'
  BY <1>2, <1>4 DEF OInv, Holding, Held
<1>11. Settled'
  <2>1. pc[p] = "open"
    BY <1>2 DEF OInv, Settled
  <2>2. QED
    BY <1>2, <1>3, <1>4, <2>1 DEF OInv, Settled
<1>12. k \in DOMAIN tasks'[p] /\ OnItsWay(tasks'[p][k]) /\ tasks'[p][k].leaf = n
  BY <1>3, <1>4 DEF OnItsWay
<1>13. Accounted'
  <2>1. ASSUME NEW i \in 1..Len(log), i \notin DOMAIN rows
        PROVE  \E q \in Procs : \E j \in DOMAIN tasks'[q] :
                   OnItsWay(tasks'[q][j]) /\ tasks'[q][j].leaf = i
    <3>1. PICK j \in DOMAIN tasks[p] : OnItsWay(tasks[p][j]) /\ tasks[p][j].leaf = i
      BY <1>8, <2>1 DEF OInv, Accounted
    <3>2. j # k
      BY <1>2, <3>1 DEF OnItsWay
    <3>3. QED
      BY <1>4, <3>1, <3>2
  <2>2. QED
    BY <1>2, <1>5, <1>12, <2>1 DEF Accounted
<1>14. Owed'
  <2>1. ASSUME NEW i \in (published + 1)..Len(log), i # n
        PROVE  \E q \in Procs : \E j \in DOMAIN tasks'[q] : tasks'[q][j].leaf = i
    <3>1. PICK j \in DOMAIN tasks[p] : tasks[p][j].leaf = i
      BY <1>8, <2>1 DEF OInv, Owed
    <3>2. CASE j # k
      BY <1>4, <3>1, <3>2
    <3>3. CASE j = k
      <4>1. i \in 1..Len(log) /\ i # 0
        BY <1>1
      <4>2. log[i] = e
        BY <3>1, <3>3, <4>1, TaskFacts DEF Knows
      <4>3. QED
        BY <1>6, <4>1, <4>2
    <3>4. QED
      BY <3>2, <3>3
  <2>2. \A i \in (published + 1)..Len(log') : i = n \/ i \in (published + 1)..Len(log)
    BY <1>1, <1>5
  <2>3. QED
    BY <1>2, <1>12, <2>1, <2>2 DEF Owed
<1>15. Marked' /\ Acked' /\ PassesSucceed'
  BY <1>2 DEF OInv, Marked, Acked, PassesSucceed
<1>16. Alone'
  BY <1>2 DEF OInv, Alone
<1>17. QED
  BY <1>7, <1>9, <1>10, <1>11, <1>13, <1>14, <1>15, <1>16 DEF OInv

LEMMA OrderlyWaits ==
    ASSUME Orderly, IInv, OInv, NEW p \in Procs, NEW k \in DOMAIN tasks[p],
           \/ AwaitFuture(p, k) \/ AwaitDuplicate(p, k) \/ RecordLookup(p, k)
           \/ AwaitOriginal(p, k)
    PROVE  OInv'
<1> DEFINE t == tasks[p][k]
<1>1. t \in Task /\ Knows(log, t) /\ WaitsFor(tasks[p], t)
  BY TaskFacts
<1>2. /\ pc[p] = "open"
      /\ UNCHANGED <<log, published, rows, indexed, pc, mine, epoch, scan, outcome, promises>>
  BY DEF AwaitFuture, AwaitDuplicate, RecordLookup, AwaitOriginal, Ready,
         logVars, indexVars, epochVars, passVars
<1>3. Held(p)
  BY <1>2 DEF OInv, Holding
<1>4. CASE AwaitFuture(p, k)
  <2> DEFINE u == [t EXCEPT !.stage = "checked"]
  <2>1. t.stage = "durable" /\ SetTask(p, k, u)
    BY <1>3, <1>4, StageIsTask DEF AwaitFuture
  <2>2. u.stage = "checked" /\ u.leaf = t.leaf /\ u.env = t.env
    BY <1>1 DEF Task
  <2> HIDE DEF u
  <2>3. OnItsWay(u)
    BY <2>2 DEF OnItsWay
  <2>4. QED
    BY <1>2, <2>1, <2>2, <2>3, WaitMoves
<1>5. CASE AwaitDuplicate(p, k)
  <2> DEFINE u == [t EXCEPT !.stage = "sign"]
  <2>1. t.stage = "dup" /\ SetTask(p, k, u)
    BY <1>3, <1>5, StageIsTask DEF AwaitDuplicate
  <2>2. u.stage = "sign" /\ u.leaf = t.leaf /\ u.env = t.env /\ AckIndex(u) = AckIndex(t)
    BY <1>1 DEF Task, AckIndex
  <2> HIDE DEF u
  <2>3. AckIndex(u) \in DOMAIN rows
    BY <2>1, <2>2 DEF OInv, Settled
  <2>4. ~OnItsWay(t)
    BY <2>1 DEF OnItsWay
  <2>5. QED
    BY <1>2, <2>1, <2>2, <2>3, <2>4, WaitMoves
\* nothing below the new leaf has its receipt
<1>6. CASE RecordLookup(p, k)
  <2> DEFINE c == LookupBefore(rows, Rid(t.env), t.leaf)
             u == [t EXCEPT !.stage = "looked", !.first = c,
                            !.names = IF c = 0 THEN t.env ELSE rows[c].env]
  <2>1. t.stage = "checked" /\ SetTask(p, k, u)
    BY <1>6 DEF RecordLookup
  <2>2. t.leaf \in 1..Len(log) /\ log[t.leaf] = t.env
    BY <1>1, <2>1 DEF Knows, Task, IInv, TypeOK
  <2>3. {i \in Canonical(rows, Rid(t.env)) : i < t.leaf} = {}
    <3>1. ASSUME NEW i \in Canonical(rows, Rid(t.env)), i < t.leaf PROVE FALSE
      <4>1. i \in 1..Len(log) /\ Rid(log[i]) = Rid(log[t.leaf])
        BY <2>2, RowsStandAlone DEF OInv
      <4>2. i = t.leaf
        BY <2>2, <4>1 DEF OInv, Apart
      <4>3. QED
        BY <2>2, <3>1, <4>2
    <3>2. QED
      BY <3>1
  <2>4. c = 0
    BY <2>3 DEF LookupBefore, First
  <2>5. u.stage = "looked" /\ u.leaf = t.leaf /\ u.env = t.env /\ u.first = 0
    BY <1>1, <2>4 DEF Task
  <2> HIDE DEF u
  <2>6. OnItsWay(u)
    BY <2>5 DEF OnItsWay
  <2>7. QED
    BY <1>2, <2>1, <2>5, <2>6, WaitMoves
\* the original was acked: its row is there
<1>7. CASE AwaitOriginal(p, k)
  <2> DEFINE o == tasks[p][t.waitOn]
             u == [t EXCEPT !.stage = "sign", !.first = AckIndex(o), !.names = o.names]
  <2>1. t.stage = "wait" /\ o.stage \in {"acked", "failed"}
    BY <1>7 DEF AwaitOriginal
  <2>2. t.waitOn \in DOMAIN tasks[p]
    BY <1>1, <2>1 DEF WaitsFor
  <2>3. o.stage = "acked" /\ AckIndex(o) \in DOMAIN rows
    BY <2>1, <2>2 DEF OInv, Settled
  <2>4. SetTask(p, k, u)
    BY <1>3, <1>7, <2>3 DEF AwaitOriginal
  <2>5. AckIndex(o) # 0
    BY <2>3 DEF IInv, TypeOK
  <2>6. u.stage = "sign" /\ u.leaf = t.leaf /\ u.env = t.env /\ u.first = AckIndex(o)
    BY <1>1 DEF Task
  <2> HIDE DEF o, u
  <2>7. AckIndex(u) = AckIndex(o)
    BY <2>5, <2>6 DEF AckIndex
  <2>8. ~OnItsWay(t)
    BY <2>1 DEF OnItsWay
  <2>9. QED
    BY <1>2, <2>3, <2>4, <2>6, <2>7, <2>8, WaitMoves
<1>8. QED
  BY <1>4, <1>5, <1>6, <1>7

\* the row of a new leaf is never refused
LEMMA OrderlyInsert ==
    ASSUME Orderly, IInv, OInv, NEW p \in Procs, NEW k \in DOMAIN tasks[p],
           RecordInsert(p, k)
    PROVE  OInv'
<1> DEFINE t == tasks[p][k]
           u == [t EXCEPT !.stage = "sign"]
<1>1. t \in Task /\ Knows(log, t)
  BY TaskFacts
<1>2. /\ pc[p] = "open" /\ t.stage = "looked" /\ t.first = 0
      /\ UNCHANGED <<log, published, indexed, pc, mine, epoch, scan, outcome, promises>>
  BY DEF RecordInsert, OInv, Settled, logVars, epochVars, passVars
<1>3. t.leaf \in 1..Len(log) /\ log[t.leaf] = t.env
  BY <1>1, <1>2 DEF Knows, Task, IInv, TypeOK
<1>4. ~Refused(rows, t.leaf, t.env, t.first)
  <2>1. ASSUME NEW i \in Canonical(rows, Rid(t.env)) PROVE i = t.leaf
    <3>1. i \in 1..Len(log) /\ Rid(log[i]) = Rid(log[t.leaf])
      BY <1>3, RowsStandAlone DEF OInv
    <3>2. QED
      BY <1>3, <3>1 DEF OInv, Apart
  <2>2. QED
    BY <2>1 DEF Refused, Rid
<1>5. rows' = Upsert(rows, t.leaf, t.env, t.first) /\ SetTask(p, k, u)
  BY <1>2, <1>4, StageIsTask DEF RecordInsert
<1>6. DOMAIN rows' = DOMAIN rows \cup {t.leaf}
  BY <1>5 DEF Upsert
<1>7. u.stage = "sign" /\ u.leaf = t.leaf /\ u.env = t.env /\ u.first = 0
  BY <1>1, <1>2 DEF Task
<1> HIDE DEF u
<1>8. AckIndex(u) \in DOMAIN rows' /\ u.leaf \in DOMAIN rows'
  BY <1>6, <1>7 DEF AckIndex
<1>9. QED
  BY <1>2, <1>5, <1>6, <1>7, <1>8, WaitMoves

LEMMA OrderlySign ==
    ASSUME Orderly, IInv, OInv, NEW p \in Procs, NEW k \in DOMAIN tasks[p], Sign(p, k)
    PROVE  OInv'
<1> DEFINE t == tasks[p][k]
           u == [t EXCEPT !.stage = "acked"]
<1>1. /\ pc[p] = "open" /\ t.stage = "sign" /\ SetTask(p, k, u)
      /\ UNCHANGED <<log, published, rows, indexed, pc, mine, epoch, scan, outcome>>
      /\ \A pr \in promises' \ promises : pr.index = AckIndex(t)
  BY StageIsTask DEF Sign, logVars, indexVars, epochVars, passVars
<1>2. u.stage = "acked" /\ u.leaf = t.leaf /\ u.env = t.env /\ AckIndex(u) = AckIndex(t)
  BY TaskFacts DEF Task, AckIndex
<1> HIDE DEF u
<1>3. AckIndex(t) \in DOMAIN rows /\ ~OnItsWay(t)
  BY <1>1 DEF OInv, Settled, OnItsWay
<1>4. QED
  BY <1>1, <1>2, <1>3, WaitMoves
-----------------------------------------------------------------------------
(* The invariant and what it gives. *)

LEMMA InitOInv == Init => OInv
<1> SUFFICES ASSUME Init PROVE OInv
  OBVIOUS
<1> USE DEF Init
<1>1. Len(log) = 0 /\ \A p \in Procs : DOMAIN tasks[p] = {} /\ pc[p] = "idle"
  OBVIOUS
<1>2. Apart /\ Accounted /\ Owed
  BY <1>1 DEF Apart, Accounted, Owed
<1>3. QueuedOnce /\ Holding /\ Settled /\ Marked /\ Alone
  BY <1>1 DEF QueuedOnce, Holding, Settled, Marked, Alone
<1>4. Acked /\ PassesSucceed
  BY DEF Acked, PassesSucceed
<1>5. QED
  BY <1>2, <1>3, <1>4 DEF OInv

LEMMA StutterOInv == ASSUME OInv, UNCHANGED vars PROVE OInv'
BY DEF vars, logVars, indexVars, epochVars, passVars, OInv, Apart, QueuedOnce, Holding,
       Held, Settled, Accounted, Owed, Marked, Alone, Acked, PassesSucceed

LEMMA NextOInv == ASSUME Orderly, IInv, OInv, [Next]_vars PROVE OInv'
<1>1. ~(faults < MaxFaults)
  BY DEF Orderly, IInv, TypeOK
<1>2. CASE UNCHANGED vars
  BY <1>2, StutterOInv
<1>3. ASSUME NEW p \in Procs, NEW k \in DOMAIN tasks[p], TaskStep(p, k) \/ RecordBusy(p, k)
      PROVE  OInv'
  <2>1. ~RecordBusy(p, k)
    BY <1>1 DEF RecordBusy
  <2>2. QED
    BY <1>3, <2>1, OrderlyIntegrate, OrderlyWaits, OrderlyInsert, OrderlySign DEF TaskStep
<1>4. ASSUME NEW p \in Procs,
             \/ ClaimRead(p) \/ ClaimWrite(p) \/ BeginFenced(p)
             \/ \E e \in Envelopes : Begin(p, e)
             \/ Publish(p) \/ CloseBegin(p) \/ CloseEnd(p)
             \/ \E c \in Passes : PassRead(p, c)
             \/ PassCommit(p) \/ Crash(p)
      PROVE  OInv'
  <2>1. ~Crash(p)
    BY <1>1 DEF Crash
  <2>2. QED
    BY <1>4, <2>1, OrderlyHandles, OrderlyBegin, OrderlyClose, OrderlyPassReads, OrderlyCommit
<1>5. QED
  BY <1>2, <1>3, <1>4 DEF Next

\* The invariant of a log used in order holds of every reachable state.
THEOREM OrderlyHolds == Orderly => (Spec => []OInv)
<1> SUFFICES ASSUME Orderly PROVE Spec => []OInv
  OBVIOUS
<1>1. Init => OInv
  BY InitOInv
<1>2. IInv /\ OInv /\ [Next]_vars => OInv'
  BY NextOInv
<1>3. QED
  BY <1>1, <1>2, InvariantHolds, PTL DEF Spec

\* An acked receipt is found by the next dedup lookup at the acked index,
\* after any reindex, follow or reopening of the log.
THEOREM AcksAreIndexed == Orderly => (Spec => []AckedIsIndexed)
<1> SUFFICES ASSUME Orderly PROVE Spec => []AckedIsIndexed
  OBVIOUS
<1>1. IInv /\ OInv => AckedIsIndexed
  <2> SUFFICES ASSUME IInv, OInv, NEW pr \in promises
               PROVE  LookupCanonical(rows, pr.receipt) = pr.index
    BY DEF AckedIsIndexed
  <2>1. pr.index \in DOMAIN rows
    BY DEF OInv, Acked
  <2>2. Rid(log[pr.index]) = pr.receipt
    BY DEF IInv, PromisedIsDurable, Rid
  <2>3. QED
    BY <2>1, <2>2, LookupFindsLeaf DEF OInv
<1>2. QED
  BY <1>1, InvariantHolds, OrderlyHolds, PTL

\* No replay pass is ever refused, the index is always the projection of the
\* leaves it covers, and nothing below its marker is missing (follow.go).
THEOREM FollowingIsSafe == Orderly => (Spec => []FollowIsSafe)
<1> SUFFICES ASSUME Orderly PROVE Spec => []FollowIsSafe
  OBVIOUS
<1>1. IInv /\ OInv => FollowIsSafe
  <2> SUFFICES ASSUME IInv, OInv PROVE FollowIsSafe
    OBVIOUS
  <2>1. ASSUME NEW i \in DOMAIN rows PROVE rows[i] = Projection(log, i)
    <3>1. i \in 1..Len(log) /\ rows[i].env = log[i] /\ rows[i].duplicateOf = 0
      BY RowsStandAlone DEF OInv
    <3>2. Len(log) \in Nat /\ rows[i] \in Row
      BY DEF IInv, TypeOK
    <3> DEFINE T == Occurrences(log, ReceiptOf[log[i]], i)
    <3>3. T = {i}
      <4>1. \A j \in T : j = i
        BY <3>1, <3>2 DEF Occurrences, OInv, Apart, Rid
      <4>2. i \in T
        BY <3>1 DEF Occurrences
      <4>3. QED
        BY <4>1, <4>2
    <3>4. Lowest(T) = i
      BY <3>1, <3>3, LowestIsLeast
    <3> HIDE DEF T
    <3>5. Projection(log, i) = [env |-> log[i], duplicateOf |-> 0]
      BY <3>4 DEF Projection, T
    <3>6. QED
      BY <3>1, <3>2, <3>5 DEF Row
  <2>2. QED
    BY <2>1 DEF FollowIsSafe, IndexIsProjection, IndexedBelow, OInv, Marked
<1>2. QED
  BY <1>1, InvariantHolds, OrderlyHolds, PTL

-----------------------------------------------------------------------------
(***************************************************************************)
(* AppendOnce is implemented: integration of an entry is its Commit, the   *)
(* signature under a promise its Acknowledge, and no other step is seen.   *)
(***************************************************************************)

Order == [i \in 1..Len(log) |-> ReceiptOf[log[i]]]
AckedPairs == {<<pr.receipt, pr.index>> : pr \in promises}

LEMMA OrderFacts ==
    ASSUME IInv
    PROVE  Order \in Seq(Receipts) /\ Len(Order) = Len(log)
           /\ \A i \in 1..Len(log) : Order[i] = Rid(log[i])
<1>1. log \in Seq(Envelopes) /\ ReceiptOf \in [Envelopes -> Receipts]
  BY ExtractAssumption DEF IInv, TypeOK
<1>2. \A i \in 1..Len(log) : ReceiptOf[log[i]] \in Receipts
  BY <1>1
<1>3. QED
  BY <1>1, <1>2 DEF Order, Rid

LEMMA IntegrateCommits ==
    ASSUME IInv, OInv, NEW p \in Procs, NEW k \in DOMAIN tasks[p], Integrate(p, k)
    PROVE  \E r \in Receipts : Once!Commit(r)
<1> DEFINE e == tasks[p][k].env
           r == Rid(e)
<1>1. e \in Envelopes /\ r \in Receipts
  <2>1. tasks[p][k] \in Task
    BY TaskFacts
  <2>2. QED
    BY <2>1, ExtractAssumption DEF Task, Rid
<1>2. log' = Append(log, e) /\ promises' = promises /\ tasks[p][k].stage = "queued"
  BY DEF Integrate
<1>3. \A i \in 1..Len(log) : Order[i] # r
  BY <1>2, OrderFacts DEF OInv, QueuedOnce
<1>4. Order' = Append(Order, r)
  <2>1. /\ Len(log') = Len(log) + 1 /\ Len(log) \in Nat /\ log'[Len(log) + 1] = e
        /\ \A i \in 1..Len(log) : log'[i] = log[i]
    BY <1>1, <1>2 DEF IInv, TypeOK
  <2>2. Order' = [i \in 1..(Len(log) + 1) |-> Rid(log'[i])]
    BY <2>1 DEF Order, Rid
  <2>3. /\ Append(Order, r) = [i \in 1..(Len(log) + 1) |->
              IF i = Len(log) + 1 THEN r ELSE Order[i]]
    BY <1>1, <2>1, OrderFacts
  <2>4. \A i \in 1..(Len(log) + 1) : i \in 1..Len(log) \/ i = Len(log) + 1
    BY <2>1
  <2>5. \A i \in 1..(Len(log) + 1) :
            Rid(log'[i]) = IF i = Len(log) + 1 THEN r ELSE Order[i]
    BY <2>1, <2>4, OrderFacts
  <2>6. QED
    BY <2>2, <2>3, <2>5
<1>5. QED
  BY <1>1, <1>2, <1>3, <1>4, OrderFacts DEF Once!Commit, Order, AckedPairs

LEMMA SignAcknowledges ==
    ASSUME IInv, IInv', NEW p \in Procs, NEW k \in DOMAIN tasks[p], Sign(p, k)
    PROVE  \E i \in 1..Len(Order) : Once!Acknowledge(i)
<1> DEFINE t == tasks[p][k]
           i == AckIndex(t)
           pr == [receipt |-> Rid(t.env), names |-> t.names, index |-> i,
                  dup |-> t.first # 0, signer |-> mine[p], current |-> epoch]
<1>1. promises' = promises \cup {pr} /\ log' = log
  BY DEF Sign, logVars
<1>2. pr \in promises' /\ pr.receipt = Rid(t.env) /\ pr.index = i
  BY <1>1
<1> HIDE DEF pr
<1>3. i \in 1..Len(log) /\ Rid(log[i]) = pr.receipt
  BY <1>1, <1>2 DEF IInv, PromisedIsDurable, Rid
<1>4. i \in 1..Len(Order) /\ <<pr.receipt, pr.index>> = <<Order[i], i>>
  BY <1>2, <1>3, OrderFacts
<1> HIDE DEF i
<1>5. AckedPairs' = AckedPairs \cup {<<pr.receipt, pr.index>>}
  BY <1>1 DEF AckedPairs
<1>6. Order' = Order
  BY <1>1 DEF Order
<1>7. AckedPairs' = AckedPairs \cup {<<Order[i], i>>}
  BY <1>4, <1>5
<1>8. QED
  BY <1>4, <1>6, <1>7 DEF Once!Acknowledge, Order, AckedPairs

\* Redelivery is idempotent: a receipt enters the log at most once, and every
\* ack of it names that one leaf (Append and BeginAppend, tlog.go).
THEOREM ImplementsAppendOnce == Orderly => (Spec => AppendsOnce)
<1> SUFFICES ASSUME Orderly PROVE Spec => AppendsOnce
  OBVIOUS
<1>1. Init => Once!Init
  BY DEF Init, Once!Init
<1>2. IInv /\ IInv' /\ OInv /\ [Next]_vars => [Once!Next]_<<Order, AckedPairs>>
  <2> SUFFICES ASSUME IInv, IInv', OInv, [Next]_vars
               PROVE  Once!Next \/ UNCHANGED <<Order, AckedPairs>>
    OBVIOUS
  <2>1. ASSUME NEW p \in Procs, NEW k \in DOMAIN tasks[p], Integrate(p, k)
        PROVE  Once!Next
    BY <2>1, IntegrateCommits DEF Once!Next
  <2>2. ASSUME NEW p \in Procs, NEW k \in DOMAIN tasks[p], Sign(p, k)
        PROVE  Once!Next
    BY <2>2, SignAcknowledges DEF Once!Next, Order
  <2>3. ASSUME UNCHANGED <<log, promises>> PROVE UNCHANGED <<Order, AckedPairs>>
    BY <2>3 DEF Order, AckedPairs
  <2>4. ASSUME NEW p \in Procs, NEW k \in DOMAIN tasks[p],
               TaskStep(p, k) \/ RecordBusy(p, k)
        PROVE  Once!Next \/ UNCHANGED <<log, promises>>
    BY <2>1, <2>2, <2>4 DEF TaskStep, AwaitFuture, RecordLookup, RecordInsert,
       AwaitDuplicate, AwaitOriginal, RecordBusy, logVars
  <2>5. ASSUME NEW p \in Procs,
               \/ ClaimRead(p) \/ ClaimWrite(p) \/ BeginFenced(p)
               \/ \E e \in Envelopes : Begin(p, e)
               \/ Publish(p) \/ CloseBegin(p) \/ CloseEnd(p)
               \/ \E c \in Passes : PassRead(p, c)
               \/ PassCommit(p) \/ Crash(p)
        PROVE  UNCHANGED <<log, promises>>
    BY <2>5 DEF ClaimRead, ClaimWrite, BeginFenced, Begin, Publish, CloseBegin, CloseEnd,
       PassRead, PassCommit, Crash, logVars
  <2>6. UNCHANGED vars => UNCHANGED <<log, promises>>
    BY DEF vars, logVars
  <2>7. QED
    BY <2>3, <2>4, <2>5, <2>6 DEF Next
<1>3. QED
  BY <1>1, <1>2, InvariantHolds, OrderlyHolds, PTL DEF Spec, AppendsOnce, Once!Spec,
     Order, AckedPairs

=============================================================================
