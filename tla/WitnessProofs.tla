--------------------------- MODULE WitnessProofs ---------------------------
(***************************************************************************)
(* What the witness keeps for any sets of origins, trees, processes and    *)
(* requests and any number of faults, when no process takes the state      *)
(* directory over while another one is starting (~Takeover).  And what the *)
(* record of witnessing beside a log is worth, with any number of log      *)
(* handles and commands submitting, any trees, restores, lost answers,     *)
(* kills and failing disks on both sides: RecordIsTrue, when no process    *)
(* takes the witness's state over while another starts; and, with a single *)
(* submitter that waits for its answers, RefusedForCause.                  *)
(***************************************************************************)
EXTENDS WitnessProps, WitnessingProps, TLAPS


-----------------------------------------------------------------------------
(* Growth of trees.                                                        *)

\* Every tree carries itself forward.
LEMMA GrowsReflexive == ASSUME NEW t \in Tree PROVE Grows(t, t)
  BY TreeAssumption DEF Grows

\* Growth is transitive.
LEMMA GrowsTransitive ==
    ASSUME NEW t \in Tree, NEW u \in Tree, NEW v \in Tree, Grows(t, u), Grows(u, v)
    PROVE  Grows(t, v)
  BY TreeAssumption, SMT DEF Grows

\* Two trees one tree carries forward are moments of one history.
LEMMA GrowsJoins ==
    ASSUME NEW t \in Tree, NEW u \in Tree, NEW v \in Tree, Grows(t, v), Grows(u, v)
    PROVE  OneHistory(t, u)
  BY TreeAssumption, SMT DEF Grows, OneHistory

\* What Cosign accepts over a held head carries that head forward.
LEMMA AcceptedGrows ==
    ASSUME NEW held \in Tree, NEW t \in Tree, NEW from,
           Judge(held, t, from) = ""
    PROVE  Grows(held, t)
  <1>1. held # NoHead
    BY TreeAssumption
  <1>2. CASE Len(t) = Len(held)
    BY <1>1, <1>2, GrowsReflexive, TreeAssumption DEF Judge
  <1>3. CASE Len(t) # Len(held)
    BY <1>1, <1>3, TreeAssumption DEF Judge, Proves
  <1>. QED BY <1>2, <1>3

-----------------------------------------------------------------------------
(* Types.                                                                  *)

\* Only NoHead is a head and no tree; the answers built are answers.
LEMMA HeadFacts ==
    /\ NoHead \notin Tree
    /\ Empty \in [Origin -> Heads]
    /\ Idle \in Handler
    /\ \A h \in Heads : SizeOf(h) \in Sizes
  BY TreeAssumption
  DEF Heads, Empty, Idle, Handler, Stages, Kinds, NoAnswer, Answer, Sizes, SizeOf

\* Reply builds a request that has been answered.
LEMMA ReplyTyped ==
    ASSUME NEW k \in Kinds, NEW why \in Reasons \cup {""}, NEW n \in Sizes
    PROVE  /\ Reply(Answer(k, why, n)) \in Handler
           /\ Reply(Answer(k, why, n)).stage = "answered"
           /\ Reply(Answer(k, why, n)).proc = NoProc
  BY HeadFacts DEF Reply, Answer, Idle, Handler, Stages, NoAnswer, Kinds

\* What Precheck answers is an answer, and it lets no stranger through.
LEMMA PrecheckTyped ==
    ASSUME NEW held \in Heads, NEW signed \in BOOLEAN,
           NEW o \in Origin \cup {Stranger}, NEW t \in Tree, NEW old \in Sizes
    PROVE  /\ \E k \in Kinds, why \in Reasons \cup {""}, n \in Sizes :
                  Precheck(held, signed, o, t, old) = Answer(k, why, n)
           /\ Precheck(held, signed, o, t, old) = NoAnswer => o \in Origin
<1>1. SizeOf(held) \in Sizes /\ 0 \in Sizes /\ (held # NoHead => Len(held) \in Sizes)
  BY HeadFacts DEF Sizes, Heads
<1>2. CASE o = Stranger \/ ~signed
  BY <1>1, <1>2 DEF Precheck, Kinds, NoAnswer, Answer
<1>3. CASE ~(o = Stranger \/ ~signed) /\ held # NoHead /\ Len(t) < Len(held)
  BY <1>1, <1>3 DEF Precheck, Refusal, Kinds, Reasons, Answer
<1>4. CASE /\ ~(o = Stranger \/ ~signed) /\ ~(held # NoHead /\ Len(t) < Len(held))
           /\ old > Len(t)
  BY <1>1, <1>4 DEF Precheck, Kinds, Answer
<1>5. CASE /\ ~(o = Stranger \/ ~signed) /\ ~(held # NoHead /\ Len(t) < Len(held))
           /\ ~(old > Len(t)) /\ old # SizeOf(held)
  BY <1>1, <1>5 DEF Precheck, Kinds, Answer
<1>6. CASE /\ ~(o = Stranger \/ ~signed) /\ ~(held # NoHead /\ Len(t) < Len(held))
           /\ ~(old > Len(t)) /\ old = SizeOf(held)
  BY <1>1, <1>6 DEF Precheck, Kinds, Answer, NoAnswer
<1>. QED BY <1>2, <1>3, <1>4, <1>5, <1>6

\* Judge refuses for one of the three reasons, for a smaller size only
\* against a head.
LEMMA JudgeTyped ==
    ASSUME NEW held \in Heads, NEW t \in Tree, NEW from \in Sizes
    PROVE  /\ Judge(held, t, from) \in Reasons \cup {""}
           /\ Judge(held, t, from) = "smaller-size" => held # NoHead
<1>. DEFINE J == Judge(held, t, from)
<1>1. CASE held = NoHead
  BY <1>1 DEF Judge, Reasons
<1>2. CASE held # NoHead
  BY <1>2 DEF Judge, Reasons
<1>. QED BY <1>1, <1>2

\* Cutting connections leaves the rest of the requests as they are.
LEMMA CutTyped ==
    ASSUME req \in [Requests -> Handler], NEW P, Cut(P)
    PROVE  /\ req' \in [Requests -> Handler]
           /\ \A r \in Requests : req'[r].stage \notin {"idle", "answered"} =>
                 req'[r] = req[r] /\ req[r].proc \notin P
<1>1. 0 \in Sizes
  BY DEF Sizes
<1>2. /\ Reply(Answer("dropped", "", 0)) \in Handler
      /\ Reply(Answer("dropped", "", 0)).stage = "answered"
  BY <1>1, ReplyTyped DEF Kinds
<1>. QED BY <1>2 DEF Cut

\* A request that moves on is a request.
LEMMA HandlerMoved ==
    ASSUME NEW h \in Handler, NEW st \in Stages, NEW n \in Sizes, NEW head \in Heads
    PROVE  /\ [h EXCEPT !.stage = st] \in Handler
           /\ [h EXCEPT !.stage = st, !.prev = head] \in Handler
           /\ [h EXCEPT !.stage = st, !.from = n, !.prev = head] \in Handler
  BY DEF Handler

LEMMA TypeInit == Init => TypeOK
<1>1. 0 \in 0..MaxFaults
  BY WitnessAssumption
<1>2. NoProc \notin Procs
  BY WitnessAssumption
<1>. QED BY <1>1, <1>2, HeadFacts DEF Init, TypeOK, Idle

LEMMA TypeStep == TypeOK /\ [Next]_vars => TypeOK'
<1>. SUFFICES ASSUME TypeOK, [Next]_vars PROVE TypeOK'
  OBVIOUS
<1>. USE DEF TypeOK
<1>0. 0 \in Sizes /\ NoProc \notin Procs /\ MaxFaults \in Nat
  BY WitnessAssumption DEF Sizes
<1>1. ASSUME NEW p \in Procs, Load(p) PROVE TypeOK'
  BY <1>0, <1>1 DEF Load
<1>2. ASSUME NEW p \in Procs, Serve(p) PROVE TypeOK'
  BY <1>0, <1>2 DEF Serve, stateVars
<1>3. ASSUME NEW p \in Procs, GiveUp(p) PROVE TypeOK'
  BY <1>0, <1>3, HeadFacts DEF GiveUp
<1>4. ASSUME NEW p \in Procs, Exit(p) PROVE TypeOK'
  <2>1. faults' \in 0..MaxFaults
    BY <1>0, <1>4 DEF Exit
  <2>2. /\ req' \in [Requests -> Handler]
        /\ \A r \in Requests : req'[r].stage \notin {"idle", "answered"} =>
              req'[r] = req[r] /\ req[r].proc # p
    BY <1>4, CutTyped DEF Exit
  <2>. QED BY <1>0, <1>4, <2>1, <2>2, HeadFacts DEF Exit
<1>5. ASSUME PowerLoss PROVE TypeOK'
  <2>1. faults' \in 0..MaxFaults
    BY <1>0, <1>5 DEF PowerLoss
  <2>2. /\ req' \in [Requests -> Handler]
        /\ \A r \in Requests : req'[r].stage \in {"idle", "answered"}
    BY <1>5, CutTyped DEF PowerLoss
  <2>. QED BY <1>0, <1>5, <2>1, <2>2, HeadFacts DEF PowerLoss
<1>6. ASSUME NEW r \in Requests, NEW p \in Procs, NEW o \in Origin \cup {Stranger},
             NEW signed \in BOOLEAN, NEW t \in Tree, NEW old \in Sizes,
             NEW from \in Sizes, Receive(r, p, o, signed, t, old, from)
      PROVE  TypeOK'
  <2>. DEFINE held == IF o = Stranger THEN NoHead ELSE mem[p][o]
              a == Precheck(held, signed, o, t, old)
              new == IF a # NoAnswer THEN Reply(a)
                     ELSE [Idle EXCEPT !.stage = "cosign", !.proc = p, !.origin = o,
                                       !.tree = t, !.from = from]
  <2>1. held \in Heads
    BY DEF Heads
  <2>2. CASE a # NoAnswer
    <3>1. new \in Handler /\ new.stage = "answered"
      <4>. HIDE DEF held
      <4>1. PICK k \in Kinds, why \in Reasons \cup {""}, n \in Sizes : a = Answer(k, why, n)
        BY ONLY <2>1, PrecheckTyped, signed \in BOOLEAN, t \in Tree, old \in Sizes,
                o \in Origin \cup {Stranger}
      <4>2. /\ Reply(Answer(k, why, n)) \in Handler
            /\ Reply(Answer(k, why, n)).stage = "answered"
        BY ONLY ReplyTyped, k \in Kinds, why \in Reasons \cup {""}, n \in Sizes
      <4>. QED BY <2>2, <4>1, <4>2
    <3>. QED BY <1>6, <3>1 DEF Receive, serveVars, stateVars
  <2>3. CASE a = NoAnswer
    <3>1. o \in Origin
      BY <2>1, <2>3, PrecheckTyped
    <3>2. /\ new \in Handler /\ new.proc = p /\ new.origin = o /\ new.tree = t
          /\ lock = p
      BY <1>6, <2>3, HeadFacts DEF Receive, Handler, Stages, Heads, Idle
    <3>. QED BY <1>6, <3>1, <3>2 DEF Receive, serveVars, stateVars
  <2>. QED BY <2>2, <2>3
<1>7. ASSUME NEW r \in Requests, Cosign(r) PROVE TypeOK'
  <2>. DEFINE p == req[r].proc  o == req[r].origin  t == req[r].tree
              why == Judge(mem[p][o], t, req[r].from)
  <2>1. /\ p \in Procs /\ o \in Origin /\ t \in Tree /\ req[r].from \in Sizes
        /\ mem[p][o] \in Heads /\ lock = p
    BY <1>7 DEF Cosign, Handler
  <2>2. CASE why = ""
    <3>1. /\ mem' = [mem EXCEPT ![p][o] = t]
          /\ req' = [req EXCEPT ![r].stage = "rename", ![r].from = 0,
                                 ![r].prev = mem[p][o]]
          /\ UNCHANGED <<serveVars, disk, durable, issued, faults>>
      BY <1>7, <2>2 DEF Cosign
    <3>2. mem' \in [Procs -> [Origin -> Heads]]
      BY <2>1, <3>1 DEF Heads
    <3>3. /\ req'[r] \in Handler /\ req'[r].proc = p
          /\ req'[r].origin = o /\ req'[r].tree = t
      <4>1. req'[r] = [req[r] EXCEPT !.stage = "rename", !.from = 0, !.prev = mem[p][o]]
        BY <3>1
      <4>2. req[r] \in Handler /\ "rename" \in Stages
        BY DEF Stages
      <4>3. [req[r] EXCEPT !.stage = "rename", !.from = 0, !.prev = mem[p][o]] \in Handler
        BY ONLY <1>0, <2>1, <4>2, HandlerMoved
      <4>. QED BY <4>1, <4>2, <4>3 DEF Handler
    <3>. QED BY <2>1, <3>1, <3>2, <3>3 DEF serveVars
  <2>3. CASE why # ""
    <3>1. /\ why \in Reasons
          /\ why = "smaller-size" => Len(mem[p][o]) \in Sizes
      BY <2>1, <2>3, JudgeTyped DEF Heads, Sizes
    <3>2. /\ Reply(Refusal(why, mem[p][o])) \in Handler
          /\ Reply(Refusal(why, mem[p][o])).stage = "answered"
      <4>. DEFINE n == IF why = "smaller-size" THEN Len(mem[p][o]) ELSE 0
      <4>1. n \in Sizes /\ "refused" \in Kinds
        BY <1>0, <3>1 DEF Kinds
      <4>2. Refusal(why, mem[p][o]) = Answer("refused", why, n)
        BY DEF Refusal
      <4>. HIDE DEF why, n
      <4>3. /\ Reply(Answer("refused", why, n)) \in Handler
            /\ Reply(Answer("refused", why, n)).stage = "answered"
        BY ONLY <3>1, <4>1, ReplyTyped
      <4>. QED BY <4>2, <4>3
    <3>3. /\ req' = [req EXCEPT ![r] = Reply(Refusal(why, mem[p][o]))]
          /\ UNCHANGED <<mem, serveVars, disk, durable, issued, faults>>
      BY <1>7, <2>3 DEF Cosign
    <3>. QED BY <3>2, <3>3 DEF serveVars
  <2>. QED BY <2>2, <2>3
<1>8. ASSUME NEW r \in Requests, Rename(r) PROVE TypeOK'
  <2>1. req[r].proc \in Procs
    BY <1>8 DEF Rename
  <2>2. req'[r] \in Handler
    <3>1. req'[r] = [req[r] EXCEPT !.stage = "sync"]
      BY <1>8 DEF Rename
    <3>2. req[r] \in Handler /\ "sync" \in Stages /\ NoHead \in Heads
      BY DEF Stages, Heads
    <3>3. [req[r] EXCEPT !.stage = "sync"] \in Handler
      BY ONLY <1>0, <3>2, HandlerMoved
    <3>. QED BY <3>1, <3>3
  <2>. QED BY <1>8, <2>1, <2>2 DEF Rename, serveVars
<1>9. ASSUME NEW r \in Requests, SyncDir(r) PROVE TypeOK'
  <2>1. req'[r] \in Handler
    <3>1. req'[r] = [req[r] EXCEPT !.stage = "signed", !.prev = NoHead]
      BY <1>9 DEF SyncDir
    <3>2. req[r] \in Handler /\ "signed" \in Stages /\ NoHead \in Heads
      BY DEF Stages, Heads
    <3>3. [req[r] EXCEPT !.stage = "signed", !.prev = NoHead] \in Handler
      BY ONLY <1>0, <3>2, HandlerMoved
    <3>. QED BY <3>1, <3>3
  <2>. QED BY <1>9, <2>1 DEF SyncDir, serveVars
<1>10. ASSUME NEW r \in Requests, FlushFails(r) PROVE TypeOK'
  <2>1. /\ Reply(Answer("rejected", "", 0)) \in Handler
        /\ Reply(Answer("rejected", "", 0)).stage = "answered"
    BY <1>0, ReplyTyped DEF Kinds
  <2>2. req[r].proc \in Procs /\ req[r].origin \in Origin /\ req[r].prev \in Heads
    BY <1>10 DEF FlushFails, Handler
  <2>3. mem' \in [Procs -> [Origin -> Heads]]
    BY <1>10, <2>2 DEF FlushFails
  <2>4. faults' \in 0..MaxFaults
    <3>1. faults < MaxFaults /\ faults' = faults + 1 /\ faults \in 0..MaxFaults
      BY <1>10 DEF FlushFails
    <3>. QED BY ONLY <1>0, <3>1
  <2>. QED BY <1>10, <2>1, <2>3, <2>4 DEF FlushFails, serveVars
<1>11. ASSUME NEW r \in Requests, Sign(r) PROVE TypeOK'
  <2>1. /\ Reply(Answer("cosigned", "", 0)) \in Handler
        /\ Reply(Answer("cosigned", "", 0)).stage = "answered"
    BY <1>0, ReplyTyped DEF Kinds
  <2>2. req[r].origin \in Origin /\ req[r].tree \in Tree
    BY <1>11 DEF Sign
  <2>3. issued' \subseteq [origin : Origin, tree : Tree]
    <3>1. [origin |-> req[r].origin, tree |-> req[r].tree] \in [origin : Origin, tree : Tree]
      BY ONLY <2>2
    <3>2. /\ issued' = issued \cup {[origin |-> req[r].origin, tree |-> req[r].tree]}
          /\ issued \subseteq [origin : Origin, tree : Tree]
      BY <1>11 DEF Sign
    <3>. QED BY ONLY <3>1, <3>2
  <2>. QED BY <1>11, <2>1, <2>3 DEF Sign, serveVars, stateVars
<1>12. ASSUME NEW r \in Requests, HangUp(r) PROVE TypeOK'
  <2>1. Idle \in Handler /\ Idle.stage = "idle"
    BY HeadFacts DEF Idle
  <2>. QED BY <1>12, <2>1 DEF HangUp, serveVars, stateVars
<1>13. CASE UNCHANGED vars
  BY <1>13 DEF vars, serveVars, stateVars
<1>14. CASE Lifecycle
  BY <1>1, <1>2, <1>3, <1>4, <1>5, <1>14 DEF Lifecycle
<1>15. CASE Handling
  BY <1>7, <1>8, <1>9, <1>10, <1>11, <1>15 DEF Handling
<1>16. CASE Submission
  BY <1>6, <1>16 DEF Submission
<1>. HIDE DEF TypeOK
<1>. QED BY <1>12, <1>13, <1>14, <1>15, <1>16 DEF Next

\* The witness's variables keep their types, one process serves at a time, and
\* requests are handled by it.
THEOREM TypeCorrect == Spec => []TypeOK
  BY TypeInit, TypeStep, PTL DEF Spec

-----------------------------------------------------------------------------
(***************************************************************************)
(* No head is forgotten.  Out is what the witness has put its name to: the *)
(* cosignatures that left it and those its handlers are about to write.    *)
(* Every state file a power loss may leave covers Out, and so does the     *)
(* memory a process serves from, or will once it gets the lock; while a    *)
(* head is flushed, so does the memory a failed flush would put back.      *)
(***************************************************************************)
Out == issued \cup
    {[origin |-> req[r].origin, tree |-> req[r].tree] :
        r \in {q \in Requests : req[q].stage = "signed"}}

Covers(s, out) ==
    \A c \in out : s[c.origin] # NoHead /\ Grows(c.tree, s[c.origin])

Flushing(r) == req[r].stage \in {"rename", "sync"}

\* What a failed flush of r leaves in memory.
Before(r) == [mem[req[r].proc] EXCEPT ![req[r].origin] = req[r].prev]

HistoryInv ==
    /\ disk \in durable
    /\ \A s \in durable : Covers(s, Out)
    /\ \A p \in Procs :
        phase[p] = "serving" \/ (phase[p] = "loaded" /\ lock = NoProc) =>
            Covers(mem[p], Out)
    /\ \A r \in Requests : Flushing(r) =>
        /\ Covers(Before(r), Out)
        /\ mem[req[r].proc][req[r].origin] = req[r].tree
        /\ req[r].stage = "sync" => disk = mem[req[r].proc]
    /\ \A q, r \in Requests : Flushing(q) /\ Flushing(r) => q = r

\* A request that moves to a stage other than "signed" adds nothing to Out.
LEMMA OutShrinks ==
    ASSUME TypeOK, issued' = issued, NEW r \in Requests, NEW h,
           req' = [req EXCEPT ![r] = h], h.stage # "signed"
    PROVE  Out' \subseteq Out
  BY DEF Out, TypeOK

\* Nor does cutting connections.
LEMMA OutCut ==
    ASSUME TypeOK, issued' = issued, NEW P, Cut(P)
    PROVE  Out' \subseteq Out
<1>1. \A r \in Requests : req'[r].stage = "signed" => req'[r] = req[r]
  BY CutTyped DEF TypeOK
<1>. QED BY <1>1 DEF Out, TypeOK

\* A request that moves to a stage outside of the flush and of the signature,
\* leaving the witness's state alone, keeps the invariant.
LEMMA QuietStep ==
    ASSUME TypeOK, HistoryInv, UNCHANGED <<serveVars, stateVars, issued>>,
           NEW r \in Requests, NEW h, req' = [req EXCEPT ![r] = h],
           h.stage \notin {"signed", "rename", "sync"}
    PROVE  HistoryInv'
<1>1. Out' \subseteq Out
  BY OutShrinks
<1>2. \A q \in Requests : Flushing(q)' => q # r /\ req'[q] = req[q] /\ Flushing(q)
  BY DEF Flushing, TypeOK
<1>. QED BY <1>1, <1>2 DEF HistoryInv, Covers, Before, serveVars, stateVars

LEMMA HistoryInit == Init => HistoryInv
  BY DEF Init, HistoryInv, Covers, Out, Flushing, Idle

LEMMA HistoryLifecycle ==
    ASSUME TypeOK, HistoryInv, ~Takeover, Lifecycle
    PROVE  HistoryInv'
<1>. USE DEF TypeOK, HistoryInv
<1>0. NoProc \notin Procs
  BY WitnessAssumption
<1>1. ASSUME NEW p \in Procs, Load(p) PROVE HistoryInv'
  <2>1. Out' = Out
    BY <1>1 DEF Load, Out
  <2>2. \A r \in Requests : Flushing(r) => req[r].proc # p
    BY <1>0, <1>1 DEF Load, Flushing
  <2>3. \A q \in Procs : q # p => mem'[q] = mem[q] /\ phase'[q] = phase[q]
    BY <1>1 DEF Load
  <2>4. mem'[p] = disk /\ UNCHANGED <<lock, disk, durable, req, issued, faults>>
    BY <1>1 DEF Load
  <2>. QED BY <2>1, <2>2, <2>3, <2>4 DEF Covers, Flushing, Before
<1>2. ASSUME NEW p \in Procs, Serve(p) PROVE HistoryInv'
  BY <1>0, <1>2 DEF Serve, stateVars, Out, Covers, Flushing, Before
<1>3. ASSUME NEW p \in Procs, GiveUp(p) PROVE HistoryInv'
  <2>1. \A r \in Requests : Flushing(r) => req[r].proc # p
    BY <1>0, <1>3 DEF GiveUp, Flushing
  <2>. QED BY <1>0, <1>3, <2>1 DEF GiveUp, Out, Covers, Flushing, Before
<1>4. ASSUME NEW p \in Procs, Exit(p) PROVE HistoryInv'
  <2>1. Out' \subseteq Out
    BY <1>4, OutCut DEF Exit
  <2>2. \A r \in Requests : Flushing(r)' =>
           Flushing(r) /\ req'[r] = req[r] /\ req[r].proc # p
    BY <1>4, CutTyped DEF Exit, Flushing
  <2>3. /\ disk' = disk /\ durable' = durable
        /\ \A q \in Procs : q # p => mem'[q] = mem[q] /\ phase'[q] = phase[q]
        /\ phase'[p] = "down"
    BY <1>4 DEF Exit
  <2>4. \A q \in Procs : phase'[q] = "loaded" /\ lock' = NoProc => lock = NoProc
    BY <1>0, <1>4, <2>3 DEF Exit
  <2>5. \A q \in Procs :
           phase'[q] = "serving" \/ (phase'[q] = "loaded" /\ lock' = NoProc) =>
               Covers(mem'[q], Out')
    BY <2>1, <2>3, <2>4 DEF Covers
  <2>6. \A r \in Requests : Flushing(r)' =>
           /\ Covers(Before(r)', Out')
           /\ mem'[req'[r].proc][req'[r].origin] = req'[r].tree
           /\ req'[r].stage = "sync" => disk' = mem'[req'[r].proc]
    BY <1>0, <2>1, <2>2, <2>3 DEF Covers, Before, Flushing
  <2>7. \A s \in durable : Covers(s, Out')
    BY <2>1 DEF Covers
  <2>. QED BY <2>2, <2>3, <2>5, <2>6, <2>7
<1>5. ASSUME PowerLoss PROVE HistoryInv'
  <2>1. Out' \subseteq Out
    BY <1>5, OutCut DEF PowerLoss
  <2>2. \A r \in Requests : ~Flushing(r)'
    BY <1>5, CutTyped DEF PowerLoss, Flushing
  <2>3. disk' \in durable /\ durable' = {disk'} /\ \A p \in Procs : phase'[p] = "down"
    BY <1>5 DEF PowerLoss
  <2>. QED BY <2>1, <2>2, <2>3 DEF Covers
<1>. QED BY <1>1, <1>2, <1>3, <1>4, <1>5 DEF Lifecycle

LEMMA HistoryCosign ==
    ASSUME TypeOK, HistoryInv, NEW r \in Requests, Cosign(r)
    PROVE  HistoryInv'
<1>. DEFINE p == req[r].proc  o == req[r].origin  t == req[r].tree
            held == mem[p][o]
            why == Judge(held, t, req[r].from)
<1>1. /\ p \in Procs /\ o \in Origin /\ t \in Tree /\ held \in Heads
      /\ req[r].stage = "cosign" /\ phase[p] = "serving" /\ lock = p
  BY DEF Cosign, TypeOK
<1>2. \A q \in Requests : ~Flushing(q)
  BY <1>1, WitnessAssumption DEF Cosign, Recording, Flushing, TypeOK
<1>3. CASE why = ""
  <2>1. /\ mem' = [mem EXCEPT ![p][o] = t]
        /\ req' = [req EXCEPT ![r].stage = "rename", ![r].from = 0, ![r].prev = held]
        /\ UNCHANGED <<serveVars, disk, durable, issued, faults>>
    BY <1>3 DEF Cosign
  <2>2. req'[r] = [req[r] EXCEPT !.stage = "rename", !.from = 0, !.prev = held]
    BY <2>1 DEF TypeOK
  <2>3. /\ req'[r].stage = "rename" /\ req'[r].proc = p /\ req'[r].origin = o
        /\ req'[r].tree = t /\ req'[r].prev = held
    <3>1. req[r] \in Handler
      BY DEF TypeOK
    <3>. QED BY ONLY <2>2, <3>1 DEF Handler
  <2>4. Out' \subseteq Out
    <3>1. \A q \in Requests : req'[q].stage = "signed" => req'[q] = req[q]
      BY <2>1, <2>3 DEF TypeOK
    <3>. QED BY <2>1, <3>1 DEF Out
  <2>5. /\ mem'[p] = [mem[p] EXCEPT ![o] = t]
        /\ \A q \in Procs : q # p => mem'[q] = mem[q]
    BY <1>1, <2>1 DEF TypeOK
  <2>6. Covers(mem[p], Out)
    BY <1>1 DEF HistoryInv
  <2>7. Before(r)' = mem[p]
    BY <1>1, <2>3, <2>5 DEF Before, TypeOK
  <2>8. \A c \in Out : c.origin \in Origin /\ c.tree \in Tree
    BY DEF Out, TypeOK
  <2>9. Covers(mem'[p], Out)
    <3>. SUFFICES ASSUME NEW c \in Out
                  PROVE  mem'[p][c.origin] # NoHead /\ Grows(c.tree, mem'[p][c.origin])
      BY DEF Covers
    <3>1. CASE c.origin # o
      BY <1>1, <2>5, <2>6, <2>8, <3>1 DEF Covers, TypeOK
    <3>2. CASE c.origin = o
      <4>1. held # NoHead /\ Grows(c.tree, held) /\ held \in Tree
        BY <1>1, <2>6, <3>2 DEF Covers, Heads
      <4>2. Grows(held, t)
        BY <1>1, <1>3, <4>1, AcceptedGrows
      <4>3. Grows(c.tree, t)
        BY <1>1, <2>8, <4>1, <4>2, GrowsTransitive
      <4>4. mem'[p][o] = t /\ t # NoHead
        BY <1>1, <2>5, TreeAssumption DEF TypeOK
      <4>. QED BY <3>2, <4>3, <4>4
    <3>. QED BY <3>1, <3>2
  <2>10. \A q \in Requests : Flushing(q)' => q = r
    BY <1>2, <2>1 DEF Flushing, TypeOK
  <2>11. \A q \in Procs :
            phase'[q] = "serving" \/ (phase'[q] = "loaded" /\ lock' = NoProc) =>
                Covers(mem'[q], Out')
    BY <2>1, <2>4, <2>5, <2>9 DEF HistoryInv, Covers, serveVars
  <2>12. mem'[p][o] = t /\ Covers(Before(r)', Out')
    BY <1>1, <2>4, <2>5, <2>6, <2>7 DEF Covers, TypeOK
  <2>. QED BY <2>1, <2>3, <2>4, <2>10, <2>11, <2>12 DEF HistoryInv, Covers
<1>4. CASE why # ""
  <2>. DEFINE h == Reply(Refusal(why, held))
  <2>1. req' = [req EXCEPT ![r] = h] /\ UNCHANGED <<serveVars, stateVars, issued>>
    BY <1>4 DEF Cosign, stateVars
  <2>2. h.stage = "answered"
    BY DEF Reply, Idle
  <2>. QED BY <2>1, <2>2, QuietStep
<1>. QED BY <1>3, <1>4

LEMMA HistoryFlush ==
    ASSUME TypeOK, HistoryInv, NEW r \in Requests,
           Rename(r) \/ SyncDir(r) \/ FlushFails(r)
    PROVE  HistoryInv'
<1>. DEFINE p == req[r].proc  o == req[r].origin  t == req[r].tree
<1>1. /\ p \in Procs /\ o \in Origin /\ t \in Tree /\ req[r].prev \in Heads
      /\ Flushing(r) /\ phase[p] = "serving" /\ lock = p
  <2>1. req[r] \in Handler
    BY DEF TypeOK
  <2>. QED BY <2>1 DEF Rename, SyncDir, FlushFails, TypeOK, Handler, Flushing
<1>2. \A q \in Requests : q # r => ~Flushing(q)
  BY <1>1 DEF HistoryInv
<1>3. Covers(mem[p], Out) /\ Covers(Before(r), Out) /\ mem[p][o] = t
  BY <1>1 DEF HistoryInv
<1>4. CASE Rename(r)
  <2>1. /\ req' = [req EXCEPT ![r].stage = "sync"]
        /\ disk' = mem[p] /\ durable' = durable \cup {disk'}
        /\ UNCHANGED <<serveVars, mem, issued, faults>>
    BY <1>4 DEF Rename
  <2>2. /\ req'[r].stage = "sync" /\ req'[r].proc = p /\ req'[r].origin = o
        /\ req'[r].tree = t /\ req'[r].prev = req[r].prev
    <3>1. req[r] \in Handler /\ req'[r] = [req[r] EXCEPT !.stage = "sync"]
      BY <2>1 DEF TypeOK
    <3>. QED BY ONLY <3>1 DEF Handler
  <2>3. Out' \subseteq Out
    <3>1. \A q \in Requests : req'[q].stage = "signed" => req'[q] = req[q]
      BY <2>1, <2>2 DEF TypeOK
    <3>. QED BY <2>1, <3>1 DEF Out
  <2>4. Before(r)' = Before(r)
    BY <2>1, <2>2 DEF Before
  <2>5. \A q \in Requests : Flushing(q)' => q = r
    BY <1>2, <2>1 DEF Flushing, TypeOK
  <2>. QED BY <1>3, <2>1, <2>2, <2>3, <2>4, <2>5 DEF HistoryInv, Covers, serveVars
<1>5. CASE SyncDir(r)
  <2>1. /\ req[r].stage = "sync" /\ durable' = {disk}
        /\ req' = [req EXCEPT ![r].stage = "signed", ![r].prev = NoHead]
        /\ UNCHANGED <<serveVars, mem, disk, issued, faults>>
    BY <1>5 DEF SyncDir
  <2>2. /\ req'[r].stage = "signed" /\ req'[r].origin = o /\ req'[r].tree = t
    <3>1. req[r] \in Handler /\ req'[r] = [req[r] EXCEPT !.stage = "signed", !.prev = NoHead]
      BY <2>1 DEF TypeOK
    <3>. QED BY ONLY <3>1 DEF Handler
  <2>3. Out' \subseteq Out \cup {[origin |-> o, tree |-> t]}
    <3>1. \A q \in Requests : q # r => req'[q] = req[q]
      BY <2>1 DEF TypeOK
    <3>2. SUFFICES ASSUME NEW c \in Out', c \notin issued
                   PROVE  c \in Out \cup {[origin |-> o, tree |-> t]}
      BY DEF Out
    <3>3. PICK q \in Requests : /\ req'[q].stage = "signed"
                                /\ c = [origin |-> req'[q].origin, tree |-> req'[q].tree]
      BY <2>1, <3>2 DEF Out
    <3>4. CASE q = r
      BY <2>2, <3>3, <3>4
    <3>5. CASE q # r
      BY <3>1, <3>3, <3>5 DEF Out
    <3>. QED BY <3>4, <3>5
  <2>4. mem[p][o] # NoHead /\ Grows(t, mem[p][o])
    BY <1>1, <1>3, GrowsReflexive, TreeAssumption
  <2>5. Covers(mem[p], Out')
    BY <1>3, <2>3, <2>4 DEF Covers
  <2>6. disk = mem[p]
    BY <1>1, <2>1 DEF HistoryInv
  <2>7. \A q \in Requests : ~Flushing(q)'
    BY <1>2, <2>1, <2>2 DEF Flushing, TypeOK
  <2>8. \A q \in Procs :
           phase'[q] = "serving" \/ (phase'[q] = "loaded" /\ lock' = NoProc) => q = p
    BY <1>1, <2>1, WitnessAssumption DEF TypeOK, serveVars
  <2>. QED BY <2>1, <2>5, <2>6, <2>7, <2>8 DEF HistoryInv
<1>6. CASE FlushFails(r)
  <2>. DEFINE h == Reply(Answer("rejected", "", 0))
  <2>1. /\ mem' = [mem EXCEPT ![p][o] = req[r].prev] /\ req' = [req EXCEPT ![r] = h]
        /\ UNCHANGED <<serveVars, disk, durable, issued>>
    BY <1>6 DEF FlushFails
  <2>2. h.stage = "answered"
    BY DEF Reply, Idle
  <2>3. Out' \subseteq Out
    BY <2>1, <2>2, OutShrinks
  <2>4. mem'[p] = Before(r) /\ \A q \in Procs : q # p => mem'[q] = mem[q]
    BY <1>1, <2>1 DEF Before, TypeOK
  <2>5. \A q \in Requests : ~Flushing(q)'
    BY <1>2, <2>1, <2>2 DEF Flushing, TypeOK
  <2>6. \A q \in Procs :
           phase'[q] = "serving" \/ (phase'[q] = "loaded" /\ lock' = NoProc) =>
               Covers(mem'[q], Out')
    <3>1. \A s : Covers(s, Out) => Covers(s, Out')
      BY <2>3 DEF Covers
    <3>2. phase' = phase /\ lock' = lock
      BY <2>1 DEF serveVars
    <3>. QED BY <1>3, <2>4, <3>1, <3>2 DEF HistoryInv
  <2>7. \A s \in durable : Covers(s, Out')
    BY <2>3 DEF HistoryInv, Covers
  <2>. QED BY <2>1, <2>5, <2>6, <2>7 DEF HistoryInv
<1>. QED BY <1>4, <1>5, <1>6

LEMMA HistorySign ==
    ASSUME TypeOK, HistoryInv, NEW r \in Requests, Sign(r)
    PROVE  HistoryInv'
<1>. DEFINE h == Reply(Answer("cosigned", "", 0))
            c == [origin |-> req[r].origin, tree |-> req[r].tree]
<1>1. /\ req[r].stage = "signed" /\ issued' = issued \cup {c}
      /\ req' = [req EXCEPT ![r] = h] /\ UNCHANGED <<serveVars, stateVars>>
  BY DEF Sign
<1>2. h.stage = "answered"
  BY DEF Reply, Idle
<1>3. c \in Out
  BY <1>1 DEF Out
<1>4. Out' \subseteq Out
  BY <1>1, <1>2, <1>3 DEF Out, TypeOK
<1>5. \A q \in Requests : Flushing(q)' => q # r /\ req'[q] = req[q] /\ Flushing(q)
  BY <1>1, <1>2 DEF Flushing, TypeOK
<1>6. \A s : Covers(s, Out) => Covers(s, Out')
  BY <1>4 DEF Covers
<1>7. \A q \in Requests : Flushing(q)' => Before(q)' = Before(q)
  BY <1>1, <1>5 DEF Before, stateVars
<1>8. /\ \A s \in durable : Covers(s, Out')
      /\ \A p \in Procs :
          phase[p] = "serving" \/ (phase[p] = "loaded" /\ lock = NoProc) =>
              Covers(mem[p], Out')
  BY <1>6 DEF HistoryInv
<1>9. \A q \in Requests : Flushing(q)' =>
          /\ Covers(Before(q)', Out')
          /\ mem[req'[q].proc][req'[q].origin] = req'[q].tree
          /\ req'[q].stage = "sync" => disk = mem[req'[q].proc]
  BY <1>5, <1>6, <1>7 DEF HistoryInv
<1>10. \A q, k \in Requests : Flushing(q)' /\ Flushing(k)' => q = k
  BY <1>5 DEF HistoryInv
<1>. QED BY <1>1, <1>8, <1>9, <1>10 DEF HistoryInv, serveVars, stateVars

LEMMA HistoryStep ==
    ASSUME TypeOK, HistoryInv, ~Takeover, [Next]_vars
    PROVE  HistoryInv'
<1>1. CASE Lifecycle
  BY <1>1, HistoryLifecycle
<1>2. CASE Handling
  BY <1>2, HistoryCosign, HistoryFlush, HistorySign DEF Handling
<1>3. ASSUME NEW r \in Requests, NEW p \in Procs, NEW o, NEW signed, NEW t, NEW old,
             NEW from, Receive(r, p, o, signed, t, old, from)
      PROVE  HistoryInv'
  <2>. DEFINE held == IF o = Stranger THEN NoHead ELSE mem[p][o]
              a == Precheck(held, signed, o, t, old)
              h == IF a # NoAnswer THEN Reply(a)
                   ELSE [Idle EXCEPT !.stage = "cosign", !.proc = p, !.origin = o,
                                     !.tree = t, !.from = from]
  <2>1. req' = [req EXCEPT ![r] = h] /\ UNCHANGED <<serveVars, stateVars, issued>>
    BY <1>3 DEF Receive
  <2>2. h.stage \in {"answered", "cosign"}
    BY DEF Reply, Idle
  <2>. QED BY <2>1, <2>2, QuietStep
<1>4. ASSUME NEW r \in Requests, HangUp(r) PROVE HistoryInv'
  BY <1>4, QuietStep DEF HangUp, Idle
<1>5. CASE UNCHANGED vars
  BY <1>5 DEF vars, serveVars, stateVars, HistoryInv, Covers, Out, Before, Flushing
<1>. QED BY <1>1, <1>2, <1>3, <1>4, <1>5 DEF Next, Submission

LEMMA HistoryHolds == ~Takeover /\ Spec => [](TypeOK /\ HistoryInv)
<1>. SUFFICES ASSUME ~Takeover PROVE Spec => [](TypeOK /\ HistoryInv)
  OBVIOUS
<1>1. Init => TypeOK /\ HistoryInv
  BY TypeInit, HistoryInit
<1>2. TypeOK /\ HistoryInv /\ [Next]_vars => (TypeOK /\ HistoryInv)'
  BY TypeStep, HistoryStep
<1>. QED BY <1>1, <1>2, PTL DEF Spec

\* A witness never forgets a head it has cosigned: whatever a power loss
\* leaves on disk carries every issued cosignature forward.
THEOREM HeadsAreRemembered == ~Takeover /\ Spec => []NeverForgets
<1>. SUFFICES ASSUME ~Takeover PROVE Spec => []NeverForgets
  OBVIOUS
<1>1. HistoryInv => NeverForgets
  BY DEF HistoryInv, Covers, Out, NeverForgets
<1>. QED BY <1>1, HistoryHolds, PTL

\* Two heads one state file carries forward are one history.
LEMMA CoveredAgree ==
    ASSUME TypeOK, HistoryInv, NEW c \in Out, NEW d \in Out, c.origin = d.origin
    PROVE  OneHistory(c.tree, d.tree)
<1>1. c.tree \in Tree /\ d.tree \in Tree /\ c.origin \in Origin
  BY SMTT(20) DEF Out, TypeOK
<1>2. /\ disk[c.origin] # NoHead
      /\ Grows(c.tree, disk[c.origin]) /\ Grows(d.tree, disk[c.origin])
  BY DEF HistoryInv, Covers
<1>3. disk[c.origin] \in Tree
  BY <1>1, <1>2 DEF TypeOK, Heads
<1>. QED BY <1>1, <1>2, <1>3, GrowsJoins

\* No two cosignatures the witness lets out for one origin name two histories.
THEOREM OneHistoryCosigned == ~Takeover /\ Spec => []NoSplitView
<1>. SUFFICES ASSUME ~Takeover PROVE Spec => []NoSplitView
  OBVIOUS
<1>1. issued \subseteq Out
  BY DEF Out
<1>2. TypeOK /\ HistoryInv => NoSplitView
  BY <1>1, CoveredAgree DEF NoSplitView, Ledger!NoSplitView, OneHistory, Grows,
     Ledger!OneHistory, Ledger!Grows
<1>. QED BY <1>2, HistoryHolds, PTL

\* The witness implements the ledger: what it lets out always agrees with all
\* it let out before.
THEOREM WitnessKeepsPromise == ~Takeover /\ Spec => Promise
<1>. SUFFICES ASSUME ~Takeover PROVE Spec => Promise
  OBVIOUS
<1>1. Init => Ledger!Init
  BY DEF Init, Ledger!Init
<1>2. TypeOK /\ HistoryInv /\ [Next]_vars => [Ledger!Next]_issued
  <2>. SUFFICES ASSUME TypeOK, HistoryInv, [Next]_vars, issued' # issued
                PROVE  Ledger!Next
    OBVIOUS
  <2>1. PICK r \in Requests : Sign(r)
    <3>1. ~Lifecycle
      BY DEF Lifecycle, Load, Serve, GiveUp, Exit, PowerLoss
    <3>2. \A r \in Requests : ~HangUp(r)
      BY DEF HangUp
    <3>4. ~Submission
      <4>1. ASSUME NEW r \in Requests, NEW p, NEW o, NEW signed, NEW t, NEW old, NEW from,
                   Receive(r, p, o, signed, t, old, from)
            PROVE  UNCHANGED issued
        BY ONLY <4>1 DEF Receive
      <4>. HIDE DEF Receive
      <4>. QED BY <4>1 DEF Submission
    <3>3. \A r \in Requests : ~(Cosign(r) \/ Rename(r) \/ SyncDir(r) \/ FlushFails(r))
      BY DEF Cosign, Rename, SyncDir, FlushFails
    <3>. QED BY <3>1, <3>2, <3>3, <3>4 DEF Next, Handling, vars
  <2>. DEFINE o == req[r].origin  t == req[r].tree
  <2>2. /\ o \in Origin /\ t \in Tree
        /\ issued' = issued \cup {[origin |-> o, tree |-> t]}
        /\ [origin |-> o, tree |-> t] \in Out
    BY <2>1 DEF Sign, TypeOK, Out
  <2>3. \A c \in issued : c.origin = o => OneHistory(c.tree, t)
    <3>1. issued \subseteq Out
      BY DEF Out
    <3>. QED BY <2>2, <3>1, CoveredAgree
  <2>4. Ledger!Cosign(o, t)
    BY <2>2, <2>3 DEF Ledger!Cosign, OneHistory, Grows, Ledger!OneHistory, Ledger!Grows
  <2>. QED BY <2>2, <2>4 DEF Ledger!Next
<1>. QED BY <1>1, <1>2, HistoryHolds, PTL DEF Spec, Promise, Ledger!Spec

-----------------------------------------------------------------------------
(***************************************************************************)
(* Memory is never ahead of the state file.  While r is flushed it is the  *)
(* memory a failed flush would put back that is not ahead, and the head    *)
(* it would put back is carried forward by the one being flushed.          *)
(***************************************************************************)
Behind(s, file) ==
    \A o \in Origin : s[o] # NoHead => file[o] # NoHead /\ Grows(s[o], file[o])

BehindInv ==
    /\ \A p \in Procs :
        \/ phase[p] = "serving" /\ ~Recording(p)
        \/ phase[p] = "loaded" /\ lock = NoProc
        => Behind(mem[p], disk)
    /\ \A r \in Requests : Flushing(r) =>
        /\ Behind(Before(r), disk)
        /\ Behind(Before(r), mem[req[r].proc])

LEMMA BehindItself == ASSUME NEW s \in [Origin -> Heads] PROVE Behind(s, s)
  BY GrowsReflexive DEF Behind, Heads

\* A step that neither begins nor ends a flush keeps BehindInv.
LEMMA BehindQuiet ==
    ASSUME TypeOK, BehindInv, UNCHANGED <<serveVars, stateVars>>,
           NEW r \in Requests, NEW h, req' = [req EXCEPT ![r] = h],
           req[r].stage \notin {"rename", "sync"}, h.stage \notin {"rename", "sync"}
    PROVE  BehindInv'
<1>1. /\ ~Flushing(r) /\ ~Flushing(r)'
      /\ \A q \in Requests : q # r => req'[q] = req[q]
  BY DEF Flushing, TypeOK
<1>2. \A p \in Procs : Recording(p) => Recording(p)'
  BY <1>1 DEF Recording, Flushing
<1>3. \A q \in Requests : Flushing(q)' =>
          Flushing(q) /\ Before(q)' = Before(q) /\ req'[q] = req[q]
  <2>. SUFFICES ASSUME NEW q \in Requests, Flushing(q)'
                PROVE  Flushing(q) /\ Before(q)' = Before(q) /\ req'[q] = req[q]
    OBVIOUS
  <2>1. q # r
    BY <1>1
  <2>. QED BY <1>1, <2>1 DEF Flushing, Before, stateVars
<1>4. mem' = mem /\ disk' = disk /\ phase' = phase /\ lock' = lock
  BY DEF serveVars, stateVars
<1>5. \A p \in Procs :
        \/ phase'[p] = "serving" /\ ~Recording(p)'
        \/ phase'[p] = "loaded" /\ lock' = NoProc
        => Behind(mem'[p], disk')
  BY <1>2, <1>4 DEF BehindInv
<1>6. \A q \in Requests : Flushing(q)' =>
        Behind(Before(q)', disk') /\ Behind(Before(q)', mem'[req'[q].proc])
  BY <1>3, <1>4 DEF BehindInv
<1>. QED BY <1>5, <1>6 DEF BehindInv

LEMMA BehindLifecycle ==
    ASSUME TypeOK, BehindInv, ~Takeover, Lifecycle
    PROVE  BehindInv'
<1>. USE DEF TypeOK
<1>0. NoProc \notin Procs
  BY WitnessAssumption
<1>1. ASSUME NEW p \in Procs, Load(p) PROVE BehindInv'
  <2>1. \A r \in Requests : Flushing(r) => req[r].proc # p
    BY <1>0, <1>1 DEF Load, Flushing
  <2>2. \A q \in Procs : q # p => mem'[q] = mem[q] /\ phase'[q] = phase[q]
    BY <1>1 DEF Load
  <2>3. mem'[p] = disk /\ UNCHANGED <<lock, disk, durable, req, issued, faults>>
    BY <1>1 DEF Load
  <2>4. Behind(disk, disk)
    BY BehindItself
  <2>5. phase'[p] = "loaded" /\ \A q \in Procs : Recording(q)' <=> Recording(q)
    BY <1>1, <2>3 DEF Load, Recording
  <2>. QED BY <2>1, <2>2, <2>3, <2>4, <2>5 DEF BehindInv, Flushing, Before
<1>2. ASSUME NEW p \in Procs, Serve(p) PROVE BehindInv'
  BY <1>0, <1>2 DEF BehindInv, Serve, stateVars, Recording, Flushing, Before
<1>3. ASSUME NEW p \in Procs, GiveUp(p) PROVE BehindInv'
  <2>1. \A r \in Requests : Flushing(r) => req[r].proc # p
    BY <1>0, <1>3 DEF GiveUp, Flushing
  <2>2. \A q \in Procs : q # p => mem'[q] = mem[q] /\ phase'[q] = phase[q]
    BY <1>3 DEF GiveUp
  <2>3. phase'[p] = "down" /\ UNCHANGED <<lock, disk, durable, req, issued, faults>>
    BY <1>3 DEF GiveUp
  <2>4. \A q \in Procs : Recording(q)' <=> Recording(q)
    BY <2>3 DEF Recording
  <2>. QED BY <2>1, <2>2, <2>3, <2>4 DEF BehindInv, Flushing, Before
<1>4. ASSUME NEW p \in Procs, Exit(p) PROVE BehindInv'
  <2>1. \A r \in Requests : Flushing(r)' =>
           Flushing(r) /\ req'[r] = req[r] /\ req[r].proc # p
    BY <1>4, CutTyped DEF Exit, Flushing
  <2>2. /\ disk' = disk /\ phase'[p] = "down"
        /\ \A q \in Procs : q # p => mem'[q] = mem[q] /\ phase'[q] = phase[q]
    BY <1>4 DEF Exit
  <2>3. \A q \in Procs : phase'[q] = "loaded" /\ lock' = NoProc => lock = NoProc
    BY <1>0, <1>4, <2>2 DEF Exit
  <2>4. \A q \in Procs : q # p /\ Recording(q) => Recording(q)'
    <3>1. \A r \in Requests : req[r].proc # p => req'[r] = req[r]
      BY <1>4 DEF Exit, Cut
    <3>. QED BY <3>1 DEF Recording
  <2>5. \A r \in Requests : Flushing(r)' =>
           Before(r)' = Before(r) /\ mem'[req'[r].proc] = mem[req[r].proc]
    <3>. SUFFICES ASSUME NEW r \in Requests, Flushing(r)'
                  PROVE  Before(r)' = Before(r) /\ mem'[req'[r].proc] = mem[req[r].proc]
      OBVIOUS
    <3>1. Flushing(r) /\ req'[r] = req[r] /\ req[r].proc # p
      BY <2>1
    <3>2. req[r].proc \in Procs
      BY <3>1 DEF Flushing
    <3>3. mem'[req[r].proc] = mem[req[r].proc]
      BY <2>2, <3>1, <3>2
    <3>. QED BY ONLY <3>1, <3>3 DEF Before
  <2>. QED BY <2>1, <2>2, <2>3, <2>4, <2>5 DEF BehindInv
<1>5. ASSUME PowerLoss PROVE BehindInv'
  <2>1. \A r \in Requests : ~Flushing(r)'
    BY <1>5, CutTyped DEF PowerLoss, Flushing
  <2>. QED BY <1>5, <2>1 DEF PowerLoss, BehindInv
<1>. QED BY <1>1, <1>2, <1>3, <1>4, <1>5 DEF Lifecycle

LEMMA BehindCosign ==
    ASSUME TypeOK, HistoryInv, BehindInv, NEW r \in Requests, Cosign(r)
    PROVE  BehindInv'
<1>. DEFINE p == req[r].proc  o == req[r].origin  t == req[r].tree
            held == mem[p][o]
            why == Judge(held, t, req[r].from)
<1>1. /\ p \in Procs /\ o \in Origin /\ t \in Tree /\ held \in Heads
      /\ req[r].stage = "cosign" /\ phase[p] = "serving" /\ lock = p
      /\ ~Recording(p)
  BY DEF Cosign, TypeOK
<1>2. \A q \in Requests : ~Flushing(q)
  BY <1>1, WitnessAssumption DEF Recording, Flushing, TypeOK
<1>3. Behind(mem[p], disk)
  BY <1>1 DEF BehindInv
<1>4. CASE why = ""
  <2>1. /\ mem' = [mem EXCEPT ![p][o] = t] /\ disk' = disk /\ phase' = phase /\ lock' = lock
        /\ req' = [req EXCEPT ![r].stage = "rename", ![r].from = 0, ![r].prev = held]
    BY <1>4 DEF Cosign, serveVars
  <2>2. /\ req'[r].stage = "rename" /\ req'[r].proc = p /\ req'[r].origin = o
        /\ req'[r].tree = t /\ req'[r].prev = held
    <3>1. /\ req[r] \in Handler
          /\ req'[r] = [req[r] EXCEPT !.stage = "rename", !.from = 0, !.prev = held]
      BY <2>1 DEF TypeOK
    <3>. QED BY ONLY <3>1 DEF Handler
  <2>3. /\ mem'[p] = [mem[p] EXCEPT ![o] = t]
        /\ mem[p] \in [Origin -> Heads]
    BY <1>1, <2>1 DEF TypeOK
  <2>4. Before(r)' = mem[p]
    BY <1>1, <2>2, <2>3 DEF Before
  <2>5. held # NoHead => Grows(held, t)
    BY <1>1, <1>4, AcceptedGrows DEF Heads
  <2>6. Behind(mem[p], mem'[p])
    <3>. SUFFICES ASSUME NEW x \in Origin, mem[p][x] # NoHead
                  PROVE  mem'[p][x] # NoHead /\ Grows(mem[p][x], mem'[p][x])
      BY DEF Behind
    <3>1. CASE x = o
      BY <1>1, <2>3, <2>5, <3>1, TreeAssumption
    <3>2. CASE x # o
      BY <2>3, <3>2, GrowsReflexive DEF Heads
    <3>. QED BY <3>1, <3>2
  <2>7. \A q \in Requests : Flushing(q)' => q = r
    BY <1>2, <2>1 DEF Flushing, TypeOK
  <2>8. \A q \in Procs : phase[q] = "serving" => q = p
    BY <1>1, WitnessAssumption DEF TypeOK
  <2>9. Recording(p)'
    BY <2>2 DEF Recording
  <2>10. lock # NoProc
    BY <1>1, WitnessAssumption
  <2>. QED BY <1>3, <2>1, <2>2, <2>4, <2>6, <2>7, <2>8, <2>9, <2>10 DEF BehindInv
<1>5. CASE why # ""
  <2>. DEFINE h == Reply(Refusal(why, held))
  <2>1. req' = [req EXCEPT ![r] = h] /\ UNCHANGED <<serveVars, stateVars>>
    BY <1>5 DEF Cosign, stateVars
  <2>2. h.stage = "answered"
    BY DEF Reply, Idle
  <2>. QED BY <1>1, <2>1, <2>2, BehindQuiet
<1>. QED BY <1>4, <1>5

LEMMA BehindFlush ==
    ASSUME TypeOK, HistoryInv, BehindInv, NEW r \in Requests,
           Rename(r) \/ SyncDir(r) \/ FlushFails(r)
    PROVE  BehindInv'
<1>. DEFINE p == req[r].proc
<1>1. /\ p \in Procs /\ req[r].origin \in Origin /\ req[r].prev \in Heads
      /\ Flushing(r) /\ lock = p /\ lock # NoProc
  <2>1. req[r] \in Handler
    BY DEF TypeOK
  <2>2. Flushing(r)
    BY DEF Rename, SyncDir, FlushFails, Flushing
  <2>3. p \in Procs /\ lock = p /\ req[r].origin \in Origin
    BY <2>2 DEF TypeOK, Flushing
  <2>4. req[r].prev \in Heads
    BY ONLY <2>1 DEF Handler
  <2>. QED BY <2>2, <2>3, <2>4, WitnessAssumption
<1>2. \A q \in Requests : q # r => ~Flushing(q)
  BY <1>1 DEF HistoryInv
<1>3. Behind(Before(r), disk) /\ Behind(Before(r), mem[p])
  BY <1>1 DEF BehindInv
<1>4. \A q \in Procs : phase[q] = "serving" => q = p
  BY <1>1 DEF TypeOK
<1>5. mem[p] \in [Origin -> Heads]
  BY <1>1 DEF TypeOK
<1>6. CASE Rename(r)
  <2>1. /\ req' = [req EXCEPT ![r].stage = "sync"]
        /\ disk' = mem[p] /\ mem' = mem /\ phase' = phase /\ lock' = lock
    BY <1>6 DEF Rename, serveVars
  <2>2. /\ req'[r].stage = "sync" /\ req'[r].proc = p
        /\ req'[r].origin = req[r].origin /\ req'[r].prev = req[r].prev
    <3>1. req[r] \in Handler /\ req'[r] = [req[r] EXCEPT !.stage = "sync"]
      BY <2>1 DEF TypeOK
    <3>. QED BY ONLY <3>1 DEF Handler
  <2>3. Before(r)' = Before(r)
    BY <2>1, <2>2 DEF Before
  <2>4. \A q \in Requests : Flushing(q)' => q = r
    BY <1>2, <2>1 DEF Flushing, TypeOK
  <2>5. Recording(p)'
    BY <2>2 DEF Recording
  <2>. QED BY <1>1, <1>3, <1>4, <2>1, <2>2, <2>3, <2>4, <2>5 DEF BehindInv
<1>7. CASE SyncDir(r)
  <2>1. /\ req[r].stage = "sync"
        /\ req' = [req EXCEPT ![r].stage = "signed", ![r].prev = NoHead]
        /\ disk' = disk /\ mem' = mem /\ phase' = phase /\ lock' = lock
    BY <1>7 DEF SyncDir, serveVars
  <2>2. disk = mem[p] /\ Behind(mem[p], disk)
    BY <1>1, <1>5, <2>1, BehindItself DEF HistoryInv
  <2>3. \A q \in Requests : ~Flushing(q)'
    <3>1. req[r] \in Handler /\ req'[r] = [req[r] EXCEPT !.stage = "signed", !.prev = NoHead]
      BY <2>1 DEF TypeOK
    <3>2. req'[r].stage = "signed"
      BY ONLY <3>1 DEF Handler
    <3>. QED BY <1>2, <2>1, <3>2 DEF Flushing, TypeOK
  <2>. QED BY <1>1, <1>4, <2>1, <2>2, <2>3 DEF BehindInv
<1>8. CASE FlushFails(r)
  <2>. DEFINE h == Reply(Answer("rejected", "", 0))
  <2>1. /\ mem' = [mem EXCEPT ![p][req[r].origin] = req[r].prev]
        /\ req' = [req EXCEPT ![r] = h]
        /\ disk' = disk /\ phase' = phase /\ lock' = lock
    BY <1>8 DEF FlushFails, serveVars
  <2>2. h.stage = "answered"
    BY DEF Reply, Idle
  <2>3. mem'[p] = Before(r)
    BY <1>1, <2>1 DEF Before, TypeOK
  <2>4. \A q \in Requests : ~Flushing(q)'
    BY <1>2, <2>1, <2>2 DEF Flushing, TypeOK
  <2>. QED BY <1>1, <1>3, <1>4, <2>1, <2>3, <2>4 DEF BehindInv
<1>. QED BY <1>6, <1>7, <1>8

LEMMA BehindStep ==
    ASSUME TypeOK, HistoryInv, BehindInv, ~Takeover, [Next]_vars
    PROVE  BehindInv'
<1>1. CASE Lifecycle
  BY <1>1, BehindLifecycle
<1>2. ASSUME NEW r \in Requests, Sign(r) PROVE BehindInv'
  <2>. DEFINE h == Reply(Answer("cosigned", "", 0))
  <2>1. /\ req' = [req EXCEPT ![r] = h] /\ req[r].stage = "signed"
        /\ UNCHANGED <<serveVars, stateVars>>
    BY <1>2 DEF Sign
  <2>2. h.stage = "answered"
    BY DEF Reply, Idle
  <2>. QED BY <2>1, <2>2, BehindQuiet
<1>3. ASSUME NEW r \in Requests, NEW p \in Procs, NEW o, NEW signed, NEW t, NEW old,
             NEW from, Receive(r, p, o, signed, t, old, from)
      PROVE  BehindInv'
  <2>. DEFINE held == IF o = Stranger THEN NoHead ELSE mem[p][o]
              a == Precheck(held, signed, o, t, old)
              h == IF a # NoAnswer THEN Reply(a)
                   ELSE [Idle EXCEPT !.stage = "cosign", !.proc = p, !.origin = o,
                                     !.tree = t, !.from = from]
  <2>1. /\ req' = [req EXCEPT ![r] = h] /\ req[r].stage = "idle"
        /\ UNCHANGED <<serveVars, stateVars>>
    BY <1>3 DEF Receive
  <2>2. h.stage \in {"answered", "cosign"}
    BY DEF Reply, Idle
  <2>. QED BY <2>1, <2>2, BehindQuiet
<1>4. ASSUME NEW r \in Requests, HangUp(r) PROVE BehindInv'
  BY <1>4, BehindQuiet DEF HangUp, Idle
<1>5. CASE UNCHANGED vars
  BY <1>5 DEF vars, serveVars, stateVars, BehindInv, Recording, Before, Flushing
<1>6. CASE Handling
  BY <1>2, <1>6, BehindCosign, BehindFlush DEF Handling
<1>. QED BY <1>1, <1>3, <1>4, <1>5, <1>6 DEF Next, Submission

\* A serving process never goes by a head the state file does not carry
\* forward, not even after a flush that failed half way.
THEOREM MemoryIsBehindDisk == ~Takeover /\ Spec => []NotAheadOfDisk
<1>. SUFFICES ASSUME ~Takeover PROVE Spec => []NotAheadOfDisk
  OBVIOUS
<1>1. Init => BehindInv
  BY DEF Init, BehindInv, Flushing, Idle
<1>2. TypeOK /\ HistoryInv /\ BehindInv /\ [Next]_vars => BehindInv'
  BY BehindStep
<1>3. BehindInv => NotAheadOfDisk
  BY DEF BehindInv, Behind, NotAheadOfDisk
<1>. QED BY <1>1, <1>2, <1>3, HistoryHolds, PTL DEF Spec

-----------------------------------------------------------------------------
(* The composition with the log keeps the invariants of the witness: a step *)
(* of the log's side is a request the witness may receive, a connection it  *)
(* may see closed, or nothing to it.                                        *)


LEMMA OriginKnown == TheOrigin \in Origin
  BY WitnessingAssumption DEF TheOrigin

\* A failing disk on the log's side is a fault the witness does not see.
Elsewhere == faults < MaxFaults /\ faults' = faults + 1
             /\ UNCHANGED <<serveVars, stateVars, req, issued>>

\* What a request out of a pass can be.
Sane ==
    \A s \in Submitters :
        /\ pass[s].stage # "idle" => pass[s].tree \in Tree
        /\ pass[s].stage = "await" => pass[s].slot \in Requests

SideInv == SideTypeOK /\ Sane

-----------------------------------------------------------------------------
(* The steps of a pass, one by one.                                        *)

LEMMA PassFacts ==
    ASSUME SideInv, NEW s \in Submitters
    PROVE  /\ pass[s] \in Pass /\ pass \in [Submitters -> Pass]
           /\ pass[s].stage \in {"idle", "post", "await", "record", "write"}
           /\ pass[s].tree \in Heads /\ pass[s].before \subseteq Tree /\ pass[s].old \in Sizes
           /\ pass[s].tries \in 0..Recalibrations
           /\ pass[s].slot \in Requests \cup {NoSlot} /\ pass[s].outcome \in Outcome
           /\ pass[s].stage # "idle" => pass[s].tree \in Tree
           /\ pass[s].stage = "await" => pass[s].slot \in Requests
  BY DEF SideInv, SideTypeOK, Sane, Pass

\* What the declared size and the proof offered with it can be.
LEMMA ProofTyped ==
    ASSUME NEW old \in Sizes, NEW t \in Tree
    PROVE  ProofFrom(old, t) \in Sizes
  BY DEF ProofFrom, Sizes

\* A step of the composition, as the witness sees it.
LEMMA WitnessSees ==
    ASSUME TypeOK, SideInv, [AllNext]_allVars
    PROVE  [Next]_vars \/ Elsewhere
<1>1. CASE (Lifecycle \/ Handling) /\ UNCHANGED sideVars
  BY <1>1 DEF Next
<1>2. ASSUME NEW t \in Tree, Publish(t) \/ Restore(t) PROVE UNCHANGED vars
  BY <1>2 DEF Publish, Restore
<1>3. ASSUME Reopen PROVE UNCHANGED vars
  BY <1>3 DEF Reopen
<1>4. ASSUME NEW s \in Submitters,
             Start(s) \/ RefuseLocally(s) \/ Unreachable(s) \/ Abandon(s)
             \/ Record(s) \/ WriteWitnessed(s)
      PROVE  UNCHANGED vars
  BY <1>4 DEF Start, RefuseLocally, Unreachable, Abandon, Record, WriteWitnessed
<1>5. ASSUME NEW s \in Submitters, NEW r \in Requests, NEW p \in Procs, Post(s, r, p)
      PROVE  Next
  <2>1. pass[s].old \in Sizes /\ pass[s].tree \in Tree
    BY <1>5, PassFacts DEF Post
  <2>2. ProofFrom(pass[s].old, pass[s].tree) \in Sizes
    BY <2>1, ProofTyped
  <2>3. Receive(r, p, TheOrigin, TRUE, pass[s].tree, pass[s].old,
                ProofFrom(pass[s].old, pass[s].tree))
    BY <1>5 DEF Post
  <2>. HIDE DEF Receive, ProofFrom, TheOrigin
  <2>4. Submission
    BY <2>1, <2>2, <2>3, OriginKnown DEF Submission
  <2>. QED BY <2>4 DEF Next
<1>6. ASSUME NEW s \in Submitters, Answered(s) PROVE Next
  <2>1. HangUp(pass[s].slot) /\ pass[s].slot \in Requests
    BY <1>6, PassFacts DEF Answered, HangUp
  <2>. QED BY <2>1 DEF Next
<1>7. ASSUME NEW s \in Submitters, WriteFails(s) PROVE Elsewhere
  BY <1>7 DEF WriteFails, Elsewhere
<1>8. ASSUME NEW r \in Requests, Unread(r) PROVE Next
  BY <1>8 DEF Unread, Next
<1>9. CASE UNCHANGED allVars
  BY <1>9 DEF allVars
<1>. QED
  BY <1>1, <1>2, <1>3, <1>4, <1>5, <1>6, <1>7, <1>8, <1>9 DEF AllNext, SideNext, Step

LEMMA WitnessTyped ==
    ASSUME TypeOK, SideInv, [AllNext]_allVars
    PROVE  TypeOK'
<1>1. CASE [Next]_vars
  BY <1>1, TypeStep
<1>2. CASE Elsewhere
  <2>1. faults' \in 0..MaxFaults
    BY <1>2, WitnessAssumption DEF Elsewhere, TypeOK
  <2>. QED BY <1>2, <2>1 DEF Elsewhere, TypeOK, serveVars, stateVars
<1>. QED BY <1>1, <1>2, WitnessSees

LEMMA WitnessRemembers ==
    ASSUME TypeOK, SideInv, HistoryInv, ~Takeover, [AllNext]_allVars
    PROVE  HistoryInv'
<1>1. CASE [Next]_vars
  BY <1>1, HistoryStep
<1>2. CASE Elsewhere
  BY <1>2 DEF Elsewhere, HistoryInv, Covers, Out, Before, Flushing, serveVars, stateVars
<1>. QED BY <1>1, <1>2, WitnessSees

-----------------------------------------------------------------------------
(* Types of the log's side.                                                *)

LEMMA OutcomeTyped ==
    ASSUME NEW kind \in {"none", "cosigned", "refused", "unreachable"},
           NEW why \in Reasons \cup {""}
    PROVE  Result(kind, why) \in Outcome /\ Result(kind, why).kind = kind
  BY DEF Result, Outcome

LEMMA NoPassTyped == NoPass \in Pass /\ NoPass.stage = "idle" /\ NoPass.slot = NoSlot
<1>1. Result("none", "") \in Outcome /\ 0 \in Sizes /\ 0 \in 0..Recalibrations
  BY WitnessingAssumption DEF Result, Outcome, Sizes
<1>. QED BY <1>1 DEF NoPass, Pass, Heads

\* A pass that moves on, the rest of the log's side keeping its types.
LEMMA PassMoves ==
    ASSUME SideInv, NEW s \in Submitters, NEW h \in Pass,
           pass' = [pass EXCEPT ![s] = h],
           h.stage = "await" <=> h.slot # NoSlot,
           h.stage # "idle" => h.tree \in Tree,
           UNCHANGED <<logVars, reopens>>,
           lastSize' = lastSize \/ \E n \in Sizes : lastSize' = [lastSize EXCEPT ![s] = n],
           seen' = seen \/ \E t \in Heads : seen' = [seen EXCEPT ![s] = t],
           records' \subseteq [tree : Tree, outcome : Outcome], witnessed' \in Heads
    PROVE  SideInv'
<1>1. pass \in [Submitters -> Pass]
  BY DEF SideInv, SideTypeOK
<1>2. pass' \in [Submitters -> Pass]
  BY <1>1
<1>3. pass'[s] = h /\ \A u \in Submitters : u # s => pass'[u] = pass[u]
  BY <1>1
<1>4. \A u \in Submitters : (pass'[u].stage = "await" <=> pass'[u].slot # NoSlot)
                            /\ (pass'[u].stage # "idle" => pass'[u].tree \in Tree)
  BY <1>3 DEF SideInv, SideTypeOK, Sane
<1>5. Sane'
  BY <1>2, <1>4 DEF Sane, Pass
<1>6. lastSize' \in [Submitters -> Sizes] /\ seen' \in [Submitters -> Heads]
  BY DEF SideInv, SideTypeOK
<1>. QED BY <1>2, <1>4, <1>5, <1>6 DEF SideInv, SideTypeOK, logVars

\* Submit returns an outcome.
LEMMA ReturnMoves ==
    ASSUME SideInv, NEW s \in Submitters, pass[s].stage \in {"post", "await"},
           NEW res \in Outcome, pass' = Returned(s, res),
           UNCHANGED <<logVars, seen, fileVars, reopens>>,
           lastSize' = lastSize \/ \E n \in Sizes : lastSize' = [lastSize EXCEPT ![s] = n]
    PROVE  SideInv'
<1>. DEFINE h == [pass[s] EXCEPT !.stage = "record", !.outcome = res, !.slot = NoSlot]
<1>1. pass[s] \in Pass /\ pass \in [Submitters -> Pass] /\ pass[s].tree \in Tree
  BY PassFacts
<1>2. pass' = [pass EXCEPT ![s] = h]
  BY <1>1 DEF Returned
<1>3. h \in Pass /\ h.stage = "record" /\ h.slot = NoSlot /\ h.tree = pass[s].tree
  BY <1>1 DEF Pass
<1>. HIDE DEF h
<1>4. records' \subseteq [tree : Tree, outcome : Outcome] /\ witnessed' \in Heads
  BY DEF fileVars, SideInv, SideTypeOK
<1>. QED BY <1>1, <1>2, <1>3, <1>4, PassMoves

LEMMA SideInit == InitSide => SideInv
<1>. SUFFICES ASSUME InitSide PROVE SideInv
  OBVIOUS
<1>. USE DEF InitSide
<1>1. 0 \in Sizes /\ 0 \in 0..MaxReopens
  BY WitnessingAssumption DEF Sizes
<1>2. Sane
  BY NoPassTyped DEF Sane
<1>3. SideTypeOK
  BY <1>1, NoPassTyped DEF SideTypeOK, Heads
<1>. QED BY <1>2, <1>3 DEF SideInv

LEMMA SideQuiet == ASSUME SideInv, UNCHANGED sideVars PROVE SideInv'
  BY DEF SideInv, SideTypeOK, Sane, sideVars, logVars, fileVars

LEMMA SideLog ==
    ASSUME SideInv, Reopen \/ \E t \in Tree : Publish(t) \/ Restore(t)
    PROVE  SideInv'
<1>1. 0 \in Sizes /\ reopens \in Nat /\ MaxReopens \in Nat
  BY WitnessingAssumption DEF Sizes, SideInv, SideTypeOK
<1>2. CASE Reopen
  <2>1. /\ UNCHANGED <<published, offered, pass, records, witnessed>>
        /\ lastSize' \in [Submitters -> Sizes] /\ seen' \in [Submitters -> Heads]
        /\ reopens' \in 0..MaxReopens
    BY <1>1, <1>2 DEF Reopen, logVars, fileVars, Heads
  <2>. QED BY <2>1 DEF SideInv, SideTypeOK, Sane
<1>3. ASSUME NEW t \in Tree, Publish(t) \/ Restore(t) PROVE SideInv'
  <2>1. /\ UNCHANGED <<pass, lastSize, seen, records, witnessed>>
        /\ published' \in Tree /\ offered' \subseteq Tree /\ reopens' \in 0..MaxReopens
    BY <1>1, <1>3 DEF Publish, Restore, fileVars, SideInv, SideTypeOK
  <2>. QED BY <2>1 DEF SideInv, SideTypeOK, Sane
<1>. QED BY <1>2, <1>3

LEMMA SideSubmit ==
    ASSUME TypeOK, SideInv, NEW s \in Submitters,
           \/ Start(s) \/ RefuseLocally(s) \/ Unreachable(s) \/ Abandon(s)
           \/ Answered(s) \/ \E r \in Requests, p \in Procs : Post(s, r, p)
    PROVE  SideInv'
<1>1. pass[s] \in Pass /\ pass \in [Submitters -> Pass]
  BY PassFacts
<1>2. /\ published \in Tree /\ offered \subseteq Tree /\ lastSize \in [Submitters -> Sizes]
      /\ records \subseteq [tree : Tree, outcome : Outcome] /\ witnessed \in Heads
      /\ 0 \in Sizes
  BY DEF SideInv, SideTypeOK, Sizes
<1>3. CASE Start(s)
  <2>. DEFINE n == IF s \in Loops THEN lastSize[s] ELSE 0
              h == [NoPass EXCEPT !.stage = "post", !.tree = published, !.before = offered,
                                  !.old = n]
  <2>1. n \in Sizes
    BY <1>2
  <2>2. pass' = [pass EXCEPT ![s] = h] /\ UNCHANGED <<logVars, reopens, lastSize, seen, fileVars>>
    BY <1>3 DEF Start
  <2>. HIDE DEF n
  <2>3. h \in Pass /\ h.stage = "post" /\ h.slot = NoSlot /\ h.tree = published
    BY <1>2, <2>1, NoPassTyped DEF Pass, Heads
  <2>. HIDE DEF h
  <2>. QED BY <1>2, <2>2, <2>3, PassMoves DEF fileVars
<1>4. CASE RefuseLocally(s) \/ Unreachable(s) \/ Abandon(s)
  <2>1. /\ pass[s].stage \in {"post", "await"}
        /\ \/ pass' = Returned(s, Result("refused", "smaller-size"))
           \/ pass' = Returned(s, Result("unreachable", ""))
        /\ UNCHANGED <<logVars, lastSize, seen, fileVars, reopens>>
    BY <1>4 DEF RefuseLocally, Unreachable, Abandon
  <2>2. /\ Result("refused", "smaller-size") \in Outcome
        /\ Result("unreachable", "") \in Outcome
    BY OutcomeTyped DEF Reasons
  <2>. QED BY <2>1, <2>2, ReturnMoves
<1>5. CASE Answered(s)
  <2>. DEFINE r == pass[s].slot
              a == req[r].answer
              again == a.kind = "size" /\ pass[s].tries < Recalibrations
              h == [pass[s] EXCEPT !.stage = "post", !.slot = NoSlot, !.old = a.size,
                                   !.tries = pass[s].tries + 1]
              res == IF a.kind \in {"cosigned", "refused"} THEN Result(a.kind, a.reason)
                     ELSE Result("unreachable", "")
  <2>1. /\ pass[s].stage = "await" /\ r \in Requests /\ pass[s].tree \in Tree
        /\ pass[s].tries \in 0..Recalibrations /\ Recalibrations \in Nat
        /\ Len(pass[s].tree) \in Sizes
    BY <1>5, PassFacts, WitnessingAssumption DEF Answered, Sizes
  <2>2. a.kind \in Kinds /\ a.reason \in Reasons \cup {""} /\ a.size \in Sizes
    BY <2>1 DEF TypeOK, Handler
  <2>3. UNCHANGED <<logVars, seen, fileVars, reopens>>
    BY <1>5 DEF Answered
  <2>4. /\ again => pass' = [pass EXCEPT ![s] = h]
        /\ ~again => pass' = Returned(s, res)
    BY <1>1, <1>5 DEF Answered
  <2>5. lastSize' = lastSize \/ \E n \in Sizes : lastSize' = [lastSize EXCEPT ![s] = n]
    <3>1. lastSize' = [lastSize EXCEPT ![s] = IF again THEN a.size
                          ELSE IF a.kind = "cosigned" THEN Len(pass[s].tree) ELSE lastSize[s]]
      BY <1>2, <1>5 DEF Answered
    <3>2. lastSize[s] \in Sizes
      BY <1>2
    <3>. QED BY <2>1, <2>2, <3>1, <3>2
  <2>6. CASE again
    <3>1. pass[s].tries + 1 \in 0..Recalibrations
      BY <2>1, <2>6
    <3>2. h \in Pass /\ h.stage = "post" /\ h.slot = NoSlot /\ h.tree = pass[s].tree
      <4>. HIDE DEF again
      <4>. QED BY <1>1, <2>1, <2>2, <3>1 DEF Pass
    <3>. HIDE DEF h
    <3>. QED BY <1>2, <2>1, <2>3, <2>4, <2>5, <2>6, <3>2, PassMoves DEF fileVars
  <2>7. CASE ~again
    <3>1. res \in Outcome
      BY <2>2, OutcomeTyped DEF Kinds
    <3>. HIDE DEF res
    <3>. QED BY <2>1, <2>3, <2>4, <2>5, <2>7, <3>1, ReturnMoves
  <2>. QED BY <2>6, <2>7
<1>6. ASSUME NEW r \in Requests, NEW p \in Procs, Post(s, r, p) PROVE SideInv'
  <2>. DEFINE h == [pass[s] EXCEPT !.stage = "await", !.slot = r]
  <2>1. /\ pass[s].stage = "post" /\ pass' = [pass EXCEPT ![s] = h]
        /\ UNCHANGED <<logVars, lastSize, seen, fileVars, reopens>>
    BY <1>1, <1>6 DEF Post
  <2>2. h \in Pass /\ h.stage = "await" /\ h.slot = r /\ h.tree = pass[s].tree
    BY <1>1 DEF Pass
  <2>3. r # NoSlot /\ pass[s].tree \in Tree
    BY <2>1, PassFacts, WitnessingAssumption
  <2>. HIDE DEF h
  <2>. QED BY <1>2, <2>1, <2>2, <2>3, PassMoves DEF fileVars
<1>. QED BY <1>3, <1>4, <1>5, <1>6

LEMMA SideWrite ==
    ASSUME SideInv, NEW s \in Submitters, Record(s) \/ WriteWitnessed(s) \/ WriteFails(s)
    PROVE  SideInv'
<1>1. /\ pass[s] \in Pass /\ pass \in [Submitters -> Pass] /\ pass[s].outcome \in Outcome
      /\ pass[s].tree \in Heads
      /\ pass[s].stage # "idle" => pass[s].tree \in Tree
  BY PassFacts
<1>2. records \subseteq [tree : Tree, outcome : Outcome] /\ witnessed \in Heads
  BY DEF SideInv, SideTypeOK
<1>3. CASE Record(s)
  <2>. DEFINE h == [pass[s] EXCEPT !.stage = "write"]
  <2>1. /\ pass[s].stage = "record" /\ UNCHANGED <<logVars, lastSize, witnessed, reopens>>
        /\ records' = records \cup {[tree |-> pass[s].tree, outcome |-> pass[s].outcome]}
        /\ \/ pass' = [pass EXCEPT ![s] = h] /\ seen' = seen
           \/ pass' = [pass EXCEPT ![s] = NoPass]
              /\ seen' = [seen EXCEPT ![s] = pass[s].tree]
    BY <1>1, <1>3 DEF Record
  <2>2. h \in Pass /\ h.stage = "write" /\ h.slot = pass[s].slot /\ h.tree = pass[s].tree
    BY <1>1 DEF Pass
  <2>3. pass[s].slot = NoSlot
    BY <2>1 DEF SideInv, SideTypeOK
  <2>. HIDE DEF h
  <2>4. records' \subseteq [tree : Tree, outcome : Outcome] /\ witnessed' \in Heads
    BY <1>1, <1>2, <2>1
  <2>5. CASE pass' = [pass EXCEPT ![s] = h] /\ seen' = seen
    BY <1>1, <2>1, <2>2, <2>3, <2>4, <2>5, PassMoves
  <2>6. CASE pass' = [pass EXCEPT ![s] = NoPass] /\ seen' = [seen EXCEPT ![s] = pass[s].tree]
    BY <1>1, <2>1, <2>4, <2>6, NoPassTyped, PassMoves
  <2>. QED BY <2>1, <2>5, <2>6
<1>4. CASE WriteWitnessed(s) \/ WriteFails(s)
  <2>1. /\ pass' = [pass EXCEPT ![s] = NoPass] /\ UNCHANGED <<logVars, lastSize, reopens, records>>
        /\ witnessed' = witnessed \/ witnessed' = pass[s].tree
        /\ seen' = seen \/ seen' = [seen EXCEPT ![s] = pass[s].tree]
    BY <1>4 DEF WriteWitnessed, WriteFails, fileVars
  <2>2. records' \subseteq [tree : Tree, outcome : Outcome] /\ witnessed' \in Heads
    BY <1>1, <1>2, <2>1
  <2>3. seen' = seen \/ \E t \in Heads : seen' = [seen EXCEPT ![s] = t]
    BY <1>1, <2>1
  <2>. QED BY <2>1, <2>2, <2>3, NoPassTyped, PassMoves
<1>. QED BY <1>3, <1>4

LEMMA SideStep ==
    ASSUME TypeOK, SideInv, [AllNext]_allVars
    PROVE  SideInv'
<1>1. CASE ((Lifecycle \/ Handling) /\ UNCHANGED sideVars) \/ UNCHANGED allVars
  BY <1>1, SideQuiet DEF allVars
<1>2. ASSUME NEW r \in Requests, Unread(r) PROVE SideInv'
  BY <1>2, SideQuiet DEF Unread
<1>. QED
  BY <1>1, <1>2, SideLog, SideSubmit, SideWrite DEF AllNext, SideNext, Step

\* Both sides keep their types, the log's beside any witness.
THEOREM BothSidesTyped == AllSpec => [](TypeOK /\ SideTypeOK)
<1>1. AllInit => TypeOK /\ SideInv
  BY TypeInit, SideInit DEF AllInit
<1>2. TypeOK /\ SideInv /\ [AllNext]_allVars => (TypeOK /\ SideInv)'
  BY WitnessTyped, SideStep
<1>3. SideInv => SideTypeOK
  BY DEF SideInv
<1>. QED BY <1>1, <1>2, <1>3, PTL DEF AllSpec

-----------------------------------------------------------------------------
(***************************************************************************)
(* The record is true.  A pass that waits has a request of its own, the    *)
(* witness handles it for the pass's tree, and answers it with a           *)
(* cosignature only once that cosignature is out; so a cosigned outcome, a *)
(* record and the witnessed checkpoint each stand for a cosignature the    *)
(* witness put its name to, and what it remembers covers them all.         *)
(***************************************************************************)
NoReason == ""
Witnessed == Result("cosigned", "")

Cosigned(t) == [origin |-> TheOrigin, tree |-> t] \in issued

\* The witness has request r for t in hand, or has answered it truly.
Serves(r, t) ==
    /\ req[r].stage # "idle"
    /\ req[r].stage # "answered" => req[r].origin = TheOrigin /\ req[r].tree = t
    /\ req[r].stage = "answered" /\ req[r].answer.kind = "cosigned" =>
           Cosigned(t) /\ req[r].answer.reason = NoReason

Waits(s) == pass[s].stage = "await" => Serves(pass[s].slot, pass[s].tree)

OwnRequests ==
    \A s, u \in Submitters :
        pass[s].stage = "await" /\ pass[u].stage = "await" /\ pass[s].slot = pass[u].slot
            => s = u

Earns(s) ==
    /\ pass[s].stage \in {"record", "write"} /\ pass[s].outcome.kind = "cosigned" =>
           Cosigned(pass[s].tree) /\ pass[s].outcome = Witnessed
    /\ pass[s].stage = "write" =>
           /\ pass[s].outcome.kind = "cosigned"
           /\ [tree |-> pass[s].tree, outcome |-> pass[s].outcome] \in records

OnRecord ==
    /\ \A rec \in records : rec.outcome.kind = "cosigned" => Cosigned(rec.tree)
    /\ witnessed # NoHead =>
           [tree |-> witnessed, outcome |-> Witnessed] \in records

RecordInv == OwnRequests /\ OnRecord /\ \A s \in Submitters : Waits(s) /\ Earns(s)

\* An answer given at the door is no cosignature.
LEMMA PrecheckKind ==
    ASSUME NEW held, NEW signed, NEW o, NEW t, NEW old
    PROVE  Precheck(held, signed, o, t, old).kind # "cosigned"
  BY DEF Precheck, Refusal, Answer, NoAnswer

\* An answered request carries its answer.
LEMMA ReplyFacts ==
    ASSUME NEW a PROVE Reply(a).stage = "answered" /\ Reply(a).answer = a
  BY DEF Reply, Idle

LEMMA AnswerFacts ==
    /\ Answer("dropped", "", 0).kind = "dropped"
    /\ Answer("rejected", "", 0).kind = "rejected"
    /\ Answer("cosigned", "", 0).reason = NoReason
  BY Zenon DEF Answer, NoReason

\* Cutting connections answers nobody with a cosignature.
LEMMA CutServes ==
    ASSUME TypeOK, NEW P, Cut(P), issued' = issued,
           NEW r \in Requests, NEW t, Serves(r, t)
    PROVE  Serves(r, t)'
<1>1. req'[r] = req[r] \/ req'[r] = Reply(Answer("dropped", "", 0))
  BY DEF Cut
<1>2. CASE req'[r] = req[r]
  BY <1>2 DEF Serves, Cosigned
<1>3. CASE req'[r] = Reply(Answer("dropped", "", 0))
  <2>. DEFINE a == Answer("dropped", "", 0)
  <2>1. req'[r] = Reply(a) /\ a.kind = "dropped"
    BY <1>3, AnswerFacts, Zenon
  <2>. HIDE DEF a
  <2>2. req'[r].stage = "answered" /\ req'[r].answer.kind = "dropped"
    BY <2>1, ReplyFacts
  <2>. QED BY <2>2 DEF Serves
<1>. QED BY <1>1, <1>2, <1>3

\* A step of the witness keeps what it does for a request.
LEMMA WitnessServes ==
    ASSUME TypeOK, Lifecycle \/ Handling, NEW r \in Requests, NEW t, Serves(r, t)
    PROVE  Serves(r, t)'
<1>1. req \in [Requests -> Handler]
  BY DEF TypeOK
<1>2. ASSUME NEW p \in Procs, Load(p) \/ Serve(p) \/ GiveUp(p) PROVE Serves(r, t)'
  BY <1>2 DEF Load, Serve, GiveUp, Serves, Cosigned
<1>3. ASSUME NEW p \in Procs, Exit(p) PROVE Serves(r, t)'
  BY <1>3, CutServes DEF Exit
<1>4. CASE PowerLoss
  BY <1>4, CutServes DEF PowerLoss
<1>5. ASSUME NEW q \in Requests,
             Cosign(q) \/ Rename(q) \/ SyncDir(q) \/ FlushFails(q) \/ Sign(q)
      PROVE  Serves(r, t)'
  <2>1. CASE q # r
    <3>1. req'[r] = req[r] /\ issued \subseteq issued'
      BY <1>1, <1>5, <2>1 DEF Cosign, Rename, SyncDir, FlushFails, Sign
    <3>. QED BY <3>1 DEF Serves, Cosigned
  <2>2. CASE q = r
    <3>1. CASE Rename(q) \/ SyncDir(q)
      <4>1. /\ req[r].stage \in {"rename", "sync"} /\ req'[r].stage \in {"sync", "signed"}
            /\ req'[r].origin = req[r].origin /\ req'[r].tree = req[r].tree
        <5>1. req[r] \in Handler
          BY <1>1
        <5>2. CASE Rename(q)
          <6>1. req'[r] = [req[r] EXCEPT !.stage = "sync"] /\ req[r].stage = "rename"
            BY <1>1, <2>2, <5>2 DEF Rename
          <6>. QED BY <5>1, <6>1 DEF Handler
        <5>3. CASE SyncDir(q)
          <6>1. /\ req'[r] = [req[r] EXCEPT !.stage = "signed", !.prev = NoHead]
                /\ req[r].stage = "sync"
            BY <1>1, <2>2, <5>3 DEF SyncDir
          <6>. QED BY <5>1, <6>1 DEF Handler
        <5>. QED BY <3>1, <5>2, <5>3
      <4>. QED BY <4>1 DEF Serves
    <3>2. CASE FlushFails(q)
      <4>. DEFINE a == Answer("rejected", "", 0)
      <4>1. req'[r] = Reply(a) /\ a.kind = "rejected"
        BY <1>1, <2>2, <3>2, AnswerFacts, Zenon DEF FlushFails
      <4>. HIDE DEF a
      <4>2. req'[r].stage = "answered" /\ req'[r].answer.kind = "rejected"
        BY <4>1, ReplyFacts
      <4>. QED BY <4>2 DEF Serves
    <3>3. CASE Sign(q)
      <4>. DEFINE a == Answer("cosigned", "", 0)
      <4>1. /\ req[r].origin = TheOrigin /\ req[r].tree = t
        BY <2>2, <3>3 DEF Sign, Serves
      <4>2. /\ issued' = issued \cup {[origin |-> req[r].origin, tree |-> req[r].tree]}
            /\ req'[r] = Reply(a) /\ a.reason = NoReason
        BY <1>1, <2>2, <3>3, AnswerFacts, Zenon DEF Sign
      <4>. HIDE DEF a
      <4>3. req'[r].stage = "answered" /\ req'[r].answer.reason = NoReason
        BY <4>2, ReplyFacts
      <4>. QED BY <4>1, <4>2, <4>3 DEF Serves, Cosigned
    <3>4. CASE Cosign(q)
      <4>. DEFINE why == Judge(mem[req[r].proc][req[r].origin], req[r].tree, req[r].from)
                  a == Refusal(why, mem[req[r].proc][req[r].origin])
      <4>1. \/ /\ req[r].stage = "cosign" /\ req'[r].stage = "rename"
               /\ req'[r].origin = req[r].origin /\ req'[r].tree = req[r].tree
            \/ req'[r] = Reply(a)
        <5>1. req[r] \in Handler
          BY <1>1
        <5>2. /\ req[r].stage = "cosign"
              /\ \/ req'[r] = [req[r] EXCEPT !.stage = "rename", !.from = 0,
                                            !.prev = mem[req[r].proc][req[r].origin]]
                 \/ req'[r] = Reply(a)
          BY <1>1, <2>2, <3>4 DEF Cosign
        <5>. HIDE DEF a
        <5>. QED BY <5>1, <5>2 DEF Handler
      <4>2. Reply(a).stage = "answered" /\ Reply(a).answer.kind = "refused"
        BY DEF Reply, Refusal, Answer, Idle
      <4>. HIDE DEF a
      <4>. QED BY <4>1, <4>2 DEF Serves
    <3>. QED BY <1>5, <3>1, <3>2, <3>3, <3>4
  <2>. QED BY <2>1, <2>2
<1>. QED BY <1>2, <1>3, <1>4, <1>5 DEF Lifecycle, Handling

\* What the witness issues is never taken back.
LEMMA IssuedStay ==
    ASSUME Lifecycle \/ Handling PROVE issued \subseteq issued'
  BY DEF Lifecycle, Handling, Load, Serve, GiveUp, Exit, PowerLoss, Cosign, Rename, SyncDir,
     FlushFails, Sign

\* One pass moves on, the requests of the others being left alone.
LEMMA RecordMoves ==
    ASSUME SideInv, RecordInv, NEW s \in Submitters, NEW h, pass' = [pass EXCEPT ![s] = h],
           issued' = issued, records \subseteq records', OnRecord', Waits(s)', Earns(s)',
           \A u \in Submitters : u # s /\ pass[u].stage = "await" =>
               /\ req'[pass[u].slot] = req[pass[u].slot]
               /\ h.stage = "await" => pass[u].slot # h.slot
    PROVE  RecordInv'
<1>1. pass \in [Submitters -> Pass]
  BY PassFacts
<1>2. pass'[s] = h /\ \A u \in Submitters : u # s => pass'[u] = pass[u]
  BY <1>1
<1>3. ASSUME NEW u \in Submitters, u # s PROVE Waits(u)' /\ Earns(u)'
  <2>1. Waits(u) /\ Earns(u) /\ pass'[u] = pass[u]
    BY <1>2, <1>3 DEF RecordInv
  <2>2. Waits(u)'
    <3>1. CASE pass[u].stage = "await"
      <4>1. Serves(pass[u].slot, pass[u].tree) /\ req'[pass[u].slot] = req[pass[u].slot]
        BY <1>3, <2>1, <3>1 DEF Waits
      <4>2. Serves(pass[u].slot, pass[u].tree)'
        BY <2>1, <4>1 DEF Serves, Cosigned
      <4>. QED BY <4>2 DEF Waits
    <3>2. CASE pass[u].stage # "await"
      BY <2>1, <3>2 DEF Waits
    <3>. QED BY <3>1, <3>2
  <2>3. Earns(u)'
    BY <2>1 DEF Earns, Cosigned
  <2>. QED BY <2>2, <2>3
<1>4. OwnRequests'
  BY <1>2 DEF RecordInv, OwnRequests
<1>. QED BY <1>3, <1>4 DEF RecordInv

\* A pass outside of the waiting and of the record claims nothing.
LEMMA RecordRests ==
    ASSUME SideInv, RecordInv, NEW s \in Submitters, NEW h, pass' = [pass EXCEPT ![s] = h],
           h.stage \in {"idle", "post"}, issued' = issued, UNCHANGED req,
           records \subseteq records', OnRecord'
    PROVE  RecordInv'
<1>1. pass'[s] = h
  BY PassFacts
<1>2. Waits(s)' /\ Earns(s)'
  BY <1>1 DEF Waits, Earns
<1>. QED BY <1>2, RecordMoves

LEMMA ResultFacts ==
    /\ Result("unreachable", "").kind = "unreachable"
    /\ Result("refused", "smaller-size").kind = "refused"
    /\ Result("cosigned", NoReason) = Witnessed /\ Witnessed.kind = "cosigned"
    /\ \A why : Result("refused", why).kind = "refused"
  BY Zenon DEF Result, NoReason, Witnessed

LEMMA RecordInit == AllInit => RecordInv
<1>. SUFFICES ASSUME AllInit PROVE RecordInv
  OBVIOUS
<1>1. \A s \in Submitters : pass[s].stage = "idle"
  BY NoPassTyped DEF AllInit, InitSide
<1>2. records = {} /\ witnessed = NoHead
  BY DEF AllInit, InitSide
<1>. QED BY <1>1, <1>2 DEF RecordInv, OwnRequests, OnRecord, Waits, Earns

\* Steps that touch no pass, no record and no request but the witness's own.
LEMMA RecordQuiet ==
    ASSUME SideInv, RecordInv, UNCHANGED <<pass, fileVars>>, issued \subseteq issued',
           \A s \in Submitters : Waits(s)'
    PROVE  RecordInv'
<1>1. UNCHANGED <<pass, records, witnessed>>
  BY DEF fileVars
<1>2. OwnRequests'
  BY <1>1 DEF RecordInv, OwnRequests
<1>3. OnRecord'
  BY <1>1 DEF RecordInv, OnRecord, Cosigned
<1>4. ASSUME NEW s \in Submitters PROVE Earns(s)'
  BY <1>1 DEF RecordInv, Earns, Cosigned
<1>. QED BY <1>2, <1>3, <1>4 DEF RecordInv

LEMMA WaitsStand ==
    ASSUME SideInv, RecordInv, UNCHANGED pass, issued' = issued, NEW s \in Submitters,
           pass[s].stage = "await" => req'[pass[s].slot] = req[pass[s].slot]
    PROVE  Waits(s)'
<1>1. CASE pass[s].stage = "await"
  <2>1. Serves(pass[s].slot, pass[s].tree)
    BY <1>1 DEF RecordInv, Waits
  <2>2. Serves(pass[s].slot, pass[s].tree)'
    BY <1>1, <2>1 DEF Serves, Cosigned
  <2>. QED BY <2>2 DEF Waits
<1>2. CASE pass[s].stage # "await"
  BY <1>2 DEF Waits
<1>. QED BY <1>1, <1>2

\* Submit returns an outcome that claims no more than the witness did.
LEMMA RecordReturns ==
    ASSUME SideInv, RecordInv, NEW s \in Submitters, NEW res, pass' = Returned(s, res),
           issued' = issued, UNCHANGED fileVars,
           res.kind = "cosigned" => Cosigned(pass[s].tree) /\ res = Witnessed,
           \A u \in Submitters : u # s /\ pass[u].stage = "await" =>
               req'[pass[u].slot] = req[pass[u].slot]
    PROVE  RecordInv'
<1>. DEFINE h == [pass[s] EXCEPT !.stage = "record", !.outcome = res, !.slot = NoSlot]
<1>1. pass[s] \in Pass /\ pass \in [Submitters -> Pass]
  BY PassFacts
<1>2. pass' = [pass EXCEPT ![s] = h]
  BY <1>1 DEF Returned
<1>3. h.stage = "record" /\ h.outcome = res /\ h.tree = pass[s].tree
  BY <1>1 DEF Pass
<1>. HIDE DEF h
<1>4. Waits(s)' /\ Earns(s)'
  BY <1>1, <1>2, <1>3 DEF Waits, Earns, Cosigned, Witnessed
<1>5. records \subseteq records' /\ OnRecord'
  BY DEF fileVars, RecordInv, OnRecord, Cosigned
<1>. QED BY <1>1, <1>2, <1>3, <1>4, <1>5, RecordMoves

LEMMA RecordAnswered ==
    ASSUME TypeOK, SideInv, RecordInv, NEW s \in Submitters, Answered(s)
    PROVE  RecordInv'
<1>. DEFINE r == pass[s].slot
            a == req[r].answer
            again == a.kind = "size" /\ pass[s].tries < Recalibrations
            h == [pass[s] EXCEPT !.stage = "post", !.slot = NoSlot, !.old = a.size,
                                 !.tries = pass[s].tries + 1]
            res == IF a.kind \in {"cosigned", "refused"} THEN Result(a.kind, a.reason)
                   ELSE Result("unreachable", "")
<1>1. pass[s] \in Pass /\ pass \in [Submitters -> Pass]
  BY PassFacts
<1>2. /\ pass[s].stage = "await" /\ req[r].stage = "answered" /\ r \in Requests
      /\ issued' = issued /\ UNCHANGED fileVars
  BY PassFacts DEF Answered
<1>3. \A u \in Submitters : u # s /\ pass[u].stage = "await" =>
          req'[pass[u].slot] = req[pass[u].slot]
  <2>1. \A u \in Submitters : u # s /\ pass[u].stage = "await" =>
            pass[u].slot # r /\ pass[u].slot \in Requests
    BY <1>2, PassFacts DEF RecordInv, OwnRequests
  <2>2. req' = [req EXCEPT ![r] = Idle] /\ req \in [Requests -> Handler]
    BY DEF Answered, TypeOK
  <2>. QED BY <2>1, <2>2
<1>4. /\ again => pass' = [pass EXCEPT ![s] = h]
      /\ ~again => pass' = Returned(s, res)
  BY <1>1 DEF Answered
<1>5. a.kind = "cosigned" => Cosigned(pass[s].tree) /\ a.reason = NoReason
  BY <1>2 DEF RecordInv, Waits, Serves
<1>6. CASE again
  <2>1. h.stage = "post"
    BY <1>1 DEF Pass
  <2>. HIDE DEF h
  <2>2. Waits(s)' /\ Earns(s)'
    BY <1>1, <1>4, <1>6, <2>1 DEF Waits, Earns
  <2>3. records \subseteq records' /\ OnRecord'
    BY <1>2 DEF fileVars, RecordInv, OnRecord, Cosigned
  <2>. QED BY <1>2, <1>3, <1>4, <1>6, <2>1, <2>2, <2>3, RecordMoves
<1>7. CASE ~again
  <2>1. res.kind = "cosigned" => Cosigned(pass[s].tree) /\ res = Witnessed
    <3>1. CASE a.kind = "cosigned"
      BY <1>5, <3>1, ResultFacts, Zenon
    <3>2. CASE a.kind = "refused"
      BY <3>2, ResultFacts, Zenon
    <3>3. CASE a.kind \notin {"cosigned", "refused"}
      BY <3>3, ResultFacts, Zenon
    <3>. QED BY <3>1, <3>2, <3>3, Zenon
  <2>. HIDE DEF res
  <2>. QED BY <1>2, <1>3, <1>4, <1>7, <2>1, RecordReturns
<1>. QED BY <1>6, <1>7

LEMMA RecordPost ==
    ASSUME TypeOK, SideInv, RecordInv, NEW s \in Submitters,
           NEW r \in Requests, NEW p \in Procs, Post(s, r, p)
    PROVE  RecordInv'
<1>. DEFINE t == pass[s].tree
            old == pass[s].old
            h == [pass[s] EXCEPT !.stage = "await", !.slot = r]
            a == Precheck(mem[p][TheOrigin], TRUE, TheOrigin, t, old)
            q == [Idle EXCEPT !.stage = "cosign", !.proc = p, !.origin = TheOrigin,
                              !.tree = t, !.from = ProofFrom(old, t)]
<1>1. pass[s] \in Pass /\ pass \in [Submitters -> Pass]
  BY PassFacts
<1>2. /\ req[r].stage = "idle" /\ pass' = [pass EXCEPT ![s] = h]
      /\ issued' = issued /\ UNCHANGED fileVars
  BY <1>1 DEF Post, Receive
<1>3. req' = [req EXCEPT ![r] = IF a # NoAnswer THEN Reply(a) ELSE q]
      /\ req \in [Requests -> Handler]
  <2>1. TheOrigin # Stranger
    BY OriginKnown, WitnessAssumption
  <2>. QED BY <2>1, Zenon DEF Post, Receive, TypeOK
<1>4. \A u \in Submitters : pass[u].stage = "await" => pass[u].slot # r
  BY <1>2 DEF RecordInv, Waits, Serves
<1>5. h.stage = "await" /\ h.slot = r /\ h.tree = t
  BY <1>1 DEF Pass
<1>6. Serves(r, t)'
  <2>1. req'[r] = IF a # NoAnswer THEN Reply(a) ELSE q
    BY <1>3
  <2>2. q.stage = "cosign" /\ q.origin = TheOrigin /\ q.tree = t
    BY DEF Idle
  <2>3. Reply(a).stage = "answered" /\ Reply(a).answer.kind # "cosigned"
    <3>1. a.kind # "cosigned"
      BY PrecheckKind
    <3>. HIDE DEF a
    <3>. QED BY <3>1, ReplyFacts
  <2>4. pass'[s].tree = t
    BY <1>1, <1>2, <1>5
  <2>. HIDE DEF a, q
  <2>. QED BY <2>1, <2>2, <2>3, <2>4 DEF Serves
<1>. HIDE DEF h, a, q
<1>7. Waits(s)' /\ Earns(s)'
  <2>1. pass'[s] = h
    BY <1>1, <1>2
  <2>2. Waits(s)'
    BY <1>5, <1>6, <2>1 DEF Waits, Serves, Cosigned
  <2>. QED BY <1>5, <2>1, <2>2 DEF Earns
<1>8. records \subseteq records' /\ OnRecord'
  BY <1>2 DEF fileVars, RecordInv, OnRecord, Cosigned
<1>9. \A u \in Submitters : u # s /\ pass[u].stage = "await" =>
          req'[pass[u].slot] = req[pass[u].slot] /\ pass[u].slot # h.slot
  BY <1>3, <1>4, <1>5, PassFacts
<1>. QED BY <1>2, <1>7, <1>8, <1>9, RecordMoves

LEMMA RecordFile ==
    ASSUME SideInv, RecordInv, NEW s \in Submitters,
           Record(s) \/ WriteWitnessed(s) \/ WriteFails(s)
    PROVE  RecordInv'
<1>1. pass[s] \in Pass /\ pass \in [Submitters -> Pass]
  BY PassFacts
<1>2. OnRecord /\ Earns(s)
  BY DEF RecordInv
<1>3. CASE Record(s)
  <2>. DEFINE rec == [tree |-> pass[s].tree, outcome |-> pass[s].outcome]
              h == [pass[s] EXCEPT !.stage = "write"]
  <2>1. /\ pass[s].stage = "record" /\ UNCHANGED <<req, issued, witnessed>>
        /\ records' = records \cup {rec}
    BY <1>3 DEF Record, vars
  <2>2. OnRecord'
    <3>1. rec.outcome.kind = "cosigned" => Cosigned(rec.tree)
      BY <1>2, <2>1 DEF Earns
    <3>2. \A c \in records' : c.outcome.kind = "cosigned" => Cosigned(c.tree)
      BY <1>2, <2>1, <3>1 DEF OnRecord
    <3>3. witnessed' # NoHead => [tree |-> witnessed, outcome |-> Witnessed] \in records'
      BY <1>2, <2>1 DEF OnRecord
    <3>. QED BY <2>1, <3>2, <3>3 DEF OnRecord, Cosigned, Witnessed
  <2>3. CASE pass[s].outcome.kind = "cosigned"
    <3>1. pass' = [pass EXCEPT ![s] = h]
      BY <1>1, <1>3, <2>3 DEF Record
    <3>2. h.stage = "write" /\ h.outcome = pass[s].outcome /\ h.tree = pass[s].tree
      BY <1>1 DEF Pass
    <3>. HIDE DEF h
    <3>3. Earns(s)'
      BY <1>1, <1>2, <2>1, <2>3, <3>1, <3>2 DEF Earns, Cosigned, Witnessed
    <3>4. Waits(s)'
      BY <1>1, <3>1, <3>2 DEF Waits
    <3>. QED BY <2>1, <2>2, <3>1, <3>2, <3>3, <3>4, RecordMoves
  <2>4. CASE pass[s].outcome.kind # "cosigned"
    <3>1. pass' = [pass EXCEPT ![s] = NoPass]
      BY <1>3, <2>4 DEF Record
    <3>. QED BY <2>1, <2>2, <3>1, NoPassTyped, RecordRests
  <2>. QED BY <2>3, <2>4
<1>4. CASE WriteWitnessed(s) \/ WriteFails(s)
  <2>1. /\ pass' = [pass EXCEPT ![s] = NoPass] /\ UNCHANGED <<req, issued, records>>
        /\ witnessed' = witnessed \/ (pass[s].stage = "write" /\ witnessed' = pass[s].tree)
    BY <1>4 DEF WriteWitnessed, WriteFails, fileVars, vars
  <2>2. pass[s].stage = "write" => [tree |-> pass[s].tree, outcome |-> Witnessed] \in records
    BY <1>2 DEF Earns
  <2>3. OnRecord'
    BY <1>2, <2>1, <2>2 DEF OnRecord, Cosigned, Witnessed
  <2>. QED BY <2>1, <2>3, NoPassTyped, RecordRests
<1>. QED BY <1>3, <1>4

LEMMA RecordStep ==
    ASSUME TypeOK, SideInv, RecordInv, [AllNext]_allVars
    PROVE  RecordInv'
<1>1. CASE (Lifecycle \/ Handling) /\ UNCHANGED sideVars
  <2>1. ASSUME NEW s \in Submitters PROVE Waits(s)'
    <3>1. CASE pass[s].stage = "await"
      <4>1. Serves(pass[s].slot, pass[s].tree) /\ pass[s].slot \in Requests
        BY <3>1, PassFacts DEF RecordInv, Waits
      <4>2. UNCHANGED pass
        BY <1>1 DEF sideVars
      <4>. DEFINE r == pass[s].slot
                  t == pass[s].tree
      <4>3. PICK q \in Requests, u \in {pass[s].tree} : q = r /\ u = t
        BY <4>1
      <4>4. Serves(q, u)'
        BY <1>1, <4>1, <4>3, WitnessServes
      <4>. QED BY <4>2, <4>3, <4>4 DEF Waits
    <3>2. CASE pass[s].stage # "await"
      BY <1>1, <3>2 DEF Waits, sideVars
    <3>. QED BY <3>1, <3>2
  <2>. QED BY <1>1, <2>1, IssuedStay, RecordQuiet DEF sideVars
<1>2. CASE UNCHANGED <<pass, fileVars, req, issued>>
  BY <1>2, WaitsStand, RecordQuiet
<1>3. ASSUME NEW s \in Submitters, Start(s) PROVE RecordInv'
  <2>. DEFINE h == [NoPass EXCEPT !.stage = "post", !.tree = published, !.before = offered,
                                  !.old = IF s \in Loops THEN lastSize[s] ELSE 0]
  <2>1. /\ pass' = [pass EXCEPT ![s] = h] /\ issued' = issued /\ UNCHANGED <<req, fileVars>>
    BY <1>3 DEF Start, vars
  <2>2. h.stage = "post"
    BY DEF NoPass
  <2>3. records \subseteq records' /\ OnRecord'
    BY <2>1 DEF fileVars, RecordInv, OnRecord, Cosigned
  <2>. HIDE DEF h
  <2>. QED BY <2>1, <2>2, <2>3, RecordRests
<1>4. ASSUME NEW s \in Submitters, RefuseLocally(s) \/ Unreachable(s) \/ Abandon(s)
      PROVE  RecordInv'
  <2>. DEFINE res == Result("unreachable", "")
              no == Result("refused", "smaller-size")
  <2>1. /\ pass' = Returned(s, res) \/ pass' = Returned(s, no)
        /\ issued' = issued /\ UNCHANGED <<req, fileVars>>
    BY <1>4 DEF RefuseLocally, Unreachable, Abandon, vars
  <2>2. res.kind = "unreachable" /\ no.kind = "refused"
    BY ResultFacts
  <2>. HIDE DEF res, no
  <2>. QED BY <2>1, <2>2, RecordReturns
<1>5. CASE (\E t \in Tree : Publish(t) \/ Restore(t)) \/ Reopen \/ UNCHANGED allVars
  BY <1>2, <1>5 DEF Publish, Restore, Reopen, vars, allVars, sideVars
<1>6. ASSUME NEW r \in Requests, Unread(r) PROVE RecordInv'
  <2>1. UNCHANGED <<pass, fileVars>> /\ issued' = issued
    BY <1>6 DEF Unread, HangUp, sideVars
  <2>2. ASSUME NEW s \in Submitters, pass[s].stage = "await"
        PROVE  req'[pass[s].slot] = req[pass[s].slot]
    BY <1>6, <2>2, PassFacts DEF Unread, HangUp, TypeOK
  <2>. QED BY <2>1, <2>2, WaitsStand, RecordQuiet
<1>. QED
  BY <1>1, <1>3, <1>4, <1>5, <1>6, RecordAnswered, RecordPost, RecordFile
  DEF AllNext, SideNext, Step

LEMMA AllHolds ==
    ~Takeover /\ AllSpec => [](TypeOK /\ HistoryInv /\ SideInv /\ RecordInv)
<1>. SUFFICES ASSUME ~Takeover
              PROVE  AllSpec => [](TypeOK /\ HistoryInv /\ SideInv /\ RecordInv)
  OBVIOUS
<1>1. AllInit => TypeOK /\ HistoryInv /\ SideInv /\ RecordInv
  BY TypeInit, HistoryInit, SideInit, RecordInit DEF AllInit
<1>2. TypeOK /\ HistoryInv /\ SideInv /\ RecordInv /\ [AllNext]_allVars
          => (TypeOK /\ HistoryInv /\ SideInv /\ RecordInv)'
  BY WitnessTyped, WitnessRemembers, SideStep, RecordStep
<1>. QED BY <1>1, <1>2, PTL DEF AllSpec

\* What the log's side keeps is true of the witness: checkpoint.witnessed has
\* its outcome on record and is covered by every state a power loss may leave
\* the witness, and no two heads recorded as cosigned are of two histories.
THEOREM RecordsAreTrue == ~Takeover => (AllSpec => []RecordIsTrue)
<1>1. ASSUME TypeOK, HistoryInv, SideInv, RecordInv PROVE RecordIsTrue
  <2>1. \A t : Cosigned(t) => [origin |-> TheOrigin, tree |-> t] \in Out
    BY DEF Cosigned, Out
  <2>2. ASSUME NEW c \in records, NEW d \in records,
               c.outcome.kind = "cosigned", d.outcome.kind = "cosigned"
        PROVE  OneHistory(c.tree, d.tree)
    <3>1. Cosigned(c.tree) /\ Cosigned(d.tree)
      BY <1>1, <2>2 DEF RecordInv, OnRecord
    <3>. DEFINE x == [origin |-> TheOrigin, tree |-> c.tree]
                y == [origin |-> TheOrigin, tree |-> d.tree]
    <3>2. x \in Out /\ y \in Out /\ x.origin = y.origin
      BY <2>1, <3>1
    <3>3. x.tree = c.tree /\ y.tree = d.tree
      OBVIOUS
    <3>. HIDE DEF x, y
    <3>. QED BY <1>1, <3>2, <3>3, CoveredAgree
  <2>3. witnessed # NoHead => [tree |-> witnessed, outcome |-> Witnessed] \in records
    BY <1>1 DEF RecordInv, OnRecord
  <2>4. ASSUME witnessed # NoHead, NEW st \in durable
        PROVE  st[TheOrigin] # NoHead /\ Grows(witnessed, st[TheOrigin])
    <3>. DEFINE x == [origin |-> TheOrigin, tree |-> witnessed]
    <3>1. Cosigned(witnessed)
      BY <1>1, <2>3, <2>4, ResultFacts DEF RecordInv, OnRecord
    <3>2. x \in Out /\ x.origin = TheOrigin /\ x.tree = witnessed
      BY <2>1, <3>1
    <3>. HIDE DEF x
    <3>. QED BY <1>1, <3>2 DEF HistoryInv, Covers
  <2>. QED BY <2>2, <2>3, <2>4, Zenon
       DEF RecordIsTrue, WitnessedIsRecorded, OneForkCosigned, Witnessed
<1>. SUFFICES ASSUME ~Takeover PROVE AllSpec => []RecordIsTrue
  OBVIOUS
<1>. QED BY <1>1, AllHolds, PTL

-----------------------------------------------------------------------------
(***************************************************************************)
(* A refusal is a finding about the log.  One submitter that waits for its *)
(* answers has at most one request at the witness, so the head it is       *)
(* judged against is the head its declared size was checked against; and   *)
(* that head, like every size the client remembers or is told, belongs to  *)
(* a tree the log had published when the pass read its own.                *)
(***************************************************************************)

\* The trees s may have been told of: those published when its pass began.
Known(s) == IF pass[s].stage = "idle" THEN offered ELSE pass[s].before
SizeKnown(s, n) == n = 0 \/ \E u \in Known(s) : Len(u) = n
HeadKnown(s, h) == h = NoHead \/ h \in Known(s)
Cause(s) == \E u \in pass[s].before : ~Grows(u, pass[s].tree)

Reads(s) ==
    /\ published \in offered /\ Known(s) \subseteq offered
    /\ pass[s].stage # "idle" => pass[s].tree \in pass[s].before

\* Every head the witness holds, has on disk or would put back.
HeadsKnown(s) ==
    /\ \A p \in Procs : HeadKnown(s, mem[p][TheOrigin])
    /\ \A st \in durable \cup {disk} : HeadKnown(s, st[TheOrigin])
    /\ \A r \in Requests : Flushing(r) => HeadKnown(s, req[r].prev)

\* Every size the client remembers, declares or is told.
SizesKnown(s) ==
    /\ SizeKnown(s, lastSize[s])
    /\ pass[s].stage # "idle" => SizeKnown(s, pass[s].old)
    /\ \A r \in Requests : req[r].stage = "answered" => SizeKnown(s, req[r].answer.size)

InFlight(s) ==
    \A r \in Requests : req[r].stage \notin {"idle", "answered"} =>
        /\ pass[s].stage = "await" /\ pass[s].slot = r
        /\ req[r].stage = "cosign" =>
               req[r].from = ProofFrom(SizeOf(mem[req[r].proc][TheOrigin]), req[r].tree)

Caused(s) ==
    /\ pass[s].stage = "await" /\ req[pass[s].slot].stage = "answered"
       /\ req[pass[s].slot].answer.kind = "refused" => Cause(s)
    /\ pass[s].stage = "record" /\ pass[s].outcome.kind = "refused" => Cause(s)

CauseOf(s) == Reads(s) /\ HeadsKnown(s) /\ SizesKnown(s) /\ InFlight(s) /\ Caused(s)
CauseInv == \A s \in Submitters : CauseOf(s)

\* What Precheck can answer, and when.
Rulings(a, held, t, old) ==
    \/ held # NoHead /\ Len(t) < Len(held) /\ a = Answer("refused", "smaller-size", SizeOf(held))
    \/ a = Answer("rejected", NoReason, 0)
    \/ a = Answer("size", NoReason, SizeOf(held))
    \/ /\ ~(held # NoHead /\ Len(t) < Len(held)) /\ old = SizeOf(held)
       /\ a = Answer("none", NoReason, 0)

LEMMA PrecheckRules ==
    ASSUME NEW held, NEW o \in Origin, NEW t, NEW old
    PROVE  Rulings(Precheck(held, TRUE, o, t, old), held, t, old)
<1>1. o # Stranger
  BY WitnessAssumption
<1>2. CASE held # NoHead /\ Len(t) < Len(held)
  BY <1>1, <1>2, Zenon DEF Precheck, Refusal, Rulings, SizeOf
<1>3. CASE ~(held # NoHead /\ Len(t) < Len(held)) /\ old > Len(t)
  BY <1>1, <1>3, Zenon DEF Precheck, NoReason, Rulings
<1>4. CASE ~(held # NoHead /\ Len(t) < Len(held)) /\ ~(old > Len(t)) /\ old # SizeOf(held)
  BY <1>1, <1>4, Zenon DEF Precheck, NoReason, Rulings
<1>5. CASE ~(held # NoHead /\ Len(t) < Len(held)) /\ old = SizeOf(held) /\ ~(old > Len(t))
  BY <1>1, <1>5, Zenon DEF Precheck, NoReason, NoAnswer, Rulings
<1>. QED BY <1>2, <1>3, <1>4, <1>5

\* Precheck refuses only a tree smaller than the held head, tells no size but
\* that head's, and lets only that size pass.
LEMMA RulingsSay ==
    ASSUME NEW held, NEW t, NEW old, NEW a, Rulings(a, held, t, old)
    PROVE  /\ a.kind = "refused" => held # NoHead /\ Len(t) < Len(held)
           /\ a.size = 0 \/ a.size = SizeOf(held)
           /\ a = NoAnswer => old = SizeOf(held) /\ ~(held # NoHead /\ Len(t) < Len(held))
<1>1. NoAnswer = Answer("none", NoReason, 0)
  BY Zenon DEF NoAnswer, NoReason
<1>. QED BY <1>1 DEF Rulings, Answer

\* Offered with the proof from the held head's size, a tree is refused only
\* when it does not carry that head forward.
LEMMA JudgeSays ==
    ASSUME NEW held \in Heads, NEW t \in Tree, NEW from,
           from = ProofFrom(SizeOf(held), t), Judge(held, t, from) # NoReason
    PROVE  held \in Tree /\ ~Grows(held, t)
<1>1. \/ held = NoHead /\ from > 0
      \/ held # NoHead /\ Len(t) < Len(held)
      \/ held # NoHead /\ Len(t) = Len(held) /\ (t # held \/ from > 0)
      \/ held # NoHead /\ ~(Len(t) < Len(held)) /\ Len(t) # Len(held) /\ ~Proves(held, t, from)
  BY Zenon DEF Judge, NoReason
<1>2. /\ held # NoHead => held \in Tree
      /\ t \in Seq(Nat) /\ Len(t) \in Nat
      /\ held \in Tree => held \in Seq(Nat) /\ Len(held) \in Nat
  BY TreeAssumption DEF Heads
<1>3. CASE held = NoHead
  BY <1>1, <1>2, <1>3 DEF ProofFrom, SizeOf
<1>4. CASE held # NoHead /\ Len(t) < Len(held)
  BY <1>2, <1>4 DEF Grows
<1>5. CASE held # NoHead /\ Len(t) = Len(held)
  <2>1. from = 0
    BY <1>2, <1>5 DEF ProofFrom, SizeOf
  <2>2. t # held
    BY <1>1, <1>2, <1>5, <2>1
  <2>. QED BY <1>2, <1>5, <2>2 DEF Grows
<1>6. CASE held # NoHead /\ ~(Len(t) < Len(held)) /\ Len(t) # Len(held)
  <2>1. from = Len(held)
    BY <1>2, <1>6 DEF ProofFrom, SizeOf
  <2>. QED BY <1>1, <1>2, <1>6, <2>1 DEF Proves
<1>. QED BY <1>3, <1>4, <1>5, <1>6

\* A request in its handler is the one the pass waits for.
LEMMA FlightFacts ==
    ASSUME TypeOK, SideInv, RecordInv, NEW s \in Submitters, CauseOf(s),
           NEW r \in Requests, req[r].stage \notin {"idle", "answered"}
    PROVE  /\ pass[s].stage = "await" /\ pass[s].slot = r
           /\ req[r].origin = TheOrigin /\ req[r].tree = pass[s].tree
           /\ pass[s].tree \in Known(s) /\ pass[s].tree \in Tree
           /\ req[r].proc \in Procs /\ lock = req[r].proc /\ phase[req[r].proc] = "serving"
           /\ \A q \in Requests : q # r => req[q].stage \in {"idle", "answered"}
<1>1. pass[s].stage = "await" /\ pass[s].slot = r
  BY DEF CauseOf, InFlight
<1>2. req[r].origin = TheOrigin /\ req[r].tree = pass[s].tree
  BY <1>1 DEF RecordInv, Waits, Serves
<1>3. pass[s].tree \in Known(s) /\ pass[s].tree \in Tree
  BY <1>1, PassFacts DEF CauseOf, Reads, Known
<1>4. req[r].proc \in Procs /\ lock = req[r].proc /\ phase[req[r].proc] = "serving"
  BY DEF TypeOK
<1>5. \A q \in Requests : q # r => req[q].stage \in {"idle", "answered"}
  BY <1>1 DEF CauseOf, InFlight
<1>. QED BY <1>1, <1>2, <1>3, <1>4, <1>5

\* The log's side standing still, new answers need a cause and a known size.
LEMMA CauseKept ==
    ASSUME SideInv, NEW s \in Submitters, CauseOf(s), UNCHANGED sideVars,
           HeadsKnown(s)', InFlight(s)',
           \A r \in Requests : req'[r].stage = "answered" =>
               \/ req'[r] = req[r]
               \/ /\ SizeKnown(s, req'[r].answer.size)
                  /\ req'[r].answer.kind = "refused" /\ pass[s].slot = r => Cause(s)
    PROVE  CauseOf(s)'
<1>1. UNCHANGED <<pass, lastSize, published, offered>>
  BY DEF sideVars, logVars
<1>2. Reads(s)'
  BY <1>1 DEF CauseOf, Reads, Known
<1>3. SizesKnown(s)'
  BY <1>1 DEF CauseOf, SizesKnown, SizeKnown, Known
<1>4. Caused(s)'
  BY <1>1, PassFacts DEF CauseOf, Caused, Cause
<1>. QED BY <1>2, <1>3, <1>4 DEF CauseOf

\* The head a process holds is known, and so is its size.
LEMMA HeldKnown ==
    ASSUME TypeOK, NEW s \in Submitters, CauseOf(s), NEW p \in Procs
    PROVE  /\ mem[p][TheOrigin] \in Heads
           /\ mem[p][TheOrigin] # NoHead => mem[p][TheOrigin] \in Known(s)
           /\ SizeKnown(s, SizeOf(mem[p][TheOrigin]))
<1>1. mem[p][TheOrigin] \in Heads
  BY OriginKnown DEF TypeOK
<1>2. HeadKnown(s, mem[p][TheOrigin])
  BY DEF CauseOf, HeadsKnown
<1>. QED BY <1>1, <1>2 DEF HeadKnown, SizeKnown, SizeOf

\* A process comes, serves, gives up, ends; the machine loses power.
LEMMA CauseLifecycle ==
    ASSUME TypeOK, SideInv, RecordInv, NEW s \in Submitters, CauseOf(s),
           Lifecycle, UNCHANGED sideVars
    PROVE  CauseOf(s)'
<1>1. UNCHANGED <<pass, lastSize, published, offered>>
  BY DEF sideVars, logVars
<1>2. /\ mem \in [Procs -> [Origin -> Heads]] /\ req \in [Requests -> Handler]
      /\ Empty[TheOrigin] = NoHead
  BY OriginKnown DEF TypeOK, Empty
<1>. USE DEF HeadKnown, Known, Flushing
<1>3. ASSUME NEW p \in Procs, Load(p) \/ Serve(p) \/ GiveUp(p) PROVE CauseOf(s)'
  <2>1. /\ phase[p] # "serving" /\ UNCHANGED <<disk, durable, req>>
        /\ \A q \in Procs : q # p => mem'[q] = mem[q]
        /\ mem'[p] \in {disk, Empty, mem[p]}
    BY <1>2, <1>3 DEF Load, Serve, GiveUp, stateVars
  <2>2. HeadsKnown(s)'
    BY <1>1, <1>2, <2>1 DEF CauseOf, HeadsKnown
  <2>3. InFlight(s)'
    BY <1>1, <2>1, FlightFacts DEF CauseOf, InFlight
  <2>. QED BY <2>1, <2>2, <2>3, CauseKept
<1>4. ASSUME NEW P, Cut(P), UNCHANGED sideVars,
             \A p \in Procs : mem'[p] = Empty \/ (p \notin P /\ mem'[p] = mem[p]),
             \A p \in Procs : p \notin P => mem'[p] = mem[p],
             disk' \in durable \cup {disk}, durable' \subseteq durable \cup {disk}
      PROVE  CauseOf(s)'
  <2>1. \A r \in Requests : req'[r].stage \notin {"idle", "answered"} =>
            req'[r] = req[r] /\ req[r].proc \notin P
    BY <1>2, <1>4, CutTyped
  <2>2. HeadsKnown(s)'
    BY <1>1, <1>2, <1>4, <2>1 DEF CauseOf, HeadsKnown
  <2>3. InFlight(s)'
    BY <1>1, <1>4, <2>1, FlightFacts DEF CauseOf, InFlight
  <2>4. ASSUME NEW r \in Requests
        PROVE  \/ req'[r] = req[r]
               \/ SizeKnown(s, req'[r].answer.size) /\ req'[r].answer.kind # "refused"
    <3>. DEFINE a == Answer("dropped", "", 0)
    <3>1. req'[r] = req[r] \/ req'[r] = Reply(a)
      BY <1>4 DEF Cut
    <3>2. a.kind = "dropped"
      BY AnswerFacts
    <3>3. a.size = 0
      BY Zenon DEF Answer
    <3>. HIDE DEF a
    <3>. QED BY <3>1, <3>2, <3>3, ReplyFacts DEF SizeKnown
  <2>. QED BY <2>2, <2>3, <2>4, CauseKept
<1>5. ASSUME NEW p \in Procs, Exit(p) PROVE CauseOf(s)'
  <2>1. /\ Cut({p}) /\ disk' = disk /\ durable' = durable
        /\ \A q \in Procs : mem'[q] = Empty \/ (q \notin {p} /\ mem'[q] = mem[q])
        /\ \A q \in Procs : q \notin {p} => mem'[q] = mem[q]
    BY <1>2, <1>5 DEF Exit
  <2>. QED BY <1>4, <2>1
<1>6. CASE PowerLoss
  <2>1. /\ Cut(Procs) /\ disk' \in durable /\ durable' \subseteq durable
        /\ \A q \in Procs : mem'[q] = Empty
    BY <1>6 DEF PowerLoss
  <2>. QED BY <1>4, <2>1
<1>. QED BY <1>3, <1>5, <1>6 DEF Lifecycle

\* The handlers' steps on the one request in flight.
LEMMA CauseCosign ==
    ASSUME TypeOK, SideInv, RecordInv, NEW s \in Submitters, CauseOf(s),
           NEW r \in Requests, Cosign(r), UNCHANGED sideVars
    PROVE  CauseOf(s)'
<1>. DEFINE p == req[r].proc
            held == mem[p][TheOrigin]
            t == req[r].tree
            why == Judge(held, t, req[r].from)
            a == Refusal(why, held)
<1>1. UNCHANGED <<pass, lastSize, published, offered, disk, durable>>
  BY DEF sideVars, logVars, Cosign
<1>2. /\ mem \in [Procs -> [Origin -> Heads]] /\ req \in [Requests -> Handler]
      /\ req[r].stage = "cosign"
  BY DEF TypeOK, Cosign
<1>3. /\ pass[s].stage = "await" /\ pass[s].slot = r
      /\ req[r].origin = TheOrigin /\ t = pass[s].tree /\ t \in Known(s) /\ t \in Tree
      /\ p \in Procs /\ \A q \in Requests : q # r => req[q].stage \in {"idle", "answered"}
  BY <1>2, FlightFacts
<1>4. held \in Heads /\ (held # NoHead => held \in Known(s)) /\ SizeKnown(s, SizeOf(held))
  BY <1>3, HeldKnown
<1>5. req[r].from = ProofFrom(SizeOf(held), t)
  BY <1>2, <1>3 DEF CauseOf, InFlight
<1>6. CASE why = NoReason
  <2>. DEFINE h == [req[r] EXCEPT !.stage = "rename", !.from = 0, !.prev = held]
  <2>1. mem' = [mem EXCEPT ![p][TheOrigin] = t] /\ req' = [req EXCEPT ![r] = h]
    <3>1. /\ mem' = [mem EXCEPT ![req[r].proc][req[r].origin] = req[r].tree]
          /\ req' = [req EXCEPT ![r].stage = "rename", ![r].from = 0,
                                ![r].prev = mem[req[r].proc][req[r].origin]]
      BY <1>3, <1>6, Zenon DEF Cosign, NoReason
    <3>. QED BY <1>2, <1>3, <3>1
  <2>2. h.stage = "rename" /\ h.prev = held
    BY <1>2 DEF Handler
  <2>. HIDE DEF h
  <2>3. mem'[p][TheOrigin] = t /\ \A q \in Procs : q # p => mem'[q] = mem[q]
    BY <1>2, <1>3, <2>1, OriginKnown
  <2>4. req'[r] = h /\ \A q \in Requests : q # r => req'[q] = req[q]
    BY <1>2, <2>1
  <2>5. HeadsKnown(s)'
    BY <1>1, <1>3, <1>4, <2>2, <2>3, <2>4
    DEF CauseOf, HeadsKnown, HeadKnown, Known, Flushing
  <2>6. InFlight(s)'
    BY <1>1, <1>3, <2>2, <2>4 DEF InFlight
  <2>. QED BY <2>2, <2>4, <2>5, <2>6, CauseKept
<1>7. CASE why # NoReason
  <2>1. mem' = mem /\ req' = [req EXCEPT ![r] = Reply(a)]
    <3>1. /\ mem' = mem
          /\ req' = [req EXCEPT ![r] =
                Reply(Refusal(Judge(mem[req[r].proc][req[r].origin], req[r].tree, req[r].from),
                              mem[req[r].proc][req[r].origin]))]
      BY <1>3, <1>7, Zenon DEF Cosign, NoReason
    <3>. QED BY <1>3, <3>1
  <2>2. held \in Tree /\ ~Grows(held, t)
    BY <1>3, <1>4, <1>5, <1>7, JudgeSays
  <2>3. a.kind = "refused" /\ (a.size = 0 \/ a.size = Len(held))
    <3>. HIDE DEF why, held
    <3>. QED BY DEF Refusal, Answer
  <2>4. held # NoHead /\ SizeOf(held) = Len(held)
    BY <2>2, TreeAssumption DEF SizeOf
  <2>5. Cause(s) /\ SizeKnown(s, a.size)
    BY <1>3, <1>4, <2>2, <2>3, <2>4 DEF Cause, Known, SizeKnown
  <2>. HIDE DEF a
  <2>6. /\ req'[r] = Reply(a) /\ Reply(a).stage = "answered" /\ Reply(a).answer = a
        /\ \A q \in Requests : q # r => req'[q] = req[q]
    BY <1>2, <2>1, ReplyFacts
  <2>7. HeadsKnown(s)'
    BY <1>1, <2>1, <2>6 DEF CauseOf, HeadsKnown, HeadKnown, Known, Flushing
  <2>8. InFlight(s)'
    BY <1>1, <1>3, <2>6 DEF InFlight
  <2>. QED BY <2>5, <2>6, <2>7, <2>8, CauseKept
<1>. QED BY <1>6, <1>7

\* What a handler that only moves on holds.
LEMMA StageMoved ==
    ASSUME NEW x \in Handler, NEW g, NEW h
    PROVE  /\ [x EXCEPT !.stage = g].stage = g
           /\ [x EXCEPT !.stage = g].prev = x.prev
           /\ [x EXCEPT !.stage = g, !.prev = h].stage = g
  BY DEF Handler

LEMMA CauseFlush ==
    ASSUME TypeOK, SideInv, RecordInv, NEW s \in Submitters, CauseOf(s),
           NEW r \in Requests, Rename(r) \/ SyncDir(r) \/ FlushFails(r) \/ Sign(r),
           UNCHANGED sideVars
    PROVE  CauseOf(s)'
<1>. DEFINE p == req[r].proc
<1>1. UNCHANGED <<pass, lastSize, published, offered>>
  BY DEF sideVars, logVars
<1>2. /\ mem \in [Procs -> [Origin -> Heads]] /\ req \in [Requests -> Handler]
      /\ req[r].stage \in {"rename", "sync", "signed"}
  BY DEF TypeOK, Rename, SyncDir, FlushFails, Sign
<1>3. /\ pass[s].stage = "await" /\ pass[s].slot = r /\ req[r].origin = TheOrigin
      /\ p \in Procs /\ \A q \in Requests : q # r => req[q].stage \in {"idle", "answered"}
  BY <1>2, FlightFacts
<1>4. \A q \in Requests : q # r => req'[q] = req[q]
  BY <1>2 DEF Rename, SyncDir, FlushFails, Sign
<1>. USE DEF HeadKnown, Known, Flushing
<1>5. CASE Rename(r)
  <2>1. /\ disk' = mem[p] /\ durable' = durable \cup {mem[p]} /\ mem' = mem
        /\ req'[r] = [req[r] EXCEPT !.stage = "sync"] /\ req[r].stage = "rename"
    BY <1>2, <1>5 DEF Rename
  <2>2. req'[r].stage = "sync" /\ req'[r].prev = req[r].prev
    <3>1. PICK x \in Handler : x = req[r]
      BY <1>2
    <3>2. /\ [x EXCEPT !.stage = "sync"].stage = "sync"
          /\ [x EXCEPT !.stage = "sync"].prev = x.prev
      BY <3>1, StageMoved
    <3>. QED BY <2>1, <3>1, <3>2
  <2>3. HeadsKnown(s)'
    <3>1. /\ \A q \in Procs : HeadKnown(s, mem[q][TheOrigin])
          /\ \A st \in durable \cup {disk} : HeadKnown(s, st[TheOrigin])
          /\ \A q \in Requests : Flushing(q) => HeadKnown(s, req[q].prev)
      BY DEF CauseOf, HeadsKnown
    <3>2. Known(s)' = Known(s)
      BY <1>1
    <3>. DEFINE In(x) == x = NoHead \/ x \in Known(s)
    <3>3. \A q \in Procs : In(mem'[q][TheOrigin])
      BY <2>1, <3>1
    <3>4. \A st \in durable' \cup {disk'} : In(st[TheOrigin])
      BY <1>3, <2>1, <3>1
    <3>5. \A q \in Requests : Flushing(q)' => In(req'[q].prev)
      <4>1. \A q \in Requests : q # r => ~Flushing(q)'
        BY <1>3, <1>4
      <4>2. In(req'[r].prev)
        BY <2>1, <2>2, <3>1
      <4>. QED BY <4>1, <4>2
    <3>. HIDE DEF Known, Flushing
    <3>. QED BY <3>2, <3>3, <3>4, <3>5 DEF HeadsKnown
  <2>4. InFlight(s)'
    BY <1>1, <1>3, <1>4, <2>2 DEF InFlight
  <2>. QED BY <1>4, <2>2, <2>3, <2>4, CauseKept
<1>6. CASE SyncDir(r)
  <2>1. /\ durable' = {disk} /\ mem' = mem /\ disk' = disk
        /\ req'[r] = [req[r] EXCEPT !.stage = "signed", !.prev = NoHead]
    BY <1>2, <1>6 DEF SyncDir
  <2>2. req'[r].stage = "signed"
    <3>1. PICK x \in Handler : x = req[r]
      BY <1>2
    <3>2. [x EXCEPT !.stage = "signed", !.prev = NoHead].stage = "signed"
      BY <3>1, StageMoved
    <3>. QED BY <2>1, <3>1, <3>2
  <2>3. HeadsKnown(s)'
    BY <1>1, <1>4, <2>1, <2>2 DEF CauseOf, HeadsKnown
  <2>4. InFlight(s)'
    BY <1>1, <1>3, <1>4, <2>2 DEF InFlight
  <2>. QED BY <1>4, <2>2, <2>3, <2>4, CauseKept
<1>7. CASE FlushFails(r)
  <2>. DEFINE a == Answer("rejected", "", 0)
  <2>1. /\ req[r].stage \in {"rename", "sync"} /\ UNCHANGED <<disk, durable>>
        /\ mem' = [mem EXCEPT ![p][TheOrigin] = req[r].prev]
        /\ req'[r] = Reply(a)
    BY <1>2, <1>3, <1>7, Zenon DEF FlushFails
  <2>2. a.kind = "rejected"
    BY AnswerFacts
  <2>3. a.size = 0
    BY Zenon DEF Answer
  <2>. HIDE DEF a
  <2>4. req'[r].stage = "answered" /\ req'[r].answer = a
    BY <2>1, ReplyFacts
  <2>5. /\ mem'[p][TheOrigin] = req[r].prev
        /\ \A q \in Procs : q # p => mem'[q] = mem[q]
    BY <1>2, <1>3, <2>1, OriginKnown
  <2>6. HeadKnown(s, req[r].prev)
    BY <2>1 DEF CauseOf, HeadsKnown
  <2>7. HeadsKnown(s)'
    BY <1>1, <1>4, <2>1, <2>4, <2>5, <2>6 DEF CauseOf, HeadsKnown
  <2>8. InFlight(s)'
    BY <1>1, <1>3, <1>4, <2>4 DEF InFlight
  <2>. QED BY <1>4, <2>2, <2>3, <2>4, <2>7, <2>8, CauseKept DEF SizeKnown
<1>8. CASE Sign(r)
  <2>. DEFINE a == Answer("cosigned", "", 0)
  <2>1. UNCHANGED <<mem, disk, durable>> /\ req'[r] = Reply(a)
    BY <1>2, <1>8, Zenon DEF Sign, stateVars
  <2>2. a.kind = "cosigned" /\ a.size = 0
    BY Zenon DEF Answer
  <2>. HIDE DEF a
  <2>3. req'[r].stage = "answered" /\ req'[r].answer = a
    BY <2>1, ReplyFacts
  <2>4. HeadsKnown(s)'
    BY <1>1, <1>4, <2>1, <2>3 DEF CauseOf, HeadsKnown
  <2>5. InFlight(s)'
    BY <1>1, <1>3, <1>4, <2>3 DEF InFlight
  <2>. QED BY <1>4, <2>2, <2>3, <2>4, <2>5, CauseKept DEF SizeKnown
<1>. QED BY <1>5, <1>6, <1>7, <1>8

LEMMA CauseHandling ==
    ASSUME TypeOK, SideInv, RecordInv, NEW s \in Submitters, CauseOf(s),
           Handling, UNCHANGED sideVars
    PROVE  CauseOf(s)'
  BY CauseCosign, CauseFlush DEF Handling

\* The log grows, is restored or reopened; a connection nobody reads closes.
LEMMA CauseLog ==
    ASSUME SideInv, NEW s \in Submitters, CauseOf(s), UNCHANGED <<pass, stateVars>>,
           published' \in offered', offered \subseteq offered',
           lastSize'[s] \in {0, lastSize[s]},
           \A r \in Requests : req'[r] = req[r]
                \/ (req'[r].stage = "idle" /\ (pass[s].stage = "await" => pass[s].slot # r))
    PROVE  CauseOf(s)'
<1>1. Known(s) \subseteq Known(s)' /\ UNCHANGED <<mem, disk, durable>>
  BY DEF Known, stateVars
<1>2. Reads(s)'
  BY DEF CauseOf, Reads, Known
<1>3. HeadsKnown(s)'
  BY <1>1 DEF CauseOf, HeadsKnown, HeadKnown, Flushing
<1>4. SizesKnown(s)'
  BY <1>1 DEF CauseOf, SizesKnown, SizeKnown
<1>5. InFlight(s)'
  BY <1>1 DEF CauseOf, InFlight
<1>6. Caused(s)'
  BY PassFacts DEF CauseOf, Caused, Cause
<1>. QED BY <1>2, <1>3, <1>4, <1>5, <1>6 DEF CauseOf

\* The pass of s moves on, beginning, ending or keeping what it has read.
LEMMA CauseMoves ==
    ASSUME SideInv, NEW s \in Submitters, CauseOf(s), NEW h, pass' = [pass EXCEPT ![s] = h],
           UNCHANGED <<logVars, stateVars>>,
           \/ /\ pass[s].stage # "idle" /\ h.stage # "idle"
              /\ h.tree = pass[s].tree /\ h.before = pass[s].before
           \/ h.stage = "idle"
           \/ pass[s].stage = "idle" /\ h.before = offered /\ h.tree \in offered,
           SizeKnown(s, lastSize'[s]), h.stage # "idle" => SizeKnown(s, h.old),
           \A r \in Requests :
               \/ req'[r] = req[r]
               \/ req'[r].stage \in {"idle", "cosign"}
               \/ req'[r].stage = "answered" /\ SizeKnown(s, req'[r].answer.size),
           InFlight(s)', Caused(s)'
    PROVE  CauseOf(s)'
<1>1. /\ pass'[s] = h /\ UNCHANGED <<published, offered, mem, disk, durable>>
  BY PassFacts DEF logVars, stateVars
<1>2. Known(s) \subseteq Known(s)'
  BY <1>1 DEF CauseOf, Reads, Known
<1>3. Reads(s)'
  BY <1>1 DEF CauseOf, Reads, Known
<1>4. HeadsKnown(s)'
  BY <1>1, <1>2 DEF CauseOf, HeadsKnown, HeadKnown, Flushing
<1>5. SizesKnown(s)'
  <2>1. \A n : SizeKnown(s, n) => n = 0 \/ \E u \in Known(s)' : Len(u) = n
    BY <1>2 DEF SizeKnown
  <2>. QED BY <1>1, <2>1 DEF CauseOf, SizesKnown, SizeKnown
<1>. QED BY <1>3, <1>4, <1>5 DEF CauseOf

\* No request is in its handler when the pass waits for none.
LEMMA NoFlight ==
    ASSUME NEW s \in Submitters, CauseOf(s),
           pass[s].stage # "await" \/ req[pass[s].slot].stage = "answered"
    PROVE  \A r \in Requests : req[r].stage \in {"idle", "answered"}
  BY DEF CauseOf, InFlight

LEMMA CauseReturns ==
    ASSUME SideInv, NEW s \in Submitters, CauseOf(s), NEW res, pass' = Returned(s, res),
           UNCHANGED <<logVars, stateVars>>, pass[s].stage \in {"post", "await"},
           pass[s].stage # "await" \/ req[pass[s].slot].stage = "answered",
           \A r \in Requests : req'[r] = req[r] \/ req'[r].stage = "idle",
           SizeKnown(s, lastSize'[s]), res.kind = "refused" => Cause(s)
    PROVE  CauseOf(s)'
<1>. DEFINE h == [pass[s] EXCEPT !.stage = "record", !.outcome = res, !.slot = NoSlot]
<1>1. pass[s] \in Pass /\ pass \in [Submitters -> Pass]
  BY PassFacts
<1>2. pass' = [pass EXCEPT ![s] = h]
  BY <1>1 DEF Returned
<1>3. /\ h.stage = "record" /\ h.outcome = res /\ h.tree = pass[s].tree
      /\ h.before = pass[s].before /\ h.old = pass[s].old
  BY <1>1 DEF Pass
<1>. HIDE DEF h
<1>4. pass'[s] = h
  BY <1>1, <1>2
<1>5. InFlight(s)'
  BY <1>4, NoFlight DEF InFlight
<1>6. Caused(s)'
  BY <1>3, <1>4 DEF Caused, Cause
<1>7. SizeKnown(s, h.old)
  BY <1>3 DEF CauseOf, SizesKnown
<1>. QED BY <1>2, <1>3, <1>5, <1>6, <1>7, CauseMoves

\* The client refuses by itself only what a tree it was told of forbids.
LEMMA CauseLocal ==
    ASSUME SideInv, NEW s \in Submitters, CauseOf(s), RefuseLocally(s)
    PROVE  Cause(s)
<1>1. /\ pass[s].stage = "post" /\ pass[s].old > Len(pass[s].tree)
      /\ pass[s].tree \in Tree /\ pass[s].old \in Sizes /\ pass[s].before \subseteq Tree
  BY PassFacts DEF RefuseLocally
<1>2. Len(pass[s].tree) \in Nat /\ \A u \in Tree : Len(u) \in Nat
  BY <1>1, TreeAssumption
<1>3. SizeKnown(s, pass[s].old)
  BY <1>1 DEF CauseOf, SizesKnown
<1>4. pass[s].old # 0
  BY <1>1, <1>2
<1>5. PICK u \in pass[s].before : Len(u) = pass[s].old
  BY <1>1, <1>3, <1>4 DEF SizeKnown, Known
<1>. QED BY <1>1, <1>2, <1>5 DEF Cause, Grows

LEMMA CauseAnswered ==
    ASSUME TypeOK, SideInv, RecordInv, NEW s \in Submitters, CauseOf(s), Answered(s)
    PROVE  CauseOf(s)'
<1>. DEFINE r == pass[s].slot
            a == req[r].answer
            again == a.kind = "size" /\ pass[s].tries < Recalibrations
            h == [pass[s] EXCEPT !.stage = "post", !.slot = NoSlot, !.old = a.size,
                                 !.tries = pass[s].tries + 1]
            res == IF a.kind \in {"cosigned", "refused"} THEN Result(a.kind, a.reason)
                   ELSE Result("unreachable", "")
<1>1. /\ pass[s] \in Pass /\ pass \in [Submitters -> Pass] /\ req \in [Requests -> Handler]
      /\ lastSize \in [Submitters -> Sizes]
  BY PassFacts DEF TypeOK, SideInv, SideTypeOK
<1>2. /\ pass[s].stage = "await" /\ req[r].stage = "answered" /\ r \in Requests
      /\ UNCHANGED <<logVars, stateVars>>
  BY PassFacts DEF Answered
<1>3. \A q \in Requests : req'[q] = req[q] \/ req'[q].stage = "idle"
  <2>1. req' = [req EXCEPT ![r] = Idle]
    BY DEF Answered
  <2>2. Idle.stage = "idle"
    BY DEF Idle
  <2>. QED BY <1>1, <1>2, <2>1, <2>2
<1>4. /\ again => pass' = [pass EXCEPT ![s] = h]
      /\ ~again => pass' = Returned(s, res)
  BY <1>1 DEF Answered
<1>5. SizeKnown(s, a.size) /\ SizeKnown(s, lastSize[s]) /\ pass[s].tree \in pass[s].before
  BY <1>2 DEF CauseOf, SizesKnown, Reads
<1>6. SizeKnown(s, lastSize'[s])
  <2>1. lastSize'[s] = IF again THEN a.size
                       ELSE IF a.kind = "cosigned" THEN Len(pass[s].tree) ELSE lastSize[s]
    BY <1>1 DEF Answered
  <2>2. SizeKnown(s, Len(pass[s].tree))
    BY <1>2, <1>5 DEF SizeKnown, Known
  <2>. HIDE DEF again
  <2>. QED BY <1>5, <2>1, <2>2
<1>7. CASE again
  <2>1. h.stage = "post" /\ h.tree = pass[s].tree /\ h.before = pass[s].before /\ h.old = a.size
    BY <1>1 DEF Pass
  <2>. HIDE DEF h
  <2>2. pass' = [pass EXCEPT ![s] = h] /\ pass'[s] = h
    BY <1>1, <1>4, <1>7
  <2>3. InFlight(s)' /\ Caused(s)'
    BY <1>2, <1>3, <2>1, <2>2, NoFlight DEF InFlight, Caused
  <2>. QED BY <1>2, <1>3, <1>5, <1>6, <2>1, <2>2, <2>3, CauseMoves
<1>8. CASE ~again
  <2>1. res.kind = "refused" => a.kind = "refused"
    <3>1. CASE a.kind = "cosigned"
      BY <3>1, ResultFacts, Zenon DEF Result
    <3>2. CASE a.kind \notin {"cosigned", "refused"}
      BY <3>2, ResultFacts, Zenon
    <3>. QED BY <3>1, <3>2, Zenon
  <2>2. res.kind = "refused" => Cause(s)
    BY <1>2, <2>1 DEF CauseOf, Caused
  <2>3. pass' = Returned(s, res)
    BY <1>4, <1>8
  <2>. HIDE DEF res
  <2>. QED BY <1>2, <1>3, <1>6, <2>2, <2>3, CauseReturns
<1>. QED BY <1>7, <1>8

LEMMA CausePost ==
    ASSUME TypeOK, SideInv, RecordInv, NEW s \in Submitters, CauseOf(s),
           NEW r \in Requests, NEW p \in Procs, Post(s, r, p)
    PROVE  CauseOf(s)'
<1>. DEFINE t == pass[s].tree
            old == pass[s].old
            held == mem[p][TheOrigin]
            h == [pass[s] EXCEPT !.stage = "await", !.slot = r]
            a == Precheck(held, TRUE, TheOrigin, t, old)
            q == [Idle EXCEPT !.stage = "cosign", !.proc = p, !.origin = TheOrigin,
                              !.tree = t, !.from = ProofFrom(old, t)]
<1>1. pass[s] \in Pass /\ pass \in [Submitters -> Pass] /\ req \in [Requests -> Handler]
  BY PassFacts DEF TypeOK
<1>2. /\ pass[s].stage = "post" /\ pass' = [pass EXCEPT ![s] = h]
      /\ UNCHANGED <<logVars, stateVars, lastSize>>
  BY <1>1 DEF Post, Receive
<1>3. req' = [req EXCEPT ![r] = IF a # NoAnswer THEN Reply(a) ELSE q]
  <2>1. TheOrigin # Stranger
    BY OriginKnown, WitnessAssumption
  <2>. QED BY <2>1, Zenon DEF Post, Receive
<1>4. /\ h.stage = "await" /\ h.slot = r /\ h.tree = t /\ h.before = pass[s].before
      /\ h.old = old
  BY <1>1 DEF Pass
<1>5. /\ held \in Heads /\ (held # NoHead => held \in Known(s))
      /\ SizeKnown(s, SizeOf(held)) /\ SizeKnown(s, 0)
  BY HeldKnown DEF SizeKnown
<1>6. Rulings(a, held, t, old)
  BY OriginKnown, PrecheckRules
<1>7. /\ q.stage = "cosign" /\ q.proc = p /\ q.tree = t /\ q.from = ProofFrom(old, t)
  BY DEF Idle
<1>8. pass'[s] = h /\ UNCHANGED mem
  BY <1>1, <1>2 DEF stateVars
<1>. HIDE DEF a, h, q
<1>9. /\ a.kind = "refused" => held # NoHead /\ Len(t) < Len(held)
      /\ SizeKnown(s, a.size)
      /\ a = NoAnswer => old = SizeOf(held)
  <2>1. /\ a.kind = "refused" => held # NoHead /\ Len(t) < Len(held)
        /\ a.size = 0 \/ a.size = SizeOf(held)
        /\ a = NoAnswer => old = SizeOf(held)
    BY <1>6, RulingsSay
  <2>. QED BY <1>5, <2>1
<1>10. a.kind = "refused" => Cause(s)
  <2>. SUFFICES ASSUME a.kind = "refused" PROVE Cause(s)
    OBVIOUS
  <2>1. held \in pass[s].before /\ held \in Tree /\ t \in Tree
    BY <1>2, <1>5, <1>9, PassFacts DEF Known, Heads
  <2>2. Len(t) < Len(held) /\ Len(t) \in Nat /\ Len(held) \in Nat
    BY <1>9, <2>1, TreeAssumption
  <2>. QED BY <2>1, <2>2 DEF Cause, Grows
<1>11. /\ \A u \in Requests : u # r => req'[u] = req[u] /\ req[u].stage \in {"idle", "answered"}
       /\ a # NoAnswer => req'[r].stage = "answered" /\ req'[r].answer = a
       /\ a = NoAnswer => req'[r] = q
  BY <1>1, <1>2, <1>3, NoFlight, ReplyFacts
<1>12. InFlight(s)'
  <2>1. ASSUME NEW u \in Requests, req'[u].stage \notin {"idle", "answered"}
        PROVE  /\ pass'[s].stage = "await" /\ pass'[s].slot = u
               /\ req'[u].from = ProofFrom(SizeOf(mem'[req'[u].proc][TheOrigin]), req'[u].tree)
    <3>1. u = r /\ a = NoAnswer
      BY <1>11, <2>1
    <3>. QED BY <1>4, <1>7, <1>8, <1>9, <1>11, <3>1
  <2>. QED BY <2>1 DEF InFlight
<1>13. Caused(s)'
  BY <1>4, <1>7, <1>8, <1>10, <1>11 DEF Caused, Cause
<1>14. SizeKnown(s, lastSize'[s]) /\ SizeKnown(s, h.old)
  BY <1>2, <1>4 DEF CauseOf, SizesKnown
<1>15. \A u \in Requests :
           \/ req'[u] = req[u]
           \/ req'[u].stage \in {"idle", "cosign"}
           \/ req'[u].stage = "answered" /\ SizeKnown(s, req'[u].answer.size)
  BY <1>7, <1>9, <1>11
<1>. QED BY <1>2, <1>4, <1>12, <1>13, <1>14, <1>15, CauseMoves

LEMMA CauseRests ==
    ASSUME SideInv, NEW s \in Submitters, CauseOf(s),
           Start(s) \/ Record(s) \/ WriteWitnessed(s) \/ WriteFails(s)
    PROVE  CauseOf(s)'
<1>1. pass[s] \in Pass /\ pass \in [Submitters -> Pass]
  BY PassFacts
<1>2. UNCHANGED <<logVars, stateVars, req, lastSize>> /\ pass[s].stage \notin {"await", "post"}
  BY DEF Start, Record, WriteWitnessed, WriteFails, vars
<1>3. \A r \in Requests : req[r].stage \in {"idle", "answered"}
  BY <1>2, NoFlight
<1>4. SizeKnown(s, lastSize'[s]) /\ InFlight(s)'
  BY <1>2, <1>3 DEF CauseOf, SizesKnown, InFlight
<1>5. CASE Start(s)
  <2>. DEFINE h == [NoPass EXCEPT !.stage = "post", !.tree = published, !.before = offered,
                                  !.old = IF s \in Loops THEN lastSize[s] ELSE 0]
  <2>1. pass' = [pass EXCEPT ![s] = h] /\ pass[s].stage = "idle"
    BY <1>5 DEF Start
  <2>2. /\ h.stage = "post" /\ h.tree = published /\ h.before = offered
        /\ h.old \in {0, lastSize[s]}
    BY DEF NoPass
  <2>. HIDE DEF h
  <2>3. pass'[s] = h /\ published \in offered
    BY <1>1, <2>1 DEF CauseOf, Reads
  <2>4. Caused(s)'
    BY <2>2, <2>3 DEF Caused
  <2>5. SizeKnown(s, h.old)
    BY <2>2 DEF CauseOf, SizesKnown, SizeKnown
  <2>. QED BY <1>2, <1>4, <2>1, <2>2, <2>3, <2>4, <2>5, CauseMoves
<1>6. CASE pass' = [pass EXCEPT ![s] = NoPass]
  <2>1. pass'[s] = NoPass
    BY <1>1, <1>6
  <2>2. Caused(s)'
    BY <2>1, NoPassTyped DEF Caused
  <2>. QED BY <1>2, <1>4, <1>6, <2>2, NoPassTyped, CauseMoves
<1>7. CASE Record(s) /\ pass[s].outcome.kind = "cosigned"
  <2>. DEFINE h == [pass[s] EXCEPT !.stage = "write"]
  <2>1. pass' = [pass EXCEPT ![s] = h] /\ pass[s].stage = "record"
    BY <1>1, <1>7 DEF Record
  <2>2. /\ h.stage = "write" /\ h.tree = pass[s].tree /\ h.before = pass[s].before
        /\ h.old = pass[s].old
    BY <1>1 DEF Pass
  <2>. HIDE DEF h
  <2>3. Caused(s)' /\ SizeKnown(s, h.old)
    BY <1>1, <2>1, <2>2 DEF Caused, CauseOf, SizesKnown
  <2>. QED BY <1>2, <1>4, <2>1, <2>2, <2>3, CauseMoves
<1>8. Start(s) \/ pass' = [pass EXCEPT ![s] = NoPass]
      \/ (Record(s) /\ pass[s].outcome.kind = "cosigned")
  BY DEF Record, WriteWitnessed, WriteFails
<1>. QED BY <1>5, <1>6, <1>7, <1>8

LEMMA CauseInit == AllInit => CauseInv
<1>. SUFFICES ASSUME AllInit, NEW s \in Submitters PROVE CauseOf(s)
  BY DEF CauseInv
<1>1. pass[s].stage = "idle" /\ lastSize[s] = 0 /\ offered = {published}
  BY NoPassTyped DEF AllInit, InitSide
<1>2. /\ \A r \in Requests : req[r].stage = "idle"
      /\ mem = [p \in Procs |-> Empty] /\ disk = Empty /\ durable = {Empty}
      /\ Empty[TheOrigin] = NoHead
  BY OriginKnown DEF AllInit, Init, Idle, Empty
<1>. QED BY <1>1, <1>2 DEF CauseOf, Reads, HeadsKnown, SizesKnown, InFlight, Caused, Known,
     HeadKnown, SizeKnown, Flushing

LEMMA CauseStep ==
    ASSUME ~Impatient, NEW s, Submitters = {s}, TypeOK, SideInv, RecordInv, CauseOf(s),
           [AllNext]_allVars
    PROVE  CauseOf(s)'
<1>0. s \in Submitters
  OBVIOUS
<1>1. CASE (Lifecycle \/ Handling) /\ UNCHANGED sideVars
  BY <1>0, <1>1, CauseLifecycle, CauseHandling
<1>2. CASE (\E t \in Tree : Publish(t) \/ Restore(t)) \/ UNCHANGED allVars
  <2>1. /\ UNCHANGED <<pass, stateVars, req, lastSize>> /\ offered \subseteq offered'
        /\ published' \in offered'
    BY <1>0, <1>2 DEF Publish, Restore, vars, allVars, sideVars, logVars, CauseOf, Reads
  <2>. QED BY <1>0, <2>1, CauseLog
<1>3. CASE Reopen
  <2>1. /\ UNCHANGED <<pass, stateVars, req, logVars>> /\ lastSize'[s] = 0
    BY <1>0, <1>3 DEF Reopen, vars
  <2>2. published' \in offered' /\ offered \subseteq offered'
    BY <1>0, <2>1 DEF CauseOf, Reads, logVars
  <2>. QED BY <1>0, <2>1, <2>2, CauseLog
<1>4. ASSUME NEW r \in Requests, Unread(r) PROVE CauseOf(s)'
  <2>1. /\ UNCHANGED <<pass, stateVars, logVars, lastSize>> /\ pass[s].slot # r
        /\ req' = [req EXCEPT ![r] = Idle]
    BY <1>0, <1>4 DEF Unread, HangUp, sideVars
  <2>2. \A q \in Requests : req'[q] = req[q] \/ (req'[q].stage = "idle" /\ q = r)
    BY <2>1 DEF TypeOK, Idle
  <2>3. published' \in offered' /\ offered \subseteq offered'
    BY <1>0, <2>1 DEF CauseOf, Reads, logVars
  <2>. QED BY <1>0, <2>1, <2>2, <2>3, CauseLog
<1>5. ASSUME RefuseLocally(s) \/ Unreachable(s) \/ Abandon(s) PROVE CauseOf(s)'
  <2>. DEFINE res == Result("unreachable", "")
              no == Result("refused", "smaller-size")
  <2>1. /\ pass' = Returned(s, res) \/ (pass' = Returned(s, no) /\ RefuseLocally(s))
        /\ UNCHANGED <<logVars, stateVars, req, lastSize>>
        /\ pass[s].stage \in {"post", "await"}
        /\ pass[s].stage # "await" \/ req[pass[s].slot].stage = "answered"
    BY <1>5 DEF RefuseLocally, Unreachable, Abandon, vars
  <2>2. res.kind = "unreachable" /\ no.kind = "refused"
    BY ResultFacts
  <2>3. SizeKnown(s, lastSize'[s])
    BY <2>1 DEF CauseOf, SizesKnown
  <2>. HIDE DEF res, no
  <2>4. CASE pass' = Returned(s, res)
    BY <1>0, <2>1, <2>2, <2>3, <2>4, CauseReturns
  <2>5. CASE pass' = Returned(s, no) /\ RefuseLocally(s)
    BY <1>0, <2>1, <2>3, <2>5, CauseLocal, CauseReturns
  <2>. QED BY <2>1, <2>4, <2>5
<1>6. CASE Start(s) \/ Answered(s) \/ (\E r \in Requests, p \in Procs : Post(s, r, p))
           \/ Record(s) \/ WriteWitnessed(s) \/ WriteFails(s)
  BY <1>0, <1>6, CauseRests, CauseAnswered, CausePost
<1>. QED BY <1>1, <1>2, <1>3, <1>4, <1>5, <1>6 DEF AllNext, SideNext, Step

\* With one submitter that waits for its answers, a pass is refused only when
\* some tree published before it read its own is not carried forward by that
\* one: the refusal tells of the log, never of the submitting or the serving.
THEOREM RefusalsHaveCause ==
    ~Impatient /\ (\E s : Submitters = {s}) => (AllSpec => []RefusedForCause)
<1>. SUFFICES ASSUME ~Impatient, NEW s, Submitters = {s} PROVE AllSpec => []RefusedForCause
  OBVIOUS
<1>1. AllInit => TypeOK /\ SideInv /\ RecordInv /\ CauseOf(s)
  BY TypeInit, SideInit, RecordInit, CauseInit DEF AllInit, CauseInv
<1>2. TypeOK /\ SideInv /\ RecordInv /\ CauseOf(s) /\ [AllNext]_allVars
          => (TypeOK /\ SideInv /\ RecordInv /\ CauseOf(s))'
  BY WitnessTyped, SideStep, RecordStep, CauseStep
<1>3. CauseOf(s) => RefusedForCause
  BY DEF CauseOf, Caused, Cause, RefusedForCause
<1>. QED BY <1>1, <1>2, <1>3, PTL DEF AllSpec

=============================================================================
