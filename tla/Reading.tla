------------------------------ MODULE Reading ------------------------------
(***************************************************************************)
(* The readers of a recorded log, while it is still being written: the run *)
(* views of the index, `behalf-log reconstruct` and `rehydrate` with their *)
(* cursors, `behalf runs`, the HTML export with its diff of two runs, and  *)
(* the collapse of one call seen by two surfaces.  Beside them the         *)
(* customer's content-addressed store, whose files anyone may touch.       *)
(*                                                                         *)
(* A leaf names a call of the catalogue; a digest is the content it is of; *)
(* a store entry is that content, another one, "absent", or "denied" where *)
(* the disk says no.  Rows are indexed only once a checkpoint covers their *)
(* leaves (LogService), so the readers' check of that bound always passes. *)
(***************************************************************************)
EXTENDS RunCauses

CONSTANTS
    Catalogue,   \* [names -> receipts]
    Contents,    \* what a blob may hold, each named by its digest
    Manifest,    \* [Contents -> [fields -> digests]]
    Sanitized,   \* [operations -> SanitizeClientToolName of the name]
    Casts        \* the settings to play: see Cast

(* One setting: which call each leaf may record, and bounds on the leaves
   the writer leaves to Follow, on redelivered leaves, on touches of the
   store by hand, and on what each reader is asked. *)
Cast == [leaves : Seq(SUBSET (STRING \X DOMAIN Catalogue)), late : Nat, again : Nat,
         touches : Nat, rehydrates : Nat, reconstructs : Nat, lists : Nat, pages : SUBSET Seq(STRING)]

ASSUME ReadingAssumption ==
    /\ Casts \subseteq Cast
    /\ DOMAIN Manifest = Contents
    /\ Contents \cap {"absent", "denied", NoText} = {}

(* What capture puts in a receipt: slots by the digests of their contents, and
   for a verdict that of the weakest hop (Delegation). *)
ASSUME CatalogueAssumption ==
    \A call \in DOMAIN Catalogue :
        LET r == Catalogue[call]
        IN  /\ {"op", "target", "idem", "outcome", "slots", "verdict", "hops"} \subseteq DOMAIN r
            /\ Viewable(r)
            /\ \A k \in DOMAIN r.slots : r.slots[k].digest \in Contents \cup {NoText}
            /\ r.verdict \in {NoText, "verified", "asserted", "broken"}
            /\ r.verdict = "broken" <=> "broken" \in ToSet(r.hops)

VARIABLES
    cast,     \* the setting of this behaviour
    log,      \* the leaves
    rows,     \* the leaves indexed
    store,    \* [Contents -> what its file holds]
    read,     \* the `rehydrate` under way, or the last one
    stream,   \* what `reconstruct` has written
    listing,  \* the `runs` under way, or the last one
    page,     \* the last HTML export
    asked     \* bounded events so far

vars == <<cast, log, rows, store, read, stream, listing, page, asked>>

Receipt(i) ==
    LET r == Catalogue[log[i].call]
    IN  [x \in DOMAIN r \cup {"run", "key"} |-> IF x \in DOMAIN r THEN r[x] ELSE log[i][x]]
Asked(what) == asked' = [asked EXCEPT ![what] = @ + 1]
Limit == [late |-> cast.late, again |-> cast.again, touches |-> cast.touches,
          rehydrates |-> cast.rehydrates, reconstructs |-> cast.reconstructs, lists |-> cast.lists]
May(what) == asked[what] < Limit[what]

-----------------------------------------------------------------------------
(* The index as its readers see it. *)

(* A leaf whose receipt id an earlier indexed leaf has is a duplicate. *)
Canonical(i) == i \in rows /\ \A j \in rows : log[j].id = log[i].id => j >= i
RunLeaves(run) == {i \in rows : log[i].run = run /\ Canonical(i)}
RunRows(run) == ByIndex(RunLeaves(run))
RowsAfter(run, after) == ByIndex({i \in RunLeaves(run) : i > after})

(* index.ListRuns: the runs by first log index, with what they add up to. *)
Runs ==
    LET firsts == ByIndex({i \in rows : Canonical(i) /\ i = Least(RunLeaves(log[i].run))})
    IN  [n \in DOMAIN firsts |-> log[firsts[n]].run]
Tally(run, verdict) == Cardinality({i \in RunLeaves(run) : Receipt(i).verdict = verdict})
Summary(run) ==
    [run |-> run, receipts |-> Cardinality(RunLeaves(run)), asserted |-> Tally(run, "asserted"),
     broken |-> Tally(run, "broken"), verified |-> Tally(run, "verified")]

(* why.Load: the receipt at <run>:<step>. *)
WhyLoad(run, step) == RunRows(run)[step + 1]

-----------------------------------------------------------------------------
(* The payload join. *)

(* erasureLookup: what the notices in the log name, with the address that
   does; a later run's notice, or a later one of the run, takes over. *)
NoticeRows == {i \in rows : Canonical(i) /\ Receipt(i).kind = "erasure_notice"}
Erases(i) == {slot.digest : slot \in ToSet(Receipt(i).slots)} \ {NoText}
ReadBefore(i, j) ==
    LET first(k) == Least(RunLeaves(log[k].run))
    IN  first(i) < first(j) \/ (first(i) = first(j) /\ i < j)
Address(i) == <<log[i].run, Cardinality({j \in RunLeaves(log[i].run) : j < i})>>
ErasureLookup ==
    [d \in UNION {Erases(i) : i \in NoticeRows} |->
        LET naming == {i \in NoticeRows : d \in Erases(i)}
        IN  Address(CHOOSE i \in naming : \A j \in naming : ~ReadBefore(i, j))]

(* changedFields: the paths that moved, in either direction. *)
ChangedFields(manifest, stored) ==
    LET now == Manifest[stored]
    IN  IF manifest = NoParts THEN {}
          ELSE {f \in DOMAIN manifest \cup DOMAIN now :
                  f \notin DOMAIN manifest \cap DOMAIN now \/ manifest[f] # now[f]}

Committed(slot) == IF slot.state = NoText THEN "present" ELSE slot.state
Resolved(slot, state) ==
    [digest |-> slot.digest, state |-> state, cause |-> <<>>, tampered |-> FALSE, changed |-> {}]

(* applyErasure. *)
Gone(slot, erased) ==
    IF slot.digest \in DOMAIN erased
      THEN [Resolved(slot, "deleted") EXCEPT !.cause = erased[slot.digest]]
      ELSE Resolved(slot, "missing")

(* resolveOne: what the record decides alone; a slot of a reserved custody
   is never looked up. *)
ByRecordMutant(slot) == NoText   \* mutant: every slot is looked up
ByRecord(slot) ==
    IF Committed(slot) = "dropped-at-capture" \/ slot.custody = "dropped-with-digest"
      THEN "dropped-at-capture"
      ELSE IF Committed(slot) = "deleted" THEN "deleted"
             ELSE IF slot.custody = "vendor-held" THEN Committed(slot) ELSE NoText

Held(slot) == IF slot.digest = NoText THEN "absent" ELSE store[slot.digest]
ByStore(slot, erased) ==
    CASE Held(slot) = "absent" -> Gone(slot, erased)
      [] Held(slot) = "denied" -> Resolved(slot, "unreadable")
      [] Held(slot) = slot.digest -> Resolved(slot, "present")
      [] OTHER -> [Resolved(slot, "unreadable") EXCEPT
                     !.tampered = TRUE, !.changed = ChangedFields(slot.manifest, Held(slot))]

ResolveOne(slot, erased) ==
    IF ByRecord(slot) # NoText THEN Resolved(slot, ByRecord(slot)) ELSE ByStore(slot, erased)

Resolve(i, erased) ==
    [k \in DOMAIN Receipt(i).slots |-> ResolveOne(Receipt(i).slots[k], erased)]
Findings(slots) == Cardinality({k \in DOMAIN slots : slots[k].tampered})

-----------------------------------------------------------------------------
(* The read-side half of append-and-flag: Collapse, over one run's receipts
   in log order.  A crossing is the sequence of leaves that observed it. *)

SameCrossing(proxy, hook) ==
    /\ Receipt(proxy).surface = "mcp-proxy"
    /\ Receipt(hook).surface = "claude-code-hook"
    /\ Receipt(proxy).run = Receipt(hook).run
    /\ Sanitized[Receipt(proxy).op] = Receipt(hook).op
    /\ Receipt(proxy).arguments # NoText
    /\ Receipt(proxy).arguments = Receipt(hook).arguments

(* The proxy receipts of this crossing no hook was folded onto: the oldest of
   them is. *)
UnpairedMutant(crossings, i) ==   \* mutant: the queue is never popped
    {k \in DOMAIN crossings : SameCrossing(crossings[k][1], i)}
Unpaired(crossings, i) ==
    {k \in DOMAIN crossings : Len(crossings[k]) = 1 /\ SameCrossing(crossings[k][1], i)}

Fold(crossings, i) ==
    IF Unpaired(crossings, i) = {} THEN Append(crossings, <<i>>)
      ELSE [crossings EXCEPT ![Least(Unpaired(crossings, i))] = Append(@, i)]
Collapse(leaves) ==
    LET walk[n \in 0..Len(leaves)] ==
            IF n = 0 THEN <<>> ELSE Fold(walk[n - 1], leaves[n])
    IN  walk[Len(leaves)]

-----------------------------------------------------------------------------
(* What the listings say of a run, by its leaves. *)

ActionKinds == {"action", "tool_call", "resource_read", "message"}
OutcomeStatus(i) == Part(Object(Receipt(i).outcome), "status").is
RunStatus(leaves) == IF \E i \in leaves : OutcomeStatus(i) \notin {NoText, "ok"} THEN "error" ELSE "ok"
CountActions(leaves) == Cardinality({i \in leaves : Receipt(i).kind \in ActionKinds})

(* unverifiedHops: whether a hop of one of these kinds is in a receipt that
   is not verified; how many there are is left out. *)
UnverifiedHop(leaves, Is(_)) ==
    \E i \in leaves : /\ Receipt(i).verdict # "verified"
                      /\ \E h \in ToSet(Receipt(i).hops) : Is(h)
Broken(h) == h = "broken"
Asserted(h) == h \notin {"verified", "broken"}

(* The label, from an earlier summary and the rows as they are now. *)
AttributionLabelMutant(summary, leaves) ==   \* mutant: only the asserted are looked for
    IF summary.asserted = 0 THEN "verified"
      ELSE IF UnverifiedHop(leaves, Broken) THEN "broken" ELSE "unverified"
AttributionLabel(summary, leaves) ==
    IF summary.asserted = 0 /\ summary.broken = 0 THEN "verified"
      ELSE IF UnverifiedHop(leaves, Broken) THEN "broken"
             ELSE IF UnverifiedHop(leaves, Asserted) THEN "unverified" ELSE "unattributed"

(* runActor, and runPrincipal of `behalf runs`, which looks at the first
   receipt only; of the HTML export, which looks for the first chain. *)
RunActor(leaves) ==
    LET actors == {Receipt(i).actor : i \in leaves} \ {NoText}
    IN  CASE actors = {} -> "(none)"
          [] \E a \in actors : actors = {a} -> CHOOSE a \in actors : TRUE
          [] OTHER -> "several"
RunPrincipal(leaves) ==
    IF Receipt(Least(leaves)).root # NoText THEN Receipt(Least(leaves)).root ELSE RunActor(leaves)
PagePrincipal(leaves) ==
    LET chained == {i \in leaves : Receipt(i).root # NoText}
    IN  IF chained # {} THEN Receipt(Least(chained)).root ELSE RunActor(leaves)

(* The weakest stored verdict: of the export's header, and of the diff. *)
Weakest(leaves, rank) ==
    LET verdicts == {Receipt(i).verdict : i \in leaves} \ {NoText}
    IN  IF verdicts = {} THEN NoText
          ELSE CHOOSE v \in verdicts : \A w \in verdicts : rank[w] <= rank[v]
WeakerOf(leaves) == Weakest(leaves, [verified |-> 0, asserted |-> 1, broken |-> 3])
DiffWeakest(leaves) == Weakest(leaves, [verified |-> 0, asserted |-> 1, broken |-> 2])

(* rollup: the share of the actions at each verdict. *)
Rollup(leaves) ==
    LET Of(v) == Cardinality({i \in leaves : Receipt(i).kind \in ActionKinds /\ Receipt(i).verdict = v})
    IN  [verified |-> Of("verified"), asserted |-> Of("asserted"), broken |-> Of("broken"),
         unrecorded |-> Of(NoText), of |-> CountActions(leaves)]

(* One run of the export, and the marks the diff puts on its steps. *)
PageRun(run) ==
    LET leaves == RunLeaves(run)
        slots == [i \in leaves |-> Resolve(i, ErasureLookup)]
        shown == UNION {{i} \X DOMAIN slots[i] : i \in leaves}
    IN  [run |-> run, rows |-> RunRows(run),
         findings |-> Cardinality({at \in shown : slots[at[1]][at[2]].tampered}),
         present |-> \E at \in shown : slots[at[1]][at[2]].state = "present",
         status |-> RunStatus(leaves), actions |-> CountActions(leaves),
         principal |-> PagePrincipal(leaves), attribution |-> WeakerOf(leaves), rollup |-> Rollup(leaves)]

MarkDiffering(diff) ==
    [a |-> {d.pair.a - 1 : d \in {e \in ToSet(diff.differences) : e.pair.a # 0}},
     b |-> {d.pair.b - 1 : d \in {e \in ToSet(diff.differences) : e.pair.b # 0}}]
NoDiff == [a |-> <<>>, b |-> <<>>, aligner |-> "sequence", pairs |-> <<>>,
           differences |-> <<>>, opaque |-> <<>>,
           causality |-> [featured |-> 0, consequence |-> FALSE, link |-> NoLink, suppressed |-> 0]]
NoMarks == [a |-> {}, b |-> {}]
Steps(run) == [k \in DOMAIN RunRows(run) |-> Step(Receipt(RunRows(run)[k]))]

-----------------------------------------------------------------------------
(* The writer and the store. *)

Recorded == Cardinality({log[i].id : i \in DOMAIN log})
Finished == Recorded = Len(cast.leaves)

Init ==
    /\ cast \in Casts
    /\ log = <<>>
    /\ rows = {}
    /\ store = [c \in Contents |-> "absent"]
    /\ read = [live |-> FALSE, run |-> NoText, todo |-> <<>>, erased |-> NoParts, known |-> {},
               first |-> <<>>, lines |-> <<>>, findings |-> 0]
    /\ stream = [run |-> NoText, first |-> <<>>, out |-> <<>>]
    /\ listing = [live |-> FALSE, todo |-> <<>>, known |-> {}, out |-> <<>>]
    /\ page = [runs |-> <<>>, diff |-> NoDiff, marks |-> NoMarks]
    /\ asked = [e \in {"late", "again", "touches", "rehydrates", "reconstructs", "lists"} |-> 0]

(* cas.Put, of what a receipt's slots keep here: a no-op over a file that
   exists, whatever it holds. *)
Put(kept) == [c \in Contents |-> IF c \in kept /\ store[c] = "absent" THEN c ELSE store[c]]
Kept(call) == {slot.digest : slot \in {s \in ToSet(Catalogue[call].slots) :
                  Committed(s) = "present" /\ s.custody = "customer-held" /\ s.digest # NoText}}

(* The step key: operation, argument schema, and the position of the call
   among those its surface saw of the run. *)
StepKey(run, call) ==
    LET r == Catalogue[call]
        before == {log[i].id : i \in {j \in DOMAIN log :
                     log[j].run = run /\ Catalogue[log[j].call].emitter = r.emitter}}
    IN  IF r.keyed THEN <<r.op, r.schema, Cardinality(before)>> ELSE <<>>

(* A call is captured, its blobs put and its receipt appended; its row is
   recorded, or left for Follow. *)
Record(run, call) ==
    /\ ~Finished
    /\ <<run, call>> \in cast.leaves[Recorded + 1]
    /\ log' = Append(log, [run |-> run, call |-> call, id |-> Recorded + 1, key |-> StepKey(run, call)])
    /\ store' = Put(Kept(call))
    /\ \/ rows' = rows \cup {Len(log) + 1} /\ UNCHANGED asked
       \/ May("late") /\ Asked("late") /\ UNCHANGED rows
    /\ UNCHANGED <<cast, read, stream, listing, page>>

(* The drain delivers an envelope again: a second leaf of the receipt. *)
Redeliver(i) ==
    /\ May("again") /\ Asked("again")
    /\ log' = Append(log, log[i])
    /\ rows' = rows \cup {Len(log) + 1}
    /\ UNCHANGED <<cast, store, read, stream, listing, page>>

Follow ==
    /\ rows # DOMAIN log
    /\ rows' = DOMAIN log
    /\ UNCHANGED <<cast, log, store, read, stream, listing, page, asked>>

(* The customer's disk: a blob is altered, removed, restored, locked. *)
Touch(c, held) ==
    /\ May("touches") /\ Asked("touches")
    /\ store[c] # held
    /\ store' = [store EXCEPT ![c] = held]
    /\ UNCHANGED <<cast, log, rows, read, stream, listing, page>>

-----------------------------------------------------------------------------
(* The readers. *)

(* rehydrate: the rows and the erasures are read once; the cursor filters
   after the steps are numbered. *)
NumberedMutant(run, after) ==   \* mutant: the page is numbered
    LET left == RowsAfter(run, after)
    IN  [k \in DOMAIN left |-> [at |-> left[k], step |-> k - 1]]
Numbered(run, after) ==
    LET left == RowsAfter(run, after)
    IN  [k \in DOMAIN left |-> [at |-> left[k], step |-> Address(left[k])[2]]]

OpenRehydrate(run, onward) ==
    LET goesOn == onward /\ read.run = run /\ read.lines # <<>>
    IN  /\ ~read.live
        /\ May("rehydrates") /\ Asked("rehydrates")
        /\ RunRows(run) # <<>>
        /\ onward => goesOn
        /\ read' = [live |-> TRUE, run |-> run, erased |-> ErasureLookup, known |-> rows, findings |-> 0,
                    todo |-> Numbered(run, IF goesOn THEN Last(read.lines).at ELSE 0),
                    first |-> IF goesOn THEN read.first ELSE RunRows(run),
                    lines |-> IF goesOn THEN read.lines ELSE <<>>]
        /\ UNCHANGED <<cast, log, rows, store, stream, listing, page>>

(* One receipt: its slots are joined against the store as it is now. *)
EmitLine ==
    /\ read.live
    /\ read.todo # <<>>
    /\ LET row == Head(read.todo)
           slots == Resolve(row.at, read.erased)
       IN  read' = [read EXCEPT !.todo = Tail(@), !.findings = @ + Findings(slots),
                                !.lines = Append(@, [at |-> row.at, step |-> row.step, slots |-> slots])]
    /\ UNCHANGED <<cast, log, rows, store, stream, listing, page, asked>>

(* Exit status 1 when there are findings. *)
CloseRehydrate ==
    /\ read.live
    /\ read.todo = <<>>
    /\ read' = [read EXCEPT !.live = FALSE]
    /\ UNCHANGED <<cast, log, rows, store, stream, listing, page, asked>>

(* Reconstruct: the rows after the cursor, the last line's log index. *)
Reconstruct(run) ==
    LET goesOn == stream.run = run /\ stream.out # <<>>
        next == RowsAfter(run, IF goesOn THEN Last(stream.out) ELSE 0)
    IN  /\ May("reconstructs") /\ Asked("reconstructs")
        /\ RunRows(run) # <<>>
        /\ stream' = [run |-> run, first |-> IF goesOn THEN stream.first ELSE next,
                      out |-> IF goesOn THEN stream.out \o next ELSE next]
        /\ UNCHANGED <<cast, log, rows, store, read, listing, page>>

(* why.ListRuns: one query for the summaries, then the rows of each run. *)
OpenListing ==
    /\ ~listing.live
    /\ May("lists") /\ Asked("lists")
    /\ listing' = [live |-> TRUE, todo |-> [k \in DOMAIN Runs |-> Summary(Runs[k])],
                   known |-> rows, out |-> <<>>]
    /\ UNCHANGED <<cast, log, rows, store, read, stream, page>>

ListRun ==
    /\ listing.live
    /\ listing.todo # <<>>
    /\ LET summary == Head(listing.todo)
           run == summary.run
           leaves == RunLeaves(run)
           row == [run |-> run, rows |-> RunRows(run), status |-> RunStatus(leaves),
                   actions |-> CountActions(leaves), principal |-> RunPrincipal(leaves),
                   label |-> AttributionLabel(summary, leaves)]
       IN  listing' = [listing EXCEPT !.todo = Tail(@), !.out = Append(@, row)]
    /\ UNCHANGED <<cast, log, rows, store, read, stream, page, asked>>

CloseListing ==
    /\ listing.live
    /\ listing.todo = <<>>
    /\ listing' = [listing EXCEPT !.live = FALSE]
    /\ UNCHANGED <<cast, log, rows, store, read, stream, page, asked>>

(* htmlexport.Build, of one run or of two and their diff, once the recording
   is finished. *)
BuildPage(runs) ==
    /\ Finished
    /\ page.runs = <<>>
    /\ \A k \in DOMAIN runs : RunRows(runs[k]) # <<>>
    /\ \E a \in {Steps(runs[1])}, b \in {Steps(Last(runs))} :
          \E diff \in {IF Len(runs) = 2 THEN Analyze(a, b) ELSE NoDiff} :
              page' = [runs |-> [k \in DOMAIN runs |-> PageRun(runs[k])], diff |-> diff,
                       marks |-> IF Len(runs) = 2 THEN MarkDiffering(diff) ELSE NoMarks]
    /\ UNCHANGED <<cast, log, rows, store, read, stream, listing, asked>>

Done ==
    /\ Finished
    /\ ~read.live /\ ~listing.live
    /\ UNCHANGED vars

RunNames == UNION {{leaf[1] : leaf \in cast.leaves[n]} : n \in DOMAIN cast.leaves}
Next ==
    \/ \E n \in DOMAIN cast.leaves : \E leaf \in cast.leaves[n] : n = Recorded + 1 /\ Record(leaf[1], leaf[2])
    \/ \E i \in DOMAIN log : Redeliver(i)
    \/ Follow
    \/ \E c \in Contents : \E held \in Contents \cup {"absent", "denied"} : Touch(c, held)
    \/ \E run \in RunNames : \E onward \in BOOLEAN : OpenRehydrate(run, onward)
    \/ EmitLine \/ CloseRehydrate
    \/ \E run \in RunNames : Reconstruct(run)
    \/ OpenListing \/ ListRun \/ CloseListing
    \/ \E runs \in cast.pages : BuildPage(runs)
    \/ Done

Spec == Init /\ [][Next]_vars
=============================================================================
