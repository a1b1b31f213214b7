---------------------------- MODULE ReadingProps ----------------------------
(* What the readers of internal/why, internal/payload, internal/index,
   internal/hooks and internal/htmlexport may be relied on for. *)
EXTENDS Reading

Increasing(s) == \A i, j \in DOMAIN s : i < j => s[i] < s[j]

-----------------------------------------------------------------------------
(* The payload join. *)

Notices(known) == {i \in known : Receipt(i).kind = "erasure_notice"}
NamedBy(i) == {slot.digest : slot \in ToSet(Receipt(i).slots)} \ {NoText}

(* What may be said of a slot when its line is written. *)
SlotIsTrue(slot, s) ==
    LET file == Held(slot)
        lookedUp == /\ slot.custody \notin {"dropped-with-digest", "vendor-held"}
                    /\ Committed(slot) \notin {"dropped-at-capture", "deleted"}
    IN  /\ ~lookedUp => s.state \in {Committed(slot), "dropped-at-capture"} /\ ~s.tampered
        /\ s.tampered <=> lookedUp /\ file \in Contents \ {slot.digest}
        /\ s.tampered => s.state = "unreadable"
        /\ lookedUp =>
              /\ s.state = "present" <=> file = slot.digest
              /\ s.state = "unreadable" <=> file \notin {slot.digest, "absent"}
              /\ s.state = "deleted" => \E i \in Notices(rows) : slot.digest \in NamedBy(i)
              /\ s.state = "missing" => \A i \in Notices(read.known) :
                                          Canonical(i) => slot.digest \notin NamedBy(i)
        /\ s.tampered /\ slot.manifest # NoParts =>
              s.changed = {f \in DOMAIN slot.manifest \cup DOMAIN Manifest[file] :
                             ~(/\ f \in DOMAIN slot.manifest \cap DOMAIN Manifest[file]
                               /\ slot.manifest[f] = Manifest[file][f])}

(* While blobs come and go under it, each line `rehydrate` writes says of each
   slot what the store holds at that moment: tampered exactly when its bytes
   are not those committed, deleted only with a notice in the log, missing
   never where a notice was indexed before it began, dropped and vendor-held
   never looked up; and the exit status counts the accusations. *)
SlotsAreTrue ==
    [][Len(read'.lines) > Len(read.lines) =>
         LET line == Last(read'.lines)
         IN  /\ \A k \in DOMAIN line.slots : SlotIsTrue(Receipt(line.at).slots[k], line.slots[k])
             /\ read'.findings = read.findings
                  + Cardinality({k \in DOMAIN line.slots : line.slots[k].tampered})]_vars

-----------------------------------------------------------------------------
(* Pages, addresses and listings. *)

Ats(lines) == [k \in DOMAIN lines |-> lines[k].at]

(* The pages of a run, read while it grows, join without a receipt twice and
   with every receipt that was indexed when the first was read; and while the
   follower has nothing to backfill, a step printed on any page is the step
   `behalf why` answers at, then and later (rehydrate, Reconstruct, Load). *)
PagesJoin ==
    /\ Increasing(Ats(read.lines)) /\ Increasing(stream.out)
    /\ ~read.live => ToSet(read.first) \subseteq ToSet(Ats(read.lines))
    /\ ToSet(stream.first) \subseteq ToSet(stream.out)
    /\ asked.late = 0 => \A line \in ToSet(read.lines) :
                            WhyLoad(read.run, line.step) = line.at

(* The rows a run had when an older index was read. *)
RowsAsOf(known, run) ==
    {i \in known : log[i].run = run /\ \A j \in known : log[j].id = log[i].id => j >= i}
VerdictsOf(leaves) == {Receipt(i).verdict : i \in leaves}

(* `behalf runs` says verified only of a run none of whose receipts, when it
   began, was asserted or broken; and where the listing, the export and the
   diff read the same rows of a run they give one verdict, one status and one
   count of actions (ListRuns, loadRun, weakest). *)
OneVerdict ==
    /\ \A l \in ToSet(listing.out) :
          l.label = "verified" =>
            VerdictsOf(RowsAsOf(listing.known, l.run)) \cap {"asserted", "broken"} = {}
    /\ \A p \in ToSet(page.runs) :
          /\ p.rows = RunRows(p.run) => p.attribution = DiffWeakest(RunLeaves(p.run))
          /\ p.attribution = "verified" => p.rollup.asserted = 0 /\ p.rollup.broken = 0
          /\ \A l \in ToSet(listing.out) :
                l.run = p.run /\ l.rows = p.rows /\ RowsAsOf(listing.known, l.run) = ToSet(l.rows) =>
                   /\ l.status = p.status /\ l.actions = p.actions
                   /\ l.label = "verified" <=> p.attribution \in {"verified", NoText}
                   /\ l.label = "broken" <=> p.attribution = "broken"

(* However the two surfaces' receipts of a run interleave, no receipt is lost
   or shown twice by the collapse; a crossing holds at most one receipt of
   each surface, and two calls alike are paired oldest with oldest (Collapse). *)
CrossingsKeepReceipts ==
    \A run \in RunNames : \A crossings \in {Collapse(RunRows(run))} :
        LET places == UNION {{k} \X DOMAIN crossings[k] : k \in DOMAIN crossings}
            At(p) == crossings[p[1]][p[2]]
            Pairs == {c \in ToSet(crossings) : Len(c) > 1}
        IN  /\ {At(p) : p \in places} = RunLeaves(run)
            /\ \A p, q \in places : At(p) = At(q) => p = q
            /\ Increasing([k \in DOMAIN crossings |-> crossings[k][1]])
            /\ \A c \in Pairs : Len(c) = 2 /\ c[1] < c[2] /\ SameCrossing(c[1], c[2])
            /\ \A e \in Pairs : \A c \in ToSet(crossings) :
                  SameCrossing(c[1], e[2]) /\ c[1] < e[1] => Len(c) = 2 /\ c[2] < e[2]

-----------------------------------------------------------------------------
(* The diff of a page. *)

SideA(pairs) == [k \in DOMAIN pairs |-> pairs[k].a]
SideB(pairs) == [k \in DOMAIN pairs |-> pairs[k].b]

(* A side of the pairs, of which 0 is none, names each of n steps once. *)
EachOnce(s, n) ==
    /\ \A i \in 1..n : \E k \in DOMAIN s : s[k] = i /\ \A l \in DOMAIN s : s[l] = i => l = k
    /\ \A k \in DOMAIN s : s[k] \in 0..n
Rising(s) == \A k, l \in DOMAIN s : k < l /\ s[k] # 0 /\ s[l] # 0 => s[k] < s[l]

(* Every way to pair steps of two runs without crossing, and what it is worth:
   a pair gains its score over the two gaps it closes. *)
Matchings(a, b) == {m \in [DOMAIN a -> 0..Len(b)] : Rising(m)}
Gain(a, b, m, i) == IF m[i] = 0 THEN 0 ELSE Score(a, b, i, m[i]) - 2 * Gap
Worth(a, b, m) ==
    LET sum[i \in 0..Len(a)] ==
            IF i = 0 THEN (Len(a) + Len(b)) * Gap ELSE sum[i - 1] + Gain(a, b, m, i)
    IN  sum[Len(a)]
Matched(pairs, a) ==
    [i \in DOMAIN a |-> pairs[CHOOSE k \in DOMAIN pairs : pairs[k].a = i].b]

(* Whichever tier aligned them, each step of both runs is in exactly one pair
   and the first run keeps its order; so does the second unless step keys
   paired them, which pairs equal keys only; and a sequence alignment is one
   no other alignment is worth more than (Align). *)
Complete(d) ==
    /\ \A k \in DOMAIN d.pairs : d.pairs[k].a # 0 \/ d.pairs[k].b # 0
    /\ EachOnce(SideA(d.pairs), Len(d.a)) /\ EachOnce(SideB(d.pairs), Len(d.b))
    /\ Rising(SideA(d.pairs))
    /\ d.aligner # "step-key" => Rising(SideB(d.pairs))
    /\ d.aligner = "step-key" =>
          \A k \in DOMAIN d.pairs : /\ d.pairs[k].a # 0 /\ d.pairs[k].b # 0
                                    /\ d.a[d.pairs[k].a].key = d.b[d.pairs[k].b].key
    /\ d.aligner = "sequence" =>
          \A m \in Matchings(d.a, d.b) : Worth(d.a, d.b, m) <= Worth(d.a, d.b, Matched(d.pairs, d.a))
AlignmentIsComplete == Complete(page.diff)

(* What one change put before the agent, on each side: of a reordered array
   the first elements that differ, if any do. *)
FirstAt(a, b, i) ==
    LET Unlike(j) == /\ Positions[j] \in (DOMAIN a.parts) \cap (DOMAIN b.parts)
                     /\ a.parts[Positions[j]] # b.parts[Positions[j]]
    IN  Unlike(i) /\ \A j \in DOMAIN Positions : j < i => ~Unlike(j)
Produced(c) ==
    IF c.kind # "reordered" THEN {[a |-> Leaves[c.a], b |-> Leaves[c.b]]}
      ELSE {[a |-> Leaves[c.a.parts[Positions[i]]], b |-> Leaves[c.b.parts[Positions[i]]]] :
               i \in {i \in DOMAIN Positions : FirstAt(c.a, c.b, i)}}
Changes(d) == {d.changes[k] : k \in 1..Len(d.changes)}
Handed(first) ==
    LET results == {c \in Changes(first) : c.class = "result"}
    IN  UNION {Produced(c) : c \in IF results = {} THEN Changes(first) ELSE results}

(* Two values that show the first difference reached a later one: each run
   used, in arguments that differ, what only it was handed. *)
Shows(first, d, v, w) ==
    /\ d.pair.a # 0 /\ d.pair.b # 0
    /\ Length[v] >= MinLinkLength /\ Length[w] >= MinLinkLength
    /\ \E h \in Handed(first) : v \in h.a \ h.b /\ w \in h.b \ h.a
    /\ \E c \in Changes(d) : c.class = "arguments" /\ v \in Leaves[c.a]
    /\ \E c \in Changes(d) : c.class = "arguments" /\ w \in Leaves[c.b]
Reaches(first, d) == \E v, w \in DOMAIN Length : Shows(first, d, v, w)

(* A step is called a consequence only with the pair of values that shows it;
   it is the riskiest of those that can be shown, the latest of equals; where
   none can, the step featured is called later and no more; and all others
   are counted as suppressed (analyzeCausality). *)
Explained(d) ==
    LET said == d.causality
        later == 2..Len(d.differences)
        shown == {i \in later : Reaches(d.differences[1], d.differences[i])}
        from == IF shown = {} THEN later ELSE shown
        Risk(i) == RiskOf(d.differences[i], d.a, d.b)
    IN  /\ said.consequence <=> shown # {}
        /\ said.consequence =>
              Shows(d.differences[1], d.differences[said.featured], said.link.a, said.link.b)
        /\ later # {} => /\ said.featured \in from
                         /\ \A i \in from : Risk(i) <= Risk(said.featured)
                         /\ \A i \in from : i > said.featured => Risk(i) < Risk(said.featured)
                         /\ said.suppressed = Len(d.differences) - 2
ConsequenceIsShown == Explained(page.diff)
=============================================================================
