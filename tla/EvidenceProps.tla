--------------------------- MODULE EvidenceProps ---------------------------
(* What an export, a directory and an imported log promise a reader. *)
EXTENDS Evidence

Payloads(lines) == [n \in DOMAIN lines |-> lines[n].payload]
At(S) == LET order == InOrder(S) IN [n \in DOMAIN order |-> leaves[order[n]]]

\* What ExportRun writes, the verifier accepts; each receipt of the run is
\* there once, in log order and as it was logged, and when the index was
\* rebuilt all of them are: tlog/export.go joins an index that may have gaps,
\* a key set that may have lost the checkpoint key, a store that may have lost
\* or altered tokens and entry bundles nobody has verified.
ExportIsTheRun ==
    original # << >> =>
        LET lines == Leaves(original)
            run == RunOf(lines[1].payload)
            firsts == {k \in 1..size : /\ RunOf(leaves[k]) = run
                                       /\ Projection(leaves, k).duplicateOf = 0}
        IN  /\ Verified(original) /\ Duplicates(original) = {}
            /\ \E S \in SUBSET (1..size) : Payloads(lines) = At(S)
            /\ \A n \in DOMAIN lines : RunOf(lines[n].payload) = run
            /\ (before = << >> /\ from = 1) => Payloads(lines) = At(firsts)
            /\ DOMAIN original[1].tokens =
                  {r \in DOMAIN store : store[r] = r /\ \E n \in DOMAIN lines :
                                            r \in TokensOf(lines[n].payload)}

\* Stated, not checked: a key RegisterKey returned for can be loaded again
\* (saveEmitterKey's comment).  False after a torn write; see README.md.
KeysOutliveIndex == registered \subseteq Loaded(emitters)

\* A file the Rust verifier accepts is one the Go reader reads; and under the
\* writer's keys its receipts, their order and its head are the ones written,
\* whatever two changes were made to it: a line lost, moved, repeated, altered
\* or taken from another export, the file cut short.
FileVerifiedIsWhole ==
    (file # << >> /\ Verified(file)) =>
        /\ Reads(file)
        /\ DOMAIN file[1].keys \subseteq DOMAIN original[1].keys =>
              /\ file[1].origin = original[1].origin
              /\ Leaves(file) = Leaves(original)
              /\ Last(file) = Last(original)

LeafLines == 2..(Len(original) - 1)

\* One change to a file gets the class and the index of the format's list:
\* a gap, a swap, a repetition, a cut, an unsound leaf, another's leaf, a head.
FileDamageNamed ==
    strikes = 1 =>
        LET count == Len(Leaves(original))
            named(class, index) == Findings(file) = <<Finding(class, index)>>
            instead(n) == /\ Len(file) = Len(original) /\ file[n] # original[n]
                          /\ file = [original EXCEPT ![n] = file[n]]
        IN  /\ \A n \in LeafLines :
                  /\ file = Without(original, n) =>
                        IF n = count + 1 THEN named("truncation", n - 2)
                        ELSE named("drop", n - 2)
                  /\ n <= count /\ file = Swapped(original, n) => named("reorder", n - 2)
                  /\ file = InsertAt(original, n, original[n]) => named("reorder", n - 1)
                  /\ file = SubSeq(original, 1, n) => named("truncation", -1)
                  /\ instead(n) /\ file[n].kind = "leaf" /\ file[n].index = n - 2 =>
                        IF file[n].payload \in Envelopes /\ file[n].hash = file[n].payload
                           /\ file[n].sig = <<file[n].keyid, file[n].payload>>
                           /\ file[n].keyid \in Signers
                        THEN \/ named("chain", -1)
                             \/ named("content", n - 2) /\ file[n].keyid \notin DOMAIN file[1].keys
                        ELSE named("content", n - 2)
            /\ LET n == count + 2
               IN  instead(n) /\ file[n].kind = "head" =>
                      IF file[n].head.chain # original[n].head.chain THEN named("chain", -1)
                      ELSE named("head", -1)

Readers == {NoKeys, Signers}
Judged(ks) == DirProblem(dir, [key |-> CpKey, name |-> Origin], known, ks)

\* The directory verifier never blames an entry for the damage of another
\* file: an index named for content is one whose entry the signed tree does
\* not hold, also when the hash tiles it consults are damaged too.
AccusedIsGuilty ==
    \A ks \in Readers : \A p \in Range(Judged(ks)) :
        p.class = "content" =>
            Covered(dir.entries, dir.note.size)[p.index + 1] # dir.note.root[p.index + 1]

\* Damage is named for what it is, in a file and in a directory.
DamageIsNamed == FileDamageNamed /\ AccusedIsGuilty

\* A directory without a finding holds every entry its note signs, and every
\* entry the reader's own checkpoint covers is the one first logged, even
\* when the holder of the checkpoint key rewrote the tree or an older backup
\* was restored over it.
DirVerifiedIsWhole ==
    \A ks \in Readers :
        Judged(ks) = << >> =>
            /\ Covered(dir.entries, dir.note.size) = dir.note.root
            /\ dir.note.origin = Origin /\ dir.note.signer = CpKey
            /\ known # NoCheckpoint =>
                  \A n \in 1..known.size : dir.note.root[n] = Entry(leaves[n])

\* What either verifier accepts is what was written, all of it, in its order.
VerifiedIsWhole == FileVerifiedIsWhole /\ DirVerifiedIsWhole

\* Import, also when it was killed and run again and the index was rebuilt
\* since, gives a log whose export carries the same receipts in the same
\* order with the emitters' signatures, and every token of the file but those
\* whose address held an altered blob on this machine.
ImportKeepsRun ==
    copy.stage = "done" =>
        LET again == Reexport(RunOf(Logged(1)))
        IN  /\ again # << >> /\ Verified(again)
            /\ Leaves(again) = Leaves(file)
            /\ {r \in DOMAIN file[1].tokens : copy.store[r] = r} \subseteq DOMAIN again[1].tokens
=============================================================================
