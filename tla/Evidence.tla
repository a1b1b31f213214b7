------------------------------ MODULE Evidence ------------------------------
(***************************************************************************)
(* What a log directory proves to somebody else.  Its index catches up     *)
(* (IndexLoop), the keys its header needs come and go with index.db        *)
(* (internal/tlog key.go, export.go), a run is exported                    *)
(* (internal/tlog export.go, internal/exportv1), the directory or the file *)
(* suffers on the way, the offline verifier looks at either (LogDirectory, *)
(* ExportFile), and `behalf-log import` builds another log from the file   *)
(* (cmd/behalf-log import.go), perhaps in more than one attempt.           *)
(*                                                                         *)
(* An entry of the log is its envelope: payload, keyid and signature.      *)
(* Log indices count from 1 here, the leaves of a file from 0.             *)
(***************************************************************************)
EXTENDS IndexLoop, ExportFile, LogDirectory

CONSTANTS
    Runs, RunOf(_),   \* the run of an envelope
    SignerOf(_),      \* the emitter key that signed it
    TokensOf(_),      \* the references of its delegation chain
    CpKey, CopyKey,   \* the checkpoint keys of this log and of the imported one
    Stranger,         \* a key of somebody else
    Forged,           \* a payload nobody signed
    Origin, Elsewhere,
    Torn, NL,         \* part of a line, and the newline, in emitters.jsonl
    Casts             \* the settings to play, by name

VARIABLES
    cast,        \* the name of the setting
    keys,        \* the keys table of index.db
    emitters,    \* keys/emitters.jsonl, piece by piece
    registered,  \* keys RegisterKey has returned for
    dir,         \* the directory: note, entry bundles, hash tiles
    known,       \* the checkpoint the reader kept
    hits,        \* changes the directory has suffered
    store,       \* token blobs: a reference and what lies there
    file,        \* the export, << >> before there is one
    original,    \* the export as it was written
    strikes,     \* changes the file has suffered
    copy         \* the log of another machine

walk == <<leaves, before, from, size, i, table, ok>>
keyVars == <<keys, emitters, registered>>
dirVars == <<dir, known, hits, store>>
fileVars == <<file, original, strikes>>
evars == <<cast, walk, keyVars, dirVars, fileVars, copy>>

Play == Casts[cast]

Signers == {SignerOf(e) : e \in Envelopes}
Refs == UNION {TokensOf(e) : e \in Envelopes}

\* The settings play logs with a checkpoint over some of their leaves; the
\* receipt_id of a payload is the one index.Extract reads; a stranger has none
\* of the keys, and nobody signed the forged payload.
ASSUME EvidenceAssumption ==
    /\ \A c \in DOMAIN Casts : \A log \in Casts[c].logs :
          /\ log \in Seq(Envelopes)
          /\ Casts[c].tables \/ Casts[c].published \subseteq 0..Len(log)
    /\ \A e \in Envelopes : ReceiptIdOf(e) = ReceiptOf[e]
    /\ Stranger \notin Signers \cup {CpKey} /\ Forged \notin Envelopes

Entry(e) == [formed |-> TRUE, payload |-> e, keyid |-> SignerOf(e), sig |-> <<SignerOf(e), e>>]
Entries(ls) == [n \in DOMAIN ls |-> Entry(ls[n])]

-----------------------------------------------------------------------------
(* keys/emitters.jsonl. *)

\* LoadEmitterKeys: the lines that are one whole key.
Loaded(pieces) ==
    {k \in Signers : \E n \in DOMAIN pieces :
        /\ pieces[n] = k
        /\ n > 1 => pieces[n - 1] = NL
        /\ n < Len(pieces) => pieces[n + 1] = NL}

\* saveEmitterKey: one registration, unless the key is already there.
Saved(pieces, k) == IF k \in Loaded(pieces) THEN pieces ELSE pieces \o <<k, NL>>

RegisterKey(k) ==
    /\ i = from
    /\ emitters' = Saved(emitters, k)
    /\ keys' = keys \union {k}
    /\ registered' = registered \union {k}
    /\ UNCHANGED <<cast, walk, dirVars, fileVars, copy>>

\* The process dies in the write: nothing, a part or all but the newline.
RegisterTorn(k) ==
    /\ i = from
    /\ Len(emitters) < Play.tears
    /\ k \notin Loaded(emitters)
    /\ \E piece \in {Torn, k} : emitters' = Append(emitters, piece)
    /\ UNCHANGED <<cast, walk, keys, registered, dirVars, fileVars, copy>>

\* Somebody deletes index.db; the walk that follows is a rebuild.
DropIndex ==
    /\ i = from
    /\ Play.keyed
    /\ keys' = {}
    /\ UNCHANGED <<cast, walk, emitters, registered, dirVars, fileVars, copy>>

\* Reindex, once index.Rebuild has returned.
Reindex ==
    /\ Play.keyed
    /\ i > from /\ Finished
    /\ original = << >>
    /\ keys' = keys \union Loaded(emitters)
    /\ UNCHANGED <<cast, walk, emitters, registered, dirVars, fileVars, copy>>

\* tlog.Open registers the checkpoint key and replays the file.
OpenLog ==
    /\ Play.keyed
    /\ original = << >>
    /\ keys' = keys \union {CpKey} \union Loaded(emitters)
    /\ UNCHANGED <<cast, walk, emitters, registered, dirVars, fileVars, copy>>

Catch == RecordLeaf /\ UNCHANGED <<cast, keyVars, dirVars, fileVars, copy>>

-----------------------------------------------------------------------------
(* ExportRun. *)

RunRowsMutant(rows, run) == {k \in DOMAIN rows : RunOf(rows[k].env) = run}
RunRows(rows, run) ==
    {k \in DOMAIN rows : rows[k].duplicateOf = 0 /\ RunOf(rows[k].env) = run}

\* gatherHopTokens: what the store still holds under its own digest.
Gathered(envs, blobs) ==
    {r \in UNION {TokensOf(e) : e \in envs} : r \in DOMAIN blobs /\ blobs[r] = r}

HeaderKeysMutant(indexed, key) == indexed
HeaderKeys(indexed, key) == indexed \union {key}

\* The tile client asks for the width the checkpoint's size calls for.
Fetched(files, published, k) ==
    LET bundle == (k - 1) \div TileWidth
        w == Needed(published, bundle)
        data == CASE w \in Widths(files, bundle) -> files[bundle][w]
                  [] w \notin Widths(files, bundle) /\ TileWidth \in Widths(files, bundle)
                        -> files[bundle][TileWidth]
                  [] OTHER -> << >>
        n == ((k - 1) % TileWidth) + 1
    IN  IF n \in DOMAIN data THEN data[n] ELSE Unframed

ExportRun(rows, d, indexed, key, origin, blobs, run) ==
    LET order == InOrder(RunRows(rows, run))
        envs == {rows[k].env : k \in RunRows(rows, run)}
        header == HeaderKeys(indexed, key)
    IN  IF \/ order = << >>
           \/ \E k \in RunRows(rows, run) : \/ k > d.note.size
                                            \/ Fetched(d.entries, d.note.size, k) # Entry(rows[k].env)
                                            \/ SignerOf(rows[k].env) \notin header
        THEN << >>
        ELSE Write(origin, header, Gathered(envs, blobs),
                   [n \in DOMAIN order |->
                       LET e == rows[order[n]].env
                       IN  [payload |-> e, key |-> SignerOf(e), sig |-> <<SignerOf(e), e>>]],
                   key)

\* cmdExport; a refusal removes the file it had begun.
Export(run) ==
    /\ Finished
    /\ original = << >>
    /\ file' = ExportRun(table, dir, keys, CpKey, Origin, store, run)
    /\ file' # << >>
    /\ original' = file'
    /\ UNCHANGED <<cast, walk, keyVars, dirVars, strikes, copy>>

\* The customer's store loses a blob, or one is altered in place.
Prune ==
    /\ original = << >> /\ Play.prunes
    /\ \E r \in DOMAIN store :
          \/ store' = [s \in DOMAIN store \ {r} |-> store[s]]
          \/ store' = [store EXCEPT ![r] = Forged]
    /\ UNCHANGED <<cast, walk, keyVars, dir, known, hits, fileVars, copy>>

-----------------------------------------------------------------------------
(* What can happen to the directory. *)

\* Entry n of a tile, in the files of every width that hold it.
Rewritten(files, b, n, entry) ==
    [files EXCEPT ![b] = [w \in DOMAIN files[b] |->
        IF n <= Len(files[b][w]) THEN [files[b][w] EXCEPT ![n] = entry] ELSE files[b][w]]]

\* What may lie in the place of an entry: another one, or one changed.
Misfits ==
    {Unframed} \union UNION {
        {e, [e EXCEPT !.payload = Forged], [e EXCEPT !.formed = FALSE],
         [e EXCEPT !.payload = Forged, !.keyid = Stranger, !.sig = <<Stranger, Forged>>]} :
            e \in Range(Entries(leaves))}

DamagedFiles(files) ==
    UNION {
        {[c \in (DOMAIN files) \ {b} |-> files[c]]}
        \union {[files EXCEPT ![b] = [v \in (DOMAIN files[b]) \ {w} |-> files[b][v]]] :
                    w \in DOMAIN files[b]}
        \union {[files EXCEPT ![b][w] = SubSeq(@, 1, w - 1)] : w \in DOMAIN files[b]}
        \union {Rewritten(files, b, n, e) : n \in 1..TileWidth, e \in Misfits} :
            b \in DOMAIN files}

Rot ==
    /\ hits < Play.hits /\ Finished /\ original = << >>
    /\ \/ \E files \in DamagedFiles(dir.entries) : dir' = [dir EXCEPT !.entries = files]
       \/ \E files \in DamagedFiles(dir.hashes) : dir' = [dir EXCEPT !.hashes = files]
       \/ \E n \in {[dir.note EXCEPT !.size = @ - 1, !.signer = Stranger],
                     [dir.note EXCEPT !.root = << >>, !.signer = Stranger],
                     [dir.note EXCEPT !.origin = Elsewhere]} :
              dir' = [dir EXCEPT !.note = n]
    /\ hits' = hits + 1
    /\ UNCHANGED <<cast, walk, keyVars, known, store, fileVars, copy>>

\* A backup of an earlier day is restored over the directory.
Restore ==
    /\ hits < Play.hits /\ Finished /\ original = << >>
    /\ \E m \in 0..(size - 1) :
          dir' = Directory(Origin, Entries(SubSeq(leaves, 1, m)), m, CpKey)
    /\ hits' = hits + 1
    /\ UNCHANGED <<cast, walk, keyVars, known, store, fileVars, copy>>

\* Who holds the checkpoint key rewrites an entry and signs the tree again.
Rewrite ==
    /\ hits < Play.hits /\ Finished /\ original = << >>
    /\ \E n \in 1..size : \E e \in Envelopes \ {leaves[n]} :
          dir' = Directory(Origin, Entries([leaves EXCEPT ![n] = e]), size, CpKey)
    /\ hits' = hits + 1
    /\ UNCHANGED <<cast, walk, keyVars, known, store, fileVars, copy>>

-----------------------------------------------------------------------------
(* What can happen to the file on its way.  A signature that is altered is
   one no key has made, << >>. *)

Without(lines, n) == SubSeq(lines, 1, n - 1) \o SubSeq(lines, n + 1, Len(lines))
Swapped(lines, n) == [lines EXCEPT ![n] = lines[n + 1], ![n + 1] = lines[n]]

ChangedLeaf(line) ==
    {[line EXCEPT !.payload = Forged], [line EXCEPT !.hash = Forged],
     [line EXCEPT !.payload = Forged, !.hash = Forged],
     [line EXCEPT !.keyid = Stranger], [line EXCEPT !.sig = << >>],
     [line EXCEPT !.payload = Forged, !.hash = Forged, !.keyid = Stranger,
                  !.sig = <<Stranger, Forged>>],
     [line EXCEPT !.index = @ + 1]}
        \union {Leaf(line.index, e, SignerOf(e), <<SignerOf(e), e>>) : e \in Envelopes}

\* The head over what a list of leaves would give, whoever signs it.
Heads(line) ==
    LET hashes == [n \in DOMAIN Leaves(file) |-> Leaves(file)[n].hash]
        fresh == [origin |-> Origin, count |-> Len(hashes), chain |-> Chain(Origin, hashes)]
    IN  {[line EXCEPT !.head = fresh],
         [line EXCEPT !.head = fresh, !.keyid = Stranger, !.sig = <<Stranger, fresh>>],
         [line EXCEPT !.head.count = @ - 1], [line EXCEPT !.head.chain = << >>],
         [line EXCEPT !.sig = << >>]}

ChangedHeader(line) ==
    {[line EXCEPT !.known = FALSE], [line EXCEPT !.origin = Elsewhere],
     [line EXCEPT !.keys = [k \in (DOMAIN line.keys) \union {Stranger} |-> k]],
     [line EXCEPT !.keys = [k \in (DOMAIN line.keys) \ {CpKey} |-> k]],
     [line EXCEPT !.keys = [k \in DOMAIN line.keys |-> Stranger]]}
        \union {[line EXCEPT !.tokens = [t \in DOMAIN line.tokens |->
                                            IF t = r THEN Forged ELSE line.tokens[t]]] :
                    r \in DOMAIN line.tokens}
        \union {[line EXCEPT !.tokens = Addressed((DOMAIN line.tokens) \ {r})] :
                    r \in DOMAIN line.tokens}

Changed(line) ==
    CASE line.kind = "leaf" -> ChangedLeaf(line)
      [] line.kind = "head" -> Heads(line)
      [] line.kind = "header" -> ChangedHeader(line)
      [] OTHER -> {}

Strike(after) ==
    /\ file # << >> /\ strikes < Play.strikes /\ copy.stage = "closed"
    /\ file' = after
    /\ strikes' = strikes + 1
    /\ UNCHANGED <<cast, walk, keyVars, dirVars, original, copy>>

Lose == \E n \in DOMAIN file : Strike(Without(file, n))
Cut == \E n \in 1..(Len(file) - 1) : Strike(SubSeq(file, 1, n))
Swap == \E n \in 1..(Len(file) - 1) : Strike(Swapped(file, n))
Repeat == \E n \in DOMAIN file : Strike(InsertAt(file, n, file[n]))
Change ==
    \E n \in DOMAIN file : \E line \in {Blank, Garbage} \union Changed(file[n]) :
        Strike([file EXCEPT ![n] = line])

-----------------------------------------------------------------------------
(* `behalf-log import` on another machine.  Its log is fresh; its store may
   hold an altered blob.  Every append is begun before one is waited for. *)

Logged(n) == Leaves(file)[n].payload

InFlightAt(r) ==
    {n \in DOMAIN copy.tasks : /\ copy.tasks[n].stage \in {"queued", "durable"}
                               /\ ReceiptOf[Logged(n)] = r}

\* Read every file, run the verifier over it, open the log, keep the tokens
\* (a blob that is there is left alone), register the header's keys.
ImportOpen ==
    /\ Play.imports
    /\ copy.stage = "closed"
    /\ file # << >> /\ Reads(file) /\ Leaves(file) # << >> /\ Verified(file)
    /\ copy' = [copy EXCEPT
          !.stage = "open",
          !.keys = @ \union {CopyKey} \union DOMAIN file[1].keys,
          !.store = [r \in (DOMAIN @) \union DOMAIN file[1].tokens |->
                        IF r \in DOMAIN @ THEN @[r] ELSE file[1].tokens[r]]]
    /\ UNCHANGED <<cast, walk, keyVars, dirVars, fileVars>>

\* BeginAppend of the next leaf.
ImportBegin ==
    /\ copy.stage = "open" /\ Len(copy.tasks) < Len(Leaves(file))
    /\ LET r == ReceiptOf[Logged(Len(copy.tasks) + 1)]
           stage == IF InFlightAt(r) # {} \/ LookupCanonical(copy.rows, r) # 0
                    THEN "known" ELSE "queued"
       IN  copy' = [copy EXCEPT !.tasks = Append(@, [stage |-> stage, leaf |-> 0])]
    /\ UNCHANGED <<cast, walk, keyVars, dirVars, fileVars>>

\* Tessera (external) integrates the oldest entry in its queue.
ImportIntegrate ==
    LET queued == {n \in DOMAIN copy.tasks : copy.tasks[n].stage = "queued"} IN
    /\ copy.stage = "open" /\ queued # {}
    /\ copy' = [copy EXCEPT
          !.entries = Append(@, Logged(Lowest(queued))),
          !.tasks[Lowest(queued)] = [stage |-> "durable", leaf |-> Len(copy.entries) + 1]]
    /\ UNCHANGED <<cast, walk, keyVars, dirVars, fileVars>>

\* Wait, in the order the appends were begun; Record as the ack resolves.
ImportWait ==
    LET left == {n \in DOMAIN copy.tasks : copy.tasks[n].stage # "acked"}
        n == Lowest(left)
        leaf == copy.tasks[n].leaf
        dup == LookupBefore(copy.rows, ReceiptOf[Logged(n)], leaf) IN
    /\ copy.stage = "open"
    /\ Len(copy.tasks) = Len(Leaves(file)) /\ left # {}
    /\ copy.tasks[n].stage # "queued"
    /\ IF copy.tasks[n].stage = "known"
       THEN copy' = [copy EXCEPT !.tasks[n].stage = "acked"]
       ELSE IF Refused(copy.rows, leaf, Logged(n), dup)
       THEN copy' = [copy EXCEPT !.stage = "closed", !.tasks = << >>]
       ELSE copy' = [copy EXCEPT !.tasks[n].stage = "acked",
                                 !.rows = Upsert(@, leaf, Logged(n), dup)]
    /\ UNCHANGED <<cast, walk, keyVars, dirVars, fileVars>>

ImportEnd ==
    /\ copy.stage = "open"
    /\ Len(copy.tasks) = Len(Leaves(file))
    /\ \A n \in DOMAIN copy.tasks : copy.tasks[n].stage = "acked"
    /\ copy' = [copy EXCEPT !.stage = "done", !.tasks = << >>]
    /\ UNCHANGED <<cast, walk, keyVars, dirVars, fileVars>>

\* The import is killed; what is durable stays, what is queued may.
ImportKilled ==
    /\ copy.stage = "open" /\ copy.killed < Play.kills
    /\ copy' = [copy EXCEPT !.stage = "closed", !.tasks = << >>, !.killed = @ + 1]
    /\ UNCHANGED <<cast, walk, keyVars, dirVars, fileVars>>

\* `behalf-log reindex` on the imported log.
ImportReindex ==
    /\ copy.stage = "done"
    /\ copy' = [copy EXCEPT
          !.rows = Replay(<< >>, copy.entries, 1, Len(copy.entries)).rows,
          !.keys = @ \ {CopyKey}]
    /\ copy' # copy
    /\ UNCHANGED <<cast, walk, keyVars, dirVars, fileVars>>

Reexport(run) ==
    ExportRun(copy.rows, Directory(Origin, Entries(copy.entries), Len(copy.entries), CopyKey),
              copy.keys, CopyKey, Origin, copy.store, run)

-----------------------------------------------------------------------------
NoCopy(blobs) ==
    [stage |-> "closed", entries |-> << >>, rows |-> << >>, keys |-> {}, store |-> blobs,
     tasks |-> << >>, killed |-> 0]

\* A log of the cast under a rebuild, or a table some ingest left behind.
WalkInit ==
    /\ leaves \in Play.logs
    /\ \/ Play.tables /\ Init
       \/ /\ ~Play.tables
          /\ size \in Play.published
          /\ before = << >> /\ table = << >>
          /\ from = 1 /\ i = 1 /\ ok = TRUE

EvidenceInit ==
    /\ cast \in DOMAIN Casts
    /\ WalkInit
    /\ keys = IF Play.keyed THEN {} ELSE Signers
    /\ emitters = << >>
    /\ registered = {}
    /\ dir = Directory(Origin, Entries(leaves), size, CpKey)
    /\ known \in {NoCheckpoint} \union
          (IF Play.hits = 0 THEN {}
           ELSE {Note(Origin, Entries(SubSeq(leaves, 1, n)), CpKey) : n \in 0..size})
    /\ hits = 0
    /\ store = [r \in Refs |-> r]
    /\ file = << >> /\ original = << >> /\ strikes = 0
    /\ copy \in {NoCopy(<< >>)} \union
          (IF Play.imports THEN {NoCopy([r \in Refs |-> Forged])} ELSE {})

EvidenceNext ==
    \/ \E k \in Signers : (Play.keyed /\ RegisterKey(k)) \/ RegisterTorn(k)
    \/ DropIndex \/ Reindex \/ OpenLog
    \/ Catch
    \/ Rot \/ Restore \/ Rewrite \/ Prune
    \/ \E run \in Runs : Export(run)
    \/ Lose \/ Cut \/ Swap \/ Repeat \/ Change
    \/ ImportOpen \/ ImportBegin \/ ImportIntegrate \/ ImportWait \/ ImportEnd
    \/ ImportKilled \/ ImportReindex

EvidenceSpec == EvidenceInit /\ [][EvidenceNext]_evars
=============================================================================
