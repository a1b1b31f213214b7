---------------------------- MODULE LogDirectory ----------------------------
(***************************************************************************)
(* A tlog-tiles directory as the offline verifier reads it                 *)
(* (verifier/src/logdir.rs, tiles.rs, note.rs, merkle.rs, envelope.rs):    *)
(* the checkpoint note, the entry bundles and the level-0 hash tiles.      *)
(*                                                                         *)
(* A tree's root is the sequence of its entries and a leaf hash is the     *)
(* entry.  The files of a tile kind map a tile number to the widths        *)
(* present, TileWidth for the full tile, and each width to its content.    *)
(* A note is signed by its signer over the rest of the record.             *)
(***************************************************************************)
EXTENDS Integers, Sequences, FiniteSetsExt

CONSTANTS
    TileWidth,     \* entries in a full tile
    NoCheckpoint,  \* no --latest-known
    NoKeys,        \* no --emitter-keys
    Unframed       \* in a bundle: a length prefix that does not fit

ASSUME TileAssumption == TileWidth \in Nat \ {0}

Note(origin, entries, signer) ==
    [origin |-> origin, size |-> Len(entries), root |-> entries, signer |-> signer]

(* The files a log leaves that published every prefix of its entries. *)
Tiles(entries) ==
    [b \in {n \div TileWidth : n \in 0..(Len(entries) - 1)} |->
        [w \in 1..Min({TileWidth, Len(entries) - b * TileWidth}) |->
            SubSeq(entries, b * TileWidth + 1, b * TileWidth + w)]]

Directory(origin, entries, size, signer) ==
    [note |-> Note(origin, SubSeq(entries, 1, size), signer),
     entries |-> Tiles(entries), hashes |-> Tiles(entries)]

(* read_tile: the full file, else the width needed, else the widest. *)
Widths(files, b) == IF b \in DOMAIN files THEN DOMAIN files[b] ELSE {}

ReadTile(files, b, needed) ==
    LET widths == Widths(files, b)
    IN  IF widths = {} THEN << >>
        ELSE IF TileWidth \in widths THEN files[b][TileWidth]
        ELSE IF needed \in widths THEN files[b][needed]
        ELSE files[b][Max(widths)]

Bundles(size) == 0..((size + TileWidth - 1) \div TileWidth - 1)
Needed(size, b) == Min({TileWidth, size - b * TileWidth})

(* The first `size` of the entries, or of the hashes, that are there. *)
Covered(files, size) ==
    LET at(i) == ReadTile(files, (i - 1) \div TileWidth, Needed(size, (i - 1) \div TileWidth))
        offset(i) == ((i - 1) % TileWidth) + 1
        absent == {i \in 1..size : offset(i) > Len(at(i))}
        last == IF absent = {} THEN size ELSE Min(absent) - 1
    IN  [i \in 1..last |-> at(i)[offset(i)]]

Problem(class, index) == [class |-> class, index |-> index]

(* check_envelope; without a key set the check is structural only. *)
Sound(entry, keys) ==
    /\ entry.formed
    /\ keys # NoKeys => entry.keyid \in keys /\ entry.sig = <<entry.keyid, entry.payload>>

(* Coverage, framing and content, bundle by bundle. *)
BundleProblem(files, size, keys, b) ==
    LET data == ReadTile(files, b, Needed(size, b))
        broken == {j \in 1..Needed(size, b) : ~Sound(data[j], keys)}
    IN  IF \E j \in DOMAIN data : data[j] = Unframed THEN <<Problem("unreadable", -1)>>
        ELSE IF Len(data) < Needed(size, b)
             THEN <<Problem("truncation", b * TileWidth + Len(data))>>
        ELSE IF broken # {} THEN <<Problem("content", b * TileWidth + Min(broken) - 1)>>
        ELSE << >>

EntryProblem(files, size, keys) ==
    LET failing == {b \in Bundles(size) : BundleProblem(files, size, keys, b) # << >>}
    IN  IF failing = {} THEN << >>
        ELSE BundleProblem(files, size, keys, Min(failing))

(* localize_root_mismatch: the stored hashes are believed when they fold to
   the signed root. *)
LocalizeMutant(dir, computed) ==
    LET stored == Covered(dir.hashes, dir.note.size)
        differing == {i \in DOMAIN stored : i \in DOMAIN computed /\ stored[i] # computed[i]}
    IN  IF differing # {} THEN Problem("content", Min(differing) - 1)
        ELSE Problem("chain", -1)
Localize(dir, computed) ==
    LET stored == Covered(dir.hashes, dir.note.size)
        differing == {i \in DOMAIN computed : stored[i] # computed[i]}
    IN  IF stored = dir.note.root THEN Problem("content", Min(differing) - 1)
        ELSE Problem("chain", -1)

(* load_latest_known refuses a note the log did not sign, or of another log. *)
Usable(known, note, vkey) ==
    known # NoCheckpoint => known.signer = vkey.key /\ known.origin = note.origin

Stale(known, note) == known # NoCheckpoint /\ known.size > note.size

ForkedMutant(known, note) ==
    known # NoCheckpoint /\ known.size = note.size /\ known.root # note.root
Forked(known, note) ==
    /\ known # NoCheckpoint
    /\ known.size <= note.size
    /\ known.root # SubSeq(note.root, 1, known.size)

(* verify_log_dir: the finding, if any. *)
DirProblem(dir, vkey, known, keys) ==
    LET note == dir.note
        entry == EntryProblem(dir.entries, note.size, keys)
        computed == Covered(dir.entries, note.size)
    IN  IF note.signer # vkey.key \/ note.origin # vkey.name THEN <<Problem("head", -1)>>
        ELSE IF ~Usable(known, note, vkey) THEN <<Problem("unreadable", -1)>>
        ELSE IF Stale(known, note) THEN <<Problem("truncation", -1)>>
        ELSE IF known # NoCheckpoint /\ known.size = note.size /\ Forked(known, note)
             THEN <<Problem("chain", -1)>>
        ELSE IF entry # << >> THEN entry
        ELSE IF computed # note.root THEN <<Localize(dir, computed)>>
        ELSE IF Forked(known, note) THEN <<Problem("chain", -1)>>
        ELSE << >>
=============================================================================
