----------------------------- MODULE ExportFile -----------------------------
(***************************************************************************)
(* The export file of one run: what the writer of internal/exportv1        *)
(* produces, what its reader accepts (reader.go, for `import`), and what    *)
(* the offline verifier says of it (verifier/src/verify.rs).               *)
(*                                                                         *)
(* A file is a sequence of lines.  A digest is the thing it is taken over, *)
(* and a signature is the key with the bytes it signs, so that a change    *)
(* to either side shows; leaves are numbered from 0 as in the file.  A     *)
(* line that does not parse, or has a member twice, is Garbage.            *)
(***************************************************************************)
EXTENDS Integers, Sequences, FiniteSets, SequencesExt

CONSTANTS
    ReceiptIdOf(_),  \* the receipt_id in a payload, NoId when there is none
    NoId

\* A set of numbers in ascending order, each at the place of its rank.
InOrder(S) ==
    [n \in 1..Cardinality(S) |-> CHOOSE k \in S : Cardinality({j \in S : j <= k}) = n]

Garbage == [kind |-> "garbage"]
Blank == [kind |-> "blank"]

Header(origin, keys, tokens) ==
    [kind |-> "header", known |-> TRUE, origin |-> origin, keys |-> keys, tokens |-> tokens]

\* Each address holds the token that digests to it.
Addressed(refs) == [r \in refs |-> r]
Thumbprints(keys) == [k \in keys |-> k]

Leaf(index, payload, key, sig) ==
    [kind |-> "leaf", index |-> index, payload |-> payload, keyid |-> key,
     sig |-> sig, hash |-> payload]

\* ChainStart and ChainNext: the fold names its origin and its leaf hashes.
Chain(origin, hashes) == <<origin, hashes>>

HeadLine(origin, hashes, key) ==
    LET head == [origin |-> origin, count |-> Len(hashes), chain |-> Chain(origin, hashes)]
    IN  [kind |-> "head", head |-> head, keyid |-> key, sig |-> <<key, head>>]

(* NewWriterWithTokens, AppendSigned for each entry, Close. *)
Write(origin, keys, tokens, entries, key) ==
    LET leaves == [n \in DOMAIN entries |->
                      Leaf(n - 1, entries[n].payload, entries[n].key, entries[n].sig)]
    IN  <<Header(origin, Thumbprints(keys), Addressed(tokens))>>
            \o leaves
            \o <<HeadLine(origin, [n \in DOMAIN entries |-> entries[n].payload], key)>>

OfKind(file, kind) ==
    LET at == InOrder({n \in DOMAIN file : file[n].kind = kind})
    IN  [n \in DOMAIN at |-> file[at[n]]]
Leaves(file) == OfKind(file, "leaf")

Misaddressed(header) == \E r \in DOMAIN header.tokens : header.tokens[r] # r

-----------------------------------------------------------------------------
(* Read: blank lines are passed over, the last head line is the head, and the
   leaves are checked against their own hash and nothing else. *)
Reads(file) ==
    /\ file # << >> /\ file[1].kind = "header"
    /\ \A i \in DOMAIN file :
          /\ file[i].kind # "garbage"
          /\ file[i].kind = "header" => /\ i = 1
                                        /\ file[i].known
                                        /\ DOMAIN file[i].keys # {}
                                        /\ ~Misaddressed(file[i])
          /\ file[i].kind = "leaf" => file[i].hash = file[i].payload
    /\ OfKind(file, "head") # << >>

-----------------------------------------------------------------------------
(* verify_export: a file it cannot read, or its findings in order. *)

Readable(file) ==
    /\ file # << >> /\ file[1].kind = "header" /\ file[1].known
    /\ \A k \in DOMAIN file[1].keys : file[1].keys[k] = k
    /\ ~Misaddressed(file[1])
    /\ \A i \in 2..Len(file) :
          /\ file[i].kind \in {"leaf", "head"}
          /\ file[i].kind = "head" => i = Len(file)

Finding(class, index) == [class |-> class, index |-> index]

Signed(line, payload, keys) == line.keyid \in keys /\ line.sig = <<line.keyid, payload>>

(* Content: the first leaf whose hash or signature does not hold. *)
Unsound(leaves, keys) ==
    {i \in DOMAIN leaves : leaves[i].hash # leaves[i].payload
                           \/ ~Signed(leaves[i], leaves[i].payload, keys)}

(* classify_sequence, on the indices the lines carry. *)
Misplaced(indices) == {p \in DOMAIN indices : indices[p] # p - 1}
Ascending(indices) == \A p \in 1..(Len(indices) - 1) : indices[p] < indices[p + 1]
Missing(indices) == (0..Last(indices)) \ {indices[p] : p \in DOMAIN indices}

SequenceFindings(indices) ==
    IF Misplaced(indices) = {} THEN << >>
    ELSE IF Ascending(indices)
         THEN LET gaps == InOrder(Missing(indices))
              IN  [n \in DOMAIN gaps |-> Finding("drop", gaps[n])]
         ELSE <<Finding("reorder", Min(Misplaced(indices)) - 1)>>

HeadFindingsMutant(file, leaves, keys) ==
    LET heads == OfKind(file, "head")
        line == heads[1]
    IN  IF heads = << >> THEN <<Finding("truncation", -1)>>
        ELSE IF Len(leaves) < line.head.count
             THEN <<Finding("truncation", Len(leaves))>>
        ELSE IF ~Signed(line, line.head, keys) THEN <<Finding("head", -1)>>
        ELSE << >>
HeadFindings(file, leaves, keys) ==
    LET heads == OfKind(file, "head")
        line == heads[1]
        hashes == [n \in DOMAIN leaves |-> leaves[n].hash]
    IN  IF heads = << >> THEN <<Finding("truncation", -1)>>
        ELSE IF Len(leaves) < line.head.count
             THEN <<Finding("truncation", Len(leaves))>>
        ELSE IF line.head.chain # Chain(file[1].origin, hashes)
             THEN <<Finding("chain", -1)>>
        ELSE IF ~Signed(line, line.head, keys) THEN <<Finding("head", -1)>>
        ELSE << >>

Findings(file) ==
    LET leaves == Leaves(file)
        keys == DOMAIN file[1].keys
        indices == [n \in DOMAIN leaves |-> leaves[n].index]
        unsound == Unsound(leaves, keys)
    IN  IF unsound # {} THEN <<Finding("content", leaves[Min(unsound)].index)>>
        ELSE IF SequenceFindings(indices) # << >> THEN SequenceFindings(indices)
        ELSE HeadFindings(file, leaves, keys)

(* find_duplicate_receipt_ids: reported, and no finding. *)
Duplicates(file) ==
    LET leaves == Leaves(file)
        id(n) == ReceiptIdOf(leaves[n].payload)
    IN  {n \in DOMAIN leaves : id(n) # NoId /\ \E m \in 1..(n - 1) : id(m) = id(n)}

Verified(file) == Readable(file) /\ Findings(file) = << >>
=============================================================================
