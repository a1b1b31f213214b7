--------------------------- MODULE EvidenceProofs ---------------------------
(***************************************************************************)
(* What an export, a directory and the index behind them show a reader,    *)
(* for every log, every run and any number of changes a step can make.     *)
(*                                                                         *)
(* The walk: while no row was refused, the table of the transaction is the *)
(* closed form of the leaves walked so far, because the lookup of the loop *)
(* and WalkDup find the same row (LookupIsWalkDup).                        *)
(*                                                                         *)
(* The directory: a note its checkpoint key signed is of as many entries   *)
(* as its root, and a reader knows a checkpoint of this log (DirInv); what *)
(* a verifier accepts, or accuses, follows from the directory alone.       *)
(*                                                                         *)
(* The file: the rows the export was written from are still there          *)
(* (OriginalInv); every line of the file on its way is one an edit can     *)
(* make, so that a signature on it is one its key has made (FileInv); and  *)
(* a file struck once holds no head over more leaves than were written     *)
(* (StrikeInv).                                                            *)
(*                                                                         *)
(* The import: what an imported log holds of the receipts of the export,   *)
(* attempt after attempt (CopyInv): its entries come from the file, and    *)
(* none before those it stood behind (Arrived); its rows are of the first  *)
(* receipts, in their order (Recorded); and what is under way will stay in *)
(* that order (UnderWay).                                                  *)
(***************************************************************************)
EXTENDS EvidenceProps, SequenceTheorems, FiniteSetTheorems, NaturalsInduction,
        WellFoundedInduction, TLAPS

-----------------------------------------------------------------------------
(* The least of a set of naturals. *)

LEMMA LeastExists ==
    ASSUME NEW S \in SUBSET Nat, S # {}
    PROVE  \E x \in S : \A y \in S : x <= y
<1> DEFINE R == {ss \in Nat \X Nat : ss[1] < ss[2]}
<1>1. IsWellFoundedOn(R, Nat)
  BY NatLessThanWellFounded DEF OpToRel
<1>2. PICK x \in S : \A y \in S : ~ (<<y, x>> \in R)
  BY <1>1, WFMin
<1>3. ASSUME NEW y \in S PROVE x <= y
  <2>1. x \in Nat /\ y \in Nat
    OBVIOUS
  <2>2. ~(y < x)
    BY <1>2, <2>1
  <2>3. QED
    BY <2>1, <2>2
<1>4. QED
  BY <1>3

LEMMA LowestIsLeast ==
    ASSUME NEW S \in SUBSET Nat, S # {}
    PROVE  Lowest(S) \in S /\ \A j \in S : Lowest(S) <= j
BY LeastExists DEF Lowest

LEMMA LowestIsThe ==
    ASSUME NEW S \in SUBSET Nat, NEW m \in S, \A j \in S : m <= j
    PROVE  Lowest(S) = m
<1>1. Lowest(S) \in S /\ Lowest(S) <= m
  BY LowestIsLeast
<1>2. m <= Lowest(S)
  BY <1>1
<1>3. m \in Nat /\ Lowest(S) \in Nat
  BY <1>1
<1>4. QED
  BY <1>1, <1>2, <1>3

-----------------------------------------------------------------------------
(* One step of the walk. *)

\* The lookup of the loop, on the rows walked so far, finds what the closed
\* form says: the kept row below the walk, else the first leaf in it.
LEMMA LookupIsWalkDup ==
    ASSUME NEW rs, DOMAIN rs \subseteq Nat \ {0}, NEW ls,
           NEW f \in Nat \ {0}, NEW n \in Nat, f <= n
    PROVE  LookupBefore(Walked(rs, ls, f, n - 1), ReceiptOf[ls[n]], n) = WalkDup(rs, ls, f, n)
<1> DEFINE r == ReceiptOf[ls[n]]
           T == Walked(rs, ls, f, n - 1)
           A == {j \in Canonical(rs, r) : j < f}
           B(k) == {j \in f..(k - 1) : ReceiptOf[ls[j]] = r}
           C == {k \in Canonical(T, r) : k < n}
<1>1. \A j \in f..(n - 1) : /\ j \in DOMAIN T /\ j \in Nat \ {0} /\ j < n
                            /\ T[j].env = ls[j] /\ T[j].duplicateOf = WalkDup(rs, ls, f, j)
  BY DEF Walked
<1>2. \A j \in DOMAIN rs : j < f => j \in DOMAIN T /\ T[j] = rs[j] /\ j < n /\ j \notin f..(n - 1)
  BY DEF Walked
<1>3. \A j \in DOMAIN T : j < n => j \in f..(n - 1) \/ (j \in DOMAIN rs /\ j < f)
  BY DEF Walked
<1>4. \A j \in B(n) : WalkDup(rs, ls, f, j) = First(A \cup B(j))
  BY DEF WalkDup
<1>5. A \subseteq Nat \ {0} /\ \A k : B(k) \subseteq Nat \ {0}
  BY DEF Canonical
<1>6. \A j \in B(n) : B(j) \subseteq Nat /\ (WalkDup(rs, ls, f, j) = 0 <=> A \cup B(j) = {})
  <2> SUFFICES ASSUME NEW j \in B(n) PROVE WalkDup(rs, ls, f, j) = 0 <=> A \cup B(j) = {}
    BY <1>5
  <2> HIDE DEF A, B
  <2>1. A \cup B(j) \subseteq Nat \ {0}
    BY <1>5
  <2>2. A \cup B(j) # {} => Lowest(A \cup B(j)) \in Nat \ {0}
    BY <2>1, LowestIsLeast
  <2>3. QED
    BY <2>2, <1>4 DEF First
<1>7. C = A \cup {j \in B(n) : A \cup B(j) = {}}
  <2>1. ASSUME NEW k \in C PROVE k \in A \/ (k \in B(n) /\ A \cup B(k) = {})
    <3>1. k \in DOMAIN T /\ ReceiptOf[T[k].env] = r /\ T[k].duplicateOf = 0 /\ k < n
      BY <2>1 DEF Canonical
    <3>2. CASE k \in f..(n - 1)
      <4>1. k \in B(n)
        BY <3>1, <3>2, <1>1
      <4>2. WalkDup(rs, ls, f, k) = 0
        BY <3>1, <3>2, <1>1
      <4>3. QED
        BY <4>1, <4>2, <1>6
    <3>3. CASE k \in DOMAIN rs /\ k < f
      BY <3>1, <3>3, <1>2 DEF Canonical
    <3>4. QED
      BY <3>1, <3>2, <3>3, <1>3
  <2>2. ASSUME NEW k \in A PROVE k \in C
    BY <2>2, <1>2 DEF Canonical
  <2>3. ASSUME NEW k \in B(n), A \cup B(k) = {} PROVE k \in C
    <3>1. k \in DOMAIN T /\ k < n /\ T[k].env = ls[k] /\ T[k].duplicateOf = 0
      BY <2>3, <1>1, <1>6
    <3>2. QED
      BY <3>1, <2>3 DEF Canonical
  <2> HIDE DEF A, B, C
  <2>4. QED
    BY <2>1, <2>2, <2>3
<1>8. LookupBefore(T, r, n) = First(C)
  BY DEF LookupBefore
<1>9. WalkDup(rs, ls, f, n) = First(A \cup B(n))
  BY DEF WalkDup
<1>10. \A j \in A : \A k \in B(n) : j < k
  BY <1>5
<1>11. \A k \in B(n) : \A j \in B(k) : j \in B(n) /\ j < k
  OBVIOUS
<1>12. \A j, k \in B(n) : j < k => j \in B(k)
  OBVIOUS
<1> HIDE DEF r, T, A, B, C
<1>13. CASE A # {}
  <2>1. C = A
    BY <1>7, <1>13
  <2>2. Lowest(A) \in A /\ \A j \in A : Lowest(A) <= j
    BY <1>5, <1>13, LowestIsLeast
  <2>3. \A j \in B(n) : Lowest(A) <= j
    <3> SUFFICES ASSUME NEW j \in B(n) PROVE Lowest(A) <= j
      OBVIOUS
    <3>1. Lowest(A) < j
      BY <2>2, <1>10
    <3>2. Lowest(A) \in Nat /\ j \in Nat
      BY <2>2, <1>5
    <3>3. QED
      BY <3>1, <3>2
  <2>4. Lowest(A \cup B(n)) = Lowest(A)
    BY <2>2, <2>3, <1>5, LowestIsThe
  <2>5. QED
    BY <2>1, <2>4, <1>8, <1>9, <1>13 DEF First, r, T
<1>14. CASE A = {} /\ B(n) = {}
  BY <1>14, <1>7, <1>8, <1>9 DEF r, T
<1>15. CASE A = {} /\ B(n) # {}
  <2> DEFINE m == Lowest(B(n))
  <2>1. m \in B(n) /\ \A j \in B(n) : m <= j
    BY <1>5, <1>15, LowestIsLeast
  <2> HIDE DEF m
  <2>2. A \cup B(m) = {}
    BY <2>1, <1>11, <1>15, <1>5
  <2>3. \A j \in B(n) : A \cup B(j) = {} => j = m
    <3> SUFFICES ASSUME NEW j \in B(n), A \cup B(j) = {} PROVE j = m
      OBVIOUS
    <3>1. ~(m < j)
      BY <2>1, <1>12
    <3>2. m \in Nat /\ j \in Nat /\ m <= j
      BY <2>1, <1>5
    <3>3. QED
      BY <3>1, <3>2
  <2>4. C = {m}
    BY <1>7, <1>15, <2>1, <2>2, <2>3
  <2>5. m \in Nat
    BY <2>1, <1>5
  <2>6. Lowest({m}) = m
    BY <2>5, LowestIsThe
  <2>7. First(C) = m /\ First(B(n)) = m
    BY <2>4, <2>6, <1>15 DEF First, m
  <2>8. QED
    BY <2>7, <1>8, <1>9, <1>15 DEF r, T
<1>16. QED
  BY <1>13, <1>14, <1>15

-----------------------------------------------------------------------------
(* The walk. *)

\* The input of a walk: a table and a range, and where the walk is in it.
WalkRange ==
    /\ DOMAIN before \subseteq Nat \ {0}
    /\ before = [k \in DOMAIN before |-> before[k]]
    /\ from \in Nat \ {0} /\ size \in Nat

\* What the transaction holds: the closed form of the leaves walked so far, or
\* nothing after a refusal that the closed form has too.
WalkInv ==
    /\ WalkRange
    /\ ok \in BOOLEAN
    /\ ok => /\ i \in from..(size + 1)
             /\ table = Walked(before, leaves, from, i - 1)
             /\ ~WalkRefused(before, leaves, from, i - 1)
    /\ ~ok => table = before /\ WalkRefused(before, leaves, from, size)

\* A walk that has not begun.
Unwalked == WalkRange /\ from <= size + 1 /\ i = from /\ table = before /\ ok = TRUE

LEMMA WalkBegins == Unwalked => WalkInv
<1> SUFFICES ASSUME Unwalked PROVE WalkInv
  OBVIOUS
<1>1. from..(from - 1) = {} /\ i = from /\ i \in from..(size + 1)
  BY DEF Unwalked, WalkRange
<1>2. ~WalkRefused(before, leaves, from, from - 1)
  BY <1>1 DEF WalkRefused
<1>3. Walked(before, leaves, from, from - 1) = [k \in DOMAIN before |-> before[k]]
  BY <1>1 DEF Walked
<1>4. QED
  BY <1>1, <1>2, <1>3 DEF Unwalked, WalkInv, WalkRange

LEMMA WalkGoesOn == WalkInv /\ [RecordLeaf]_walk => WalkInv'
<1> SUFFICES ASSUME WalkInv, [RecordLeaf]_walk PROVE WalkInv'
  OBVIOUS
<1>1. CASE UNCHANGED walk
  BY <1>1 DEF walk, WalkInv, WalkRange
<1>2. CASE RecordLeaf
  <2>1. ok /\ i \in from..size /\ i \in Nat /\ i - 1 \in Nat /\ from <= i
    BY <1>2 DEF RecordLeaf, WalkInv, WalkRange
  <2> DEFINE dup == WalkDup(before, leaves, from, i)
             T == Walked(before, leaves, from, i - 1)
  <2>2. table = T /\ RecordedDup = dup
    BY <2>1, LookupIsWalkDup DEF WalkInv, WalkRange, RecordedDup
  <2>3. dup = 0 => \A k \in Canonical(T, ReceiptOf[leaves[i]]) : ~(k < i)
    <3> DEFINE S == {k \in Canonical(T, ReceiptOf[leaves[i]]) : k < i}
    <3>1. S \subseteq Nat \ {0}
      BY <2>1 DEF Canonical, Walked, WalkInv, WalkRange
    <3>2. dup = First(S)
      BY <2>2 DEF RecordedDup, LookupBefore
    <3> HIDE DEF S, dup
    <3>3. S # {} => First(S) # 0
      BY <3>1, LowestIsLeast DEF First
    <3>4. dup = 0 => S = {}
      BY <3>2, <3>3
    <3>5. QED
      BY <3>4 DEF S
  <2>4. /\ \A k : k \in DOMAIN T <=> (k \in DOMAIN before \/ k \in from..(i - 1))
        /\ \A k \in DOMAIN T : k \in Nat /\ (k > i => k \in DOMAIN before /\ T[k] = before[k])
        /\ \A k \in DOMAIN before : k > i => k \in DOMAIN T /\ T[k] = before[k]
    BY <2>1 DEF Walked, WalkInv, WalkRange
  <2>5. Refused(table, i, leaves[i], dup) <=>
           dup = 0 /\ \E k \in Canonical(before, ReceiptOf[leaves[i]]) : k > i
    <3> DEFINE r == ReceiptOf[leaves[i]]
    <3>1. ASSUME dup = 0, NEW k \in Canonical(T, r), k # i
          PROVE  k \in Canonical(before, r) /\ k > i
      <4>1. k > i
        BY <3>1, <2>1, <2>3, <2>4 DEF Canonical
      <4>2. QED
        BY <4>1, <3>1, <2>4 DEF Canonical
    <3>2. ASSUME NEW k \in Canonical(before, r), k > i PROVE k \in Canonical(T, r) /\ k # i
      BY <3>2, <2>1, <2>4 DEF Canonical
    <3> HIDE DEF T, r, dup
    <3>3. QED
      BY <3>1, <3>2, <2>2 DEF Refused, r
  <2>6. WalkRange' /\ leaves' = leaves /\ before' = before /\ from' = from /\ size' = size
    BY <1>2 DEF RecordLeaf, WalkInv, WalkRange
  <2>7. CASE Refused(table, i, leaves[i], dup)
    <3>1. ok' = FALSE /\ table' = before
      BY <1>2, <2>2, <2>7 DEF RecordLeaf
    <3>2. WalkRefused(before, leaves, from, size)
      BY <2>1, <2>5, <2>7 DEF WalkRefused
    <3>3. QED
      BY <3>1, <3>2, <2>6 DEF WalkInv
  <2>8. CASE ~Refused(table, i, leaves[i], dup)
    <3>1. ok' = TRUE /\ i' = i + 1 /\ table' = Upsert(T, i, leaves[i], dup)
      BY <1>2, <2>1, <2>2, <2>8 DEF RecordLeaf
    <3>2. ~WalkRefused(before, leaves, from, i)
      <4>1. \A k \in from..i : k \in from..(i - 1) \/ k = i
        BY <2>1 DEF WalkInv, WalkRange
      <4>2. QED
        BY <4>1, <2>1, <2>5, <2>8 DEF WalkRefused, WalkInv
    <3>3. Upsert(T, i, leaves[i], dup) = Walked(before, leaves, from, i)
      <4>1. \A k : k \in from..i <=> k \in from..(i - 1) \/ k = i
        BY <2>1 DEF WalkInv, WalkRange
      <4>2. DOMAIN T \cup {i} = DOMAIN before \cup from..i
        BY <2>4, <4>1
      <4>3. ASSUME NEW k \in DOMAIN before \cup from..i
            PROVE  (IF k = i THEN [env |-> leaves[i], duplicateOf |-> dup] ELSE T[k]) =
                   (IF k \in from..i
                    THEN [env |-> leaves[k], duplicateOf |-> WalkDup(before, leaves, from, k)]
                    ELSE before[k])
        <5>1. CASE k = i
          BY <5>1, <4>1
        <5>2. CASE k # i
          <6>1. k \in DOMAIN before \cup from..(i - 1)
            BY <4>1, <5>2
          <6>2. T[k] = IF k \in from..(i - 1)
                       THEN [env |-> leaves[k], duplicateOf |-> WalkDup(before, leaves, from, k)]
                       ELSE before[k]
            BY <6>1 DEF Walked
          <6>3. QED
            BY <6>2, <5>2, <4>1
        <5>3. QED
          BY <5>1, <5>2
      <4> HIDE DEF T, dup
      <4>4. QED
        BY <4>2, <4>3 DEF Upsert, Walked
    <3>4. i' \in from'..(size' + 1) /\ i' - 1 = i
      BY <3>1, <2>1, <2>6 DEF WalkInv, WalkRange
    <3>5. QED
      BY <3>1, <3>2, <3>3, <3>4, <2>6 DEF WalkInv
  <2>9. QED
    BY <2>7, <2>8
<1>3. QED
  BY <1>1, <1>2

LEMMA WalkEnds == WalkInv => LoopIsReplay
<1> SUFFICES ASSUME WalkInv, Finished
             PROVE  [ok |-> ok, rows |-> table] = Replay(before, leaves, from, size)
  BY DEF LoopIsReplay
<1>1. CASE ok
  <2>1. i - 1 = size
    BY <1>1 DEF WalkInv, WalkRange, Finished
  <2>2. QED
    BY <1>1, <2>1 DEF WalkInv, Replay
<1>2. CASE ~ok
  BY <1>2 DEF WalkInv, Replay
<1>3. QED
  BY <1>1, <1>2

-----------------------------------------------------------------------------
(* The walk within Evidence. *)

\* A log, a checkpoint over part of it, and a table an ingest left behind.
InputOK ==
    /\ cast \in DOMAIN Casts
    /\ leaves \in Seq(Envelopes) /\ Len(leaves) \in Nat
    /\ size \in 0..Len(leaves)
    /\ \A k \in DOMAIN before : k \in 1..Len(leaves) /\ before[k].env = leaves[k]
    /\ \A k, l \in DOMAIN before :
          /\ before[k].duplicateOf = 0 /\ before[l].duplicateOf = 0
          /\ ReceiptOf[before[k].env] = ReceiptOf[before[l].env]
          => k = l

\* What an ingest leaves is a row per recorded leaf, with one canonical row to
\* a receipt.
LEMMA TablesAreRows ==
    ASSUME NEW ls, NEW t \in Tables(ls)
    PROVE  /\ DOMAIN t \subseteq 1..Len(ls) /\ t = [k \in DOMAIN t |-> t[k]]
           /\ \A k \in DOMAIN t : t[k].env = ls[k]
           /\ \A k, l \in DOMAIN t :
                 /\ t[k].duplicateOf = 0 /\ t[l].duplicateOf = 0
                 /\ ReceiptOf[t[k].env] = ReceiptOf[t[l].env]
                 => k = l
<1>1. PICK dup \in UNION {[D -> 0..Len(ls)] : D \in SUBSET (1..Len(ls))} :
         /\ t = [k \in DOMAIN dup |-> [env |-> ls[k], duplicateOf |-> dup[k]]]
         /\ \A k, l \in DOMAIN dup :
               (dup[k] = 0 /\ dup[l] = 0 /\ ReceiptOf[ls[k]] = ReceiptOf[ls[l]]) => k = l
  BY DEF Tables
<1>2. DOMAIN dup \subseteq 1..Len(ls)
  OBVIOUS
<1>3. QED
  BY <1>1, <1>2

LEMMA InitUnwalked ==
    EvidenceInit => Unwalked /\ InputOK
<1> SUFFICES ASSUME EvidenceInit PROVE Unwalked /\ InputOK
  OBVIOUS
<1>1. cast \in DOMAIN Casts /\ leaves \in Seq(Envelopes) /\ Len(leaves) \in Nat
  BY EvidenceAssumption DEF EvidenceInit, WalkInit, Play
<1>2. CASE Play.tables /\ Init
  <2>1. PICK n \in 0..MaxLeaves :
           /\ leaves \in [1..n -> Envelopes] /\ before \in Tables(leaves)
           /\ size \in 0..n /\ from \in 1..(size + 1)
           /\ i = from /\ table = before /\ ok = TRUE
    BY <1>2 DEF Init
  <2>2. n \in Nat /\ Len(leaves) = n
    BY <2>1, LoopAssumption
  <2>3. DOMAIN before \subseteq Nat \ {0}
    BY <2>1, <2>2, TablesAreRows
  <2>4. Unwalked
    BY <2>1, <2>2, <2>3, TablesAreRows DEF Unwalked, WalkRange
  <2>5. InputOK
    BY <1>1, <2>1, <2>2, TablesAreRows DEF InputOK
  <2>6. QED
    BY <2>4, <2>5
<1>3. CASE ~Play.tables /\ size \in Play.published /\ before = << >> /\ table = << >>
           /\ from = 1 /\ i = 1 /\ ok = TRUE
  <2>1. size \in 0..Len(leaves)
    BY <1>3, EvidenceAssumption DEF EvidenceInit, WalkInit, Play
  <2>2. DOMAIN before = {} /\ before = [k \in DOMAIN before |-> before[k]]
    BY <1>3
  <2>3. QED
    BY <1>1, <1>3, <2>1, <2>2 DEF Unwalked, WalkRange, InputOK
<1>4. QED
  BY <1>2, <1>3 DEF EvidenceInit, WalkInit

\* Only the loop moves the walk, and nothing changes its input.
LEMMA OnlyTheLoopWalks ==
    ASSUME [EvidenceNext]_evars
    PROVE  [RecordLeaf]_walk /\ UNCHANGED <<cast, leaves, before, from, size>>
<1>1. CASE UNCHANGED evars
  BY <1>1 DEF evars, walk
<1>2. CASE Catch
  BY <1>2 DEF Catch, RecordLeaf
<1>3. CASE \E k \in Signers : (Play.keyed /\ RegisterKey(k)) \/ RegisterTorn(k)
  BY <1>3 DEF RegisterKey, RegisterTorn, walk
<1>4. CASE DropIndex \/ Reindex \/ OpenLog \/ Rot \/ Restore \/ Rewrite \/ Prune
  BY <1>4 DEF DropIndex, Reindex, OpenLog, Rot, Restore, Rewrite, Prune, walk
<1>5. CASE \E run \in Runs : Export(run)
  BY <1>5 DEF Export, walk
<1>6. CASE Lose \/ Cut \/ Swap \/ Repeat \/ Change
  BY <1>6 DEF Lose, Cut, Swap, Repeat, Change, Strike, walk
<1>7. CASE ImportOpen \/ ImportBegin \/ ImportIntegrate \/ ImportWait \/ ImportEnd
           \/ ImportKilled \/ ImportReindex
  BY <1>7 DEF ImportOpen, ImportBegin, ImportIntegrate, ImportWait, ImportEnd,
              ImportKilled, ImportReindex, walk
<1>8. QED
  BY <1>1, <1>2, <1>3, <1>4, <1>5, <1>6, <1>7 DEF EvidenceNext

LEMMA WalkHolds == EvidenceSpec => [](InputOK /\ WalkInv)
<1>1. EvidenceInit => InputOK /\ WalkInv
  BY InitUnwalked, WalkBegins
<1>2. (InputOK /\ WalkInv) /\ [EvidenceNext]_evars => (InputOK /\ WalkInv)'
  <2> SUFFICES ASSUME InputOK, WalkInv, [EvidenceNext]_evars PROVE (InputOK /\ WalkInv)'
    OBVIOUS
  <2>1. WalkInv'
    BY OnlyTheLoopWalks, WalkGoesOn
  <2>2. InputOK'
    BY OnlyTheLoopWalks DEF InputOK
  <2>3. QED
    BY <2>1, <2>2
<1>3. QED
  BY <1>1, <1>2, PTL DEF EvidenceSpec

\* The loop of followDB ends with the table and the verdict of the closed form
\* that LogService uses, for every log, every table an ingest can have left and
\* every range of the walk.
THEOREM LoopIsClosedForm == EvidenceSpec => []LoopIsReplay
<1>1. InputOK /\ WalkInv => LoopIsReplay
  BY WalkEnds
<1>2. QED
  BY <1>1, WalkHolds, PTL

-----------------------------------------------------------------------------
(* The directory and the checkpoint the reader kept. *)

EntrySet == {Entry(e) : e \in Envelopes}

\* What holds of the note whatever the directory suffered: its root lists
\* entries somebody could log, and under the log's key its size is theirs.
DirInv ==
    /\ dir = [note |-> dir.note, entries |-> dir.entries, hashes |-> dir.hashes]
    /\ dir.note = [origin |-> dir.note.origin, size |-> dir.note.size,
                   root |-> dir.note.root, signer |-> dir.note.signer]
    /\ dir.note.root \in Seq(EntrySet)
    /\ dir.note.size \in Int /\ dir.note.size <= size
    /\ dir.note.signer = CpKey => dir.note.size = Len(dir.note.root)
    /\ known # NoCheckpoint =>
          \E n \in 0..size : known = Note(Origin, Entries(SubSeq(leaves, 1, n)), CpKey)

LEMMA EntriesOfLog ==
    ASSUME NEW ls \in Seq(Envelopes)
    PROVE  /\ Entries(ls) \in Seq(EntrySet) /\ Len(Entries(ls)) = Len(ls)
           /\ \A n \in 1..Len(ls) : Entries(ls)[n] = Entry(ls[n])
BY DEF Entries, EntrySet

LEMMA PrefixOfLog ==
    ASSUME NEW S, NEW ls \in Seq(S), NEW n \in 0..Len(ls)
    PROVE  /\ SubSeq(ls, 1, n) \in Seq(S) /\ Len(SubSeq(ls, 1, n)) = n
           /\ \A j \in 1..n : SubSeq(ls, 1, n)[j] = ls[j]
OBVIOUS

\* A directory the log has published satisfies it.
LEMMA PublishedNote ==
    ASSUME NEW ls \in Seq(Envelopes), NEW n \in 0..Len(ls), n <= size, size \in Nat,
           NEW d, d = Directory(Origin, Entries(ls), n, CpKey)
    PROVE  /\ d = [note |-> d.note, entries |-> d.entries, hashes |-> d.hashes]
           /\ d.note = [origin |-> d.note.origin, size |-> d.note.size,
                        root |-> d.note.root, signer |-> d.note.signer]
           /\ d.note.root \in Seq(EntrySet)
           /\ d.note.size \in Int /\ d.note.size <= size
           /\ d.note.size = Len(d.note.root)
<1>1. Entries(ls) \in Seq(EntrySet) /\ n \in 0..Len(Entries(ls))
  BY EntriesOfLog
<1>2. SubSeq(Entries(ls), 1, n) \in Seq(EntrySet) /\ Len(SubSeq(Entries(ls), 1, n)) = n
  BY <1>1, PrefixOfLog
<1>3. d.note = Note(Origin, SubSeq(Entries(ls), 1, n), CpKey)
  BY DEF Directory
<1>4. QED
  BY <1>2, <1>3 DEF Directory, Note

LEMMA DirHolds == EvidenceSpec => []DirInv
<1>1. EvidenceInit => DirInv
  <2> SUFFICES ASSUME EvidenceInit PROVE DirInv
    OBVIOUS
  <2>1. leaves \in Seq(Envelopes) /\ size \in 0..Len(leaves) /\ size \in Nat
    BY InitUnwalked DEF InputOK
  <2>2. dir = Directory(Origin, Entries(leaves), size, CpKey)
    BY DEF EvidenceInit
  <2>3. known # NoCheckpoint =>
           \E n \in 0..size : known = Note(Origin, Entries(SubSeq(leaves, 1, n)), CpKey)
    BY DEF EvidenceInit
  <2>4. QED
    BY <2>1, <2>2, <2>3, PublishedNote DEF DirInv
<1>2. InputOK /\ DirInv /\ [EvidenceNext]_evars => DirInv'
  <2> SUFFICES ASSUME InputOK, DirInv, [EvidenceNext]_evars PROVE DirInv'
    OBVIOUS
  <2>1. UNCHANGED <<leaves, size>> /\ leaves \in Seq(Envelopes) /\ size \in 0..Len(leaves)
        /\ size \in Nat
    BY OnlyTheLoopWalks DEF InputOK
  <2>2. CASE UNCHANGED <<dir, known>>
    BY <2>1, <2>2 DEF DirInv
  <2>3. CASE Rot
    <3>1. known' = known
      BY <2>3 DEF Rot
    <3>2. CASE \/ \E files \in DamagedFiles(dir.entries) : dir' = [dir EXCEPT !.entries = files]
               \/ \E files \in DamagedFiles(dir.hashes) : dir' = [dir EXCEPT !.hashes = files]
      <4>1. /\ dir' = [note |-> dir'.note, entries |-> dir'.entries, hashes |-> dir'.hashes]
            /\ dir'.note = dir.note
        BY <3>2 DEF DirInv
      <4>2. QED
        BY <4>1, <3>1, <2>1 DEF DirInv
    <3>3. CASE \E n \in {[dir.note EXCEPT !.size = @ - 1, !.signer = Stranger],
                         [dir.note EXCEPT !.root = << >>, !.signer = Stranger],
                         [dir.note EXCEPT !.origin = Elsewhere]} :
                  dir' = [dir EXCEPT !.note = n]
      <4>1. PICK n \in {[dir.note EXCEPT !.size = @ - 1, !.signer = Stranger],
                        [dir.note EXCEPT !.root = << >>, !.signer = Stranger],
                        [dir.note EXCEPT !.origin = Elsewhere]} :
               dir' = [dir EXCEPT !.note = n]
        BY <3>3
      <4>2. /\ dir' = [note |-> dir'.note, entries |-> dir'.entries, hashes |-> dir'.hashes]
            /\ dir'.note = n
        BY <4>1 DEF DirInv
      <4>3. Stranger # CpKey
        BY EvidenceAssumption
      <4>4. /\ n = [origin |-> n.origin, size |-> n.size, root |-> n.root, signer |-> n.signer]
            /\ n.root \in Seq(EntrySet)
            /\ n.size \in Int /\ n.size <= size
            /\ n.signer = CpKey => n.size = Len(n.root)
        <5> DEFINE note == dir.note
        <5>0. /\ note = [origin |-> note.origin, size |-> note.size,
                         root |-> note.root, signer |-> note.signer]
              /\ note.root \in Seq(EntrySet)
              /\ note.size \in Int /\ note.size <= size /\ size \in Nat
              /\ note.signer = CpKey => note.size = Len(note.root)
          BY <2>1 DEF DirInv
        <5> HIDE DEF note
        <5>1. CASE n = [note EXCEPT !.size = @ - 1, !.signer = Stranger]
          <6>1. n = [origin |-> note.origin, size |-> note.size - 1,
                     root |-> note.root, signer |-> Stranger]
            BY <5>0, <5>1
          <6>2. QED
            BY <5>0, <6>1, <4>3
        <5>2. CASE n = [note EXCEPT !.root = << >>, !.signer = Stranger]
          <6>1. n = [origin |-> note.origin, size |-> note.size,
                     root |-> << >>, signer |-> Stranger]
            BY <5>0, <5>2
          <6>2. << >> \in Seq(EntrySet)
            OBVIOUS
          <6>3. QED
            BY <5>0, <6>1, <6>2, <4>3
        <5>3. CASE n = [note EXCEPT !.origin = Elsewhere]
          <6>1. n = [origin |-> Elsewhere, size |-> note.size,
                     root |-> note.root, signer |-> note.signer]
            BY <5>0, <5>3
          <6>2. QED
            BY <5>0, <6>1
        <5>4. QED
          BY <4>1, <5>1, <5>2, <5>3 DEF note
      <4>5. QED
        BY <4>2, <4>4, <3>1, <2>1 DEF DirInv
    <3>4. QED
      BY <2>3, <3>2, <3>3 DEF Rot
  <2>4. CASE Restore
    <3>1. PICK m \in 0..(size - 1) :
             dir' = Directory(Origin, Entries(SubSeq(leaves, 1, m)), m, CpKey)
      BY <2>4 DEF Restore
    <3>2. m \in 0..Len(leaves)
      BY <2>1
    <3>3. SubSeq(leaves, 1, m) \in Seq(Envelopes) /\ m \in 0..Len(SubSeq(leaves, 1, m)) /\ m <= size
      BY <2>1, <3>2, PrefixOfLog
    <3>4. known' = known
      BY <2>4 DEF Restore
    <3>5. QED
      BY <3>1, <3>3, <3>4, <2>1, PublishedNote DEF DirInv
  <2>5. CASE Rewrite
    <3>1. PICK n \in 1..size, e \in Envelopes :
             dir' = Directory(Origin, Entries([leaves EXCEPT ![n] = e]), size, CpKey)
      BY <2>5 DEF Rewrite
    <3>2. [leaves EXCEPT ![n] = e] \in Seq(Envelopes) /\ Len([leaves EXCEPT ![n] = e]) = Len(leaves)
      BY <2>1
    <3>3. size \in 0..Len([leaves EXCEPT ![n] = e]) /\ size <= size
      BY <3>2, <2>1
    <3>4. known' = known
      BY <2>5 DEF Rewrite
    <3> DEFINE ls == [leaves EXCEPT ![n] = e]
    <3> HIDE DEF ls
    <3>5. QED
      BY <3>1, <3>2, <3>3, <3>4, <2>1, PublishedNote DEF DirInv, ls
  <2>6. [EvidenceNext]_evars => UNCHANGED <<dir, known>> \/ Rot \/ Restore \/ Rewrite
    BY DEF evars, dirVars, EvidenceNext, Catch, RegisterKey, RegisterTorn, DropIndex, Reindex,
           OpenLog, Prune, Export, Lose, Cut, Swap, Repeat, Change, Strike, ImportOpen,
           ImportBegin, ImportIntegrate, ImportWait, ImportEnd, ImportKilled, ImportReindex
  <2>7. QED
    BY <2>2, <2>3, <2>4, <2>5, <2>6
<1>3. QED
  BY <1>1, <1>2, WalkHolds, PTL DEF EvidenceSpec

\* The verifier of a directory: what it passes holds every entry the note
\* signs, and every entry the reader's own checkpoint covers as first logged.
LEMMA PassedDirIsWhole == InputOK /\ DirInv => DirVerifiedIsWhole
<1> SUFFICES ASSUME InputOK, DirInv, NEW ks \in Readers, Judged(ks) = << >>
             PROVE  /\ Covered(dir.entries, dir.note.size) = dir.note.root
                    /\ dir.note.origin = Origin /\ dir.note.signer = CpKey
                    /\ known # NoCheckpoint =>
                          \A n \in 1..known.size : dir.note.root[n] = Entry(leaves[n])
  BY DEF DirVerifiedIsWhole
<1> DEFINE note == dir.note
           entry == EntryProblem(dir.entries, note.size, ks)
           whole == Covered(dir.entries, note.size) = note.root
<1>1. /\ note.signer = CpKey /\ note.origin = Origin
      /\ Usable(known, note, [key |-> CpKey, name |-> Origin])
      /\ ~Stale(known, note)
      /\ ~Forked(known, note)
      /\ whole
  <2>1. \A p : <<p>> # << >>
    OBVIOUS
  <2> HIDE DEF entry
  <2>2. QED
    BY <2>1 DEF Judged, DirProblem, entry
<1>2. ASSUME known # NoCheckpoint, NEW n \in 1..known.size
      PROVE  note.root[n] = Entry(leaves[n])
  <2>1. PICK m \in 0..size : known = Note(Origin, Entries(SubSeq(leaves, 1, m)), CpKey)
    BY <1>2 DEF DirInv
  <2>2. leaves \in Seq(Envelopes) /\ m \in 0..Len(leaves)
    BY DEF InputOK
  <2>3. /\ SubSeq(leaves, 1, m) \in Seq(Envelopes) /\ Len(SubSeq(leaves, 1, m)) = m
        /\ \A j \in 1..m : SubSeq(leaves, 1, m)[j] = leaves[j]
    BY <2>2, PrefixOfLog
  <2>4. known.size = m /\ known.root = Entries(SubSeq(leaves, 1, m))
        /\ \A j \in 1..m : known.root[j] = Entry(leaves[j])
    BY <2>1, <2>3, EntriesOfLog DEF Note
  <2>5. m <= note.size /\ known.root = SubSeq(note.root, 1, m)
    BY <1>1, <1>2, <2>2, <2>4 DEF Stale, Forked, DirInv
  <2>6. note.root \in Seq(EntrySet) /\ m \in 0..Len(note.root)
    BY <1>1, <2>5 DEF DirInv
  <2>7. \A j \in 1..m : SubSeq(note.root, 1, m)[j] = note.root[j]
    BY <2>6, PrefixOfLog
  <2>8. QED
    BY <2>4, <2>5, <2>7
<1>3. QED
  BY <1>1, <1>2

THEOREM PassedDirectoryIsWhole == EvidenceSpec => []DirVerifiedIsWhole
BY PassedDirIsWhole, WalkHolds, DirHolds, PTL

-----------------------------------------------------------------------------
(* Tiles. *)

LEMMA Division ==
    ASSUME NEW x \in Nat, NEW w \in Nat \ {0}
    PROVE  x \div w \in Nat /\ x % w \in 0..(w - 1) /\ x = w * (x \div w) + (x % w)
<1>1. x \div w \in Int /\ x \div w >= 0
  OBVIOUS
<1>2. x % w \in Int /\ 0 <= x % w
  OBVIOUS
<1>3. x % w < w
  OBVIOUS
<1> DEFINE q == x \div w
           r == x % w
<1>4. x = w * q + r
  OBVIOUS
<1>5. q \in Nat /\ r \in 0..(w - 1)
  <2> HIDE DEF q, r
  <2>1. q \in Int /\ q >= 0 /\ r \in Int /\ 0 <= r /\ r < w
    BY <1>1, <1>2, <1>3 DEF q, r
  <2>2. QED
    BY <2>1
<1> HIDE DEF q, r
<1>6. q \in Nat /\ r \in 0..(w - 1) /\ x = w * q + r
  BY <1>4, <1>5
<1>7. QED
  BY <1>6 DEF q, r

LEMMA Multiples ==
    ASSUME NEW w \in Nat, NEW a \in Nat, NEW b \in Nat, a < b
    PROVE  w * a + w <= w * b
<1>1. PICK k \in Nat : b = a + 1 + k
  <2>1. b - a - 1 \in Nat /\ b = a + 1 + (b - a - 1)
    OBVIOUS
  <2>2. QED
    BY <2>1
<1>2. w * b = w * a + w + w * k
  BY <1>1
<1>3. w * k \in Nat /\ w * a \in Nat
  OBVIOUS
<1>4. QED
  BY <1>2, <1>3

LEMMA DivisionIs ==
    ASSUME NEW w \in Nat \ {0}, NEW q \in Nat, NEW r \in 0..(w - 1),
           NEW x, x = w * q + r
    PROVE  x \div w = q /\ x % w = r
<1> DEFINE qq == x \div w
           rr == x % w
<1>1. x \in Nat
  OBVIOUS
<1>2. qq \in Nat /\ rr \in 0..(w - 1) /\ w * q + r = w * qq + rr
  BY <1>1, Division
<1> HIDE DEF qq, rr
<1>3. w * q \in Nat /\ w * qq \in Nat /\ r \in Int /\ rr \in Int /\ 0 <= r /\ r < w
      /\ 0 <= rr /\ rr < w
  BY <1>2
<1>4. ~(q < qq) /\ ~(qq < q)
  <2>1. (q < qq => w * q + w <= w * qq) /\ (qq < q => w * qq + w <= w * q)
    BY <1>2, Multiples
  <2> DEFINE m == w * q
             mm == w * qq
  <2>2. m \in Nat /\ mm \in Nat /\ m + r = mm + rr
        /\ (q < qq => m + w <= mm) /\ (qq < q => mm + w <= m)
    BY <1>2, <1>3, <2>1
  <2> HIDE DEF m, mm
  <2>3. QED
    BY <2>2, <1>3
<1>5. q = qq
  BY <1>4, <1>2
<1>6. r = rr
  <2> DEFINE m == w * q
  <2>1. m \in Nat /\ m + r = m + rr
    BY <1>2, <1>3, <1>5
  <2> HIDE DEF m
  <2>2. QED
    BY <2>1, <1>3
<1>7. QED
  BY <1>5, <1>6 DEF qq, rr

LEMMA MinIsLeast ==
    ASSUME NEW S \in SUBSET Nat, S # {}
    PROVE  Min(S) \in S /\ \A j \in S : Min(S) <= j
BY LeastExists DEF Min

LEMMA MinOfTwo ==
    ASSUME NEW x \in Int, NEW y \in Int
    PROVE  Min({x, y}) = IF x <= y THEN x ELSE y
BY DEF Min

LEMMA MaxIsMember ==
    ASSUME NEW w \in Nat, NEW S \in SUBSET (0..w), S # {}
    PROVE  Max(S) \in S
<1> DEFINE T == {w - x : x \in S}
<1>1. T \in SUBSET Nat /\ T # {}
  <2>1. \A x \in S : w - x \in Nat
    OBVIOUS
  <2>2. QED
    BY <2>1
<1>2. PICK t \in T : \A u \in T : t <= u
  BY <1>1, LeastExists
<1>3. PICK x \in S : t = w - x
  OBVIOUS
<1>4. \A y \in S : x >= y
  <2> SUFFICES ASSUME NEW y \in S PROVE x >= y
    OBVIOUS
  <2>1. w - x <= w - y
    BY <1>2, <1>3
  <2>2. x \in 0..w /\ y \in 0..w
    OBVIOUS
  <2>3. QED
    BY <2>1, <2>2
<1>5. QED
  BY <1>4 DEF Max

\* What may lie in a file: entries of the log and what stands in their place.
Stuff == EntrySet \cup Misfits

\* A file of width w holds w entries, or lost the last of them.
TilesTyped(files) ==
    \A b \in DOMAIN files :
        /\ DOMAIN files[b] \subseteq 1..TileWidth
        /\ \A w \in DOMAIN files[b] :
              /\ files[b][w] \in Seq(Stuff)
              /\ Len(files[b][w]) \in {w - 1, w}

LEMMA PublishedTiles ==
    ASSUME NEW entries \in Seq(Stuff)
    PROVE  TilesTyped(Tiles(entries))
<1> DEFINE W == TileWidth
           files == Tiles(entries)
<1>1. W \in Nat \ {0} /\ Len(entries) \in Nat
  BY TileAssumption
<1> SUFFICES ASSUME NEW b \in {n \div W : n \in 0..(Len(entries) - 1)}
             PROVE  /\ DOMAIN files[b] \subseteq 1..W
                    /\ \A w \in DOMAIN files[b] :
                          files[b][w] \in Seq(Stuff) /\ Len(files[b][w]) \in {w - 1, w}
  BY DEF TilesTyped, Tiles
<1>2. b \in Nat
  <2>1. PICK n \in 0..(Len(entries) - 1) : b = n \div W
    OBVIOUS
  <2>2. n \in Nat
    BY <1>1
  <2>3. QED
    BY <2>1, <2>2, <1>1, Division
<1> DEFINE top == Min({W, Len(entries) - b * W})
<1>3. /\ top \in Int /\ top <= W /\ b * W \in Nat
      /\ \A w \in 1..top : b * W + w <= Len(entries)
  <2>1. b * W \in Nat
    BY <1>1, <1>2
  <2>2. top = IF W <= Len(entries) - b * W THEN W ELSE Len(entries) - b * W
    BY <1>1, <2>1, MinOfTwo
  <2> DEFINE m == b * W
             t == top
  <2> HIDE DEF m, t
  <2>3. m \in Nat /\ t = IF W <= Len(entries) - m THEN W ELSE Len(entries) - m
    BY <2>1, <2>2 DEF m, t
  <2>4. t \in Int /\ t <= W /\ \A w \in 1..t : m + w <= Len(entries)
    BY <2>3, <1>1
  <2>5. QED
    BY <2>1, <2>4 DEF m, t
<1>4. files[b] = [w \in 1..top |-> SubSeq(entries, b * W + 1, b * W + w)]
  BY DEF Tiles
<1> DEFINE m == b * W
<1> HIDE DEF top, files, m
<1>5. ASSUME NEW w \in 1..top
      PROVE  SubSeq(entries, m + 1, m + w) \in Seq(Stuff) /\ Len(SubSeq(entries, m + 1, m + w)) = w
  <2>1. m \in Nat /\ w \in Nat /\ w >= 1 /\ m + w <= Len(entries)
    BY <1>3 DEF m
  <2>2. m + 1 \in 1..(Len(entries) + 1) /\ m + w \in m..Len(entries) /\ (m + w) - (m + 1) + 1 = w
    BY <2>1, <1>1
  <2>3. QED
    BY <2>1, <2>2, SubSeqProperties
<1>6. QED
  BY <1>1, <1>3, <1>4, <1>5 DEF m

LEMMA DamageKeepsType ==
    ASSUME NEW files, TilesTyped(files), NEW after \in DamagedFiles(files)
    PROVE  TilesTyped(after)
<1> DEFINE Lost(b) == {[c \in (DOMAIN files) \ {b} |-> files[c]]}
           Gone(b) == {[files EXCEPT ![b] = [v \in (DOMAIN files[b]) \ {w} |-> files[b][v]]] :
                          w \in DOMAIN files[b]}
           Short(b) == {[files EXCEPT ![b][w] = SubSeq(@, 1, w - 1)] : w \in DOMAIN files[b]}
           Altered(b) == {Rewritten(files, b, n, e) : n \in 1..TileWidth, e \in Misfits}
<1>0. PICK b \in DOMAIN files :
         after \in Lost(b) \/ after \in Gone(b) \/ after \in Short(b) \/ after \in Altered(b)
  <2>1. DamagedFiles(files) =
           UNION {Lost(b) \union Gone(b) \union Short(b) \union Altered(b) : b \in DOMAIN files}
    BY DEF DamagedFiles
  <2> HIDE DEF Lost, Gone, Short, Altered
  <2>2. QED
    BY <2>1
<1>1. \/ after = [c \in (DOMAIN files) \ {b} |-> files[c]]
      \/ \E w \in DOMAIN files[b] :
            after = [files EXCEPT ![b] = [v \in (DOMAIN files[b]) \ {w} |-> files[b][v]]]
      \/ \E w \in DOMAIN files[b] : after = [files EXCEPT ![b][w] = SubSeq(@, 1, w - 1)]
      \/ \E n \in 1..TileWidth : \E e \in Misfits : after = Rewritten(files, b, n, e)
  <2>1. CASE after \in Lost(b)
    BY <2>1
  <2>2. CASE after \in Gone(b)
    BY <2>2
  <2>3. CASE after \in Short(b)
    BY <2>3
  <2>4. CASE after \in Altered(b)
    BY <2>4
  <2> HIDE DEF Lost, Gone, Short, Altered
  <2>5. QED
    BY <1>0, <2>1, <2>2, <2>3, <2>4, Zenon
<1> HIDE DEF Lost, Gone, Short, Altered
<1>2. CASE after = [c \in (DOMAIN files) \ {b} |-> files[c]]
  BY <1>2 DEF TilesTyped
<1>3. CASE \E w \in DOMAIN files[b] :
              after = [files EXCEPT ![b] = [v \in (DOMAIN files[b]) \ {w} |-> files[b][v]]]
  BY <1>3 DEF TilesTyped
<1>4. CASE \E w \in DOMAIN files[b] : after = [files EXCEPT ![b][w] = SubSeq(@, 1, w - 1)]
  <2>1. PICK w \in DOMAIN files[b] : after = [files EXCEPT ![b][w] = SubSeq(@, 1, w - 1)]
    BY <1>4
  <2>2. w \in Nat \ {0} /\ files[b][w] \in Seq(Stuff) /\ Len(files[b][w]) \in {w - 1, w}
    BY TileAssumption DEF TilesTyped
  <2>3. w - 1 \in 0..Len(files[b][w])
    BY <2>2
  <2>4. SubSeq(files[b][w], 1, w - 1) \in Seq(Stuff) /\ Len(SubSeq(files[b][w], 1, w - 1)) = w - 1
    BY <2>2, <2>3, PrefixOfLog
  <2>5. /\ DOMAIN after = DOMAIN files
        /\ \A c \in DOMAIN files : DOMAIN after[c] = DOMAIN files[c]
        /\ \A c \in DOMAIN files : \A v \in DOMAIN files[c] :
              after[c][v] = IF c = b /\ v = w THEN SubSeq(files[b][w], 1, w - 1) ELSE files[c][v]
    BY <2>1
  <2>6. ASSUME NEW c \in DOMAIN after
        PROVE  /\ DOMAIN after[c] \subseteq 1..TileWidth
               /\ \A v \in DOMAIN after[c] :
                     after[c][v] \in Seq(Stuff) /\ Len(after[c][v]) \in {v - 1, v}
    <3>1. c \in DOMAIN files /\ DOMAIN after[c] = DOMAIN files[c]
      BY <2>5
    <3>2. DOMAIN files[c] \subseteq 1..TileWidth
      BY <3>1 DEF TilesTyped
    <3>3. ASSUME NEW v \in DOMAIN files[c]
          PROVE  after[c][v] \in Seq(Stuff) /\ Len(after[c][v]) \in {v - 1, v}
      <4>1. CASE c = b /\ v = w
        BY <2>4, <2>5, <3>1, <4>1
      <4>2. CASE ~(c = b /\ v = w)
        <5>1. after[c][v] = files[c][v]
          BY <2>5, <3>1, <4>2
        <5>2. QED
          BY <3>1, <5>1 DEF TilesTyped
      <4>3. QED
        BY <4>1, <4>2
    <3>4. QED
      BY <3>1, <3>2, <3>3
  <2>7. QED
    BY <2>6 DEF TilesTyped
<1>5. CASE \E n \in 1..TileWidth : \E e \in Misfits : after = Rewritten(files, b, n, e)
  <2>1. PICK n \in 1..TileWidth : \E e \in Misfits : after = Rewritten(files, b, n, e)
    BY <1>5
  <2>2. PICK e \in Misfits : after = Rewritten(files, b, n, e)
    BY <2>1
  <2>3. ASSUME NEW s \in Seq(Stuff), n <= Len(s)
        PROVE  [s EXCEPT ![n] = e] \in Seq(Stuff) /\ Len([s EXCEPT ![n] = e]) = Len(s)
    <3>1. e \in Stuff
      BY DEF Stuff
    <3>2. n \in 1..Len(s)
      BY <2>3, TileAssumption
    <3>3. QED
      BY <3>1, <3>2
  <2>4. /\ DOMAIN after = DOMAIN files
        /\ \A c \in DOMAIN files : DOMAIN after[c] = DOMAIN files[c]
        /\ \A c \in DOMAIN files : \A v \in DOMAIN files[c] :
              \/ after[c][v] = files[c][v]
              \/ n <= Len(files[c][v]) /\ after[c][v] = [files[c][v] EXCEPT ![n] = e]
    BY <2>2 DEF Rewritten
  <2>5. \A c \in DOMAIN files : \A v \in DOMAIN files[c] :
           after[c][v] \in Seq(Stuff) /\ Len(after[c][v]) = Len(files[c][v])
    BY <2>3, <2>4 DEF TilesTyped
  <2>6. QED
    BY <2>4, <2>5 DEF TilesTyped
<1>6. QED
  BY <1>1, <1>2, <1>3, <1>4, <1>5

LEMMA ReadTileReads ==
    ASSUME NEW files, TilesTyped(files), NEW b, NEW needed
    PROVE  ReadTile(files, b, needed) \in Seq(Stuff)
<1>1. CASE Widths(files, b) = {}
  <2>1. << >> \in Seq(Stuff)
    OBVIOUS
  <2>2. QED
    BY <1>1, <2>1 DEF ReadTile
<1>2. CASE Widths(files, b) # {}
  <2>1. b \in DOMAIN files /\ Widths(files, b) = DOMAIN files[b]
    BY <1>2 DEF Widths
  <2>2. DOMAIN files[b] \in SUBSET (0..TileWidth)
    BY <2>1, TileAssumption DEF TilesTyped
  <2>3. Max(Widths(files, b)) \in DOMAIN files[b]
    BY <1>2, <2>1, <2>2, TileAssumption, MaxIsMember
  <2>4. QED
    BY <1>2, <2>1, <2>3 DEF ReadTile, TilesTyped
<1>3. QED
  BY <1>1, <1>2

\* The tile that holds the entry at n, and the entry's place in it.
TileOf(n) == (n - 1) \div TileWidth
PlaceOf(n) == ((n - 1) % TileWidth) + 1

LEMMA PlaceInTile ==
    ASSUME NEW n \in Nat \ {0}
    PROVE  /\ TileOf(n) \in Nat /\ PlaceOf(n) \in 1..TileWidth
           /\ TileWidth * TileOf(n) \in Nat
           /\ n = TileWidth * TileOf(n) + PlaceOf(n)
<1>1. n - 1 \in Nat /\ TileWidth \in Nat \ {0}
  BY TileAssumption
<1>2. /\ TileOf(n) \in Nat /\ (n - 1) % TileWidth \in 0..(TileWidth - 1)
      /\ n - 1 = TileWidth * TileOf(n) + ((n - 1) % TileWidth)
  BY <1>1, Division DEF TileOf
<1> DEFINE r == (n - 1) % TileWidth
           m == TileWidth * TileOf(n)
<1>3. m \in Nat
  BY <1>1, <1>2
<1>4. r \in 0..(TileWidth - 1) /\ n - 1 = m + r
  BY <1>2
<1> HIDE DEF r, m
<1>5. r + 1 \in 1..TileWidth /\ n = m + (r + 1)
  BY <1>1, <1>3, <1>4
<1>6. QED
  BY <1>2, <1>3, <1>5 DEF r, m, PlaceOf

LEMMA PlaceIs ==
    ASSUME NEW b \in Nat, NEW j \in 1..TileWidth
    PROVE  TileOf(TileWidth * b + j) = b /\ PlaceOf(TileWidth * b + j) = j
<1> DEFINE m == TileWidth * b
<1>1. m \in Nat /\ TileWidth \in Nat \ {0}
  BY TileAssumption
<1>2. (m + j) - 1 = m + (j - 1) /\ j - 1 \in 0..(TileWidth - 1)
  BY <1>1
<1>3. ((m + j) - 1) \div TileWidth = b /\ ((m + j) - 1) % TileWidth = j - 1
  <2> DEFINE x == (m + j) - 1
             r == j - 1
  <2>1. r \in 0..(TileWidth - 1) /\ x = TileWidth * b + r
    BY <1>1, <1>2
  <2> HIDE DEF x, r, m
  <2>2. x \div TileWidth = b /\ x % TileWidth = r
    BY <2>1, <1>1, DivisionIs
  <2>3. QED
    BY <2>2 DEF x, r
<1>4. (j - 1) + 1 = j
  BY <1>1
<1>5. QED
  BY <1>3, <1>4 DEF TileOf, PlaceOf

\* A tile whose file is as long as the tree needs.
Full(files, sz, b) == Needed(sz, b) <= Len(ReadTile(files, b, Needed(sz, b)))

LEMMA NeededIs ==
    ASSUME NEW sz \in Nat, NEW b \in Nat
    PROVE  /\ Needed(sz, b) \in Int /\ Needed(sz, b) <= TileWidth
           /\ \A j \in 1..TileWidth : TileWidth * b + j <= sz <=> j <= Needed(sz, b)
<1> DEFINE m == b * TileWidth
<1>1. m \in Nat /\ m = TileWidth * b /\ TileWidth \in Nat \ {0}
  BY TileAssumption
<1>2. Needed(sz, b) = IF TileWidth <= sz - m THEN TileWidth ELSE sz - m
  BY <1>1, MinOfTwo DEF Needed
<1> HIDE DEF m
<1>3. QED
  BY <1>1, <1>2

\* Entries are found from the first on as far as the files reach.
LEMMA Reached ==
    ASSUME NEW files, TilesTyped(files), NEW sz \in Nat, NEW b \in Nat, NEW j \in 1..TileWidth,
           TileWidth * b + j <= sz,
           \A c \in 0..(b - 1) : Full(files, sz, c),
           j <= Len(ReadTile(files, b, Needed(sz, b)))
    PROVE  /\ \A k \in 1..(TileWidth * b + j) : k \in DOMAIN Covered(files, sz)
           /\ Covered(files, sz)[TileWidth * b + j] = ReadTile(files, b, Needed(sz, b))[j]
<1> DEFINE at(k) == ReadTile(files, (k - 1) \div TileWidth, Needed(sz, (k - 1) \div TileWidth))
           offset(k) == ((k - 1) % TileWidth) + 1
           absent == {k \in 1..sz : offset(k) > Len(at(k))}
           last == IF absent = {} THEN sz ELSE Min(absent) - 1
           n == TileWidth * b + j
<1>1. n \in Nat \ {0} /\ n <= sz /\ TileWidth \in Nat \ {0} /\ TileWidth * b \in Nat
  BY TileAssumption
<1>2. Covered(files, sz) = [k \in 1..last |-> at(k)[offset(k)]]
  BY DEF Covered
<1>3. ASSUME NEW k \in 1..n
      PROVE  ~(offset(k) > Len(at(k)))
  <2>1. k \in Nat \ {0} /\ k <= n
    BY <1>1
  <2> DEFINE c == TileOf(k)
             p == PlaceOf(k)
  <2>2. c \in Nat /\ p \in 1..TileWidth /\ k = TileWidth * c + p
    BY <2>1, PlaceInTile
  <2>3. at(k) = ReadTile(files, c, Needed(sz, c)) /\ offset(k) = p
    BY DEF TileOf, PlaceOf
  <2>4. Len(ReadTile(files, c, Needed(sz, c))) \in Nat
    BY ReadTileReads
  <2> HIDE DEF c, p, at, offset
  <2>5. ~(b < c)
    <3>1. ASSUME b < c PROVE FALSE
      <4>1. TileWidth * b + TileWidth <= TileWidth * c
        BY <2>2, <3>1, <1>1, Multiples
      <4> DEFINE x == TileWidth * b
                 y == TileWidth * c
      <4>2. x \in Nat /\ y \in Nat
        BY <1>1, <2>2
      <4>3. k = y + p /\ k <= x + j /\ x + TileWidth <= y
        BY <2>1, <2>2, <4>1
      <4> HIDE DEF x, y, n
      <4>4. QED
        BY <4>2, <4>3, <2>2, <1>1
    <3>2. QED
      BY <3>1
  <2>6. CASE c = b
    <3>1. TileWidth * b + p <= TileWidth * b + j
      BY <2>1, <2>2, <2>6
    <3> DEFINE x == TileWidth * b
    <3>2. x \in Nat /\ x + p <= x + j
      BY <3>1, <1>1
    <3> HIDE DEF x
    <3>3. p <= j
      BY <3>2, <2>2, <1>1
    <3>4. QED
      BY <3>3, <2>2, <2>3, <2>4, <2>6, <1>1
  <2>7. CASE c < b
    <3>1. c \in 0..(b - 1)
      BY <2>2, <2>7
    <3>2. Full(files, sz, c)
      BY <3>1
    <3>3. TileWidth * c + p <= sz
      BY <2>1, <2>2, <1>1
    <3>4. p <= Needed(sz, c) /\ Needed(sz, c) \in Int
      BY <3>3, <2>2, NeededIs
    <3>5. QED
      BY <3>2, <3>4, <2>2, <2>3, <2>4, <1>1 DEF Full
  <2>8. QED
    BY <2>2, <2>5, <2>6, <2>7
<1>4. last \in Int /\ n <= last
  <2>1. absent \in SUBSET Nat /\ absent \subseteq 1..sz
    OBVIOUS
  <2>2. \A k \in absent : n < k
    <3> SUFFICES ASSUME NEW k \in absent PROVE n < k
      OBVIOUS
    <3>1. k \in 1..sz /\ offset(k) > Len(at(k))
      OBVIOUS
    <3>2. k \notin 1..n
      BY <3>1, <1>3
    <3> HIDE DEF n
    <3>3. QED
      BY <3>1, <3>2, <1>1
  <2> HIDE DEF absent, n
  <2>3. CASE absent = {}
    BY <2>3, <1>1
  <2>4. CASE absent # {}
    <3>1. Min(absent) \in absent
      BY <2>1, <2>4, MinIsLeast
    <3>2. Min(absent) \in Nat /\ n < Min(absent)
      BY <3>1, <2>1, <2>2
    <3>3. last = Min(absent) - 1
      BY <2>4
    <3> HIDE DEF last
    <3>4. QED
      BY <3>2, <3>3, <1>1
  <2>5. QED
    BY <2>3, <2>4
<1>5. \A k \in 1..n : k \in DOMAIN Covered(files, sz)
  <2> HIDE DEF last, at, offset, n
  <2>1. DOMAIN Covered(files, sz) = 1..last
    BY <1>2
  <2>2. QED
    BY <2>1, <1>1, <1>4
<1>6. Covered(files, sz)[n] = at(n)[offset(n)]
  <2> HIDE DEF last, at, offset, n
  <2>1. n \in 1..last
    BY <1>1, <1>4
  <2>2. QED
    BY <2>1, <1>2
<1>7. at(n) = ReadTile(files, b, Needed(sz, b)) /\ offset(n) = j
  <2>1. TileOf(n) = b /\ PlaceOf(n) = j
    BY PlaceIs
  <2>2. QED
    BY <2>1 DEF TileOf, PlaceOf
<1>8. QED
  BY <1>5, <1>6, <1>7

LEMMA LogIsStuff ==
    ASSUME NEW ls \in Seq(Envelopes), NEW n \in Nat
    PROVE  TilesTyped(Directory(Origin, Entries(ls), n, CpKey).entries)
<1>1. Entries(ls) \in Seq(EntrySet)
  BY EntriesOfLog
<1>2. Entries(ls) \in Seq(Stuff)
  BY <1>1 DEF Stuff
<1>3. QED
  BY <1>2, PublishedTiles DEF Directory

TilesInv == TilesTyped(dir.entries)

LEMMA TilesHold == EvidenceSpec => []TilesInv
<1>1. EvidenceInit => TilesInv
  <2> SUFFICES ASSUME EvidenceInit PROVE TilesInv
    OBVIOUS
  <2>1. leaves \in Seq(Envelopes) /\ size \in Nat
    BY InitUnwalked DEF InputOK
  <2>2. QED
    BY <2>1, LogIsStuff DEF EvidenceInit, TilesInv
<1>2. InputOK /\ DirInv /\ TilesInv /\ [EvidenceNext]_evars => TilesInv'
  <2> SUFFICES ASSUME InputOK, DirInv, TilesInv, [EvidenceNext]_evars PROVE TilesInv'
    OBVIOUS
  <2>1. leaves' = leaves /\ leaves \in Seq(Envelopes) /\ size \in 0..Len(leaves) /\ size \in Nat
    BY OnlyTheLoopWalks DEF InputOK
  <2>2. Stuff' = Stuff
    BY <2>1 DEF Stuff, Misfits, Entries, EntrySet
  <2>3. ASSUME TilesTyped(dir'.entries) PROVE TilesInv'
    BY <2>2, <2>3 DEF TilesInv, TilesTyped
  <2>4. CASE dir'.entries = dir.entries
    BY <2>3, <2>4 DEF TilesInv
  <2>5. CASE Rot
    <3>1. CASE \E files \in DamagedFiles(dir.entries) : dir' = [dir EXCEPT !.entries = files]
      <4>1. PICK files \in DamagedFiles(dir.entries) : dir' = [dir EXCEPT !.entries = files]
        BY <3>1
      <4>2. dir'.entries = files
        BY <4>1 DEF DirInv
      <4>3. QED
        BY <4>2, <2>3, DamageKeepsType DEF TilesInv
    <3>2. CASE \E files \in DamagedFiles(dir.hashes) : dir' = [dir EXCEPT !.hashes = files]
      BY <3>2, <2>4
    <3>3. CASE \E n \in {[dir.note EXCEPT !.size = @ - 1, !.signer = Stranger],
                         [dir.note EXCEPT !.root = << >>, !.signer = Stranger],
                         [dir.note EXCEPT !.origin = Elsewhere]} :
                  dir' = [dir EXCEPT !.note = n]
      BY <3>3, <2>4
    <3>4. QED
      BY <2>5, <3>1, <3>2, <3>3 DEF Rot
  <2>6. CASE Restore
    <3>1. PICK m \in 0..(size - 1) :
             dir' = Directory(Origin, Entries(SubSeq(leaves, 1, m)), m, CpKey)
      BY <2>6 DEF Restore
    <3>2. m \in 0..Len(leaves) /\ m \in Nat
      BY <2>1
    <3>3. SubSeq(leaves, 1, m) \in Seq(Envelopes)
      BY <2>1, <3>2, PrefixOfLog
    <3>4. QED
      BY <3>1, <3>2, <3>3, <2>3, LogIsStuff
  <2>7. CASE Rewrite
    <3>1. PICK n \in 1..size, e \in Envelopes :
             dir' = Directory(Origin, Entries([leaves EXCEPT ![n] = e]), size, CpKey)
      BY <2>7 DEF Rewrite
    <3>2. [leaves EXCEPT ![n] = e] \in Seq(Envelopes)
      BY <2>1
    <3>3. QED
      BY <3>1, <3>2, <2>1, <2>3, LogIsStuff
  <2>8. [EvidenceNext]_evars => dir'.entries = dir.entries \/ Rot \/ Restore \/ Rewrite
    BY DEF evars, dirVars, EvidenceNext, Catch, RegisterKey, RegisterTorn, DropIndex, Reindex,
           OpenLog, Prune, Export, Lose, Cut, Swap, Repeat, Change, Strike, ImportOpen,
           ImportBegin, ImportIntegrate, ImportWait, ImportEnd, ImportKilled, ImportReindex
  <2>9. QED
    BY <2>4, <2>5, <2>6, <2>7, <2>8
<1>3. QED
  BY <1>1, <1>2, WalkHolds, DirHolds, PTL DEF EvidenceSpec

LEMMA PassedIsFull ==
    ASSUME NEW files, TilesTyped(files), NEW sz \in Nat, NEW ks,
           NEW b \in Bundles(sz), BundleProblem(files, sz, ks, b) = << >>
    PROVE  Full(files, sz, b)
<1>1. ~(Len(ReadTile(files, b, Needed(sz, b))) < Needed(sz, b))
  <2>1. \A p : <<p>> # << >>
    OBVIOUS
  <2>2. QED
    BY <2>1 DEF BundleProblem
<1>2. b \in Nat
  BY DEF Bundles
<1>3. Len(ReadTile(files, b, Needed(sz, b))) \in Nat /\ Needed(sz, b) \in Int
  BY <1>2, ReadTileReads, NeededIs
<1>4. QED
  BY <1>1, <1>3 DEF Full

LEMMA BundlesBelow ==
    ASSUME NEW sz \in Nat, NEW b \in Bundles(sz), NEW c \in 0..(b - 1)
    PROVE  c \in Bundles(sz)
<1> DEFINE top == (sz + TileWidth - 1) \div TileWidth - 1
<1>1. sz + TileWidth - 1 \in Nat /\ TileWidth \in Nat \ {0}
  BY TileAssumption
<1>2. top \in Int /\ b \in 0..top
  BY <1>1, Division DEF Bundles
<1> HIDE DEF top
<1>3. c \in 0..top
  BY <1>2
<1>4. QED
  BY <1>3 DEF Bundles, top

\* With no bundle to blame, every entry the tree needs is there.
LEMMA AllCovered ==
    ASSUME NEW files, TilesTyped(files), NEW sz \in Nat, NEW ks, EntryProblem(files, sz, ks) = << >>
    PROVE  Covered(files, sz) = [n \in 1..sz |-> Covered(files, sz)[n]]
<1>1. \A b \in Bundles(sz) : BundleProblem(files, sz, ks, b) = << >>
  <2> DEFINE failing == {b \in Bundles(sz) : BundleProblem(files, sz, ks, b) # << >>}
  <2>1. failing \in SUBSET Nat
    BY DEF Bundles
  <2>2. EntryProblem(files, sz, ks) =
           IF failing = {} THEN << >> ELSE BundleProblem(files, sz, ks, Min(failing))
    BY DEF EntryProblem
  <2> HIDE DEF failing
  <2>3. failing # {} => Min(failing) \in failing
    BY <2>1, MinIsLeast
  <2>4. failing = {}
    BY <2>2, <2>3 DEF failing
  <2>5. QED
    BY <2>4 DEF failing
<1>2. \A b \in Bundles(sz) : Full(files, sz, b)
  BY <1>1, PassedIsFull
<1>3. ASSUME NEW n \in 1..sz
      PROVE  n \in DOMAIN Covered(files, sz)
  <2> DEFINE b == TileOf(n)
             j == PlaceOf(n)
  <2>1. b \in Nat /\ j \in 1..TileWidth /\ n = TileWidth * b + j /\ TileWidth * b \in Nat
    BY PlaceInTile
  <2>2. b \in Bundles(sz)
    <3> DEFINE y == sz + TileWidth - 1
               q == y \div TileWidth
               r == y % TileWidth
    <3>1. y \in Nat /\ TileWidth \in Nat \ {0}
      BY TileAssumption
    <3>2. q \in Nat /\ r \in 0..(TileWidth - 1) /\ y = TileWidth * q + r
      BY <3>1, Division
    <3>3. ~(q <= b)
      <4>1. ASSUME q <= b PROVE FALSE
        <5> HIDE DEF q, r, b, j
        <5>1. TileWidth * q <= TileWidth * b
          <6>1. CASE q = b
            BY <6>1, <2>1
          <6>2. CASE q < b
            <7>1. TileWidth * q + TileWidth <= TileWidth * b
              BY <6>2, <2>1, <3>1, <3>2, Multiples
            <7> DEFINE x == TileWidth * q
                       z == TileWidth * b
            <7>2. x \in Nat /\ z \in Nat /\ x + TileWidth <= z
              BY <7>1, <2>1, <3>1, <3>2
            <7> HIDE DEF x, z
            <7>3. x <= z
              BY <7>2, <3>1
            <7>4. QED
              BY <7>3 DEF x, z
          <6>3. QED
            BY <4>1, <6>1, <6>2, <2>1, <3>2
        <5> DEFINE x == TileWidth * q
                   z == TileWidth * b
        <5>2. x \in Nat /\ z \in Nat /\ x <= z /\ sz + TileWidth - 1 = x + r /\ n = z + j
          BY <5>1, <2>1, <3>1, <3>2
        <5> HIDE DEF x, z
        <5>3. QED
          BY <5>2, <2>1, <3>1, <3>2
      <4>2. QED
        BY <4>1
    <3> HIDE DEF b, q, r
    <3>4. b \in 0..(q - 1)
      BY <3>2, <3>3, <2>1
    <3>5. QED
      BY <3>4 DEF Bundles, q
  <2>3. \A c \in 0..(b - 1) : c \in Bundles(sz)
    BY <2>2, BundlesBelow
  <2>4. j <= Needed(sz, b) /\ Needed(sz, b) \in Int
    <3> HIDE DEF b, j
    <3>1. TileWidth * b + j <= sz
      BY <2>1
    <3>2. QED
      BY <3>1, <2>1, NeededIs
  <2>5. Needed(sz, b) <= Len(ReadTile(files, b, Needed(sz, b)))
        /\ Len(ReadTile(files, b, Needed(sz, b))) \in Nat
    BY <2>2, <1>2, ReadTileReads DEF Full
  <2> HIDE DEF b, j
  <2>6. j <= Len(ReadTile(files, b, Needed(sz, b)))
    BY <2>1, <2>4, <2>5
  <2>7. TileWidth * b + j <= sz
    BY <2>1
  <2>8. \A c \in 0..(b - 1) : Full(files, sz, c)
    BY <2>3, <1>2
  <2>9. \A k \in 1..(TileWidth * b + j) : k \in DOMAIN Covered(files, sz)
    BY <2>1, <2>6, <2>7, <2>8, Reached
  <2>10. QED
    BY <2>1, <2>9
<1>4. PICK last : last \in Nat /\ last <= sz /\ DOMAIN Covered(files, sz) = 1..last
                  /\ Covered(files, sz) = [n \in 1..last |-> Covered(files, sz)[n]]
  <2> DEFINE at(k) == ReadTile(files, (k - 1) \div TileWidth, Needed(sz, (k - 1) \div TileWidth))
             offset(k) == ((k - 1) % TileWidth) + 1
             absent == {k \in 1..sz : offset(k) > Len(at(k))}
             last == IF absent = {} THEN sz ELSE Min(absent) - 1
  <2>1. Covered(files, sz) = [k \in 1..last |-> at(k)[offset(k)]]
    BY DEF Covered
  <2>2. absent \in SUBSET Nat /\ absent \subseteq 1..sz
    OBVIOUS
  <2> HIDE DEF absent
  <2>3. absent # {} => Min(absent) \in 1..sz
    BY <2>2, MinIsLeast
  <2>4. last \in Nat /\ last <= sz
    BY <2>3
  <2> HIDE DEF last, at, offset
  <2>5. QED
    BY <2>1, <2>4
<1>5. sz <= last
  <2>1. CASE sz = 0
    BY <2>1, <1>3, <1>4
  <2>2. CASE sz # 0
    BY <2>2, <1>3, <1>4
  <2>3. QED
    BY <2>1, <2>2
<1>6. QED
  BY <1>4, <1>5

\* What a log signed is sound under the keys of its emitters.
LEMMA LoggedIsSound ==
    ASSUME NEW entry \in EntrySet, NEW ks \in Readers
    PROVE  Sound(entry, ks)
BY DEF EntrySet, Entry, Readers, Sound, Signers

LEMMA AccusedDiffers == InputOK /\ DirInv /\ TilesInv => AccusedIsGuilty
<1> SUFFICES ASSUME InputOK, DirInv, TilesInv, NEW ks \in Readers,
                    NEW p \in Range(Judged(ks)), p.class = "content"
             PROVE  Covered(dir.entries, dir.note.size)[p.index + 1] # dir.note.root[p.index + 1]
  BY DEF AccusedIsGuilty
<1> DEFINE note == dir.note
           sz == dir.note.size
           files == dir.entries
           entry == EntryProblem(files, sz, ks)
           computed == Covered(files, sz)
<1>1. \A q : Range(<<q>>) = {q}
  BY DEF Range
<1>2. Range(<< >>) = {}
  BY DEF Range
<1>3. \A x : Problem("head", x).class # "content" /\ Problem("unreadable", x).class # "content"
             /\ Problem("truncation", x).class # "content" /\ Problem("chain", x).class # "content"
  BY DEF Problem
<1>4. /\ note.signer = CpKey
      /\ \/ entry # << >> /\ p \in Range(entry)
         \/ entry = << >> /\ computed # note.root /\ p = Localize(dir, computed)
  <2> HIDE DEF entry, computed
  <2>1. Judged(ks) \in {<<Problem("head", -1)>>, <<Problem("unreadable", -1)>>,
                       <<Problem("truncation", -1)>>, <<Problem("chain", -1)>>, << >>}
        \/ /\ note.signer = CpKey
           /\ \/ entry # << >> /\ Judged(ks) = entry
              \/ entry = << >> /\ computed # note.root /\ Judged(ks) = <<Localize(dir, computed)>>
    BY DEF Judged, DirProblem, entry, computed
  <2>2. QED
    BY <2>1, <1>1, <1>2, <1>3
<1>5. note.root \in Seq(EntrySet) /\ sz = Len(note.root) /\ sz \in Nat
  BY <1>4 DEF DirInv
<1>6. TilesTyped(files)
  BY DEF TilesInv
<1>7. CASE entry # << >> /\ p \in Range(entry)
  <2> DEFINE failing == {b \in Bundles(sz) : BundleProblem(files, sz, ks, b) # << >>}
             b == Min(failing)
             data == ReadTile(files, b, Needed(sz, b))
             broken == {j \in 1..Needed(sz, b) : ~Sound(data[j], ks)}
             j == Min(broken)
  <2>1. failing \in SUBSET Nat
    BY DEF Bundles
  <2>2. failing # {} /\ entry = BundleProblem(files, sz, ks, b)
    BY <1>7 DEF EntryProblem
  <2>3. b \in Nat /\ b \in Bundles(sz) /\ \A c \in Bundles(sz) : c < b => c \notin failing
    <3> HIDE DEF failing
    <3>1. b \in failing /\ \A c \in failing : b <= c
      BY <2>1, <2>2, MinIsLeast
    <3>2. failing \subseteq Bundles(sz)
      BY DEF failing
    <3>3. b \in Nat
      BY <2>1, <3>1
    <3> HIDE DEF b
    <3>4. \A c \in failing : ~(c < b)
      BY <3>1, <3>3, <2>1
    <3>5. QED
      BY <3>1, <3>2, <3>3, <3>4
  <2>4. \A c \in 0..(b - 1) : Full(files, sz, c)
    <3> SUFFICES ASSUME NEW c \in 0..(b - 1) PROVE Full(files, sz, c)
      OBVIOUS
    <3>1. c \in Bundles(sz) /\ c < b
      BY <2>3, <1>5, BundlesBelow
    <3>2. c \notin failing
      BY <2>3, <3>1
    <3>3. BundleProblem(files, sz, ks, c) = << >>
      BY <3>1, <3>2
    <3>4. QED
      BY <1>5, <1>6, <3>1, <3>3, PassedIsFull
  <2>5. Needed(sz, b) \in Int /\ Needed(sz, b) <= TileWidth /\ Len(data) \in Nat
    <3> HIDE DEF b
    <3>1. Needed(sz, b) \in Int /\ Needed(sz, b) <= TileWidth
      BY <1>5, <2>3, NeededIs
    <3>2. data \in Seq(Stuff)
      BY <1>6, ReadTileReads
    <3>3. QED
      BY <3>1, <3>2
  <2> HIDE DEF b, data
  <2>6. broken # {} /\ ~(Len(data) < Needed(sz, b)) /\ p = Problem("content", b * TileWidth + j - 1)
    <3> HIDE DEF broken, j
    <3>1. BundleProblem(files, sz, ks, b) \in {<<Problem("unreadable", -1)>>, << >>,
                                             <<Problem("truncation", b * TileWidth + Len(data))>>}
          \/ /\ broken # {} /\ ~(Len(data) < Needed(sz, b))
             /\ BundleProblem(files, sz, ks, b) = <<Problem("content", b * TileWidth + j - 1)>>
      BY DEF BundleProblem, data, broken, j
    <3>2. QED
      BY <3>1, <2>2, <1>1, <1>2, <1>3, <1>7
  <2>7. j \in broken
    <3>1. broken \in SUBSET Nat
      OBVIOUS
    <3> HIDE DEF broken
    <3>2. QED
      BY <3>1, <2>6, MinIsLeast
  <2>8. j \in 1..TileWidth /\ j <= Len(data) /\ j <= Needed(sz, b) /\ ~Sound(data[j], ks)
    <3>1. j \in 1..Needed(sz, b) /\ ~Sound(data[j], ks)
      BY <2>7
    <3> HIDE DEF j
    <3>2. QED
      BY <3>1, <2>5, <2>6, TileAssumption
  <2> HIDE DEF j, broken
  <2>9. TileWidth * b + j <= sz
    BY <1>5, <2>3, <2>8, NeededIs
  <2>10. computed[TileWidth * b + j] = data[j]
    <3>1. j \in 1..TileWidth /\ j <= Len(ReadTile(files, b, Needed(sz, b)))
      BY <2>8 DEF data
    <3>2. sz \in Nat /\ b \in Nat
      BY <1>5, <2>3
    <3> HIDE DEF sz, files
    <3>3. Covered(files, sz)[TileWidth * b + j] = ReadTile(files, b, Needed(sz, b))[j]
      BY <3>1, <3>2, <1>6, <2>4, <2>9, Reached
    <3>4. QED
      BY <3>3 DEF data
  <2> DEFINE n == TileWidth * b + j
  <2>11. p.index + 1 = n /\ n \in 1..sz
    <3> DEFINE m == TileWidth * b
    <3>1. m \in Nat /\ b * TileWidth = m /\ j \in Nat \ {0} /\ m + j <= sz
      BY <2>3, <2>8, <2>9, TileAssumption
    <3> HIDE DEF m
    <3>2. p.index = m + j - 1
      BY <2>6, <3>1 DEF Problem
    <3>3. p.index + 1 = m + j /\ m + j \in 1..sz
      BY <3>1, <3>2, <1>5
    <3>4. QED
      BY <3>3 DEF m
  <2> HIDE DEF n
  <2>12. Sound(note.root[n], ks)
    BY <2>11, <1>5, LoggedIsSound
  <2>13. QED
    BY <2>8, <2>10, <2>11, <2>12 DEF n
<1>8. CASE entry = << >> /\ computed # note.root /\ p = Localize(dir, computed)
  <2> DEFINE stored == Covered(dir.hashes, sz)
             differing == {k \in DOMAIN computed : stored[k] # computed[k]}
  <2>1. computed = [n \in 1..sz |-> computed[n]]
    BY <1>5, <1>6, <1>8, AllCovered
  <2>2. stored = note.root /\ p = Problem("content", Min(differing) - 1)
    BY <1>8, <1>3 DEF Localize
  <2> HIDE DEF computed, stored, entry
  <2>3. DOMAIN computed = 1..sz
    BY <2>1
  <2>4. differing # {}
    <3>1. ASSUME \A k \in 1..sz : note.root[k] = computed[k] PROVE FALSE
      <4>1. note.root = [n \in 1..sz |-> note.root[n]]
        BY <1>5
      <4>2. note.root = computed
        BY <4>1, <2>1, <3>1
      <4>3. QED
        BY <4>2, <1>8
    <3>2. QED
      BY <3>1, <2>2, <2>3
  <2>5. differing \in SUBSET Nat
    BY <2>3
  <2> DEFINE m == Min(differing)
  <2>6. m \in differing
    BY <2>4, <2>5, MinIsLeast
  <2>7. m \in Nat /\ note.root[m] # computed[m]
    BY <2>2, <2>5, <2>6
  <2> HIDE DEF m, differing
  <2>8. p.index = m - 1
    BY <2>2 DEF Problem, m
  <2>9. p.index + 1 = m
    BY <2>7, <2>8
  <2>10. QED
    BY <2>7, <2>9 DEF computed
<1>9. QED
  BY <1>4, <1>7, <1>8

\* The directory verifier blames no entry that is the one the tree signs, also
\* when the hash tiles it consults are damaged too.
THEOREM AccusedAreGuilty == EvidenceSpec => []AccusedIsGuilty
BY AccusedDiffers, WalkHolds, DirHolds, TilesHold, PTL

-----------------------------------------------------------------------------
(* A set of numbers in order. *)

LEMMA RankGrows ==
    ASSUME NEW S \in SUBSET Nat, IsFiniteSet(S), NEW k \in S, NEW l \in S, k < l
    PROVE  Cardinality({j \in S : j <= k}) < Cardinality({j \in S : j <= l})
<1> DEFINE K == {j \in S : j <= k}
           L == {j \in S : j <= l}
<1>1. K \subseteq L /\ l \in L /\ l \notin K /\ L \subseteq S
  <2>1. k \in Nat /\ l \in Nat
    OBVIOUS
  <2>2. \A j \in S : j \in Nat /\ (j <= k => j <= l)
    BY <2>1
  <2>3. K \subseteq L /\ L \subseteq S
    BY <2>2
  <2>4. l <= l /\ ~(l <= k)
    BY <2>1
  <2>5. l \in L /\ l \notin K
    BY <2>4
  <2>6. QED
    BY <2>3, <2>5
<1> HIDE DEF K, L
<1>2. IsFiniteSet(L)
  BY <1>1, FS_Subset
<1>3. IsFiniteSet(K) /\ Cardinality(K) <= Cardinality(L) /\ (Cardinality(K) = Cardinality(L) => K = L)
  BY <1>1, <1>2, FS_Subset
<1>4. Cardinality(K) \in Nat /\ Cardinality(L) \in Nat
  BY <1>2, <1>3, FS_CardinalityType
<1>5. Cardinality(K) < Cardinality(L)
  BY <1>1, <1>3, <1>4
<1>6. QED
  BY <1>5 DEF K, L

\* InOrder lists a finite set of numbers, each once, from the least on.
LEMMA InOrderLists ==
    ASSUME NEW S \in SUBSET Nat, IsFiniteSet(S)
    PROVE  /\ Cardinality(S) \in Nat
           /\ InOrder(S) \in [1..Cardinality(S) -> S]
           /\ \A k \in S : \E n \in 1..Cardinality(S) : InOrder(S)[n] = k
           /\ \A m, n \in 1..Cardinality(S) : m < n => InOrder(S)[m] < InOrder(S)[n]
<1> DEFINE rank(k) == Cardinality({j \in S : j <= k})
           N == Cardinality(S)
           f == [k \in S |-> rank(k)]
<1>1. N \in Nat
  BY FS_CardinalityType
<1>2. ASSUME NEW k \in S PROVE rank(k) \in 1..N
  <2> DEFINE K == {j \in S : j <= k}
  <2>1. K \subseteq S /\ k \in K
    OBVIOUS
  <2> HIDE DEF K
  <2>2. IsFiniteSet(K) /\ Cardinality(K) <= N
    BY <2>1, FS_Subset
  <2>3. Cardinality(K) \in Nat /\ Cardinality(K) # 0
    BY <2>1, <2>2, FS_CardinalityType, FS_EmptySet
  <2>4. Cardinality(K) \in 1..N
    BY <2>2, <2>3, <1>1
  <2>5. QED
    BY <2>4 DEF K
<1>3. ASSUME NEW k \in S, NEW l \in S, k < l PROVE rank(k) < rank(l)
  BY <1>3, RankGrows
<1> HIDE DEF rank
<1>4. ASSUME NEW k \in S, NEW l \in S, rank(k) = rank(l) PROVE k = l
  <2>1. k \in Nat /\ l \in Nat /\ rank(k) \in Int /\ rank(l) \in Int
    BY <1>2
  <2>2. ~(k < l) /\ ~(l < k)
    BY <1>3, <1>4, <2>1
  <2>3. QED
    BY <2>1, <2>2
<1>5. f \in Injection(S, 1..N)
  BY <1>2, <1>4 DEF Injection, IsInjective
<1>6. IsFiniteSet(1..N) /\ Cardinality(1..N) = N
  BY <1>1, FS_Interval
<1>7. f \in Surjection(S, 1..N)
  BY <1>5, <1>6, FS_Injection
<1>8. ASSUME NEW n \in 1..N
      PROVE  InOrder(S)[n] \in S /\ rank(InOrder(S)[n]) = n
  <2>1. \E k \in S : rank(k) = n
    BY <1>7 DEF Surjection
  <2>2. InOrder(S)[n] = CHOOSE k \in S : rank(k) = n
    BY DEF InOrder, rank
  <2>3. QED
    BY <2>1, <2>2
<1>9. InOrder(S) \in [1..N -> S]
  BY <1>8 DEF InOrder
<1>10. ASSUME NEW k \in S PROVE \E n \in 1..N : InOrder(S)[n] = k
  <2>1. rank(k) \in 1..N
    BY <1>2
  <2>2. InOrder(S)[rank(k)] = k
    BY <2>1, <1>4, <1>8
  <2>3. QED
    BY <2>1, <2>2
<1>11. ASSUME NEW m \in 1..N, NEW n \in 1..N, m < n
       PROVE  InOrder(S)[m] < InOrder(S)[n]
  <2> DEFINE x == InOrder(S)[m]
             y == InOrder(S)[n]
  <2>1. x \in S /\ y \in S /\ rank(x) = m /\ rank(y) = n
    BY <1>8
  <2> HIDE DEF x, y
  <2>2. x \in Nat /\ y \in Nat /\ m \in Int /\ n \in Int
    BY <2>1, <1>1
  <2>3. ~(y < x) /\ x # y
    <3>1. y < x => n < m
      BY <2>1, <1>3
    <3>2. QED
      BY <3>1, <2>1, <2>2, <1>11
  <2>4. x < y
    BY <2>2, <2>3
  <2>5. QED
    BY <2>4 DEF x, y
<1>12. QED
  BY <1>1, <1>9, <1>10, <1>11

LEMMA InOrderOfInterval ==
    ASSUME NEW a \in Nat, NEW b \in Int, a <= b + 1
    PROVE  InOrder(a..b) = [n \in 1..(b - a + 1) |-> a + n - 1]
<1> DEFINE S == a..b
           N == b - a + 1
<1>1. S \in SUBSET Nat /\ N \in Nat
  OBVIOUS
<1>2. IsFiniteSet(S) /\ Cardinality(S) = N
  BY FS_Interval
<1>3. ASSUME NEW k \in S PROVE Cardinality({j \in S : j <= k}) = k - a + 1
  <2>1. {j \in S : j <= k} = a..k
    OBVIOUS
  <2>2. k \in Int /\ a \in Int /\ a <= k
    OBVIOUS
  <2> HIDE DEF S
  <2>3. Cardinality(a..k) = IF a > k THEN 0 ELSE k - a + 1
    BY <2>2, FS_Interval
  <2>4. ~(a > k)
    BY <2>2
  <2>5. QED
    BY <2>1, <2>3, <2>4
<1>4. ASSUME NEW n \in 1..N
      PROVE  (CHOOSE k \in S : Cardinality({j \in S : j <= k}) = n) = a + n - 1
  <2>1. a + n - 1 \in S
    OBVIOUS
  <2>2. \A k \in S : Cardinality({j \in S : j <= k}) = n <=> k = a + n - 1
    <3> SUFFICES ASSUME NEW k \in S PROVE k - a + 1 = n <=> k = a + n - 1
      BY <1>3
    <3>1. QED
      OBVIOUS
  <2> DEFINE P(k) == Cardinality({j \in S : j <= k}) = n
  <2> HIDE DEF P, S, N
  <2>3. \A k \in S : P(k) <=> k = a + n - 1
    BY <2>2 DEF P
  <2>4. (CHOOSE k \in S : P(k)) = a + n - 1
    BY <2>1, <2>3
  <2>5. QED
    BY <2>4 DEF P
<1> HIDE DEF N
<1>5. InOrder(S) = [n \in 1..N |-> CHOOSE k \in S : Cardinality({j \in S : j <= k}) = n]
  BY <1>2 DEF InOrder
<1>6. InOrder(S) = [n \in 1..N |-> a + n - 1]
  BY <1>4, <1>5
<1>7. QED
  BY <1>6 DEF N

-----------------------------------------------------------------------------
(* The lines of an export file. *)

\* The lines of a kind that stand together.
Together(f, kind, a, k) ==
    /\ \A n \in 1..k : a + n \in DOMAIN f /\ f[a + n].kind = kind
    /\ \A n \in DOMAIN f : f[n].kind = kind => n \in (a + 1)..(a + k)

LEMMA KindAt ==
    ASSUME NEW f, NEW kind, NEW a \in Nat, NEW k \in Nat, Together(f, kind, a, k)
    PROVE  OfKind(f, kind) = [n \in 1..k |-> f[a + n]]
<1>1. \A n \in (a + 1)..(a + k) : n - a \in 1..k /\ a + (n - a) = n
  OBVIOUS
<1>2. \A n \in (a + 1)..(a + k) : n \in DOMAIN f /\ f[n].kind = kind
  BY <1>1 DEF Together
<1>3. {n \in DOMAIN f : f[n].kind = kind} = (a + 1)..(a + k)
  BY <1>2 DEF Together
<1>4. InOrder((a + 1)..(a + k)) = [n \in 1..((a + k) - (a + 1) + 1) |-> (a + 1) + n - 1]
  BY InOrderOfInterval
<1> DEFINE at == InOrder({n \in DOMAIN f : f[n].kind = kind})
<1>5. DOMAIN at = 1..k /\ \A n \in 1..k : at[n] = a + n
  <2>1. (a + k) - (a + 1) + 1 = k /\ \A n \in 1..k : (a + 1) + n - 1 = a + n
    OBVIOUS
  <2>2. at = [n \in 1..((a + k) - (a + 1) + 1) |-> (a + 1) + n - 1]
    BY <1>3, <1>4
  <2> HIDE DEF at
  <2>3. QED
    BY <2>1, <2>2
<1>6. OfKind(f, kind) = [n \in DOMAIN at |-> f[at[n]]]
  BY DEF OfKind
<1> HIDE DEF at
<1>7. QED
  BY <1>5, <1>6

\* A file the verifier can read is a header, leaves, and a head or none.
LEMMA ReadableLines ==
    ASSUME NEW f, NEW L \in Nat, L = Len(f), DOMAIN f = 1..L, Readable(f)
    PROVE  \E m \in Nat :
              /\ Leaves(f) = [n \in 1..m |-> f[1 + n]]
              /\ \A n \in 1..m : f[1 + n].kind = "leaf" /\ 1 + n \in DOMAIN f
              /\ \/ L = m + 1 /\ OfKind(f, "head") = << >>
                 \/ L = m + 2 /\ f[m + 2].kind = "head" /\ OfKind(f, "head") = <<f[m + 2]>>
<1>0. f # << >> /\ f[1].kind = "header"
  BY DEF Readable
<1>1. L >= 1 /\ f[1].kind = "header" /\ 1 \in DOMAIN f
  BY <1>0
<1>2. \A n \in 2..L : f[n].kind = "leaf" \/ (f[n].kind = "head" /\ n = L)
  BY Zenon DEF Readable
<1>3. "header" # "leaf" /\ "header" # "head" /\ "leaf" # "head"
  OBVIOUS
<1>d. PICK o \in Nat, z \in Nat : o = 1 /\ z = 0
  OBVIOUS
<1>k. PICK leaf, head : o = 1 /\ z = 0 /\ leaf = "leaf" /\ head = "head"
  BY <1>d
<1>4. CASE L >= 2 /\ f[L].kind = "head"
  <2>1. PICK m \in Nat : L = m + 2
    BY <1>4
  <2>2. /\ \A n \in 1..m : 1 + n \in DOMAIN f /\ f[1 + n].kind = "leaf"
        /\ \A n \in DOMAIN f : f[n].kind = "leaf" => n \in (1 + 1)..(1 + m)
    BY <1>1, <1>2, <1>3, <1>4, <2>1
  <2>3. OfKind(f, "leaf") = [n \in 1..m |-> f[1 + n]]
    <3>1. Together(f, leaf, o, m)
      BY <2>2, <1>k DEF Together
    <3>2. OfKind(f, leaf) = [n \in 1..m |-> f[o + n]]
      BY <3>1, KindAt
    <3>3. QED
      BY <3>2, <1>k
  <2>7. OfKind(f, "head") = <<f[m + 2]>>
    <3>0. PICK c \in Nat : c = m + 1
      OBVIOUS
    <3>1. Together(f, head, c, o)
      BY <1>1, <1>2, <1>3, <1>4, <2>1, <1>k, <3>0 DEF Together
    <3>2. OfKind(f, head) = [n \in 1..o |-> f[c + n]]
      BY <3>1, KindAt
    <3>3. QED
      BY <3>2, <3>0, <1>k
  <2>8. f[m + 2].kind = "head"
    BY <1>4, <2>1
  <2>9. QED
    BY <2>1, <2>2, <2>3, <2>7, <2>8 DEF Leaves
<1>5. CASE ~(L >= 2 /\ f[L].kind = "head")
  <2>1. PICK m \in Nat : L = m + 1
    BY <1>1
  <2>2. /\ \A n \in 1..m : 1 + n \in DOMAIN f /\ f[1 + n].kind = "leaf"
        /\ \A n \in DOMAIN f : f[n].kind = "leaf" => n \in (1 + 1)..(1 + m)
    BY <1>1, <1>2, <1>3, <1>5, <2>1
  <2>3. OfKind(f, "leaf") = [n \in 1..m |-> f[1 + n]]
    <3>1. Together(f, leaf, o, m)
      BY <2>2, <1>k DEF Together
    <3>2. OfKind(f, leaf) = [n \in 1..m |-> f[o + n]]
      BY <3>1, KindAt
    <3>3. QED
      BY <3>2, <1>k
  <2>6. OfKind(f, "head") = << >>
    <3>1. Together(f, head, z, z)
      BY <1>1, <1>2, <1>3, <1>5, <2>1, <1>k DEF Together
    <3>2. OfKind(f, head) = [n \in 1..z |-> f[z + n]]
      BY <3>1, KindAt
    <3>3. QED
      BY <3>2, <1>k
  <2>7. QED
    BY <2>1, <2>2, <2>3, <2>6 DEF Leaves
<1>6. QED
  BY <1>4, <1>5

LEMMA AscendingGrows ==
    ASSUME NEW q, NEW m \in Nat, DOMAIN q = 1..m, Len(q) = m, \A n \in 1..m : q[n] \in Nat,
           Ascending(q)
    PROVE  \A x, y \in 1..m : x < y => q[x] < q[y]
<1> DEFINE Bad == {y \in 1..m : \E x \in 1..m : x < y /\ ~(q[x] < q[y])}
<1>1. \A n \in 1..(m - 1) : q[n] < q[n + 1]
  BY DEF Ascending
<1>2. CASE Bad = {}
  BY <1>2
<1>3. CASE Bad # {}
  <2>1. Bad \in SUBSET Nat
    OBVIOUS
  <2>2. PICK y \in Bad : \A z \in Bad : y <= z
    <3> HIDE DEF Bad
    <3>1. QED
      BY <1>3, <2>1, LeastExists
  <2>3. PICK x \in 1..m : x < y /\ ~(q[x] < q[y])
    OBVIOUS
  <2>4. y - 1 \in 1..(m - 1) /\ x <= y - 1 /\ (y - 1) + 1 = y /\ y - 1 \in 1..m /\ y \in 1..m
    BY <2>3
  <2>5. q[y - 1] < q[y]
    BY <2>4, <1>1
  <2>6. CASE x = y - 1
    BY <2>3, <2>5, <2>6
  <2>7. CASE x < y - 1
    <3>1. y - 1 \notin Bad
      BY <2>2, <2>4
    <3>2. q[x] < q[y - 1]
      BY <3>1, <2>4, <2>7
    <3>3. q[x] \in Nat /\ q[y - 1] \in Nat /\ q[y] \in Nat
      BY <2>4
    <3>4. QED
      BY <3>2, <3>3, <2>3, <2>5
  <2>8. QED
    BY <2>3, <2>4, <2>6, <2>7
<1>4. QED
  BY <1>2, <1>3

\* The indices of a file without a finding count from 0.
LEMMA NoneMisplaced ==
    ASSUME NEW q, NEW m \in Nat, DOMAIN q = 1..m, Len(q) = m, \A n \in 1..m : q[n] \in Nat,
           SequenceFindings(q) = << >>
    PROVE  \A n \in 1..m : q[n] = n - 1
<1> SUFFICES ASSUME Misplaced(q) # {} PROVE FALSE
  BY DEF Misplaced
<1>1. Misplaced(q) \in SUBSET Nat /\ Misplaced(q) \subseteq 1..m
  BY DEF Misplaced
<1>2. PICK p \in Misplaced(q) : \A x \in Misplaced(q) : p <= x
  BY <1>1, LeastExists
<1>3. p \in 1..m /\ q[p] # p - 1 /\ q[p] \in Nat
  BY <1>1 DEF Misplaced
<1>4. \A x \in 1..m : x < p => q[x] = x - 1
  <2> TAKE x \in 1..m
  <2> HAVE x < p
  <2>1. ~(p <= x)
    BY <1>3
  <2>2. x \notin Misplaced(q)
    BY <1>2, <2>1
  <2>3. QED
    BY <2>2 DEF Misplaced
<1>5. CASE ~Ascending(q)
  <2>1. \A x : <<x>> # << >>
    OBVIOUS
  <2>2. QED
    BY <1>5, <2>1 DEF SequenceFindings
<1>6. CASE Ascending(q)
  <2>1. \A x, y \in 1..m : x < y => q[x] < q[y]
    BY <1>6, AscendingGrows
  <2>2. q[p] >= p
    <3>1. CASE p = 1
      BY <3>1, <1>3
    <3>2. CASE p # 1
      <4>1. p - 1 \in 1..m /\ p - 1 < p
        BY <3>2, <1>3
      <4>2. q[p - 1] = p - 2 /\ q[p - 1] < q[p]
        BY <4>1, <1>3, <1>4, <2>1
      <4>3. QED
        BY <4>2, <1>3
    <3>3. QED
      BY <3>1, <3>2
  <2>3. \A x \in 1..m : q[x] # p - 1
    <3> SUFFICES ASSUME NEW x \in 1..m PROVE q[x] # p - 1
      OBVIOUS
    <3>1. CASE x < p
      BY <3>1, <1>3, <1>4
    <3>2. CASE x = p
      BY <3>2, <1>3
    <3>3. CASE p < x
      <4>1. q[p] < q[x]
        BY <3>3, <1>3, <2>1
      <4>2. q[x] \in Nat
        OBVIOUS
      <4>3. QED
        BY <4>1, <4>2, <2>2, <1>3
    <3>4. QED
      BY <3>1, <3>2, <3>3, <1>3
  <2>4. Last(q) \in Nat /\ p - 1 <= Last(q)
    <3>1. m \in 1..m /\ Last(q) = q[m]
      BY <1>3 DEF Last
    <3>2. p = m \/ q[p] < q[m]
      BY <3>1, <1>3, <2>1
    <3>3. QED
      BY <3>1, <3>2, <2>2, <1>3
  <2>5. Missing(q) \in SUBSET Nat /\ IsFiniteSet(Missing(q)) /\ p - 1 \in Missing(q)
    <3>1. IsFiniteSet(0..Last(q))
      BY <2>4, FS_Interval
    <3>2. Missing(q) \subseteq 0..Last(q)
      BY DEF Missing
    <3>3. p - 1 \in 0..Last(q)
      BY <2>4, <1>3
    <3>4. QED
      BY <3>1, <3>2, <3>3, <2>3, <2>4, FS_Subset DEF Missing
  <2> DEFINE gaps == InOrder(Missing(q))
             N == Cardinality(Missing(q))
  <2>6. DOMAIN gaps = 1..N /\ N \in Nat /\ N # 0
    BY <2>5, InOrderLists, FS_EmptySet
  <2>7. SequenceFindings(q) = [n \in DOMAIN gaps |-> Finding("drop", gaps[n])]
    BY <1>6 DEF SequenceFindings
  <2> HIDE DEF gaps, N
  <2>8. 1 \in DOMAIN SequenceFindings(q)
    BY <2>6, <2>7
  <2>9. QED
    BY <2>8
<1>7. QED
  BY <1>5, <1>6

-----------------------------------------------------------------------------
(* What an export writes. *)

\* The file of a run's envelopes: a header, a leaf to an envelope, a head.
Exported(f, es, ks, ts, key) ==
    /\ es \in Seq(Envelopes) /\ es # << >>
    /\ Len(f) = Len(es) + 2 /\ f = [n \in 1..(Len(es) + 2) |-> f[n]]
    /\ f[1] = Header(Origin, Thumbprints(ks), Addressed(ts))
    /\ \A n \in 1..Len(es) : f[1 + n] = Leaf(n - 1, es[n], SignerOf(es[n]), <<SignerOf(es[n]), es[n]>>)
    /\ f[Len(es) + 2] = HeadLine(Origin, es, key)

LEMMA WriteIs ==
    ASSUME NEW es \in Seq(Envelopes), es # << >>, NEW ks, NEW ts, NEW key,
           NEW entries, entries = [n \in 1..Len(es) |->
                          [payload |-> es[n], key |-> SignerOf(es[n]), sig |-> <<SignerOf(es[n]), es[n]>>]]
    PROVE  Exported(Write(Origin, ks, ts, entries, key), es, ks, ts, key)
<1> DEFINE N == Len(es)
           H == Header(Origin, Thumbprints(ks), Addressed(ts))
           ls == [n \in DOMAIN entries |->
                     Leaf(n - 1, entries[n].payload, entries[n].key, entries[n].sig)]
           hs == [n \in DOMAIN entries |-> entries[n].payload]
           T == HeadLine(Origin, hs, key)
<1>1. N \in Nat /\ DOMAIN entries = 1..N
  OBVIOUS
<1>2. hs = es
  OBVIOUS
<1>3. /\ DOMAIN ls = 1..N /\ ls \in Seq({ls[n] : n \in 1..N}) /\ Len(ls) = N
      /\ \A n \in 1..N : ls[n] = Leaf(n - 1, es[n], SignerOf(es[n]), <<SignerOf(es[n]), es[n]>>)
  <2>1. DOMAIN ls = 1..N
    BY <1>1
  <2>2. \A n \in 1..N : ls[n] = Leaf(n - 1, es[n], SignerOf(es[n]), <<SignerOf(es[n]), es[n]>>)
    OBVIOUS
  <2>3. ls = [n \in 1..N |-> ls[n]]
    BY <1>1
  <2> HIDE DEF ls
  <2>4. QED
    BY <1>1, <2>1, <2>2, <2>3
<1>4. Write(Origin, ks, ts, entries, key) = <<H>> \o ls \o <<T>>
  BY DEF Write
<1> HIDE DEF N, H, ls, hs, T
<1> DEFINE f == <<H>> \o ls \o <<T>>
<1>5. /\ Len(f) = N + 2 /\ f = [n \in 1..(N + 2) |-> f[n]] /\ f[1] = H /\ f[N + 2] = T
      /\ \A n \in 1..N : f[1 + n] = ls[n]
  BY <1>1, <1>3
<1>6. T = HeadLine(Origin, es, key)
  BY <1>2 DEF T
<1> HIDE DEF f
<1>7. QED
  BY <1>3, <1>4, <1>5, <1>6 DEF Exported, N, H, f

\* Its leaves are those of its envelopes, and its head is its last line.
LEMMA ExportedLines ==
    ASSUME NEW f, NEW es, NEW ks, NEW ts, NEW key, Exported(f, es, ks, ts, key)
    PROVE  /\ Len(es) \in Nat \ {0} /\ DOMAIN es = 1..Len(es) /\ \A n \in 1..Len(es) : es[n] \in Envelopes
           /\ Leaves(f) = [n \in 1..Len(es) |-> Leaf(n - 1, es[n], SignerOf(es[n]), <<SignerOf(es[n]), es[n]>>)]
           /\ OfKind(f, "head") = <<HeadLine(Origin, es, key)>>
           /\ Last(f) = HeadLine(Origin, es, key)
           /\ f # << >>
<1> DEFINE N == Len(es)
<1>1. N \in Nat \ {0} /\ DOMAIN es = 1..N /\ \A n \in 1..N : es[n] \in Envelopes
  BY DEF Exported
<1> HIDE DEF N
<1>2. Len(f) = N + 2 /\ DOMAIN f = 1..(N + 2)
  BY DEF Exported, N
<1>3. f[1].kind = "header" /\ f[N + 2].kind = "head" /\ \A n \in 1..N : f[1 + n].kind = "leaf"
  <2>1. \A n \in 1..N : f[1 + n] = Leaf(n - 1, es[n], SignerOf(es[n]), <<SignerOf(es[n]), es[n]>>)
    BY DEF Exported, N
  <2>2. \A n, p, k, g : Leaf(n, p, k, g).kind = "leaf"
    BY DEF Leaf
  <2>3. ASSUME NEW n \in 1..N PROVE f[1 + n].kind = "leaf"
    <3>1. f[1 + n] = Leaf(n - 1, es[n], SignerOf(es[n]), <<SignerOf(es[n]), es[n]>>)
      BY <2>1
    <3>2. QED
      BY <3>1, <2>2
  <2>4. f[1].kind = "header" /\ f[N + 2].kind = "head"
    BY DEF Exported, N, Header, HeadLine
  <2>5. QED
    BY <2>3, <2>4
<1>d. PICK o \in Nat, c \in Nat : o = 1 /\ c = N + 1
  BY <1>1
<1>k. PICK leaf, head : o = 1 /\ c = N + 1 /\ leaf = "leaf" /\ head = "head"
  BY <1>d
<1>4. \A n \in DOMAIN f : n = 1 \/ n = N + 2 \/ \E m \in 1..N : n = 1 + m
  <2> TAKE n \in DOMAIN f
  <2>1. n \in 1..(N + 2)
    BY <1>2
  <2>2. n = 1 \/ n = N + 2 \/ (n - 1 \in 1..N /\ n = 1 + (n - 1))
    BY <2>1, <1>1
  <2>3. QED
    BY <2>2
<1>5. Together(f, leaf, o, N)
  <2>1. \A n \in 1..N : o + n \in DOMAIN f /\ f[o + n].kind = leaf
    BY <1>1, <1>2, <1>3, <1>k
  <2>2. \A n \in DOMAIN f : f[n].kind = leaf => n \in (o + 1)..(o + N)
    BY <1>1, <1>3, <1>4, <1>k
  <2>3. QED
    BY <2>1, <2>2 DEF Together
<1>6. Together(f, head, c, o)
  <2>1. \A n \in 1..o : c + n \in DOMAIN f /\ f[c + n].kind = head
    BY <1>1, <1>2, <1>3, <1>k
  <2>2. \A n \in DOMAIN f : f[n].kind = head => n \in (c + 1)..(c + o)
    BY <1>1, <1>3, <1>4, <1>k
  <2>3. QED
    BY <2>1, <2>2 DEF Together
<1>7. OfKind(f, leaf) = [n \in 1..N |-> f[o + n]]
  BY <1>1, <1>5, KindAt
<1>8. OfKind(f, head) = [n \in 1..o |-> f[c + n]]
  BY <1>6, KindAt
<1>9. Leaves(f) = [n \in 1..N |-> Leaf(n - 1, es[n], SignerOf(es[n]), <<SignerOf(es[n]), es[n]>>)]
  <2>1. Leaves(f) = [n \in 1..N |-> f[1 + n]]
    BY <1>7, <1>k DEF Leaves
  <2>2. \A n \in 1..N : f[1 + n] = Leaf(n - 1, es[n], SignerOf(es[n]), <<SignerOf(es[n]), es[n]>>)
    BY DEF Exported, N
  <2>3. QED
    BY <2>1, <2>2
<1>10. OfKind(f, "head") = <<f[N + 2]>>
  BY <1>1, <1>8, <1>k
<1>11. Last(f) = f[N + 2]
  BY <1>2 DEF Last
<1>12. f[N + 2] = HeadLine(Origin, es, key)
  BY DEF Exported, N
<1>13. f # << >>
  BY <1>1, <1>2
<1>14. QED
  BY <1>1, <1>9, <1>10, <1>11, <1>12, <1>13 DEF N

\* A file written under keys that are all in its header is accepted.
LEMMA ExportedPasses ==
    ASSUME NEW f, NEW es, NEW ks, NEW ts, NEW key, Exported(f, es, ks, ts, key),
           key \in ks, \A n \in 1..Len(es) : SignerOf(es[n]) \in ks
    PROVE  Verified(f)
<1> DEFINE N == Len(es)
           ls == Leaves(f)
<1>1. /\ N \in Nat \ {0} /\ DOMAIN es = 1..N
      /\ ls = [n \in 1..N |-> Leaf(n - 1, es[n], SignerOf(es[n]), <<SignerOf(es[n]), es[n]>>)]
      /\ OfKind(f, "head") = <<HeadLine(Origin, es, key)>>
      /\ f # << >>
  BY ExportedLines
<1>2. f[1] = Header(Origin, Thumbprints(ks), Addressed(ts)) /\ DOMAIN f[1].keys = ks
  BY DEF Exported, Header, Thumbprints
<1>3. Readable(f)
  <2>1. f[1].kind = "header" /\ f[1].known /\ \A k \in DOMAIN f[1].keys : f[1].keys[k] = k
    BY <1>2 DEF Header, Thumbprints
  <2>2. ~Misaddressed(f[1])
    BY <1>2 DEF Misaddressed, Header, Addressed
  <2>3. Len(f) = N + 2
    BY DEF Exported
  <2>4. ASSUME NEW n \in 2..(N + 2)
        PROVE  f[n].kind \in {"leaf", "head"} /\ (f[n].kind = "head" => n = N + 2)
    <3>1. CASE n = N + 2
      BY <3>1 DEF Exported, HeadLine
    <3>2. CASE n # N + 2
      <4>1. n - 1 \in 1..N /\ 1 + (n - 1) = n
        BY <1>1, <3>2
      <4>2. f[n].kind = "leaf"
        <5>1. f[1 + (n - 1)] = Leaf((n - 1) - 1, es[n - 1], SignerOf(es[n - 1]),
                                    <<SignerOf(es[n - 1]), es[n - 1]>>)
          BY <4>1 DEF Exported
        <5>2. \A j, p, k, g : Leaf(j, p, k, g).kind = "leaf"
          BY DEF Leaf
        <5>3. QED
          BY <4>1, <5>1, <5>2
      <4>3. QED
        BY <4>2
    <3>3. QED
      BY <3>1, <3>2
  <2>5. QED
    BY <1>1, <2>1, <2>2, <2>3, <2>4 DEF Readable
<1>4. Unsound(ls, ks) = {}
  BY <1>1 DEF Unsound, Signed, Leaf
<1>5. SequenceFindings([n \in DOMAIN ls |-> ls[n].index]) = << >>
  <2> DEFINE q == [n \in DOMAIN ls |-> ls[n].index]
  <2>1. \A n \in DOMAIN q : q[n] = n - 1
    BY <1>1 DEF Leaf
  <2>2. Misplaced(q) = {}
    BY <2>1 DEF Misplaced
  <2>3. QED
    BY <2>2 DEF SequenceFindings
<1>6. HeadFindings(f, ls, ks) = << >>
  <2> DEFINE line == HeadLine(Origin, es, key)
  <2>1. [n \in DOMAIN ls |-> ls[n].hash] = es
    <3>1. \A n \in 1..N : ls[n].hash = es[n]
      BY <1>1 DEF Leaf
    <3>2. es = [n \in 1..N |-> es[n]]
      BY DEF Exported
    <3>3. QED
      BY <1>1, <3>1, <3>2
  <2>2. line.head.count = N /\ line.head.chain = Chain(Origin, es) /\ f[1].origin = Origin
    BY <1>2 DEF HeadLine, Header
  <2>3. Len(ls) = N
    BY <1>1
  <2>4. Signed(line, line.head, ks)
    BY DEF Signed, HeadLine
  <2>5. <<line>> # << >> /\ <<line>>[1] = line
    OBVIOUS
  <2>6. OfKind(f, "head") = <<line>> /\ ~(N < N)
    BY <1>1
  <2> HIDE DEF line, ls, N
  <2>7. QED
    BY <2>1, <2>2, <2>3, <2>4, <2>5, <2>6 DEF HeadFindings
<1> HIDE DEF ls, N
<1>7. Findings(f) = << >>
  BY <1>2, <1>4, <1>5, <1>6 DEF Findings, ls
<1>8. QED
  BY <1>3, <1>7 DEF Verified

-----------------------------------------------------------------------------
(* What a line on its way can be. *)

\* The signatures somebody could have made of a payload, and none.
LeafSigs == {<< >>, <<Stranger, Forged>>} \cup {<<SignerOf(e), e>> : e \in Envelopes}

HeaderMade(l) ==
    \E kn, o, ks, ts :
        l = [kind |-> "header", known |-> kn, origin |-> o, keys |-> ks, tokens |-> ts]
LeafMade(l) ==
    \E n \in Nat, g \in LeafSigs : \E p, k, h :
        l = [kind |-> "leaf", index |-> n, payload |-> p, keyid |-> k, sig |-> g, hash |-> h]
HeadMade(l, hd) ==
    \E h, k, g :
        /\ l = [kind |-> "head", head |-> h, keyid |-> k, sig |-> g]
        /\ g = << >> \/ g = <<CpKey, hd>> \/ \E x : g = <<Stranger, x>>

\* The lines of a file whose checkpoint key has signed the head hd.
Made(l, hd) == l = Blank \/ l = Garbage \/ HeaderMade(l) \/ LeafMade(l) \/ HeadMade(l, hd)

LEMMA MadeKinds ==
    ASSUME NEW l, NEW hd, Made(l, hd)
    PROVE  /\ l.kind = "leaf" => LeafMade(l)
           /\ l.kind = "head" => HeadMade(l, hd)
           /\ l.kind = "header" => HeaderMade(l)
<1>1. Blank.kind = "blank" /\ Garbage.kind = "garbage"
  BY DEF Blank, Garbage
<1>2. HeaderMade(l) => l.kind = "header"
  BY DEF HeaderMade
<1>3. LeafMade(l) => l.kind = "leaf"
  BY DEF LeafMade
<1>4. HeadMade(l, hd) => l.kind = "head"
  BY DEF HeadMade
<1>5. QED
  BY <1>1, <1>2, <1>3, <1>4 DEF Made

LEMMA ChangedLeafMade ==
    ASSUME NEW l, LeafMade(l), NEW x \in ChangedLeaf(l)
    PROVE  LeafMade(x)
<1>1. PICK n \in Nat, g \in LeafSigs : \E p, k, h :
         l = [kind |-> "leaf", index |-> n, payload |-> p, keyid |-> k, sig |-> g, hash |-> h]
  BY DEF LeafMade
<1>2. PICK p, k, h :
         l = [kind |-> "leaf", index |-> n, payload |-> p, keyid |-> k, sig |-> g, hash |-> h]
  BY <1>1
<1>3. << >> \in LeafSigs /\ <<Stranger, Forged>> \in LeafSigs
      /\ (\A e \in Envelopes : <<SignerOf(e), e>> \in LeafSigs) /\ n + 1 \in Nat
  BY DEF LeafSigs
<1> DEFINE Is(m, q, j, s, t) ==
             [kind |-> "leaf", index |-> m, payload |-> q, keyid |-> j, sig |-> s, hash |-> t]
<1>4. ASSUME NEW m \in Nat, NEW s \in LeafSigs, NEW q, NEW j, NEW t PROVE LeafMade(Is(m, q, j, s, t))
  BY DEF LeafMade
<1>5. CASE x = [l EXCEPT !.payload = Forged]
  <2>1. x = Is(n, Forged, k, g, h)
    BY <1>2, <1>5
  <2>2. QED
    BY <2>1, <1>4
<1>6. CASE x = [l EXCEPT !.hash = Forged]
  <2>1. x = Is(n, p, k, g, Forged)
    BY <1>2, <1>6
  <2>2. QED
    BY <2>1, <1>4
<1>7. CASE x = [l EXCEPT !.payload = Forged, !.hash = Forged]
  <2>1. x = Is(n, Forged, k, g, Forged)
    BY <1>2, <1>7
  <2>2. QED
    BY <2>1, <1>4
<1>8. CASE x = [l EXCEPT !.keyid = Stranger]
  <2>1. x = Is(n, p, Stranger, g, h)
    BY <1>2, <1>8
  <2>2. QED
    BY <2>1, <1>4
<1>9. CASE x = [l EXCEPT !.sig = << >>]
  <2>1. x = Is(n, p, k, << >>, h)
    BY <1>2, <1>9
  <2>2. QED
    BY <2>1, <1>3, <1>4
<1>10. CASE x = [l EXCEPT !.payload = Forged, !.hash = Forged, !.keyid = Stranger,
                          !.sig = <<Stranger, Forged>>]
  <2>1. x = Is(n, Forged, Stranger, <<Stranger, Forged>>, Forged)
    BY <1>2, <1>10
  <2>2. QED
    BY <2>1, <1>3, <1>4
<1>11. CASE x = [l EXCEPT !.index = @ + 1]
  <2>1. x = Is(n + 1, p, k, g, h)
    BY <1>2, <1>11
  <2>2. QED
    BY <2>1, <1>3, <1>4
<1>12. CASE \E e \in Envelopes : x = Leaf(l.index, e, SignerOf(e), <<SignerOf(e), e>>)
  <2>1. PICK e \in Envelopes : x = Leaf(l.index, e, SignerOf(e), <<SignerOf(e), e>>)
    BY <1>12
  <2>2. x = Is(n, e, SignerOf(e), <<SignerOf(e), e>>, e)
    BY <1>2, <2>1 DEF Leaf
  <2>3. QED
    BY <2>2, <1>3, <1>4
<1>13. QED
  BY <1>5, <1>6, <1>7, <1>8, <1>9, <1>10, <1>11, <1>12 DEF ChangedLeaf

LEMMA ChangedHeadMade ==
    ASSUME NEW l, NEW hd, HeadMade(l, hd), NEW x \in Heads(l)
    PROVE  HeadMade(x, hd)
<1>1. PICK h, k, g :
        /\ l = [kind |-> "head", head |-> h, keyid |-> k, sig |-> g]
        /\ g = << >> \/ g = <<CpKey, hd>> \/ \E y : g = <<Stranger, y>>
  BY DEF HeadMade
<1>2. PICK fresh : \/ x = [l EXCEPT !.head = fresh]
                   \/ x = [l EXCEPT !.head = fresh, !.keyid = Stranger, !.sig = <<Stranger, fresh>>]
                   \/ x = [l EXCEPT !.sig = << >>]
  <2>1. \/ \E fresh : \/ x = [l EXCEPT !.head = fresh]
                      \/ x = [l EXCEPT !.head = fresh, !.keyid = Stranger, !.sig = <<Stranger, fresh>>]
        \/ x = [l EXCEPT !.head.count = @ - 1]
        \/ x = [l EXCEPT !.head.chain = << >>]
        \/ x = [l EXCEPT !.sig = << >>]
    BY Zenon DEF Heads
  <2>2. /\ [l EXCEPT !.head.count = @ - 1] = [l EXCEPT !.head = [l.head EXCEPT !.count = l.head.count - 1]]
        /\ [l EXCEPT !.head.chain = << >>] = [l EXCEPT !.head = [l.head EXCEPT !.chain = << >>]]
    OBVIOUS
  <2>3. QED
    BY <1>1, <2>1, <2>2
<1>3. CASE x = [l EXCEPT !.head = fresh]
  <2>1. x = [kind |-> "head", head |-> fresh, keyid |-> k, sig |-> g]
    BY <1>1, <1>3
  <2>2. QED
    BY <1>1, <2>1 DEF HeadMade
<1>4. CASE x = [l EXCEPT !.head = fresh, !.keyid = Stranger, !.sig = <<Stranger, fresh>>]
  <2>1. x = [kind |-> "head", head |-> fresh, keyid |-> Stranger, sig |-> <<Stranger, fresh>>]
    BY <1>1, <1>4
  <2>2. QED
    BY <2>1 DEF HeadMade
<1>5. CASE x = [l EXCEPT !.sig = << >>]
  <2>1. x = [kind |-> "head", head |-> h, keyid |-> k, sig |-> << >>]
    BY <1>1, <1>5
  <2>2. QED
    BY <2>1 DEF HeadMade
<1>6. QED
  BY <1>2, <1>3, <1>4, <1>5

LEMMA ChangedHeaderMade ==
    ASSUME NEW l, HeaderMade(l), NEW x \in ChangedHeader(l)
    PROVE  HeaderMade(x)
<1>1. PICK kn, o, ks, ts :
        l = [kind |-> "header", known |-> kn, origin |-> o, keys |-> ks, tokens |-> ts]
  BY DEF HeaderMade
<1>2. PICK v : \/ x = [l EXCEPT !.known = v]
               \/ x = [l EXCEPT !.origin = v]
               \/ x = [l EXCEPT !.keys = v]
               \/ x = [l EXCEPT !.tokens = v]
  BY Zenon DEF ChangedHeader
<1>3. \/ x = [kind |-> "header", known |-> v, origin |-> o, keys |-> ks, tokens |-> ts]
      \/ x = [kind |-> "header", known |-> kn, origin |-> v, keys |-> ks, tokens |-> ts]
      \/ x = [kind |-> "header", known |-> kn, origin |-> o, keys |-> v, tokens |-> ts]
      \/ x = [kind |-> "header", known |-> kn, origin |-> o, keys |-> ks, tokens |-> v]
  BY <1>1, <1>2
<1>4. QED
  BY Zenon, <1>3 DEF HeaderMade

LEMMA ChangedMade ==
    ASSUME NEW l, NEW hd, Made(l, hd), NEW x \in {Blank, Garbage} \union Changed(l)
    PROVE  Made(x, hd)
<1>1. CASE x \in {Blank, Garbage}
  BY <1>1 DEF Made
<1>2. CASE x \in Changed(l)
  <2>1. CASE l.kind = "leaf"
    <3>1. x \in ChangedLeaf(l) /\ LeafMade(l)
      BY <1>2, <2>1, MadeKinds DEF Changed
    <3>2. QED
      BY <3>1, ChangedLeafMade DEF Made
  <2>2. CASE l.kind = "head"
    <3>1. x \in Heads(l) /\ HeadMade(l, hd)
      BY <1>2, <2>2, MadeKinds DEF Changed
    <3>2. QED
      BY <3>1, ChangedHeadMade DEF Made
  <2>3. CASE l.kind = "header"
    <3>1. x \in ChangedHeader(l) /\ HeaderMade(l)
      BY <1>2, <2>3, MadeKinds DEF Changed
    <3>2. QED
      BY <3>1, ChangedHeaderMade DEF Made
  <2>4. CASE l.kind # "leaf" /\ l.kind # "head" /\ l.kind # "header"
    BY <1>2, <2>4 DEF Changed
  <2>5. QED
    BY <2>1, <2>2, <2>3, <2>4
<1>3. QED
  BY <1>1, <1>2

-----------------------------------------------------------------------------
(* A file on its way. *)

LEMMA EditsStay ==
    ASSUME NEW S, NEW f \in Seq(S)
    PROVE  /\ \A n \in DOMAIN f : Without(f, n) \in Seq(S) /\ InsertAt(f, n, f[n]) \in Seq(S)
           /\ \A n \in 1..(Len(f) - 1) : SubSeq(f, 1, n) \in Seq(S) /\ Swapped(f, n) \in Seq(S)
           /\ \A n \in DOMAIN f : \A x : [f EXCEPT ![n] = x] \in Seq(S \cup {x})
<1>1. ASSUME NEW n \in DOMAIN f PROVE Without(f, n) \in Seq(S)
  <2>1. SubSeq(f, 1, n - 1) \in Seq(S) /\ SubSeq(f, n + 1, Len(f)) \in Seq(S)
    OBVIOUS
  <2>2. QED
    BY <2>1 DEF Without
<1>2. ASSUME NEW n \in DOMAIN f PROVE InsertAt(f, n, f[n]) \in Seq(S)
  <2>1. SubSeq(f, 1, n - 1) \in Seq(S) /\ SubSeq(f, n, Len(f)) \in Seq(S) /\ <<f[n]>> \in Seq(S)
    OBVIOUS
  <2>2. QED
    BY <2>1 DEF InsertAt
<1>3. ASSUME NEW n \in 1..(Len(f) - 1) PROVE SubSeq(f, 1, n) \in Seq(S) /\ Swapped(f, n) \in Seq(S)
  <2>1. SubSeq(f, 1, n) \in Seq(S)
    OBVIOUS
  <2>2. f[n] \in S /\ f[n + 1] \in S
    OBVIOUS
  <2>3. Swapped(f, n) \in Seq(S)
    BY <2>2 DEF Swapped
  <2>4. QED
    BY <2>1, <2>3
<1>4. ASSUME NEW n \in DOMAIN f, NEW x PROVE [f EXCEPT ![n] = x] \in Seq(S \cup {x})
  OBVIOUS
<1>5. QED
  BY <1>1, <1>2, <1>3, <1>4

\* The lines of a file whose checkpoint key has signed the head hd.
Lines(f, hd) == \E S : f \in Seq(S) /\ \A l \in S : Made(l, hd)

LEMMA EditsMade ==
    ASSUME NEW f, NEW hd, Lines(f, hd)
    PROVE  /\ \A n \in DOMAIN f : Lines(Without(f, n), hd) /\ Lines(InsertAt(f, n, f[n]), hd)
           /\ \A n \in 1..(Len(f) - 1) : Lines(SubSeq(f, 1, n), hd) /\ Lines(Swapped(f, n), hd)
           /\ \A n \in DOMAIN f : \A x \in {Blank, Garbage} \union Changed(f[n]) :
                 Lines([f EXCEPT ![n] = x], hd)
<1>1. PICK S : f \in Seq(S) /\ \A l \in S : Made(l, hd)
  BY DEF Lines
<1>2. ASSUME NEW n \in DOMAIN f, NEW x \in {Blank, Garbage} \union Changed(f[n])
      PROVE  Lines([f EXCEPT ![n] = x], hd)
  <2>1. f[n] \in S
    BY <1>1
  <2>2. Made(x, hd)
    BY <1>1, <2>1, ChangedMade
  <2>3. [f EXCEPT ![n] = x] \in Seq(S \cup {x})
    BY <1>1, EditsStay
  <2>4. QED
    BY <1>1, <2>2, <2>3 DEF Lines
<1>3. QED
  BY <1>1, <1>2, EditsStay DEF Lines

-----------------------------------------------------------------------------
(* The rows a run is read from. *)

\* Rows of a log, with one canonical row to a receipt.
RowsOf(rows, ls) ==
    /\ DOMAIN rows \subseteq 1..Len(ls)
    /\ \A k \in DOMAIN rows : rows[k].env = ls[k]
    /\ \A k, l \in DOMAIN rows :
          /\ rows[k].duplicateOf = 0 /\ rows[l].duplicateOf = 0
          /\ ReceiptOf[rows[k].env] = ReceiptOf[rows[l].env]
          => k = l

LEMMA FirstOfNone ==
    ASSUME NEW S \in SUBSET (Nat \ {0}), First(S) = 0
    PROVE  S = {}
<1> SUFFICES ASSUME S # {} PROVE FALSE
  OBVIOUS
<1>1. Lowest(S) \in S
  BY LowestIsLeast
<1>2. QED
  BY <1>1 DEF First

LEMMA WalkedRows ==
    ASSUME NEW rs, NEW ls \in Seq(Envelopes), RowsOf(rs, ls),
           NEW f \in Nat \ {0}, NEW n \in 0..Len(ls), ~WalkRefused(rs, ls, f, n)
    PROVE  RowsOf(Walked(rs, ls, f, n), ls)
<1> DEFINE W == Walked(rs, ls, f, n)
<1>1. /\ DOMAIN W = DOMAIN rs \cup f..n
      /\ \A k \in f..n : W[k].env = ls[k] /\ W[k].duplicateOf = WalkDup(rs, ls, f, k)
      /\ \A k \in DOMAIN W : k \notin f..n => k \in DOMAIN rs /\ W[k] = rs[k]
  BY DEF Walked
<1>2. DOMAIN W \subseteq 1..Len(ls)
  <2>1. f..n \subseteq 1..Len(ls) /\ Len(ls) \in Nat
    OBVIOUS
  <2>2. QED
    BY <1>1, <2>1 DEF RowsOf
<1>3. \A k \in DOMAIN W : W[k].env = ls[k]
  BY <1>1 DEF RowsOf
<1>4. ASSUME NEW k \in DOMAIN W, NEW l \in DOMAIN W, k < l,
             W[k].duplicateOf = 0, W[l].duplicateOf = 0, ReceiptOf[ls[k]] = ReceiptOf[ls[l]]
      PROVE  FALSE
  <2> DEFINE r == ReceiptOf[ls[l]]
             B(m) == {j \in Canonical(rs, ReceiptOf[ls[m]]) : j < f}
                        \cup {j \in f..(m - 1) : ReceiptOf[ls[j]] = ReceiptOf[ls[m]]}
  <2>1. k \in Nat \ {0} /\ l \in Nat \ {0} /\ k \in 1..Len(ls) /\ l \in 1..Len(ls)
    BY <1>2
  <2>2. ASSUME NEW m \in f..n, W[m].duplicateOf = 0 PROVE B(m) = {}
    <3>1. B(m) \subseteq Nat \ {0}
      <4>1. Canonical(rs, ReceiptOf[ls[m]]) \subseteq Nat \ {0}
        BY DEF Canonical, RowsOf
      <4>2. f..(m - 1) \subseteq Nat \ {0}
        OBVIOUS
      <4>3. QED
        BY <4>1, <4>2
    <3>2. First(B(m)) = 0
      BY <1>1, <2>2 DEF WalkDup
    <3> HIDE DEF B
    <3>3. QED
      BY <3>1, <3>2, FirstOfNone
  <2>3. CASE l \in f..n
    <3>1. B(l) = {}
      BY <2>2, <2>3, <1>4
    <3>2. CASE k \in f..n
      <4>1. k \in f..(l - 1)
        BY <2>1, <2>3, <3>2, <1>4
      <4>2. QED
        BY <3>1, <4>1, <1>4
    <3>3. CASE k \notin f..n
      <4>1. k \in DOMAIN rs /\ rs[k].duplicateOf = 0 /\ ReceiptOf[rs[k].env] = r
        BY <1>1, <1>3, <1>4, <3>3
      <4>2. k < f
        BY <2>1, <2>3, <3>3, <1>4
      <4>3. QED
        BY <3>1, <4>1, <4>2 DEF Canonical
    <3>4. QED
      BY <3>2, <3>3
  <2>4. CASE l \notin f..n
    <3>1. l \in DOMAIN rs /\ rs[l].duplicateOf = 0 /\ ReceiptOf[rs[l].env] = r
      BY <1>1, <1>3, <1>4, <2>4
    <3>2. CASE k \in f..n
      <4>1. WalkDup(rs, ls, f, k) = 0
        BY <1>1, <1>4, <3>2
      <4>2. l \in Canonical(rs, ReceiptOf[ls[k]]) /\ l > k
        BY <3>1, <1>4, <2>1 DEF Canonical
      <4>3. QED
        BY <3>2, <4>1, <4>2 DEF WalkRefused
    <3>3. CASE k \notin f..n
      <4>1. k \in DOMAIN rs /\ rs[k].duplicateOf = 0 /\ ReceiptOf[rs[k].env] = r
        BY <1>1, <1>3, <1>4, <3>3
      <4>2. k = l
        BY <3>1, <4>1 DEF RowsOf
      <4>3. QED
        BY <4>2, <2>1, <1>4
    <3>4. QED
      BY <3>2, <3>3
  <2>5. QED
    BY <2>3, <2>4
<1>5. ASSUME NEW k \in DOMAIN W, NEW l \in DOMAIN W, k # l,
             W[k].duplicateOf = 0, W[l].duplicateOf = 0, ReceiptOf[ls[k]] = ReceiptOf[ls[l]]
      PROVE  FALSE
  <2>1. k \in Int /\ l \in Int
    BY <1>2
  <2>2. k < l \/ l < k
    BY <2>1, <1>5
  <2>3. QED
    BY <1>4, <1>5, <2>2
<1>6. QED
  BY <1>2, <1>3, <1>5 DEF RowsOf

LEMMA TableRows == InputOK /\ WalkInv => RowsOf(table, leaves)
<1> SUFFICES ASSUME InputOK, WalkInv PROVE RowsOf(table, leaves)
  OBVIOUS
<1>1. RowsOf(before, leaves)
  BY DEF InputOK, RowsOf
<1>2. CASE ~ok
  BY <1>1, <1>2 DEF WalkInv
<1>3. CASE ok
  <2>1. PICK n \in Int : n = i - 1
    BY <1>3 DEF WalkInv, WalkRange
  <2>2. table = Walked(before, leaves, from, n) /\ ~WalkRefused(before, leaves, from, n)
    BY <1>3, <2>1 DEF WalkInv
  <2>3. n \in 0..Len(leaves) /\ from \in Nat \ {0} /\ leaves \in Seq(Envelopes)
    BY <1>3, <2>1 DEF WalkInv, WalkRange, InputOK
  <2>4. QED
    BY <1>1, <2>2, <2>3, WalkedRows
<1>4. QED
  BY <1>2, <1>3 DEF WalkInv

-----------------------------------------------------------------------------
(* The export of a run. *)

EnvsOf(rows, R) == {rows[k].env : k \in R}

\* The envelopes of a set of rows, in log order.
EnvsAt(rows, R) == [n \in 1..Cardinality(R) |-> rows[InOrder(R)[n]].env]

LEMMA RunRowsListed ==
    ASSUME NEW rows, NEW ls \in Seq(Envelopes), RowsOf(rows, ls), NEW R \in SUBSET DOMAIN rows
    PROVE  /\ R \in SUBSET Nat /\ IsFiniteSet(R) /\ Cardinality(R) \in Nat
           /\ InOrder(R) \in [1..Cardinality(R) -> R]
           /\ R # {} => Cardinality(R) # 0
           /\ EnvsAt(rows, R) \in Seq(Envelopes) /\ Len(EnvsAt(rows, R)) = Cardinality(R)
           /\ \A n \in 1..Cardinality(R) : EnvsAt(rows, R)[n] = ls[InOrder(R)[n]]
<1>1. R \subseteq 1..Len(ls) /\ Len(ls) \in Nat
  BY DEF RowsOf
<1>2. IsFiniteSet(1..Len(ls))
  BY <1>1, FS_Interval
<1>3. IsFiniteSet(R) /\ R \in SUBSET Nat
  BY <1>1, <1>2, FS_Subset
<1>4. Cardinality(R) \in Nat /\ InOrder(R) \in [1..Cardinality(R) -> R]
  BY <1>3, InOrderLists
<1>5. R # {} => Cardinality(R) # 0
  BY <1>3, FS_EmptySet
<1>6. ASSUME NEW n \in 1..Cardinality(R)
      PROVE  EnvsAt(rows, R)[n] = ls[InOrder(R)[n]] /\ ls[InOrder(R)[n]] \in Envelopes
  <2>1. InOrder(R)[n] \in R
    BY <1>4
  <2>2. QED
    BY <2>1, <1>1 DEF EnvsAt, RowsOf
<1>7. EnvsAt(rows, R) \in [1..Cardinality(R) -> Envelopes]
  BY <1>6 DEF EnvsAt
<1>8. EnvsAt(rows, R) \in Seq(Envelopes) /\ Len(EnvsAt(rows, R)) = Cardinality(R)
  BY <1>4, <1>7
<1>9. QED
  BY <1>3, <1>4, <1>5, <1>6, <1>8

\* ExportRun refuses a row it cannot back.
Refuses(rows, d, ks, R) ==
    \E k \in R : \/ k > d.note.size
                 \/ Fetched(d.entries, d.note.size, k) # Entry(rows[k].env)
                 \/ SignerOf(rows[k].env) \notin ks

\* f is the export of a run from rows of the log ls; R, ks, es and ts are the
\* rows of the run, the keys, the envelopes and the tokens it takes.
ExportOf(f, rows, ls, d, indexed, key, blobs, run, R, ks, es, ts) ==
    /\ f = ExportRun(rows, d, indexed, key, Origin, blobs, run)
    /\ ls \in Seq(Envelopes) /\ RowsOf(rows, ls)
    /\ R = RunRows(rows, run) /\ ks = indexed \cup {key}
    /\ es = EnvsAt(rows, R) /\ ts = Gathered(EnvsOf(rows, R), blobs)

LEMMA ExportIs ==
    ASSUME NEW f, NEW rows, NEW ls, NEW d, NEW indexed, NEW key, NEW blobs, NEW run,
           NEW R, NEW ks, NEW es, NEW ts,
           ExportOf(f, rows, ls, d, indexed, key, blobs, run, R, ks, es, ts)
    PROVE  /\ R = {} \/ Refuses(rows, d, ks, R) => f = << >>
           /\ ~(R = {} \/ Refuses(rows, d, ks, R)) => Exported(f, es, ks, ts, key)
<1> DEFINE order == InOrder(R)
           entries == [n \in DOMAIN order |->
                         LET e == rows[order[n]].env
                         IN  [payload |-> e, key |-> SignerOf(e), sig |-> <<SignerOf(e), e>>]]
<1>0. /\ f = ExportRun(rows, d, indexed, key, Origin, blobs, run)
      /\ ls \in Seq(Envelopes) /\ RowsOf(rows, ls)
      /\ R = RunRows(rows, run) /\ ks = indexed \cup {key}
      /\ es = EnvsAt(rows, R) /\ ts = Gathered(EnvsOf(rows, R), blobs)
  BY DEF ExportOf
<1>1. R \in SUBSET DOMAIN rows
  BY <1>0 DEF RunRows
<1>2. /\ Cardinality(R) \in Nat /\ order \in [1..Cardinality(R) -> R] /\ DOMAIN order = 1..Cardinality(R)
      /\ R # {} => Cardinality(R) # 0
      /\ es \in Seq(Envelopes) /\ Len(es) = Cardinality(R)
  BY <1>0, <1>1, RunRowsListed
<1>3. order = << >> <=> R = {}
  <2>1. R = {} => Cardinality(R) = 0
    BY FS_EmptySet
  <2>2. Cardinality(R) = 0 => order = << >>
    BY <1>2
  <2>3. order = << >> => Cardinality(R) = 0
    BY <1>2
  <2>4. QED
    BY <1>2, <2>1, <2>2, <2>3
<1>4. f = IF order = << >> \/ Refuses(rows, d, ks, R) THEN << >>
          ELSE Write(Origin, ks, ts, entries, key)
  BY <1>0 DEF ExportRun, HeaderKeys, Refuses, EnvsOf
<1>5. entries = [n \in 1..Len(es) |->
                   [payload |-> es[n], key |-> SignerOf(es[n]), sig |-> <<SignerOf(es[n]), es[n]>>]]
  BY <1>0, <1>2 DEF EnvsAt
<1>6. CASE R = {} \/ Refuses(rows, d, ks, R)
  BY <1>3, <1>4, <1>6
<1>7. CASE ~(R = {} \/ Refuses(rows, d, ks, R))
  <2>1. es # << >>
    BY <1>2, <1>7
  <2> HIDE DEF order, entries
  <2>2. Exported(Write(Origin, ks, ts, entries, key), es, ks, ts, key)
    BY <1>2, <1>5, <2>1, WriteIs
  <2>3. f = Write(Origin, ks, ts, entries, key)
    BY <1>3, <1>4, <1>7
  <2>4. QED
    BY <1>7, <2>2, <2>3
<1>8. QED
  BY <1>6, <1>7

-----------------------------------------------------------------------------
(* The export as it was written, and the file as it is. *)

\* The rows original was written from are still there.
WrittenFrom(run, ks) ==
    LET R == RunRows(table, run)
    IN  /\ R # {} /\ CpKey \in ks
        /\ \A k \in R : k <= size /\ SignerOf(table[k].env) \in ks
        /\ Exported(original, EnvsAt(table, R), ks,
                    Gathered(EnvsOf(table, R), store), CpKey)

OriginalInv ==
    original # << >> =>
        Finished /\ \E run \in Runs : \E ks \in SUBSET (Signers \cup {CpKey}) : WrittenFrom(run, ks)

\* No key but the log's and its emitters' gets into the table of keys, and a
\* file holds no line but what a change can make of those written.
FileInv ==
    /\ keys \subseteq Signers \cup {CpKey}
    /\ original = << >> => file = << >>
    /\ Lines(file, Last(original).head)

\* A step writes the export, strikes the file, or leaves both and, once there
\* is an export, what it was written from.
LEMMA FileSteps ==
    ASSUME WalkInv, EvidenceNext
    PROVE  \/ \E run \in Runs : Export(run)
           \/ Lose \/ Cut \/ Swap \/ Repeat \/ Change
           \/ /\ UNCHANGED <<file, original>>
              /\ (original # << >> /\ Finished) => UNCHANGED <<table, store, size, i, ok>>
<1>1. CASE \E k \in Signers : (Play.keyed /\ RegisterKey(k)) \/ RegisterTorn(k)
  BY <1>1 DEF RegisterKey, RegisterTorn, walk, fileVars, dirVars
<1>2. CASE DropIndex \/ Reindex \/ OpenLog
  BY <1>2 DEF DropIndex, Reindex, OpenLog, walk, fileVars, dirVars
<1>3. CASE Catch
  <2>1. ok => i \in Int /\ size \in Int
    BY DEF WalkInv, WalkRange
  <2>2. ~Finished
    BY <1>3, <2>1 DEF Catch, RecordLeaf, Finished
  <2>3. UNCHANGED <<file, original>>
    BY <1>3 DEF Catch, fileVars
  <2>4. QED
    BY <2>2, <2>3
<1>4. CASE Rot \/ Restore \/ Rewrite
  BY <1>4 DEF Rot, Restore, Rewrite, walk, fileVars
<1>5. CASE Prune
  BY <1>5 DEF Prune, walk, fileVars
<1>6. CASE ImportOpen \/ ImportBegin \/ ImportIntegrate \/ ImportWait \/ ImportEnd
           \/ ImportKilled \/ ImportReindex
  BY <1>6 DEF ImportOpen, ImportBegin, ImportIntegrate, ImportWait, ImportEnd,
              ImportKilled, ImportReindex, walk, fileVars, dirVars
<1>7. QED
  BY <1>1, <1>2, <1>3, <1>4, <1>5, <1>6 DEF EvidenceNext

LEMMA KeysStay ==
    ASSUME keys \subseteq Signers \cup {CpKey}, [EvidenceNext]_evars
    PROVE  keys' \subseteq Signers \cup {CpKey}
<1>1. CASE UNCHANGED keys
  BY <1>1
<1>2. CASE \E k \in Signers : RegisterKey(k)
  BY <1>2 DEF RegisterKey
<1>3. CASE DropIndex
  BY <1>3 DEF DropIndex
<1>4. Loaded(emitters) \subseteq Signers
  BY DEF Loaded
<1>5. CASE Reindex \/ OpenLog
  BY <1>4, <1>5 DEF Reindex, OpenLog
<1>6. \/ UNCHANGED keys \/ \E k \in Signers : RegisterKey(k)
      \/ DropIndex \/ Reindex \/ OpenLog
  <2>1. CASE UNCHANGED evars
    BY <2>1 DEF evars, keyVars
  <2>2. CASE \E k \in Signers : RegisterTorn(k)
    BY <2>2 DEF RegisterTorn
  <2>3. CASE Catch \/ (\E run \in Runs : Export(run))
    BY <2>3 DEF Catch, Export, keyVars
  <2>4. CASE Rot \/ Restore \/ Rewrite \/ Prune
    BY <2>4 DEF Rot, Restore, Rewrite, Prune, keyVars
  <2>5. CASE Lose \/ Cut \/ Swap \/ Repeat \/ Change
    <3>1. CASE Lose
      BY <3>1 DEF Lose, Strike, keyVars
    <3>2. CASE Cut
      BY <3>2 DEF Cut, Strike, keyVars
    <3>3. CASE Swap
      BY <3>3 DEF Swap, Strike, keyVars
    <3>4. CASE Repeat
      BY <3>4 DEF Repeat, Strike, keyVars
    <3>5. CASE Change
      BY <3>5 DEF Change, Strike, keyVars
    <3>6. QED
      BY <2>5, <3>1, <3>2, <3>3, <3>4, <3>5
  <2>6. CASE ImportOpen \/ ImportBegin \/ ImportIntegrate \/ ImportWait \/ ImportEnd
             \/ ImportKilled \/ ImportReindex
    BY <2>6 DEF ImportOpen, ImportBegin, ImportIntegrate, ImportWait, ImportEnd,
                ImportKilled, ImportReindex, keyVars
  <2>7. QED
    BY <2>1, <2>2, <2>3, <2>4, <2>5, <2>6 DEF EvidenceNext
<1>7. QED
  BY <1>1, <1>2, <1>3, <1>5, <1>6

\* What the export writes is of the lines a file can hold.
LEMMA ExportedMade ==
    ASSUME NEW f, NEW es, NEW ks, NEW ts, Exported(f, es, ks, ts, CpKey)
    PROVE  Lines(f, Last(f).head)
<1> DEFINE N == Len(es)
           hd == Last(f).head
<1>1. /\ N \in Nat /\ Last(f) = HeadLine(Origin, es, CpKey) /\ \A n \in 1..N : es[n] \in Envelopes
  BY ExportedLines
<1>2. ASSUME NEW n \in DOMAIN f PROVE Made(f[n], hd)
  <2>1. n = 1 \/ n = N + 2 \/ (n - 1 \in 1..N /\ n = 1 + (n - 1))
    BY <1>1 DEF Exported
  <2>2. CASE n = 1
    BY <2>2 DEF Exported, Header, HeaderMade, Made
  <2>3. CASE n = N + 2
    <3>1. f[n] = HeadLine(Origin, es, CpKey)
      BY <2>3 DEF Exported
    <3>2. hd = HeadLine(Origin, es, CpKey).head
      BY <1>1
    <3>3. f[n] = [kind |-> "head", head |-> hd, keyid |-> CpKey, sig |-> <<CpKey, hd>>]
      BY <3>1, <3>2 DEF HeadLine
    <3> HIDE DEF hd
    <3>4. HeadMade(f[n], hd)
      BY <3>3 DEF HeadMade
    <3>5. QED
      BY <3>4 DEF Made
  <2>4. CASE n - 1 \in 1..N /\ n = 1 + (n - 1)
    <3>1. PICK m \in 1..N : n = 1 + m
      BY <2>4
    <3>2. f[n] = Leaf(m - 1, es[m], SignerOf(es[m]), <<SignerOf(es[m]), es[m]>>)
      BY <3>1 DEF Exported
    <3>3. m - 1 \in Nat /\ <<SignerOf(es[m]), es[m]>> \in LeafSigs
      BY <1>1, <3>1 DEF LeafSigs
    <3>4. LeafMade(f[n])
      BY <3>2, <3>3 DEF Leaf, LeafMade
    <3>5. QED
      BY <3>4 DEF Made
  <2>5. QED
    BY <2>1, <2>2, <2>3, <2>4
<1>3. f \in Seq({f[n] : n \in DOMAIN f})
  <2>1. N + 2 \in Nat /\ f = [n \in 1..(N + 2) |-> f[n]]
    BY <1>1 DEF Exported
  <2>2. QED
    BY <2>1
<1>4. \A l \in {f[n] : n \in DOMAIN f} : Made(l, hd)
  BY <1>2
<1> HIDE DEF hd
<1>5. Lines(f, hd)
  BY <1>3, <1>4 DEF Lines
<1>6. QED
  BY <1>5 DEF hd

LEMMA FileHolds == EvidenceSpec => [](OriginalInv /\ FileInv)
<1>1. EvidenceInit => OriginalInv /\ FileInv
  <2> SUFFICES ASSUME EvidenceInit PROVE OriginalInv /\ FileInv
    OBVIOUS
  <2>1. file = << >> /\ original = << >> /\ keys \subseteq Signers \cup {CpKey}
    BY DEF EvidenceInit
  <2>2. \A hd : Lines(<< >>, hd)
    <3> TAKE hd
    <3>1. PICK S : S = {}
      OBVIOUS
    <3>2. << >> \in Seq(S) /\ \A l \in S : Made(l, hd)
      BY <3>1
    <3>3. QED
      BY Zenon, <3>2 DEF Lines
  <2>3. QED
    BY <2>1, <2>2 DEF OriginalInv, FileInv
<1>2. (OriginalInv /\ FileInv) /\ (InputOK /\ WalkInv) /\ DirInv /\ [EvidenceNext]_evars
         => (OriginalInv /\ FileInv)'
  <2> SUFFICES ASSUME OriginalInv, FileInv, InputOK, WalkInv, DirInv, [EvidenceNext]_evars
               PROVE  (OriginalInv /\ FileInv)'
    OBVIOUS
  <2>0. keys' \subseteq Signers \cup {CpKey}
    BY KeysStay DEF FileInv
  <2>1. CASE \E run \in Runs : Export(run)
    <3>1. PICK run \in Runs : Export(run)
      BY <2>1
    <3>2. PICK f : f = ExportRun(table, dir, keys, CpKey, Origin, store, run)
      OBVIOUS
    <3>3. /\ file' = f /\ original' = f /\ f # << >> /\ Finished
          /\ UNCHANGED <<table, size, i, ok, store>>
      <4>1. file' = f /\ file' # << >> /\ original' = file'
        BY Zenon, <3>1, <3>2 DEF Export
      <4>2. Finished /\ UNCHANGED <<walk, dirVars>>
        BY Zenon, <3>1 DEF Export
      <4>3. QED
        BY <4>1, <4>2 DEF walk, dirVars
    <3>4. RowsOf(table, leaves) /\ leaves \in Seq(Envelopes)
      BY TableRows DEF InputOK
    <3>5. PICK R : R = RunRows(table, run)
      OBVIOUS
    <3>k. PICK ks, ts, es : /\ ks = keys \cup {CpKey} /\ es = EnvsAt(table, R)
                            /\ ts = Gathered(EnvsOf(table, R), store)
      OBVIOUS
    <3>6. R # {} /\ ~Refuses(table, dir, ks, R) /\ Exported(f, es, ks, ts, CpKey)
      <4>1. /\ R = {} \/ Refuses(table, dir, ks, R) => f = << >>
            /\ ~(R = {} \/ Refuses(table, dir, ks, R)) => Exported(f, es, ks, ts, CpKey)
        <5>1. ExportOf(f, table, leaves, dir, keys, CpKey, store, run, R, ks, es, ts)
          BY <3>2, <3>4, <3>5, <3>k DEF ExportOf
        <5>2. QED
          BY <5>1, ExportIs
      <4>2. QED
        BY <4>1, <3>3
    <3>7. \A k \in R : k <= size /\ SignerOf(table[k].env) \in ks
      <4> TAKE k \in R
      <4>1. k \in Nat
        BY <3>4, <3>5 DEF RunRows, RowsOf
      <4>2. ~(k > dir.note.size) /\ SignerOf(table[k].env) \in ks
        BY <3>6, <3>k DEF Refuses
      <4>3. dir.note.size \in Int /\ dir.note.size <= size /\ size \in Int
        BY DEF DirInv, WalkInv, WalkRange
      <4>4. QED
        BY <4>1, <4>2, <4>3
    <3>8. ks \in SUBSET (Signers \cup {CpKey}) /\ CpKey \in ks
      BY <3>k DEF FileInv
    <3>9. Lines(f, Last(f).head)
      BY <3>6, ExportedMade
    <3>10. WrittenFrom(run, ks)'
      <4>1. WrittenFrom(run, ks)' = (/\ R # {} /\ CpKey \in ks
                                     /\ \A k \in R : k <= size /\ SignerOf(table[k].env) \in ks
                                     /\ Exported(f, EnvsAt(table, R), ks,
                                                 Gathered(EnvsOf(table, R), store), CpKey))
        BY <3>3, <3>5 DEF WrittenFrom, EnvsOf
      <4>2. QED
        BY Zenon, <3>6, <3>7, <3>8, <3>k, <4>1
    <3>11. OriginalInv'
      <4>1. Finished'
        BY <3>3 DEF Finished
      <4>2. QED
        BY Zenon, <3>8, <3>10, <4>1 DEF OriginalInv
    <3>12. FileInv'
      BY <2>0, <3>3, <3>9 DEF FileInv
    <3>13. QED
      BY <3>11, <3>12
  <2>2. CASE Lose \/ Cut \/ Swap \/ Repeat \/ Change
    <3>1. UNCHANGED <<original, table, store, size, i, ok>> /\ file # << >>
      BY <2>2 DEF Lose, Cut, Swap, Repeat, Change, Strike, walk, dirVars
    <3>2. PICK hd : hd = Last(original).head
      OBVIOUS
    <3>3. Lines(file, hd) /\ original # << >>
      BY <3>1, <3>2 DEF FileInv
    <3>4. Lines(file', hd)
      <4>1. CASE Lose
        BY <4>1, <3>3, EditsMade DEF Lose, Strike
      <4>2. CASE Cut
        BY <4>2, <3>3, EditsMade DEF Cut, Strike
      <4>3. CASE Swap
        BY <4>3, <3>3, EditsMade DEF Swap, Strike
      <4>4. CASE Repeat
        BY <4>4, <3>3, EditsMade DEF Repeat, Strike
      <4>5. CASE Change
        <5>1. PICK n \in DOMAIN file : \E x \in {Blank, Garbage} \union Changed(file[n]) :
                 file' = [file EXCEPT ![n] = x]
          BY <4>5 DEF Change, Strike
        <5>2. PICK x \in {Blank, Garbage} \union Changed(file[n]) : file' = [file EXCEPT ![n] = x]
          BY <5>1
        <5>3. Lines([file EXCEPT ![n] = x], hd)
          BY <3>3, EditsMade
        <5>4. QED
          BY <5>2, <5>3
      <4>6. QED
        BY <2>2, <4>1, <4>2, <4>3, <4>4, <4>5
    <3>5. FileInv'
      BY <2>0, <3>1, <3>2, <3>3, <3>4 DEF FileInv
    <3>6. OriginalInv'
      BY <3>1 DEF OriginalInv, WrittenFrom, Finished
    <3>7. QED
      BY <3>5, <3>6
  <2>3. CASE /\ UNCHANGED <<file, original>>
             /\ (original # << >> /\ Finished) => UNCHANGED <<table, store, size, i, ok>>
    <3>1. FileInv'
      BY <2>0, <2>3 DEF FileInv
    <3>2. OriginalInv'
      BY <2>3 DEF OriginalInv, WrittenFrom, Finished
    <3>3. QED
      BY <3>1, <3>2
  <2>4. CASE UNCHANGED evars
    <3>1. UNCHANGED <<file, original, table, store, size, i, ok>>
      BY <2>4 DEF evars, walk, fileVars, dirVars
    <3>2. QED
      BY <2>3, <3>1
  <2>5. QED
    BY <2>1, <2>2, <2>3, <2>4, FileSteps
<1>3. QED
  BY <1>1, <1>2, WalkHolds, DirHolds, PTL DEF EvidenceSpec

-----------------------------------------------------------------------------
(* A file without a finding. *)

LEMMA VerifiedMeans ==
    ASSUME NEW f, Verified(f)
    PROVE  /\ Readable(f)
           /\ Unsound(Leaves(f), DOMAIN f[1].keys) = {}
           /\ SequenceFindings([n \in DOMAIN Leaves(f) |-> Leaves(f)[n].index]) = << >>
           /\ HeadFindings(f, Leaves(f), DOMAIN f[1].keys) = << >>
<1> DEFINE U == Unsound(Leaves(f), DOMAIN f[1].keys)
           s == SequenceFindings([n \in DOMAIN Leaves(f) |-> Leaves(f)[n].index])
           h == HeadFindings(f, Leaves(f), DOMAIN f[1].keys)
<1>1. Readable(f) /\ Findings(f) = << >>
  BY DEF Verified
<1>2. Findings(f) = IF U # {} THEN <<Finding("content", Leaves(f)[Min(U)].index)>>
                    ELSE IF s # << >> THEN s ELSE h
  BY DEF Findings
<1> HIDE DEF U, s, h
<1>3. \A x : <<x>> # << >>
  OBVIOUS
<1>4. U = {}
  BY <1>1, <1>2, <1>3
<1>5. s = << >>
  BY <1>1, <1>2, <1>4
<1>6. h = << >>
  BY <1>1, <1>2, <1>4, <1>5
<1>7. QED
  BY <1>1, <1>4, <1>5, <1>6 DEF U, s, h

\* The head of such a file is its last line, and its leaves are sound.
LEMMA VerifiedLines ==
    ASSUME NEW f, NEW L \in Nat, L = Len(f), DOMAIN f = 1..L, Verified(f)
    PROVE  \E m \in Nat :
              /\ L = m + 2
              /\ Leaves(f) = [n \in 1..m |-> f[1 + n]]
              /\ OfKind(f, "head") = <<f[m + 2]>> /\ f[m + 2].kind = "head"
              /\ \A n \in 1..m : /\ f[1 + n].kind = "leaf" /\ f[1 + n].hash = f[1 + n].payload
                                 /\ Signed(f[1 + n], f[1 + n].payload, DOMAIN f[1].keys)
              /\ f[m + 2].head.chain = Chain(f[1].origin, [n \in 1..m |-> f[1 + n].hash])
              /\ Signed(f[m + 2], f[m + 2].head, DOMAIN f[1].keys)
<1> DEFINE ks == DOMAIN f[1].keys
<1>1. Readable(f) /\ Unsound(Leaves(f), ks) = {} /\ HeadFindings(f, Leaves(f), ks) = << >>
  BY VerifiedMeans
<1>2. PICK m \in Nat :
              /\ Leaves(f) = [n \in 1..m |-> f[1 + n]]
              /\ \A n \in 1..m : f[1 + n].kind = "leaf" /\ 1 + n \in DOMAIN f
              /\ \/ L = m + 1 /\ OfKind(f, "head") = << >>
                 \/ L = m + 2 /\ f[m + 2].kind = "head" /\ OfKind(f, "head") = <<f[m + 2]>>
  BY <1>1, ReadableLines
<1>3. \A x : <<x>> # << >> /\ <<x>>[1] = x
  OBVIOUS
<1> HIDE DEF ks
<1>4. OfKind(f, "head") # << >>
  BY <1>1, <1>3 DEF HeadFindings
<1>5. L = m + 2 /\ OfKind(f, "head") = <<f[m + 2]>> /\ f[m + 2].kind = "head"
  BY <1>2, <1>4
<1>6. PICK line : line = f[m + 2]
  OBVIOUS
<1>7. OfKind(f, "head") = <<line>> /\ <<line>>[1] = line
  BY <1>3, <1>5, <1>6
<1>8. /\ line.head.chain = Chain(f[1].origin, [n \in DOMAIN Leaves(f) |-> Leaves(f)[n].hash])
      /\ Signed(line, line.head, ks)
  BY <1>1, <1>3, <1>7 DEF HeadFindings
<1>9. [n \in DOMAIN Leaves(f) |-> Leaves(f)[n].hash] = [n \in 1..m |-> f[1 + n].hash]
  BY <1>2
<1>10. ASSUME NEW n \in 1..m
       PROVE  f[1 + n].hash = f[1 + n].payload /\ Signed(f[1 + n], f[1 + n].payload, ks)
  <2>1. n \in DOMAIN Leaves(f) /\ Leaves(f)[n] = f[1 + n]
    BY <1>2
  <2>2. QED
    BY <2>1, <1>1 DEF Unsound
<1>11. QED
  BY <1>2, <1>5, <1>6, <1>8, <1>9, <1>10 DEF ks

\* What the verifier accepts, the reader of import reads.
LEMMA VerifiedReads ==
    ASSUME NEW f, NEW L \in Nat, L = Len(f), DOMAIN f = 1..L, Verified(f)
    PROVE  Reads(f)
<1>1. PICK m \in Nat :
              /\ L = m + 2
              /\ Leaves(f) = [n \in 1..m |-> f[1 + n]]
              /\ OfKind(f, "head") = <<f[m + 2]>> /\ f[m + 2].kind = "head"
              /\ \A n \in 1..m : /\ f[1 + n].kind = "leaf" /\ f[1 + n].hash = f[1 + n].payload
                                 /\ Signed(f[1 + n], f[1 + n].payload, DOMAIN f[1].keys)
              /\ f[m + 2].head.chain = Chain(f[1].origin, [n \in 1..m |-> f[1 + n].hash])
              /\ Signed(f[m + 2], f[m + 2].head, DOMAIN f[1].keys)
  BY VerifiedLines
<1>2. Readable(f)
  BY VerifiedMeans
<1>3. f # << >> /\ f[1].kind = "header" /\ f[1].known /\ ~Misaddressed(f[1])
  BY <1>2 DEF Readable
<1>4. DOMAIN f[1].keys # {}
  BY <1>1 DEF Signed
<1>5. OfKind(f, "head") # << >>
  <2>1. \A x : <<x>> # << >>
    OBVIOUS
  <2>2. QED
    BY <1>1, <2>1
<1>6. ASSUME NEW n \in DOMAIN f, n # 1
      PROVE  /\ f[n].kind = "leaf" \/ f[n].kind = "head"
             /\ f[n].kind = "leaf" => f[n].hash = f[n].payload
  <2>1. n = m + 2 \/ (n - 1 \in 1..m /\ 1 + (n - 1) = n)
    BY <1>1, <1>6
  <2>2. CASE n = m + 2
    BY <1>1, <2>2
  <2>3. CASE n - 1 \in 1..m /\ 1 + (n - 1) = n
    <3>1. PICK k \in 1..m : n = 1 + k
      BY <2>3
    <3>2. f[1 + k].kind = "leaf" /\ f[1 + k].hash = f[1 + k].payload
      BY <1>1
    <3>3. QED
      BY <3>1, <3>2
  <2>4. QED
    BY <2>1, <2>2, <2>3
<1>7. ASSUME NEW n \in DOMAIN f
      PROVE  /\ f[n].kind # "garbage"
             /\ f[n].kind = "header" => n = 1
             /\ f[n].kind = "leaf" => f[n].hash = f[n].payload
  <2>1. CASE n = 1
    BY <1>3, <2>1
  <2>2. CASE n # 1
    BY <1>6, <2>2
  <2>3. QED
    BY <2>1, <2>2
<1>8. QED
  BY <1>3, <1>4, <1>5, <1>7 DEF Reads

\* A signed line of a file is one the key has signed.
LEMMA SignedLeafIs ==
    ASSUME NEW l, LeafMade(l), NEW ks \in SUBSET (Signers \cup {CpKey}), Signed(l, l.payload, ks),
           l.hash = l.payload
    PROVE  /\ l.index \in Nat /\ l.payload \in Envelopes
           /\ l = Leaf(l.index, l.payload, SignerOf(l.payload), <<SignerOf(l.payload), l.payload>>)
<1>1. PICK n \in Nat, g \in LeafSigs : \E p, k, h :
         l = [kind |-> "leaf", index |-> n, payload |-> p, keyid |-> k, sig |-> g, hash |-> h]
  BY DEF LeafMade
<1>2. PICK p, k, h :
         l = [kind |-> "leaf", index |-> n, payload |-> p, keyid |-> k, sig |-> g, hash |-> h]
  BY <1>1
<1>3. l.index = n /\ l.payload = p /\ l.keyid = k /\ l.sig = g /\ l.hash = h
  BY <1>2
<1>4. k \in ks /\ g = <<k, p>> /\ h = p
  BY <1>3 DEF Signed
<1>5. k # Stranger
  BY <1>4, EvidenceAssumption
<1>6. PICK e \in Envelopes : g = <<SignerOf(e), e>>
  <2>1. g # << >> /\ g # <<Stranger, Forged>>
    BY <1>4, <1>5
  <2>2. QED
    BY <2>1, <1>1 DEF LeafSigs
<1>7. k = SignerOf(e) /\ p = e
  BY <1>4, <1>6
<1>8. QED
  BY <1>2, <1>3, <1>4, <1>7 DEF Leaf

LEMMA SignedHeadIs ==
    ASSUME NEW l, NEW hd, HeadMade(l, hd), NEW ks \in SUBSET (Signers \cup {CpKey}),
           Signed(l, l.head, ks)
    PROVE  l = [kind |-> "head", head |-> hd, keyid |-> CpKey, sig |-> <<CpKey, hd>>]
<1>1. PICK h, k, g :
        /\ l = [kind |-> "head", head |-> h, keyid |-> k, sig |-> g]
        /\ g = << >> \/ g = <<CpKey, hd>> \/ \E x : g = <<Stranger, x>>
  BY DEF HeadMade
<1>2. l.head = h /\ l.keyid = k /\ l.sig = g
  BY <1>1
<1>3. k \in ks /\ g = <<k, h>>
  BY <1>2 DEF Signed
<1>4. k # Stranger
  BY <1>3, EvidenceAssumption
<1>5. g # << >> /\ \A x : g # <<Stranger, x>>
  BY <1>3, <1>4
<1>6. g = <<CpKey, hd>>
  BY <1>1, <1>5
<1>7. k = CpKey /\ h = hd
  BY <1>3, <1>6
<1>8. QED
  BY <1>1, <1>6, <1>7

LEMMA AcceptedIsWhole == OriginalInv /\ FileInv => FileVerifiedIsWhole
<1> SUFFICES ASSUME OriginalInv, FileInv, file # << >>, Verified(file)
             PROVE  /\ Reads(file)
                    /\ DOMAIN file[1].keys \subseteq DOMAIN original[1].keys =>
                          /\ file[1].origin = original[1].origin
                          /\ Leaves(file) = Leaves(original)
                          /\ Last(file) = Last(original)
  BY DEF FileVerifiedIsWhole
<1>1. original # << >>
  BY DEF FileInv
<1>2. PICK run \in Runs, ks \in SUBSET (Signers \cup {CpKey}) : WrittenFrom(run, ks)
  BY <1>1 DEF OriginalInv
<1>3. PICK es, ts : Exported(original, es, ks, ts, CpKey)
  BY <1>2 DEF WrittenFrom
<1>4. PICK hd, S : hd = Last(original).head /\ file \in Seq(S) /\ \A l \in S : Made(l, hd)
  BY DEF FileInv, Lines
<1>5. PICK L \in Nat : L = Len(file) /\ DOMAIN file = 1..L /\ \A n \in 1..L : Made(file[n], hd)
  BY <1>4
<1>6. Reads(file)
  BY <1>5, VerifiedReads
<1>7. ASSUME DOMAIN file[1].keys \subseteq DOMAIN original[1].keys
      PROVE  /\ file[1].origin = original[1].origin
             /\ Leaves(file) = Leaves(original)
             /\ Last(file) = Last(original)
  <2>1. DOMAIN original[1].keys = ks /\ original[1].origin = Origin
    BY <1>3 DEF Exported, Header, Thumbprints
  <2>2. PICK fs \in SUBSET (Signers \cup {CpKey}) : fs = DOMAIN file[1].keys
    BY <1>7, <2>1
  <2>3. PICK m \in Nat :
              /\ L = m + 2
              /\ Leaves(file) = [n \in 1..m |-> file[1 + n]]
              /\ file[m + 2].kind = "head"
              /\ \A n \in 1..m : /\ file[1 + n].kind = "leaf" /\ file[1 + n].hash = file[1 + n].payload
                                 /\ Signed(file[1 + n], file[1 + n].payload, fs)
              /\ file[m + 2].head.chain = Chain(file[1].origin, [n \in 1..m |-> file[1 + n].hash])
              /\ Signed(file[m + 2], file[m + 2].head, fs)
    <3>1. \E m \in Nat :
              /\ L = m + 2
              /\ Leaves(file) = [n \in 1..m |-> file[1 + n]]
              /\ OfKind(file, "head") = <<file[m + 2]>> /\ file[m + 2].kind = "head"
              /\ \A n \in 1..m : /\ file[1 + n].kind = "leaf" /\ file[1 + n].hash = file[1 + n].payload
                                 /\ Signed(file[1 + n], file[1 + n].payload, DOMAIN file[1].keys)
              /\ file[m + 2].head.chain = Chain(file[1].origin, [n \in 1..m |-> file[1 + n].hash])
              /\ Signed(file[m + 2], file[m + 2].head, DOMAIN file[1].keys)
      BY <1>5, VerifiedLines
    <3>2. QED
      BY <2>2, <3>1
  <2>4. file[m + 2] = [kind |-> "head", head |-> hd, keyid |-> CpKey, sig |-> <<CpKey, hd>>]
    <3>1. HeadMade(file[m + 2], hd)
      BY <1>5, <2>3, MadeKinds
    <3>2. QED
      BY <2>3, <3>1, SignedHeadIs
  <2>5. /\ Last(original) = HeadLine(Origin, es, CpKey) /\ hd = Last(original).head
        /\ Len(es) \in Nat /\ DOMAIN es = 1..Len(es)
        /\ Leaves(original) = [n \in 1..Len(es) |->
                                 Leaf(n - 1, es[n], SignerOf(es[n]), <<SignerOf(es[n]), es[n]>>)]
    BY <1>3, <1>4, ExportedLines
  <2>6. Last(original) = [kind |-> "head", head |-> hd, keyid |-> CpKey, sig |-> <<CpKey, hd>>]
        /\ hd.chain = Chain(Origin, es)
    BY <2>5 DEF HeadLine
  <2>7. Last(file) = Last(original)
    BY <1>5, <2>3, <2>4, <2>6 DEF Last
  <2>8. Chain(file[1].origin, [n \in 1..m |-> file[1 + n].hash]) = Chain(Origin, es)
    <3>1. file[m + 2].head = hd
      BY <2>4
    <3>2. QED
      BY <2>3, <2>6, <3>1
  <2>9. file[1].origin = Origin /\ [n \in 1..m |-> file[1 + n].hash] = es
    BY <2>8 DEF Chain
  <2>10. m = Len(es) /\ \A n \in 1..m : file[1 + n].hash = es[n]
    <3>1. DOMAIN es = 1..m
      <4>1. DOMAIN [n \in 1..m |-> file[1 + n].hash] = 1..m
        OBVIOUS
      <4>2. QED
        BY <2>9, <4>1
    <3>2. m = Len(es)
      <4>1. \A a, b \in Nat : 1..a = 1..b => a = b
        <5> SUFFICES ASSUME NEW a \in Nat, NEW b \in Nat, 1..a = 1..b PROVE a = b
          OBVIOUS
        <5>1. (a \in 1..a <=> a \in 1..b) /\ (b \in 1..a <=> b \in 1..b)
          OBVIOUS
        <5>2. QED
          BY <5>1
      <4>2. QED
        BY <2>3, <2>5, <3>1, <4>1
    <3>3. QED
      BY <2>9, <3>2
  <2>11. ASSUME NEW n \in 1..m
         PROVE  file[1 + n] = Leaf(n - 1, es[n], SignerOf(es[n]), <<SignerOf(es[n]), es[n]>>)
    <3>1. \A j \in 1..m :
             /\ file[1 + j].index \in Nat
             /\ file[1 + j] = Leaf(file[1 + j].index, file[1 + j].payload,
                    SignerOf(file[1 + j].payload), <<SignerOf(file[1 + j].payload), file[1 + j].payload>>)
      <4> TAKE j \in 1..m
      <4>1. Made(file[1 + j], hd)
        BY <1>5, <2>3
      <4>2. LeafMade(file[1 + j])
        BY <2>3, <4>1, MadeKinds
      <4>3. QED
        BY <2>3, <4>2, SignedLeafIs
    <3>2. PICK q : q = [j \in 1..m |-> file[1 + j].index]
      OBVIOUS
    <3>3. SequenceFindings(q) = << >>
      <4>1. SequenceFindings([j \in DOMAIN Leaves(file) |-> Leaves(file)[j].index]) = << >>
        BY VerifiedMeans
      <4>2. [j \in DOMAIN Leaves(file) |-> Leaves(file)[j].index] = q
        BY <2>3, <3>2
      <4>3. QED
        BY <4>1, <4>2
    <3>4. \A j \in 1..m : q[j] = j - 1
      <4>1. DOMAIN q = 1..m /\ Len(q) = m /\ \A j \in 1..m : q[j] \in Nat
        <5>1. DOMAIN q = 1..m /\ \A j \in 1..m : q[j] \in Nat
          BY <3>1, <3>2
        <5>2. q \in [1..m -> Nat]
          BY <3>2, <5>1
        <5>3. q \in Seq(Nat) /\ Len(q) = m
          BY <2>3, <5>2
        <5>4. QED
          BY <5>1, <5>3
      <4>2. QED
        BY <3>3, <4>1, NoneMisplaced
    <3>5. file[1 + n].index = n - 1 /\ file[1 + n].payload = es[n]
      BY <2>3, <2>10, <3>2, <3>4
    <3>6. QED
      BY <3>1, <3>5
  <2>12. Leaves(file) = Leaves(original)
    BY <2>3, <2>5, <2>10, <2>11
  <2>13. QED
    BY <2>1, <2>7, <2>9, <2>12
<1>8. QED
  BY <1>6, <1>7

\* A file the verifier accepts is one the reader of import reads, and under the
\* writer's keys it is the export as written; a directory it accepts holds what
\* its note signs and what the reader's checkpoint covers.  For every log, every
\* run, and any number of changes of the kinds a step can make.
THEOREM AcceptedEvidenceIsWhole == EvidenceSpec => []VerifiedIsWhole
<1>1. OriginalInv /\ FileInv /\ DirVerifiedIsWhole => VerifiedIsWhole
  BY AcceptedIsWhole DEF VerifiedIsWhole
<1>2. QED
  BY <1>1, FileHolds, PassedDirectoryIsWhole, PTL

-----------------------------------------------------------------------------
(* What is in an export. *)

\* When the walk began with no row, it kept the first leaf of each receipt.
LEMMA RebuiltIsProjection ==
    ASSUME InputOK, WalkInv, Finished, before = << >>, from = 1
    PROVE  /\ DOMAIN table = 1..size
           /\ \A k \in 1..size : table[k].duplicateOf = 0 <=> Projection(leaves, k).duplicateOf = 0
<1>0. DOMAIN before = {}
  BY DEF WalkInv, WalkRange
<1>1. \A r : Canonical(before, r) = {}
  BY <1>0 DEF Canonical
<1>2. \A n : ~WalkRefused(before, leaves, from, n)
  BY <1>1 DEF WalkRefused
<1>3. ok /\ size \in Nat /\ i = size + 1
  BY <1>2 DEF WalkInv, WalkRange, Finished
<1>4. table = Walked(before, leaves, 1, size)
  <2>1. i - 1 = size
    BY <1>3
  <2>2. QED
    BY <1>3, <2>1 DEF WalkInv
<1>5. /\ DOMAIN table = 1..size
      /\ \A k \in 1..size : table[k].duplicateOf = WalkDup(before, leaves, 1, k)
  BY <1>0, <1>3, <1>4 DEF Walked
<1>6. ASSUME NEW k \in 1..size
      PROVE  WalkDup(before, leaves, 1, k) = 0 <=> Projection(leaves, k).duplicateOf = 0
  <2> DEFINE E == {j \in 1..(k - 1) : ReceiptOf[leaves[j]] = ReceiptOf[leaves[k]]}
             O == Occurrences(leaves, ReceiptOf[leaves[k]], k)
  <2>1. WalkDup(before, leaves, 1, k) = First(E)
    <3>1. {j \in Canonical(before, ReceiptOf[leaves[k]]) : j < 1} = {}
      BY <1>1
    <3>2. {j \in Canonical(before, ReceiptOf[leaves[k]]) : j < 1} \cup E = E
      BY <3>1
    <3> HIDE DEF E
    <3>3. QED
      BY <3>2 DEF WalkDup, E
  <2>2. O = E \cup {k} /\ k \in Nat \ {0}
    BY <1>3 DEF Occurrences
  <2>3. E \in SUBSET (Nat \ {0}) /\ (\A j \in E : j < k) /\ k \notin E
    BY <2>2
  <2> HIDE DEF E, O
  <2>4. CASE E = {}
    <3>1. O = {k}
      BY <2>2, <2>4
    <3>2. Lowest(O) = k
      BY <3>1, <2>2, LowestIsThe
    <3>3. QED
      BY <2>1, <2>4, <3>2 DEF First, Projection, O
  <2>5. CASE E # {}
    <3>1. First(E) # 0
      BY <2>3, <2>5, FirstOfNone
    <3>2. O \in SUBSET Nat /\ O # {}
      BY <2>2, <2>3
    <3>3. Lowest(O) \in O /\ \A j \in O : Lowest(O) <= j
      BY <3>2, LowestIsLeast
    <3>4. Lowest(O) # k /\ Lowest(O) # 0
      <4>1. PICK j \in E : j < k
        BY <2>3, <2>5
      <4>2. Lowest(O) <= j /\ j \in Nat /\ Lowest(O) \in Nat \ {0}
        BY <2>2, <2>3, <3>3, <4>1
      <4>3. QED
        BY <2>2, <4>1, <4>2
    <3>5. Projection(leaves, k).duplicateOf = Lowest(O)
      BY <3>4 DEF Projection, O
    <3>6. QED
      BY <2>1, <3>1, <3>4, <3>5
  <2>6. QED
    BY <2>4, <2>5
<1>7. QED
  BY <1>5, <1>6

LEMMA OriginalIsTheRun == InputOK /\ WalkInv /\ OriginalInv => ExportIsTheRun
<1> SUFFICES ASSUME InputOK, WalkInv, OriginalInv, original # << >>
             PROVE  ExportIsTheRun
  BY DEF ExportIsTheRun
<1>1. Finished
  BY DEF OriginalInv
<1>2. PICK run \in Runs, ks \in SUBSET (Signers \cup {CpKey}) : WrittenFrom(run, ks)
  BY DEF OriginalInv
<1>3. PICK R, es, ts : /\ R = RunRows(table, run) /\ es = EnvsAt(table, R)
                       /\ ts = Gathered(EnvsOf(table, R), store)
  OBVIOUS
<1>4. /\ R # {} /\ CpKey \in ks
      /\ \A k \in R : k <= size /\ SignerOf(table[k].env) \in ks
      /\ Exported(original, es, ks, ts, CpKey)
  BY <1>2, <1>3 DEF WrittenFrom
<1>5. RowsOf(table, leaves) /\ leaves \in Seq(Envelopes) /\ size \in Nat
  BY TableRows DEF InputOK, WalkInv, WalkRange
<1>6. R \in SUBSET DOMAIN table
  BY <1>3 DEF RunRows
<1>7. PICK N \in Nat : N = Cardinality(R)
  BY <1>5, <1>6, RunRowsListed
<1>8. PICK order : order = InOrder(R)
  OBVIOUS
<1>9. /\ R \in SUBSET Nat /\ IsFiniteSet(R) /\ order \in [1..N -> R] /\ N # 0
      /\ Len(es) = N /\ es = [n \in 1..N |-> table[order[n]].env]
      /\ \A n \in 1..N : es[n] = leaves[order[n]]
  BY <1>3, <1>4, <1>5, <1>6, <1>7, <1>8, RunRowsListed DEF EnvsAt
<1>10. (\A m, n \in 1..N : m < n => order[m] < order[n]) /\ \A k \in R : \E n \in 1..N : order[n] = k
  BY <1>7, <1>8, <1>9, InOrderLists
<1>11. /\ Leaves(original) = [n \in 1..N |-> Leaf(n - 1, es[n], SignerOf(es[n]), <<SignerOf(es[n]), es[n]>>)]
       /\ \A n \in 1..N : es[n] \in Envelopes
  <2>1. /\ \A n \in 1..Len(es) : es[n] \in Envelopes
        /\ Leaves(original) =
              [n \in 1..Len(es) |-> Leaf(n - 1, es[n], SignerOf(es[n]), <<SignerOf(es[n]), es[n]>>)]
    <3>1. Exported(original, es, ks, ts, CpKey)
      BY <1>4
    <3>2. QED
      BY <3>1, ExportedLines
  <2>2. Len(es) = N
    BY <1>9
  <2>3. QED
    BY <2>1, <2>2
<1>12. DOMAIN Leaves(original) = 1..N /\ \A n \in 1..N : Leaves(original)[n].payload = es[n]
  BY <1>11 DEF Leaf
<1>13. Payloads(Leaves(original)) = [n \in 1..N |-> leaves[order[n]]]
  BY <1>9, <1>12 DEF Payloads
<1>14. At(R) = [n \in 1..N |-> leaves[order[n]]]
  BY <1>8, <1>9 DEF At
<1>15. \A k \in R : /\ k \in 1..size /\ table[k].duplicateOf = 0 /\ RunOf(leaves[k]) = run
                    /\ table[k].env = leaves[k]
  <2> TAKE k \in R
  <2>1. k \in DOMAIN table /\ table[k].duplicateOf = 0 /\ RunOf(table[k].env) = run
    BY <1>3 DEF RunRows
  <2>2. k \in 1..Len(leaves) /\ table[k].env = leaves[k]
    BY <1>5, <2>1 DEF RowsOf
  <2>3. QED
    BY <1>4, <1>5, <2>1, <2>2
<1>16. Verified(original)
  <2>1. \A n \in 1..Len(es) : SignerOf(es[n]) \in ks
    BY <1>4, <1>9
  <2>2. QED
    BY <1>4, <2>1, ExportedPasses
<1>17. Duplicates(original) = {}
  <2>1. ASSUME NEW m \in 1..N, NEW n \in 1..N, m < n
        PROVE  ReceiptIdOf(es[m]) # ReceiptIdOf(es[n])
    <3>1. order[m] # order[n] /\ order[m] \in R /\ order[n] \in R
      <4>1. order[m] < order[n] /\ order[m] \in Nat /\ order[n] \in Nat
        BY <1>9, <1>10, <2>1
      <4>2. QED
        BY <1>9, <4>1
    <3>2. ReceiptOf[table[order[m]].env] # ReceiptOf[table[order[n]].env]
      BY <1>5, <1>6, <1>15, <3>1 DEF RowsOf
    <3>3. QED
      BY <1>9, <1>11, <3>2, EvidenceAssumption
  <2>2. ASSUME NEW n \in 1..N, NEW m \in 1..(n - 1)
        PROVE  ReceiptIdOf(Leaves(original)[m].payload) # ReceiptIdOf(Leaves(original)[n].payload)
    <3>1. m \in 1..N /\ m < n
      OBVIOUS
    <3>2. QED
      BY <1>12, <2>1, <3>1
  <2>3. QED
    BY <1>12, <2>2 DEF Duplicates
<1>18. \E S \in SUBSET (1..size) : Payloads(Leaves(original)) = At(S)
  <2>1. R \in SUBSET (1..size)
    BY <1>15
  <2>2. QED
    BY <1>13, <1>14, <2>1
<1>19. \A n \in 1..N : RunOf(es[n]) = run
  <2> TAKE n \in 1..N
  <2>1. order[n] \in R /\ es[n] = leaves[order[n]]
    BY <1>9
  <2>2. QED
    BY <1>15, <2>1
<1>20. RunOf(Leaves(original)[1].payload) = run
  <2>1. 1 \in 1..N
    BY <1>9
  <2>2. QED
    BY <1>12, <1>19, <2>1
<1>21. ASSUME before = << >>, from = 1
       PROVE  R = {k \in 1..size : RunOf(leaves[k]) = run /\ Projection(leaves, k).duplicateOf = 0}
  <2>1. /\ DOMAIN table = 1..size
        /\ \A k \in 1..size : table[k].duplicateOf = 0 <=> Projection(leaves, k).duplicateOf = 0
    BY <1>1, <1>21, RebuiltIsProjection
  <2>2. \A k \in DOMAIN table : table[k].env = leaves[k]
    BY <1>5 DEF RowsOf
  <2>3. QED
    BY <1>3, <2>1, <2>2 DEF RunRows
<1>22. DOMAIN original[1].tokens = {r \in DOMAIN store : store[r] = r /\ \E n \in 1..N : r \in TokensOf(es[n])}
  <2>1. DOMAIN original[1].tokens = ts
    BY <1>4 DEF Exported, Header, Addressed
  <2>2. EnvsOf(table, R) = {es[n] : n \in 1..N}
    <3>1. \A n \in 1..N : order[n] \in R /\ es[n] = table[order[n]].env
      BY <1>9
    <3>2. \A k \in R : \E n \in 1..N : es[n] = table[k].env
      BY <1>10, <3>1
    <3>3. QED
      BY <3>1, <3>2 DEF EnvsOf
  <2>3. \A r : r \in UNION {TokensOf(e) : e \in EnvsOf(table, R)} <=> \E n \in 1..N : r \in TokensOf(es[n])
    BY <2>2
  <2>4. QED
    BY <1>3, <2>1, <2>3 DEF Gathered
<1>23. PICK lines : lines = Leaves(original) /\ DOMAIN lines = 1..N
  BY <1>12
<1>24. /\ RunOf(lines[1].payload) = run
       /\ \A n \in DOMAIN lines : lines[n].payload = es[n] /\ RunOf(lines[n].payload) = run
  BY <1>12, <1>19, <1>20, <1>23
<1>25. DOMAIN original[1].tokens =
          {r \in DOMAIN store : store[r] = r /\ \E n \in DOMAIN lines : r \in TokensOf(lines[n].payload)}
  BY <1>22, <1>23, <1>24
<1>26. Payloads(lines) = At(R)
  BY <1>13, <1>14, <1>23
<1>27. /\ Verified(original) /\ Duplicates(original) = {}
       /\ \E S \in SUBSET (1..size) : Payloads(lines) = At(S)
  BY <1>16, <1>17, <1>18, <1>23
<1>28. (before = << >> /\ from = 1) =>
          Payloads(lines) = At({k \in 1..size : /\ RunOf(leaves[k]) = RunOf(lines[1].payload)
                                               /\ Projection(leaves, k).duplicateOf = 0})
  BY <1>21, <1>24, <1>26
<1>29. \A n \in DOMAIN lines : RunOf(lines[n].payload) = RunOf(lines[1].payload)
  BY <1>24
<1>30. QED
  BY Zenon, <1>23, <1>25, <1>27, <1>28, <1>29 DEF ExportIsTheRun

\* What ExportRun writes, the verifier accepts; it carries each receipt of the
\* run once, in log order and as it was logged, all of them when the index was
\* rebuilt, and the tokens the store still holds.
THEOREM ExportHoldsTheRun == EvidenceSpec => []ExportIsTheRun
BY OriginalIsTheRun, WalkHolds, FileHolds, PTL

-----------------------------------------------------------------------------
(* One change to a file. *)

\* A file not struck is the export; one struck once has no head that counts
\* more leaves than were written, so that a lost leaf is a truncation and an
\* altered head is not.
HeadCounts(f, c) == \E S : f \in Seq(S) /\ \A l \in S : l.kind = "head" => l.head.count \in Int /\ l.head.count <= c

StrikeInv ==
    /\ strikes \in Nat
    /\ strikes = 0 => file = original
    /\ original = << >> => strikes = 0
    /\ strikes = 1 => HeadCounts(file, Len(Leaves(original)))

LEMMA WrittenCounts ==
    ASSUME NEW f, NEW es, NEW ks, NEW ts, Exported(f, es, ks, ts, CpKey)
    PROVE  /\ f \in Seq({f[n] : n \in DOMAIN f})
           /\ Len(Leaves(f)) = Len(es) /\ Len(es) \in Nat
           /\ \A n \in DOMAIN f :
                 /\ f[n].kind \in {"header", "leaf", "head"}
                 /\ f[n].kind = "head" => f[n] = HeadLine(Origin, es, CpKey)
<1> DEFINE N == Len(es)
<1>1. /\ N \in Nat
      /\ Leaves(f) = [n \in 1..N |-> Leaf(n - 1, es[n], SignerOf(es[n]), <<SignerOf(es[n]), es[n]>>)]
  BY ExportedLines
<1>2. N + 2 \in Nat /\ f = [n \in 1..(N + 2) |-> f[n]]
  BY <1>1 DEF Exported
<1>3. ASSUME NEW n \in DOMAIN f
      PROVE  /\ f[n].kind \in {"header", "leaf", "head"}
             /\ f[n].kind = "head" => f[n] = HeadLine(Origin, es, CpKey)
  <2>1. n = 1 \/ n = N + 2 \/ (n - 1 \in 1..N /\ n = 1 + (n - 1))
    BY <1>1, <1>2
  <2>2. CASE n = 1
    BY <2>2 DEF Exported, Header
  <2>3. CASE n = N + 2
    BY <2>3 DEF Exported, HeadLine
  <2>4. CASE n - 1 \in 1..N /\ n = 1 + (n - 1)
    <3>1. PICK m \in 1..N : n = 1 + m
      BY <2>4
    <3>2. f[n] = Leaf(m - 1, es[m], SignerOf(es[m]), <<SignerOf(es[m]), es[m]>>)
      BY <3>1 DEF Exported
    <3>3. QED
      BY <3>2 DEF Leaf
  <2>5. QED
    BY <2>1, <2>2, <2>3, <2>4
<1>4. Len(Leaves(f)) = N
  BY <1>1
<1>5. f \in Seq({f[n] : n \in DOMAIN f})
  BY <1>2
<1>6. QED
  BY <1>1, <1>3, <1>4, <1>5

\* What a head of the file can be changed into counts its leaves, or one less.
LEMMA ChangedCounts ==
    ASSUME NEW l, NEW hd, Made(l, hd), NEW c \in Nat, DOMAIN Leaves(file) = 1..c,
           l.kind = "head" => l.head.count = c /\ "count" \in DOMAIN l.head,
           NEW x \in {Blank, Garbage} \union Changed(l), x.kind = "head"
    PROVE  x.head.count \in Int /\ x.head.count <= c
<1>1. x # Blank /\ x # Garbage
  BY DEF Blank, Garbage
<1>2. l.kind # "leaf"
  <2> SUFFICES ASSUME l.kind = "leaf" PROVE FALSE
    OBVIOUS
  <2>1. LeafMade(l) /\ x \in ChangedLeaf(l)
    BY <1>1, MadeKinds DEF Changed
  <2>2. LeafMade(x)
    BY <2>1, ChangedLeafMade
  <2>3. QED
    BY <2>2 DEF LeafMade
<1>3. l.kind # "header"
  <2> SUFFICES ASSUME l.kind = "header" PROVE FALSE
    OBVIOUS
  <2>1. HeaderMade(l) /\ x \in ChangedHeader(l)
    BY <1>1, MadeKinds DEF Changed
  <2>2. HeaderMade(x)
    BY <2>1, ChangedHeaderMade
  <2>3. QED
    BY <2>2 DEF HeaderMade
<1>4. l.kind = "head" /\ x \in Heads(l)
  BY <1>1, <1>2, <1>3 DEF Changed
<1>5. PICK h, k, g : l = [kind |-> "head", head |-> h, keyid |-> k, sig |-> g]
  BY <1>4, MadeKinds DEF HeadMade
<1>6. h.count = c /\ "count" \in DOMAIN h
  BY <1>4, <1>5
<1> DEFINE hashes == [n \in DOMAIN Leaves(file) |-> Leaves(file)[n].hash]
           fresh == [origin |-> Origin, count |-> Len(hashes), chain |-> Chain(Origin, hashes)]
<1>7. Len(hashes) = c
  OBVIOUS
<1>8. fresh.count = c
  BY <1>7
<1>9. \/ x = [l EXCEPT !.head = fresh]
      \/ x = [l EXCEPT !.head = fresh, !.keyid = Stranger, !.sig = <<Stranger, fresh>>]
      \/ x = [l EXCEPT !.head.count = @ - 1]
      \/ x = [l EXCEPT !.head.chain = << >>]
      \/ x = [l EXCEPT !.sig = << >>]
  BY Zenon, <1>4 DEF Heads
<1> HIDE DEF fresh, hashes
<1>10. CASE x = [l EXCEPT !.head = fresh]
  BY <1>5, <1>8, <1>10
<1>11. CASE x = [l EXCEPT !.head = fresh, !.keyid = Stranger, !.sig = <<Stranger, fresh>>]
  BY <1>5, <1>8, <1>11
<1>12. CASE x = [l EXCEPT !.head.count = @ - 1]
  <2>1. x.head = [h EXCEPT !.count = h.count - 1]
    BY <1>5, <1>12
  <2>2. x.head.count = c - 1
    BY <1>6, <2>1
  <2>3. QED
    BY <2>2
<1>13. CASE x = [l EXCEPT !.head.chain = << >>]
  <2>1. x.head = [h EXCEPT !.chain = << >>]
    BY <1>5, <1>13
  <2>2. x.head.count = c
    BY <1>6, <2>1
  <2>3. QED
    BY <2>2
<1>14. CASE x = [l EXCEPT !.sig = << >>]
  BY <1>5, <1>6, <1>14
<1>15. QED
  BY <1>9, <1>10, <1>11, <1>12, <1>13, <1>14

\* A step writes the export, strikes the file, or leaves both and the count.
LEMMA FileMoves ==
    ASSUME [EvidenceNext]_evars
    PROVE  \/ \E run \in Runs : Export(run)
           \/ UNCHANGED <<file, original, strikes>>
           \/ Lose \/ Cut \/ Swap \/ Repeat \/ Change
<1>1. CASE \E k \in Signers : (Play.keyed /\ RegisterKey(k)) \/ RegisterTorn(k)
  BY <1>1 DEF RegisterKey, RegisterTorn, fileVars
<1>2. CASE DropIndex \/ Reindex \/ OpenLog \/ Catch
  BY <1>2 DEF DropIndex, Reindex, OpenLog, Catch, fileVars
<1>3. CASE Rot \/ Restore \/ Rewrite \/ Prune
  <2>1. CASE Rot
    BY <2>1 DEF Rot, fileVars
  <2>2. CASE Restore
    BY <2>2 DEF Restore, fileVars
  <2>3. CASE Rewrite
    BY <2>3 DEF Rewrite, fileVars
  <2>4. CASE Prune
    BY <2>4 DEF Prune, fileVars
  <2>5. QED
    BY <1>3, <2>1, <2>2, <2>3, <2>4
<1>4. CASE ImportOpen \/ ImportBegin \/ ImportIntegrate \/ ImportWait \/ ImportEnd
           \/ ImportKilled \/ ImportReindex
  BY <1>4 DEF ImportOpen, ImportBegin, ImportIntegrate, ImportWait, ImportEnd,
              ImportKilled, ImportReindex, fileVars
<1>5. CASE UNCHANGED evars
  BY <1>5 DEF evars, fileVars
<1>6. QED
  BY <1>1, <1>2, <1>3, <1>4, <1>5 DEF EvidenceNext

LEMMA StrikesCount == EvidenceSpec => []StrikeInv
<1>1. EvidenceInit => StrikeInv
  BY DEF EvidenceInit, StrikeInv
<1>2. StrikeInv /\ (OriginalInv /\ FileInv) /\ WalkInv /\ [EvidenceNext]_evars => StrikeInv'
  <2> SUFFICES ASSUME StrikeInv, OriginalInv, FileInv, WalkInv, [EvidenceNext]_evars
               PROVE  StrikeInv'
    OBVIOUS
  <2>1. CASE \E run \in Runs : Export(run)
    <3>1. PICK run \in Runs : Export(run)
      BY <2>1
    <3>2. original = << >> /\ file' = original' /\ strikes' = strikes
      BY Zenon, <3>1 DEF Export
    <3>3. strikes = 0
      BY <3>2 DEF StrikeInv
    <3>4. QED
      BY <3>2, <3>3 DEF StrikeInv
  <2>2. CASE UNCHANGED <<file, original, strikes>>
    BY <2>2 DEF StrikeInv, HeadCounts
  <2>3. CASE Lose \/ Cut \/ Swap \/ Repeat \/ Change
    <3>1. file # << >> /\ strikes' = strikes + 1 /\ original' = original
      BY <2>3 DEF Lose, Cut, Swap, Repeat, Change, Strike
    <3>2. original # << >> /\ strikes \in Nat
      BY <3>1 DEF FileInv, StrikeInv
    <3>3. CASE strikes # 0
      BY <3>1, <3>2, <3>3 DEF StrikeInv
    <3>4. CASE strikes = 0
      <4>1. file = original
        BY <3>4 DEF StrikeInv
      <4>2. PICK es, ks, ts : Exported(original, es, ks, ts, CpKey)
        BY <3>2 DEF OriginalInv, WrittenFrom
      <4>3. PICK c \in Nat : c = Len(Leaves(original)) /\ c = Len(es)
        BY <4>2, WrittenCounts
      <4>4. PICK S : /\ file \in Seq(S) /\ S = {file[n] : n \in DOMAIN file}
        <5>1. PICK f : f = file /\ Exported(f, es, ks, ts, CpKey)
          BY <4>1, <4>2
        <5>2. f \in Seq({f[n] : n \in DOMAIN f})
          BY <5>1, WrittenCounts
        <5>3. QED
          BY <5>1, <5>2
      <4>5. \A l \in S : l.kind = "head" => l = HeadLine(Origin, es, CpKey)
        BY <4>1, <4>2, <4>4, WrittenCounts
      <4>6. /\ HeadLine(Origin, es, CpKey).head.count = c
            /\ "count" \in DOMAIN HeadLine(Origin, es, CpKey).head
        BY <4>3 DEF HeadLine
      <4>7. \A l \in S : l.kind = "head" => l.head.count \in Int /\ l.head.count <= c
        BY <4>3, <4>5, <4>6
      <4>8. HeadCounts(file', c)
        <5>1. CASE Lose
          BY <5>1, <4>4, <4>7, EditsStay DEF Lose, Strike, HeadCounts
        <5>2. CASE Cut
          BY <5>2, <4>4, <4>7, EditsStay DEF Cut, Strike, HeadCounts
        <5>3. CASE Swap
          BY <5>3, <4>4, <4>7, EditsStay DEF Swap, Strike, HeadCounts
        <5>4. CASE Repeat
          BY <5>4, <4>4, <4>7, EditsStay DEF Repeat, Strike, HeadCounts
        <5>5. CASE Change
          <6>1. PICK n \in DOMAIN file : \E x \in {Blank, Garbage} \union Changed(file[n]) :
                   file' = [file EXCEPT ![n] = x]
            BY <5>5 DEF Change, Strike
          <6>2. PICK x \in {Blank, Garbage} \union Changed(file[n]) : file' = [file EXCEPT ![n] = x]
            BY <6>1
          <6>3. PICK l : l = file[n] /\ l \in S
            BY <4>4
          <6>4. PICK hd : Made(l, hd)
            BY <6>3 DEF FileInv, Lines
          <6>5. DOMAIN Leaves(file) = 1..c
            BY <4>1, <4>2, <4>3, ExportedLines
          <6>6. l.kind = "head" => l.head.count = c /\ "count" \in DOMAIN l.head
            BY <4>5, <4>6, <6>3
          <6>7. x.kind = "head" => x.head.count \in Int /\ x.head.count <= c
            BY <6>2, <6>3, <6>4, <6>5, <6>6, ChangedCounts
          <6>8. file' \in Seq(S \cup {x})
            BY <4>4, <6>2, EditsStay
          <6>9. \A y \in S \cup {x} : y.kind = "head" => y.head.count \in Int /\ y.head.count <= c
            BY <4>7, <6>7
          <6>10. QED
            BY <6>8, <6>9 DEF HeadCounts
        <5>6. QED
          BY <2>3, <5>1, <5>2, <5>3, <5>4, <5>5
      <4>9. strikes' = 1 /\ Len(Leaves(original))' = c
        BY <3>1, <3>4, <4>3
      <4>10. QED
        BY <3>1, <3>2, <4>8, <4>9 DEF StrikeInv
    <3>5. QED
      BY <3>3, <3>4
  <2>4. QED
    BY <2>1, <2>2, <2>3, FileMoves
<1>3. QED
  BY <1>1, <1>2, FileHolds, WalkHolds, PTL DEF EvidenceSpec

-----------------------------------------------------------------------------
(* What the verifier says of a file with one change. *)

\* A header, m leaves, and t heads.
LinesAre(f, m, t) ==
    /\ DOMAIN f = 1..(1 + m + t)
    /\ f[1].kind = "header"
    /\ \A n \in 1..m : f[1 + n].kind = "leaf"
    /\ t = 1 => f[2 + m].kind = "head"

SoundAt(f, n, ks) == f[1 + n].hash = f[1 + n].payload /\ Signed(f[1 + n], f[1 + n].payload, ks)

LEMMA LinesOf ==
    ASSUME NEW f, NEW m \in Nat, NEW t \in {0, 1}, LinesAre(f, m, t)
    PROVE  /\ Leaves(f) = [n \in 1..m |-> f[1 + n]]
           /\ t = 0 => OfKind(f, "head") = << >>
           /\ t = 1 => OfKind(f, "head") = <<f[2 + m]>>
<1>1. /\ DOMAIN f = 1..(1 + m + t) /\ f[1].kind = "header"
      /\ \A n \in 1..m : f[1 + n].kind = "leaf"
      /\ t = 1 => f[2 + m].kind = "head"
  BY DEF LinesAre
<1>2. "header" # "leaf" /\ "header" # "head" /\ "leaf" # "head"
  OBVIOUS
<1>d. PICK o \in Nat, c \in Nat : o = 1 /\ c = 1 + m
  OBVIOUS
<1>k. PICK leaf, head : o = 1 /\ c = 1 + m /\ leaf = "leaf" /\ head = "head"
  BY <1>d
<1>3. \A n \in DOMAIN f : n = 1 \/ (n = 2 + m /\ t = 1) \/ \E j \in 1..m : n = 1 + j
  <2> TAKE n \in DOMAIN f
  <2>1. n = 1 \/ (n = 2 + m /\ t = 1) \/ (n - 1 \in 1..m /\ n = 1 + (n - 1))
    BY <1>1
  <2>2. QED
    BY <2>1
<1>4. Together(f, leaf, o, m)
  <2>1. \A n \in 1..m : o + n \in DOMAIN f /\ f[o + n].kind = leaf
    BY <1>1, <1>k
  <2>2. \A n \in DOMAIN f : f[n].kind = leaf => n \in (o + 1)..(o + m)
    BY <1>1, <1>2, <1>3, <1>k
  <2>3. QED
    BY <2>1, <2>2 DEF Together
<1>5. Together(f, head, c, t)
  <2>1. \A n \in 1..t : c + n \in DOMAIN f /\ f[c + n].kind = head
    BY <1>1, <1>k
  <2>2. \A n \in DOMAIN f : f[n].kind = head => n \in (c + 1)..(c + t)
    BY <1>1, <1>2, <1>3, <1>k
  <2>3. QED
    BY <2>1, <2>2 DEF Together
<1>6. OfKind(f, leaf) = [n \in 1..m |-> f[o + n]]
  BY <1>4, KindAt
<1>7. OfKind(f, head) = [n \in 1..t |-> f[c + n]]
  BY <1>5, KindAt
<1>8. Leaves(f) = [n \in 1..m |-> f[1 + n]]
  BY <1>6, <1>k DEF Leaves
<1>9. t = 0 => OfKind(f, "head") = << >>
  BY <1>7, <1>k
<1>10. t = 1 => OfKind(f, "head") = <<f[2 + m]>>
  BY <1>7, <1>k
<1>11. QED
  BY <1>8, <1>9, <1>10

\* What the check of the sequence reads in a file of sound leaves.
OrderRead(f, m, ks, q) ==
    /\ ks = DOMAIN f[1].keys /\ \A n \in 1..m : SoundAt(f, n, ks)
    /\ q = [n \in 1..m |-> f[1 + n].index]

\* When every leaf is sound, the sequence decides, and then the head.
LEMMA SoundFindings ==
    ASSUME NEW f, NEW m \in Nat, NEW t \in {0, 1}, LinesAre(f, m, t),
           NEW ks, NEW q, OrderRead(f, m, ks, q)
    PROVE  /\ SequenceFindings(q) # << >> => Findings(f) = SequenceFindings(q)
           /\ SequenceFindings(q) = << >> => Findings(f) = HeadFindings(f, Leaves(f), ks)
<1>1. Leaves(f) = [n \in 1..m |-> f[1 + n]]
  BY LinesOf
<1>2. Unsound(Leaves(f), ks) = {}
  BY <1>1 DEF Unsound, SoundAt, OrderRead
<1>3. [n \in DOMAIN Leaves(f) |-> Leaves(f)[n].index] = q
  BY <1>1 DEF OrderRead
<1>4. QED
  BY Zenon, <1>2, <1>3 DEF Findings, OrderRead

\* When one leaf is unsound, it is named.
LEMMA UnsoundFinding ==
    ASSUME NEW f, NEW m \in Nat, NEW t \in {0, 1}, LinesAre(f, m, t),
           NEW ks, ks = DOMAIN f[1].keys, NEW j \in 1..m,
           \A n \in 1..m : SoundAt(f, n, ks) <=> n # j
    PROVE  Findings(f) = <<Finding("content", f[1 + j].index)>>
<1> DEFINE ls == Leaves(f)
           U == Unsound(ls, ks)
<1>1. ls = [n \in 1..m |-> f[1 + n]]
  BY LinesOf
<1>2. U = {j}
  BY <1>1 DEF Unsound, SoundAt
<1>3. Min(U) = j
  <2>1. {j} \in SUBSET Nat /\ {j} # {}
    OBVIOUS
  <2>2. Min({j}) \in {j}
    BY <2>1, MinIsLeast
  <2>3. QED
    BY <1>2, <2>2
<1>4. ls[j].index = f[1 + j].index
  BY <1>1
<1> HIDE DEF ls, U
<1>5. U # {}
  BY <1>2
<1>6. Findings(f) = <<Finding("content", ls[Min(U)].index)>>
  BY Zenon, <1>5 DEF Findings, ls, U
<1>7. QED
  BY <1>3, <1>4, <1>6

LEMMA HeadlessFinding ==
    ASSUME NEW f, NEW m \in Nat, NEW t \in {0, 1}, t = 0, LinesAre(f, m, t), NEW ks
    PROVE  HeadFindings(f, Leaves(f), ks) = <<Finding("truncation", -1)>>
<1>1. OfKind(f, "head") = << >>
  BY LinesOf
<1>2. QED
  BY Zenon, <1>1 DEF HeadFindings

\* What the check of the head reads in a file, and what it finds.
HeadRead(f, m, ks, hashes, line, found) ==
    /\ hashes = [n \in 1..m |-> f[1 + n].hash] /\ line = f[2 + m]
    /\ found = HeadFindings(f, Leaves(f), ks)

LEMMA HeadFinding ==
    ASSUME NEW f, NEW m \in Nat, NEW t \in {0, 1}, t = 1, LinesAre(f, m, t), NEW ks,
           NEW hashes, NEW line, NEW found, HeadRead(f, m, ks, hashes, line, found)
    PROVE  /\ m < line.head.count => found = <<Finding("truncation", m)>>
           /\ ~(m < line.head.count) =>
                /\ line.head.chain # Chain(f[1].origin, hashes) => found = <<Finding("chain", -1)>>
                /\ line.head.chain = Chain(f[1].origin, hashes) /\ ~Signed(line, line.head, ks) =>
                      found = <<Finding("head", -1)>>
<1>1. Leaves(f) = [n \in 1..m |-> f[1 + n]] /\ OfKind(f, "head") = <<line>>
  BY LinesOf DEF HeadRead
<1>2. <<line>> # << >> /\ <<line>>[1] = line /\ Len(Leaves(f)) = m
      /\ [n \in DOMAIN Leaves(f) |-> Leaves(f)[n].hash] = hashes
  BY <1>1 DEF HeadRead
<1>3. HeadFindings(f, Leaves(f), ks) =
         IF OfKind(f, "head") = << >> THEN <<Finding("truncation", -1)>>
         ELSE IF Len(Leaves(f)) < OfKind(f, "head")[1].head.count
              THEN <<Finding("truncation", Len(Leaves(f)))>>
         ELSE IF OfKind(f, "head")[1].head.chain
                   # Chain(f[1].origin, [n \in DOMAIN Leaves(f) |-> Leaves(f)[n].hash])
              THEN <<Finding("chain", -1)>>
         ELSE IF ~Signed(OfKind(f, "head")[1], OfKind(f, "head")[1].head, ks)
              THEN <<Finding("head", -1)>>
         ELSE << >>
  BY DEF HeadFindings
<1>4. found = IF m < line.head.count THEN <<Finding("truncation", m)>>
              ELSE IF line.head.chain # Chain(f[1].origin, hashes) THEN <<Finding("chain", -1)>>
              ELSE IF ~Signed(line, line.head, ks) THEN <<Finding("head", -1)>>
              ELSE << >>
  BY <1>1, <1>2, <1>3 DEF HeadRead
<1>5. QED
  BY <1>4

\* A file of N leaves as the export writes them, es, under keys that ks holds.
WholeFile(o, N, es, ks) ==
    /\ \E S : o \in Seq(S)
    /\ Len(o) = N + 2 /\ LinesAre(o, N, 1)
    /\ DOMAIN o[1].keys = ks /\ o[1].origin = Origin
    /\ \A n \in 1..N : SoundAt(o, n, ks) /\ o[1 + n].index = n - 1 /\ o[1 + n].hash = es[n]
    /\ o[2 + N].head.count = N /\ o[2 + N].head.chain = Chain(Origin, es)
    /\ Signed(o[2 + N], o[2 + N].head, ks)
    /\ es = [n \in 1..N |-> es[n]]

LEMMA ExportedIsWhole ==
    ASSUME NEW o, NEW es, NEW ks, NEW ts, Exported(o, es, ks, ts, CpKey),
           CpKey \in ks, \A n \in 1..Len(es) : SignerOf(es[n]) \in ks
    PROVE  WholeFile(o, Len(es), es, ks) /\ Len(es) \in Nat \ {0}
<1> DEFINE N == Len(es)
<1>1. N \in Nat \ {0} /\ DOMAIN es = 1..N
  BY ExportedLines
<1>2. N + 2 \in Nat /\ Len(o) = N + 2 /\ o = [n \in 1..(N + 2) |-> o[n]]
  BY <1>1 DEF Exported
<1>3. ASSUME NEW n \in 1..N
      PROVE  /\ o[1 + n].kind = "leaf" /\ SoundAt(o, n, ks)
             /\ o[1 + n].index = n - 1 /\ o[1 + n].hash = es[n]
  <2>1. o[1 + n] = Leaf(n - 1, es[n], SignerOf(es[n]), <<SignerOf(es[n]), es[n]>>)
    BY DEF Exported
  <2>2. SignerOf(es[n]) \in ks
    OBVIOUS
  <2>3. QED
    BY <2>1, <2>2 DEF Leaf, SoundAt, Signed
<1>4. o[1].kind = "header" /\ DOMAIN o[1].keys = ks /\ o[1].origin = Origin
  BY DEF Exported, Header, Thumbprints
<1>5. /\ o[2 + N].kind = "head" /\ o[2 + N].head.count = N /\ o[2 + N].head.chain = Chain(Origin, es)
      /\ Signed(o[2 + N], o[2 + N].head, ks)
  <2>1. o[2 + N] = HeadLine(Origin, es, CpKey)
    BY <1>1 DEF Exported
  <2>2. QED
    BY <2>1 DEF HeadLine, Signed
<1>6. \E S : o \in Seq(S)
  <2>1. o \in Seq({o[n] : n \in DOMAIN o})
    BY <1>2
  <2>2. QED
    BY <2>1
<1>7. DOMAIN o = 1..(1 + N + 1)
  BY <1>1, <1>2
<1>8. es = [n \in 1..N |-> es[n]]
  BY DEF Exported
<1> HIDE DEF N
<1>9. LinesAre(o, N, 1)
  BY <1>3, <1>4, <1>5, <1>7 DEF LinesAre
<1>10. WholeFile(o, N, es, ks)
  BY <1>2, <1>3, <1>4, <1>5, <1>6, <1>8, <1>9 DEF WholeFile
<1>11. QED
  BY <1>1, <1>10 DEF N

\* A cut keeps the leaves before it and has no head.
LEMMA CutIsNamed ==
    ASSUME NEW o, NEW N \in Nat, NEW es, NEW ks, WholeFile(o, N, es, ks),
           NEW j \in 1..N, NEW f, f = SubSeq(o, 1, 1 + j)
    PROVE  Findings(f) = <<Finding("truncation", -1)>>
<1>1. PICK S : o \in Seq(S) /\ Len(o) = N + 2
  BY DEF WholeFile
<1>2. PICK z \in {0, 1} : z = 0
  OBVIOUS
<1>3. DOMAIN f = 1..(1 + j + z) /\ \A n \in 1..(1 + j) : f[n] = o[n]
  BY <1>1, <1>2
<1>4. j \in Nat /\ \A n \in 1..j : 1 + n \in 1..(1 + j) /\ n \in 1..N
  OBVIOUS
<1>5. f[1] = o[1] /\ \A n \in 1..j : f[1 + n] = o[1 + n]
  BY <1>3, <1>4
<1>6. LinesAre(f, j, z)
  BY <1>2, <1>3, <1>4, <1>5 DEF LinesAre, WholeFile
<1>7. DOMAIN f[1].keys = ks /\ \A n \in 1..j : SoundAt(f, n, ks) /\ f[1 + n].index = n - 1
  BY <1>4, <1>5 DEF WholeFile, SoundAt
<1>8. PICK q : q = [n \in 1..j |-> f[1 + n].index]
  OBVIOUS
<1>9. SequenceFindings(q) = << >>
  <2>1. Misplaced(q) = {}
    BY <1>7, <1>8 DEF Misplaced
  <2>2. QED
    BY <2>1 DEF SequenceFindings
<1>10. Findings(f) = HeadFindings(f, Leaves(f), ks)
  <2>1. OrderRead(f, j, ks, q)
    BY <1>4, <1>7, <1>8 DEF OrderRead
  <2>2. QED
    BY <1>4, <1>6, <1>9, <2>1, SoundFindings
<1>11. QED
  BY <1>2, <1>4, <1>6, <1>10, HeadlessFinding

\* A lost leaf is a drop at its index, and a truncation when it is the last.
LEMMA LossIsNamed ==
    ASSUME NEW o, NEW N \in Nat, NEW es, NEW ks, WholeFile(o, N, es, ks),
           NEW j \in 1..N, NEW f, f = Without(o, 1 + j)
    PROVE  /\ j = N => Findings(f) = <<Finding("truncation", j - 1)>>
           /\ j # N => Findings(f) = <<Finding("drop", j - 1)>>
<1>1. PICK S : o \in Seq(S) /\ Len(o) = N + 2
  BY DEF WholeFile
<1>2. PICK m \in Nat, t \in {0, 1} : m = N - 1 /\ t = 1
  OBVIOUS
<1>3. /\ DOMAIN f = 1..(1 + m + t)
      /\ \A n \in 1..(2 + m) : f[n] = IF n <= j THEN o[n] ELSE o[n + 1]
  <2> DEFINE a == SubSeq(o, 1, j)
             b == SubSeq(o, j + 2, N + 2)
  <2>1. f = a \o b
    <3>1. (1 + j) - 1 = j /\ (1 + j) + 1 = j + 2
      OBVIOUS
    <3>2. QED
      BY <1>1, <3>1 DEF Without
  <2>2. a \in Seq(S) /\ Len(a) = j /\ \A n \in 1..j : a[n] = o[n]
    BY <1>1
  <2>3. b \in Seq(S) /\ Len(b) = N + 1 - j /\ \A n \in 1..(N + 1 - j) : b[n] = o[j + 1 + n]
    BY <1>1
  <2> HIDE DEF a, b
  <2>4. DOMAIN f = 1..(N + 1)
    BY <2>1, <2>2, <2>3
  <2>5. ASSUME NEW n \in 1..(2 + m) PROVE f[n] = IF n <= j THEN o[n] ELSE o[n + 1]
    <3>1. CASE n <= j
      <4>1. n \in 1..j
        BY <3>1
      <4>2. f[n] = a[n]
        BY <2>1, <2>2, <2>3, <4>1
      <4>3. QED
        BY <2>2, <3>1, <4>1, <4>2
    <3>2. CASE ~(n <= j)
      <4>1. n - j \in 1..(N + 1 - j) /\ j + 1 + (n - j) = n + 1
        BY <1>2, <3>2
      <4>2. f[n] = b[n - j]
        BY <2>1, <2>2, <2>3, <3>2, <4>1, SMTT(20)
      <4>3. QED
        BY <2>3, <3>2, <4>1, <4>2
    <3>3. QED
      BY <3>1, <3>2
  <2>6. QED
    BY <1>2, <2>4, <2>5
<1>4. f[1] = o[1] /\ f[2 + m] = o[2 + N]
  <2>1. 1 <= j /\ ~(2 + m <= j) /\ 1 \in 1..(2 + m) /\ 2 + m \in 1..(2 + m) /\ 2 + m + 1 = 2 + N
    BY <1>2
  <2>2. QED
    BY <1>3, <2>1
<1>5. ASSUME NEW n \in 1..m
      PROVE  \E k \in 1..N : /\ f[1 + n] = o[1 + k]
                             /\ k = IF n < j THEN n ELSE n + 1
  <2>1. n \in 1..N /\ n + 1 \in 1..N /\ 1 + n \in 1..(2 + m) /\ (1 + n) + 1 = 1 + (n + 1)
        /\ (1 + n <= j <=> n < j)
    BY <1>2
  <2>2. f[1 + n] = IF 1 + n <= j THEN o[1 + n] ELSE o[(1 + n) + 1]
    BY <1>3, <2>1
  <2>3. CASE n < j
    BY <2>1, <2>2, <2>3
  <2>4. CASE ~(n < j)
    BY <2>1, <2>2, <2>4
  <2>5. QED
    BY <2>3, <2>4
<1>6. \A k \in 1..N : SoundAt(o, k, ks) /\ o[1 + k].index = k - 1 /\ o[1 + k].kind = "leaf"
  BY DEF WholeFile, LinesAre
<1>7. ASSUME NEW n \in 1..m
      PROVE  /\ f[1 + n].kind = "leaf" /\ SoundAt(f, n, ks)
             /\ f[1 + n].index = IF n < j THEN n - 1 ELSE n
  <2>1. PICK k \in 1..N : f[1 + n] = o[1 + k] /\ k = IF n < j THEN n ELSE n + 1
    BY <1>5
  <2>2. SoundAt(f, n, ks) /\ f[1 + n].index = k - 1 /\ f[1 + n].kind = "leaf"
    BY <1>6, <2>1 DEF SoundAt
  <2>3. QED
    BY <2>1, <2>2
<1>8. LinesAre(f, m, t)
  BY <1>2, <1>3, <1>4, <1>7 DEF LinesAre, WholeFile
<1>9. DOMAIN f[1].keys = ks
  BY <1>4 DEF WholeFile
<1>10. PICK q : q = [n \in 1..m |-> f[1 + n].index]
  OBVIOUS
<1>11. /\ DOMAIN q = 1..m /\ q \in Seq(Nat) /\ Len(q) = m
       /\ \A n \in 1..m : q[n] = IF n < j THEN n - 1 ELSE n
  <2>1. \A n \in 1..m : q[n] = IF n < j THEN n - 1 ELSE n
    BY <1>7, <1>10
  <2>2. \A n \in 1..m : q[n] \in Nat
    BY <2>1
  <2>3. q \in [1..m -> Nat]
    BY <1>10, <2>2
  <2>4. QED
    BY <2>1, <2>3
<1>12. /\ SequenceFindings(q) # << >> => Findings(f) = SequenceFindings(q)
       /\ SequenceFindings(q) = << >> => Findings(f) = HeadFindings(f, Leaves(f), ks)
  <2>1. OrderRead(f, m, ks, q)
    BY <1>7, <1>9, <1>10 DEF OrderRead
  <2>2. QED
    BY <1>8, <2>1, SoundFindings
<1>13. CASE j = N
  <2>1. Misplaced(q) = {}
    BY <1>2, <1>11, <1>13 DEF Misplaced
  <2>2. Findings(f) = HeadFindings(f, Leaves(f), ks)
    BY <1>12, <2>1 DEF SequenceFindings
  <2>3. PICK hashes, line, found : HeadRead(f, m, ks, hashes, line, found)
    BY DEF HeadRead
  <2>4. line.head.count = N /\ m < N
    BY <1>2, <1>4, <2>3 DEF WholeFile, HeadRead
  <2>5. found = <<Finding("truncation", m)>>
    BY <1>2, <1>8, <2>3, <2>4, HeadFinding
  <2>6. QED
    BY <1>2, <1>13, <2>2, <2>3, <2>5 DEF HeadRead
<1>14. CASE j # N
  <2>1. Ascending(q)
    <3>1. \A p \in 1..(m - 1) : q[p] < q[p + 1]
      <4> TAKE p \in 1..(m - 1)
      <4>1. p \in 1..m /\ p + 1 \in 1..m
        OBVIOUS
      <4>2. q[p] = (IF p < j THEN p - 1 ELSE p) /\ q[p + 1] = (IF p + 1 < j THEN p ELSE p + 1)
        BY <1>11, <4>1
      <4>3. QED
        BY <4>2
    <3>2. QED
      BY <1>11, <3>1 DEF Ascending
  <2>2. j \in 1..m
    BY <1>2, <1>14
  <2>3. j \in Misplaced(q)
    <3>1. q[j] = j
      BY <1>11, <2>2
    <3>2. QED
      BY <1>11, <2>2, <3>1 DEF Misplaced
  <2>4. Missing(q) = (j - 1)..(j - 1)
    <3>1. Last(q) = m
      <4>1. m \in 1..m /\ ~(m < j)
        BY <2>2
      <4>2. QED
        BY <1>11, <4>1 DEF Last
    <3>2. \A x \in 0..m : x # j - 1 => \E p \in 1..m : q[p] = x
      <4> SUFFICES ASSUME NEW x \in 0..m, x # j - 1 PROVE \E p \in 1..m : q[p] = x
        OBVIOUS
      <4>1. CASE x < j - 1
        <5>1. x + 1 \in 1..m /\ x + 1 < j
          BY <2>2, <4>1
        <5>2. q[x + 1] = x
          BY <1>11, <5>1
        <5>3. QED
          BY <5>1, <5>2
      <4>2. CASE x > j - 1
        <5>1. x \in 1..m /\ ~(x < j)
          BY <2>2, <4>2
        <5>2. q[x] = x
          BY <1>11, <5>1
        <5>3. QED
          BY <5>1, <5>2
      <4>3. QED
        BY <4>1, <4>2
    <3>3. \A p \in 1..m : q[p] # j - 1
      <4> TAKE p \in 1..m
      <4>1. q[p] = IF p < j THEN p - 1 ELSE p
        BY <1>11
      <4>2. QED
        BY <4>1
    <3>4. {q[p] : p \in DOMAIN q} = {q[p] : p \in 1..m}
      BY <1>11
    <3>5. Missing(q) = {x \in 0..m : \A p \in 1..m : q[p] # x}
      BY <3>1, <3>4 DEF Missing
    <3>6. j - 1 \in 0..m
      BY <2>2
    <3>7. {x \in 0..m : \A p \in 1..m : q[p] # x} = {j - 1}
      BY <3>2, <3>3, <3>6
    <3>8. (j - 1)..(j - 1) = {j - 1}
      OBVIOUS
    <3>9. QED
      BY <3>5, <3>7, <3>8
  <2>5. PICK a \in Nat : a = j - 1
    OBVIOUS
  <2>6. InOrder(Missing(q)) = <<a>>
    <3>1. PICK b \in Int : b = a
      OBVIOUS
    <3>2. a <= b + 1
      BY <3>1
    <3>3. InOrder(a..b) = [n \in 1..(b - a + 1) |-> a + n - 1]
      BY <3>2, InOrderOfInterval
    <3>4. QED
      BY <2>4, <2>5, <3>1, <3>3
  <2>7. SequenceFindings(q) = [n \in DOMAIN <<a>> |-> Finding("drop", <<a>>[n])]
    BY Zenon, <2>1, <2>3, <2>6 DEF SequenceFindings
  <2>8. SequenceFindings(q) = <<Finding("drop", a)>>
    BY <2>7
  <2>9. <<Finding("drop", a)>> # << >>
    OBVIOUS
  <2>10. QED
    BY <1>12, <1>14, <2>5, <2>8, <2>9
<1>15. QED
  BY <1>13, <1>14

\* Two neighbouring leaves that changed places are a reorder at the first.
LEMMA SwapIsNamed ==
    ASSUME NEW o, NEW N \in Nat, NEW es, NEW ks, WholeFile(o, N, es, ks),
           NEW j \in 1..(N - 1), NEW f, f = Swapped(o, 1 + j)
    PROVE  Findings(f) = <<Finding("reorder", j - 1)>>
<1>1. PICK S : o \in Seq(S) /\ Len(o) = N + 2
  BY DEF WholeFile
<1>2. PICK t \in {0, 1} : t = 1
  OBVIOUS
<1>3. /\ DOMAIN f = 1..(1 + N + t)
      /\ \A n \in 1..(2 + N) : f[n] = IF n = 2 + j THEN o[1 + j] ELSE IF n = 1 + j THEN o[2 + j] ELSE o[n]
  BY <1>1, <1>2 DEF Swapped
<1>4. f[1] = o[1] /\ f[2 + N] = o[2 + N]
  <2>1. /\ 1 # 2 + j /\ 1 # 1 + j /\ 1 \in 1..(2 + N)
        /\ 2 + N # 2 + j /\ 2 + N # 1 + j /\ 2 + N \in 1..(2 + N)
    OBVIOUS
  <2>2. QED
    BY <1>3, <2>1
<1>5. ASSUME NEW n \in 1..N
      PROVE  \E k \in 1..N : /\ f[1 + n] = o[1 + k]
                             /\ k = IF n = 1 + j THEN j ELSE IF n = j THEN 1 + j ELSE n
  <2>1. j \in 1..N /\ 1 + j \in 1..N /\ 1 + n \in 1..(2 + N) /\ 1 + (1 + j) = 2 + j
        /\ (1 + n = 2 + j <=> n = 1 + j) /\ (1 + n = 1 + j <=> n = j)
    OBVIOUS
  <2>2. f[1 + n] = IF n = 1 + j THEN o[1 + j] ELSE IF n = j THEN o[2 + j] ELSE o[1 + n]
    BY <1>3, <2>1
  <2>3. QED
    BY <2>1, <2>2
<1>6. \A k \in 1..N : SoundAt(o, k, ks) /\ o[1 + k].index = k - 1 /\ o[1 + k].kind = "leaf"
  BY DEF WholeFile, LinesAre
<1>7. ASSUME NEW n \in 1..N
      PROVE  /\ f[1 + n].kind = "leaf" /\ SoundAt(f, n, ks)
             /\ f[1 + n].index = IF n = 1 + j THEN j - 1 ELSE IF n = j THEN j ELSE n - 1
  <2>1. PICK k \in 1..N : /\ f[1 + n] = o[1 + k]
                          /\ k = IF n = 1 + j THEN j ELSE IF n = j THEN 1 + j ELSE n
    BY <1>5
  <2>2. SoundAt(f, n, ks) /\ f[1 + n].index = k - 1 /\ f[1 + n].kind = "leaf"
    BY <1>6, <2>1 DEF SoundAt
  <2>3. QED
    BY <2>1, <2>2
<1>8. LinesAre(f, N, t)
  BY <1>2, <1>3, <1>4, <1>7 DEF LinesAre, WholeFile
<1>9. DOMAIN f[1].keys = ks
  BY <1>4 DEF WholeFile
<1>10. PICK q : q = [n \in 1..N |-> f[1 + n].index]
  OBVIOUS
<1>11. SequenceFindings(q) # << >> => Findings(f) = SequenceFindings(q)
  <2>1. OrderRead(f, N, ks, q)
    BY <1>7, <1>9, <1>10 DEF OrderRead
  <2>2. QED
    BY <1>8, <2>1, SoundFindings
<1>12. /\ DOMAIN q = 1..N /\ Len(q) = N
       /\ \A n \in 1..N : q[n] = IF n = 1 + j THEN j - 1 ELSE IF n = j THEN j ELSE n - 1
  BY <1>7, <1>10
<1>13. ~Ascending(q)
  <2>1. j \in 1..N /\ 1 + j \in 1..N /\ j \in 1..(N - 1) /\ j + 1 = 1 + j /\ j # 1 + j
    OBVIOUS
  <2>2. q[j] = j /\ q[j + 1] = j - 1
    BY <1>12, <2>1
  <2>3. ~(q[j] < q[j + 1])
    BY <2>2
  <2>4. QED
    BY <1>12, <2>1, <2>3 DEF Ascending
<1>14. Misplaced(q) = {j, 1 + j}
  <2>1. j \in 1..N /\ 1 + j \in 1..N
    OBVIOUS
  <2>2. \A n \in 1..N : q[n] # n - 1 <=> n = j \/ n = 1 + j
    BY <1>12
  <2>3. QED
    BY <1>12, <2>1, <2>2 DEF Misplaced
<1>15. Min(Misplaced(q)) = j
  <2>1. {j, 1 + j} \in SUBSET Nat /\ {j, 1 + j} # {}
    OBVIOUS
  <2>2. Min({j, 1 + j}) \in {j, 1 + j} /\ \A x \in {j, 1 + j} : Min({j, 1 + j}) <= x
    BY <2>1, MinIsLeast
  <2>3. QED
    BY <1>14, <2>2
<1>16. SequenceFindings(q) = <<Finding("reorder", j - 1)>>
  <2>1. Misplaced(q) # {}
    BY <1>14
  <2>2. SequenceFindings(q) = <<Finding("reorder", Min(Misplaced(q)) - 1)>>
    BY Zenon, <1>13, <2>1 DEF SequenceFindings
  <2>3. QED
    BY <1>15, <2>2
<1>17. <<Finding("reorder", j - 1)>> # << >>
  OBVIOUS
<1>18. QED
  BY <1>11, <1>16, <1>17

\* A leaf that is there twice is a reorder at the second.
LEMMA RepeatIsNamed ==
    ASSUME NEW o, NEW N \in Nat, NEW es, NEW ks, WholeFile(o, N, es, ks),
           NEW j \in 1..N, NEW f, f = InsertAt(o, 1 + j, o[1 + j])
    PROVE  Findings(f) = <<Finding("reorder", j)>>
<1>1. PICK S : o \in Seq(S) /\ Len(o) = N + 2
  BY DEF WholeFile
<1>2. PICK m \in Nat, t \in {0, 1} : m = N + 1 /\ t = 1
  OBVIOUS
<1>3. /\ DOMAIN f = 1..(1 + m + t)
      /\ \A n \in 1..(2 + m) : f[n] = IF n <= 1 + j THEN o[n] ELSE o[n - 1]
  <2> DEFINE a == SubSeq(o, 1, j)
             b == SubSeq(o, 1 + j, N + 2)
             c == <<o[1 + j]>>
  <2>1. f = a \o c \o b
    <3>1. (1 + j) - 1 = j
      OBVIOUS
    <3>2. QED
      BY <1>1, <3>1 DEF InsertAt
  <2>2. a \in Seq(S) /\ Len(a) = j /\ \A n \in 1..j : a[n] = o[n]
    BY <1>1
  <2>3. b \in Seq(S) /\ Len(b) = N + 2 - j /\ \A n \in 1..(N + 2 - j) : b[n] = o[j + n]
    BY <1>1
  <2>4. c \in Seq(S) /\ Len(c) = 1 /\ c[1] = o[1 + j]
    <3>1. o[1 + j] \in S
      BY <1>1
    <3>2. QED
      BY <3>1
  <2> HIDE DEF a, b, c
  <2>d. PICK d : d = a \o c
    OBVIOUS
  <2>c. /\ d \in Seq(S) /\ Len(d) = Len(a) + Len(c)
        /\ \A n \in 1..(Len(a) + Len(c)) : d[n] = IF n <= Len(a) THEN a[n] ELSE c[n - Len(a)]
    <3>1. a \in Seq(S) /\ c \in Seq(S)
      BY <2>2, <2>4
    <3>2. QED
      BY Zenon, <2>d, <3>1, ConcatProperties
  <2>e. d \in Seq(S) /\ Len(d) = j + 1
    BY <2>2, <2>4, <2>c
  <2>g. ASSUME NEW n \in 1..j PROVE d[n] = a[n]
    BY <2>2, <2>4, <2>c
  <2>h. d[1 + j] = c[1]
    <3>1. 1 + j \in 1..(Len(a) + Len(c)) /\ ~(1 + j <= Len(a)) /\ 1 + j - Len(a) = 1
      BY <2>2, <2>4
    <3>2. QED
      BY <2>c, <3>1
  <2>i. f = d \o b
    BY <2>1, <2>d
  <2>5. DOMAIN f = 1..(N + 3)
    BY <2>3, <2>e, <2>i
  <2>j. ASSUME NEW n \in 1..(j + 1) PROVE f[n] = d[n]
    <3>1. n \in 1..(Len(d) + Len(b)) /\ n <= Len(d)
      BY <2>3, <2>e
    <3>2. d \in Seq(S) /\ b \in Seq(S)
      BY <2>3, <2>e
    <3>3. \A k \in 1..(Len(d) + Len(b)) : (d \o b)[k] = IF k <= Len(d) THEN d[k] ELSE b[k - Len(d)]
      BY Zenon, <3>2, ConcatProperties
    <3>4. QED
      BY <2>i, <3>1, <3>3
  <2>k. ASSUME NEW n \in 1..(N + 2 - j) PROVE f[j + 1 + n] = b[n]
    <3>1. /\ j + 1 + n \in 1..(Len(d) + Len(b)) /\ ~(j + 1 + n <= Len(d))
          /\ j + 1 + n - Len(d) = n
      BY <2>3, <2>e
    <3>2. /\ \A k \in 1..(Len(d) + Len(b)) : (d \o b)[k] = IF k <= Len(d) THEN d[k] ELSE b[k - Len(d)]
          /\ f = d \o b
      <4>1. d \in Seq(S) /\ b \in Seq(S)
        BY <2>3, <2>e
      <4>2. QED
        BY Zenon, <2>i, <4>1, ConcatProperties
    <3>3. QED
      BY <3>1, <3>2
  <2>6. ASSUME NEW n \in 1..(2 + m) PROVE f[n] = IF n <= 1 + j THEN o[n] ELSE o[n - 1]
    <3>1. CASE n <= j
      <4>1. n \in 1..j /\ n \in 1..(j + 1) /\ n <= 1 + j
        BY <3>1
      <4>2. f[n] = a[n]
        BY <2>j, <2>g, <4>1
      <4>3. QED
        BY <2>2, <4>1, <4>2
    <3>2. CASE n = 1 + j
      <4>1. f[n] = c[1]
        BY <2>j, <2>h, <3>2
      <4>2. QED
        BY <2>4, <3>2, <4>1
    <3>3. CASE n > 1 + j
      <4>1. /\ n - 1 - j \in 1..(N + 2 - j) /\ j + (n - 1 - j) = n - 1 /\ ~(n <= 1 + j)
            /\ j + 1 + (n - 1 - j) = n
        BY <1>2, <3>3
      <4>2. f[n] = b[n - 1 - j]
        BY <2>k, <4>1
      <4>3. QED
        BY <2>3, <4>1, <4>2
    <3>4. QED
      BY <3>1, <3>2, <3>3
  <2>7. QED
    BY <1>2, <2>5, <2>6
<1>4. f[1] = o[1] /\ f[2 + m] = o[2 + N]
  <2>1. PICK u \in Nat : u = 2 + m
    BY <1>2
  <2>2. 1 <= 1 + j /\ ~(u <= 1 + j) /\ 1 \in 1..u /\ u \in 1..u /\ u - 1 = 2 + N
    BY <1>2, <2>1
  <2>3. \A n \in 1..u : f[n] = IF n <= 1 + j THEN o[n] ELSE o[n - 1]
    BY <1>3, <2>1
  <2>4. f[1] = o[1] /\ f[u] = o[u - 1]
    BY <2>2, <2>3
  <2>5. QED
    BY <2>1, <2>2, <2>4
<1>5. ASSUME NEW n \in 1..m
      PROVE  \E k \in 1..N : /\ f[1 + n] = o[1 + k]
                             /\ k = IF n <= j THEN n ELSE n - 1
  <2>1. 1 + n \in 1..(2 + m) /\ (1 + n) - 1 = 1 + (n - 1) /\ (1 + n <= 1 + j <=> n <= j)
        /\ (n <= j => n \in 1..N) /\ (~(n <= j) => n - 1 \in 1..N)
    BY <1>2
  <2>2. f[1 + n] = IF 1 + n <= 1 + j THEN o[1 + n] ELSE o[(1 + n) - 1]
    BY <1>3, <2>1
  <2>3. CASE n <= j
    BY <2>1, <2>2, <2>3
  <2>4. CASE ~(n <= j)
    BY <2>1, <2>2, <2>4
  <2>5. QED
    BY <2>3, <2>4
<1>6. \A k \in 1..N : SoundAt(o, k, ks) /\ o[1 + k].index = k - 1 /\ o[1 + k].kind = "leaf"
  BY DEF WholeFile, LinesAre
<1>7. ASSUME NEW n \in 1..m
      PROVE  /\ f[1 + n].kind = "leaf" /\ SoundAt(f, n, ks)
             /\ f[1 + n].index = IF n <= j THEN n - 1 ELSE n - 2
  <2>1. PICK k \in 1..N : f[1 + n] = o[1 + k] /\ k = IF n <= j THEN n ELSE n - 1
    BY <1>5
  <2>2. SoundAt(f, n, ks) /\ f[1 + n].index = k - 1 /\ f[1 + n].kind = "leaf"
    BY <1>6, <2>1 DEF SoundAt
  <2>3. QED
    BY <2>1, <2>2
<1>8. LinesAre(f, m, t)
  BY <1>2, <1>3, <1>4, <1>7 DEF LinesAre, WholeFile
<1>9. DOMAIN f[1].keys = ks
  BY <1>4 DEF WholeFile
<1>10. PICK q : q = [n \in 1..m |-> f[1 + n].index]
  OBVIOUS
<1>11. SequenceFindings(q) # << >> => Findings(f) = SequenceFindings(q)
  <2>1. OrderRead(f, m, ks, q)
    BY <1>7, <1>9, <1>10 DEF OrderRead
  <2>2. QED
    BY <1>8, <2>1, SoundFindings
<1>12. /\ DOMAIN q = 1..m /\ Len(q) = m
       /\ \A n \in 1..m : q[n] = IF n <= j THEN n - 1 ELSE n - 2
  BY <1>7, <1>10
<1>13. ~Ascending(q)
  <2>1. j \in 1..m /\ j + 1 \in 1..m /\ j \in 1..(m - 1) /\ ~(j + 1 <= j)
    BY <1>2
  <2>2. q[j] = j - 1 /\ q[j + 1] = j - 1
    BY <1>12, <2>1
  <2>3. ~(q[j] < q[j + 1])
    BY <2>2
  <2>4. QED
    BY <1>12, <2>1, <2>3 DEF Ascending
<1>14. Misplaced(q) = (j + 1)..m
  <2>1. \A n \in 1..m : q[n] # n - 1 <=> n > j
    BY <1>12
  <2>2. QED
    BY <1>12, <2>1 DEF Misplaced
<1>15. Min(Misplaced(q)) = j + 1
  <2>1. (j + 1)..m \in SUBSET Nat /\ j + 1 \in (j + 1)..m
    BY <1>2
  <2>2. Min((j + 1)..m) \in (j + 1)..m /\ \A x \in (j + 1)..m : Min((j + 1)..m) <= x
    BY <2>1, MinIsLeast
  <2>3. QED
    BY <1>14, <2>1, <2>2
<1>16. SequenceFindings(q) = <<Finding("reorder", j)>>
  <2>1. Misplaced(q) # {}
    BY <1>2, <1>14
  <2>2. SequenceFindings(q) = <<Finding("reorder", Min(Misplaced(q)) - 1)>>
    BY Zenon, <1>13, <2>1 DEF SequenceFindings
  <2>3. QED
    BY <1>15, <2>2
<1>17. <<Finding("reorder", j)>> # << >>
  OBVIOUS
<1>18. QED
  BY <1>11, <1>16, <1>17

\* A leaf that carries a signature one of the log's emitters made.
Genuine(l) ==
    /\ l.payload \in Envelopes /\ l.hash = l.payload
    /\ l.sig = <<l.keyid, l.payload>> /\ l.keyid \in Signers

\* f is the file o with another line, l, in the place n.
OtherLine(f, o, n, l) == f = [o EXCEPT ![n] = l] /\ l # o[n]

\* A leaf changed in its place: unsound, or of another export, which the chain
\* of the head does not fold.
LEMMA AlteredLeaf ==
    ASSUME NEW o, NEW N \in Nat, NEW es, NEW ks \in SUBSET (Signers \cup {CpKey}),
           WholeFile(o, N, es, ks), NEW j \in 1..N,
           o[1 + j] = Leaf(j - 1, es[j], SignerOf(es[j]), <<SignerOf(es[j]), es[j]>>),
           NEW l, LeafMade(l), l.index = j - 1, NEW f, OtherLine(f, o, 1 + j, l)
    PROVE  IF Genuine(l)
           THEN \/ Findings(f) = <<Finding("chain", -1)>>
                \/ Findings(f) = <<Finding("content", j - 1)>> /\ l.keyid \notin DOMAIN f[1].keys
           ELSE Findings(f) = <<Finding("content", j - 1)>>
<1>1. PICK S : o \in Seq(S) /\ Len(o) = N + 2
  BY DEF WholeFile
<1>2. PICK t \in {0, 1} : t = 1
  OBVIOUS
<1>3. DOMAIN f = 1..(1 + N + t) /\ \A n \in 1..(2 + N) : f[n] = IF n = 1 + j THEN l ELSE o[n]
  BY <1>1, <1>2 DEF OtherLine
<1>4. f[1] = o[1] /\ f[2 + N] = o[2 + N] /\ f[1 + j] = l
  <2>1. 1 \in 1..(2 + N) /\ 1 # 1 + j /\ 2 + N \in 1..(2 + N) /\ 2 + N # 1 + j /\ 1 + j \in 1..(2 + N)
    OBVIOUS
  <2>2. QED
    BY <1>3, <2>1
<1>5. ASSUME NEW n \in 1..N, n # j PROVE f[1 + n] = o[1 + n]
  <2>1. 1 + n \in 1..(2 + N) /\ 1 + n # 1 + j
    BY <1>5
  <2>2. QED
    BY <1>3, <2>1
<1>6. \A k \in 1..N : SoundAt(o, k, ks) /\ o[1 + k].index = k - 1 /\ o[1 + k].kind = "leaf"
                      /\ o[1 + k].hash = es[k]
  BY DEF WholeFile, LinesAre
<1>7. l.kind = "leaf"
  BY DEF LeafMade
<1>8. ASSUME NEW n \in 1..N
      PROVE  f[1 + n].kind = "leaf" /\ f[1 + n].index = n - 1 /\ (n # j => SoundAt(f, n, ks))
  <2>1. CASE n = j
    BY <1>4, <1>7, <2>1
  <2>2. CASE n # j
    <3>1. f[1 + n] = o[1 + n]
      BY <1>5, <2>2
    <3>2. QED
      BY <1>6, <3>1 DEF SoundAt
  <2>3. QED
    BY <2>1, <2>2
<1>9. LinesAre(f, N, t)
  BY <1>2, <1>3, <1>4, <1>8 DEF LinesAre, WholeFile
<1>10. DOMAIN f[1].keys = ks
  BY <1>4 DEF WholeFile
<1>11. CASE ~SoundAt(f, j, ks)
  <2>1. \A n \in 1..N : SoundAt(f, n, ks) <=> n # j
    BY <1>8, <1>11
  <2>2. Findings(f) = <<Finding("content", f[1 + j].index)>>
    BY <1>9, <1>10, <2>1, UnsoundFinding
  <2>3. Findings(f) = <<Finding("content", j - 1)>>
    BY <1>4, <2>2
  <2>4. Genuine(l) => l.keyid \notin ks
    BY <1>4, <1>11 DEF Genuine, SoundAt, Signed
  <2>5. QED
    BY <1>10, <2>3, <2>4
<1>12. CASE SoundAt(f, j, ks)
  <2>1. l.hash = l.payload /\ Signed(l, l.payload, ks)
    BY <1>4, <1>12 DEF SoundAt
  <2>2. l.payload \in Envelopes
        /\ l = Leaf(l.index, l.payload, SignerOf(l.payload), <<SignerOf(l.payload), l.payload>>)
    BY <2>1, SignedLeafIs
  <2>3. l.payload # es[j]
    BY <2>2 DEF OtherLine
  <2>4. Genuine(l)
    <3>1. l.keyid = SignerOf(l.payload) /\ l.sig = <<SignerOf(l.payload), l.payload>>
      BY <2>2 DEF Leaf
    <3>2. SignerOf(l.payload) \in Signers
      BY <2>2 DEF Signers
    <3>3. QED
      BY <2>1, <2>2, <3>1, <3>2 DEF Genuine
  <2>5. PICK q : q = [n \in 1..N |-> f[1 + n].index]
    OBVIOUS
  <2>6. SequenceFindings(q) = << >>
    <3>1. Misplaced(q) = {}
      BY <1>8, <2>5 DEF Misplaced
    <3>2. QED
      BY <3>1 DEF SequenceFindings
  <2>7. \A n \in 1..N : SoundAt(f, n, ks)
    BY <1>8, <1>12
  <2>8. Findings(f) = HeadFindings(f, Leaves(f), ks)
    <3>1. OrderRead(f, N, ks, q)
      BY <1>10, <2>5, <2>7 DEF OrderRead
    <3>2. QED
      BY <1>9, <2>6, <3>1, SoundFindings
  <2>9. PICK hashes, line, found : HeadRead(f, N, ks, hashes, line, found)
    BY DEF HeadRead
  <2>10. line.head.count = N /\ line.head.chain = Chain(Origin, es) /\ f[1].origin = Origin
    BY <1>4, <2>9 DEF WholeFile, HeadRead
  <2>11. hashes # es
    <3>1. hashes[j] = l.payload
      BY <1>4, <2>1, <2>9 DEF HeadRead
    <3>2. QED
      BY <2>3, <3>1
  <2>12. line.head.chain # Chain(f[1].origin, hashes)
    BY <2>10, <2>11 DEF Chain
  <2>13. ~(N < line.head.count)
    BY <2>10
  <2>14. found = <<Finding("chain", -1)>>
    BY <1>2, <1>9, <2>9, <2>12, <2>13, HeadFinding
  <2>15. QED
    BY <2>4, <2>8, <2>9, <2>14 DEF HeadRead
<1>13. QED
  BY <1>11, <1>12

\* A head changed in its place: of another chain, or one the key has not signed.
LEMMA AlteredHead ==
    ASSUME NEW o, NEW N \in Nat, NEW es, NEW ks \in SUBSET (Signers \cup {CpKey}),
           WholeFile(o, N, es, ks), o[2 + N] = HeadLine(Origin, es, CpKey),
           NEW hd, hd = o[2 + N].head, NEW l, HeadMade(l, hd),
           l.head.count \in Int, l.head.count <= N, NEW f, OtherLine(f, o, 2 + N, l)
    PROVE  Findings(f) = IF l.head.chain # o[2 + N].head.chain
                         THEN <<Finding("chain", -1)>> ELSE <<Finding("head", -1)>>
<1>1. PICK S : o \in Seq(S) /\ Len(o) = N + 2
  BY DEF WholeFile
<1>2. PICK t \in {0, 1} : t = 1
  OBVIOUS
<1>3. DOMAIN f = 1..(1 + N + t) /\ \A n \in 1..(2 + N) : f[n] = IF n = 2 + N THEN l ELSE o[n]
  BY <1>1, <1>2 DEF OtherLine
<1>4. f[1] = o[1] /\ f[2 + N] = l
  <2>1. 1 \in 1..(2 + N) /\ 1 # 2 + N /\ 2 + N \in 1..(2 + N)
    OBVIOUS
  <2>2. QED
    BY <1>3, <2>1
<1>5. ASSUME NEW n \in 1..N PROVE f[1 + n] = o[1 + n]
  <2>1. 1 + n \in 1..(2 + N) /\ 1 + n # 2 + N
    OBVIOUS
  <2>2. QED
    BY <1>3, <2>1
<1>6. \A k \in 1..N : SoundAt(o, k, ks) /\ o[1 + k].index = k - 1 /\ o[1 + k].kind = "leaf"
                      /\ o[1 + k].hash = es[k]
  BY DEF WholeFile, LinesAre
<1>7. l.kind = "head"
  BY DEF HeadMade
<1>8. ASSUME NEW n \in 1..N
      PROVE  f[1 + n].kind = "leaf" /\ f[1 + n].index = n - 1 /\ SoundAt(f, n, ks) /\ f[1 + n].hash = es[n]
  BY <1>5, <1>6 DEF SoundAt
<1>9. LinesAre(f, N, t)
  BY <1>2, <1>3, <1>4, <1>7, <1>8 DEF LinesAre, WholeFile
<1>10. DOMAIN f[1].keys = ks /\ f[1].origin = Origin
  BY <1>4 DEF WholeFile
<1>11. PICK q : q = [n \in 1..N |-> f[1 + n].index]
  OBVIOUS
<1>12. SequenceFindings(q) = << >>
  <2>1. Misplaced(q) = {}
    BY <1>8, <1>11 DEF Misplaced
  <2>2. QED
    BY <2>1 DEF SequenceFindings
<1>13. Findings(f) = HeadFindings(f, Leaves(f), ks)
  <2>1. OrderRead(f, N, ks, q)
    BY <1>8, <1>10, <1>11 DEF OrderRead
  <2>2. QED
    BY <1>9, <1>12, <2>1, SoundFindings
<1>14. PICK hashes, line, found : HeadRead(f, N, ks, hashes, line, found)
  BY DEF HeadRead
<1>15. hashes = es
  <2>1. es = [n \in 1..N |-> es[n]]
    BY DEF WholeFile
  <2>2. QED
    BY <1>8, <1>14, <2>1 DEF HeadRead
<1>16. o[2 + N].head.chain = Chain(f[1].origin, hashes)
  BY <1>10, <1>15 DEF WholeFile
<1>17. line = l
  BY <1>4, <1>14 DEF HeadRead
<1>18. ~(N < line.head.count)
  BY <1>17
<1>19. ~Signed(line, line.head, ks)
  <2> SUFFICES ASSUME Signed(l, l.head, ks) PROVE FALSE
    BY <1>17
  <2>1. l = [kind |-> "head", head |-> hd, keyid |-> CpKey, sig |-> <<CpKey, hd>>]
    BY SignedHeadIs
  <2>2. o[2 + N] = [kind |-> "head", head |-> hd, keyid |-> CpKey, sig |-> <<CpKey, hd>>]
    BY DEF HeadLine
  <2>3. QED
    BY <2>1, <2>2 DEF OtherLine
<1>20. CASE line.head.chain # Chain(f[1].origin, hashes)
  <2>1. found = <<Finding("chain", -1)>>
    BY <1>2, <1>9, <1>14, <1>18, <1>20, HeadFinding
  <2>2. QED
    BY <1>13, <1>14, <1>16, <1>17, <1>20, <2>1 DEF HeadRead
<1>21. CASE line.head.chain = Chain(f[1].origin, hashes)
  <2>1. found = <<Finding("head", -1)>>
    BY <1>2, <1>9, <1>14, <1>18, <1>19, <1>21, HeadFinding
  <2>2. QED
    BY <1>13, <1>14, <1>16, <1>17, <1>21, <2>1 DEF HeadRead
<1>22. QED
  BY <1>20, <1>21

\* The export as written, under the keys of its header.
WrittenWhole(o, N, es, ks) ==
    /\ N # 0 /\ WholeFile(o, N, es, ks)
    /\ \A j \in 1..N : o[1 + j] = Leaf(j - 1, es[j], SignerOf(es[j]), <<SignerOf(es[j]), es[j]>>)
    /\ o[2 + N] = HeadLine(Origin, es, CpKey)
    /\ Len(o) = N + 2 /\ Len(Leaves(o)) = N /\ Last(o) = o[2 + N]

LEMMA OriginalIsWhole ==
    ASSUME InputOK, WalkInv, OriginalInv, original # << >>
    PROVE  \E N \in Nat, ks \in SUBSET (Signers \cup {CpKey}) : \E es : WrittenWhole(original, N, es, ks)
<1>1. PICK run \in Runs, ks \in SUBSET (Signers \cup {CpKey}) : WrittenFrom(run, ks)
  BY DEF OriginalInv
<1>2. PICK R, es, ts : /\ R = RunRows(table, run) /\ es = EnvsAt(table, R)
                       /\ ts = Gathered(EnvsOf(table, R), store)
  OBVIOUS
<1>3. /\ R # {} /\ CpKey \in ks
      /\ \A k \in R : SignerOf(table[k].env) \in ks
      /\ Exported(original, es, ks, ts, CpKey)
  BY <1>1, <1>2 DEF WrittenFrom
<1>4. RowsOf(table, leaves) /\ leaves \in Seq(Envelopes)
  BY TableRows DEF InputOK, WalkInv, WalkRange
<1>5. R \in SUBSET DOMAIN table
  BY <1>2 DEF RunRows
<1>6. PICK N \in Nat : N = Len(es) /\ N # 0
  BY <1>3, ExportedLines
<1>7. \A n \in 1..N : SignerOf(es[n]) \in ks
  <2>1. InOrder(R) \in [1..Cardinality(R) -> R] /\ Len(es) = Cardinality(R)
    BY <1>2, <1>4, <1>5, RunRowsListed
  <2>2. \A n \in 1..N : es[n] = table[InOrder(R)[n]].env /\ InOrder(R)[n] \in R
    BY <1>2, <1>6, <2>1 DEF EnvsAt
  <2>3. QED
    BY <1>3, <2>2
<1>8. WholeFile(original, N, es, ks)
  BY <1>3, <1>6, <1>7, ExportedIsWhole
<1>9. /\ Last(original) = HeadLine(Origin, es, CpKey)
      /\ Len(Leaves(original)) = N
  <2>1. Leaves(original) =
           [n \in 1..N |-> Leaf(n - 1, es[n], SignerOf(es[n]), <<SignerOf(es[n]), es[n]>>)]
    BY <1>3, <1>6, ExportedLines
  <2>2. QED
    BY <1>3, <1>6, <2>1, ExportedLines
<1>10. /\ \A j \in 1..N : original[1 + j] = Leaf(j - 1, es[j], SignerOf(es[j]), <<SignerOf(es[j]), es[j]>>)
       /\ original[2 + N] = HeadLine(Origin, es, CpKey) /\ Len(original) = N + 2
  <2>1. /\ \A j \in 1..N : original[1 + j] = Leaf(j - 1, es[j], SignerOf(es[j]), <<SignerOf(es[j]), es[j]>>)
        /\ original[N + 2] = HeadLine(Origin, es, CpKey) /\ Len(original) = N + 2
    BY Zenon, <1>3, <1>6 DEF Exported
  <2>2. N + 2 = 2 + N
    OBVIOUS
  <2>3. QED
    BY Zenon, <2>1, <2>2
<1>11. WrittenWhole(original, N, es, ks)
  BY <1>6, <1>8, <1>9, <1>10 DEF WrittenWhole
<1>12. QED
  BY <1>11

LEMMA FileDamage == InputOK /\ WalkInv /\ OriginalInv /\ FileInv /\ StrikeInv => FileDamageNamed
<1> SUFFICES ASSUME InputOK, WalkInv, OriginalInv, FileInv, StrikeInv, strikes = 1
             PROVE  FileDamageNamed
  BY DEF FileDamageNamed
<1>1. original # << >>
  BY DEF StrikeInv
<1>2. PICK N \in Nat, ks \in SUBSET (Signers \cup {CpKey}) : \E es : WrittenWhole(original, N, es, ks)
  BY <1>1, OriginalIsWhole
<1>3. PICK es : WrittenWhole(original, N, es, ks)
  BY <1>2
<1>4. PICK o : o = original
  OBVIOUS
<1>5. /\ N # 0 /\ WholeFile(o, N, es, ks)
      /\ \A j \in 1..N : o[1 + j] = Leaf(j - 1, es[j], SignerOf(es[j]), <<SignerOf(es[j]), es[j]>>)
      /\ o[2 + N] = HeadLine(Origin, es, CpKey)
      /\ Len(o) = N + 2 /\ Len(Leaves(o)) = N
  BY <1>3, <1>4 DEF WrittenWhole
<1>6. PICK hd : hd = o[2 + N].head /\ Lines(file, hd)
  BY <1>3, <1>4 DEF WrittenWhole, FileInv
<1>7. \A n \in DOMAIN file : Made(file[n], hd)
  BY <1>6 DEF Lines
<1>8. HeadCounts(file, N)
  BY <1>4, <1>5 DEF StrikeInv
<1>9. PICK f : f = file
  OBVIOUS
<1> DEFINE named(class, index) == Findings(f) = <<Finding(class, index)>>
<1>10. ASSUME NEW j \in 1..N
       PROVE  /\ f = Without(o, 1 + j) =>
                    IF j = N THEN named("truncation", j - 1) ELSE named("drop", j - 1)
              /\ j <= N - 1 /\ f = Swapped(o, 1 + j) => named("reorder", j - 1)
              /\ f = InsertAt(o, 1 + j, o[1 + j]) => named("reorder", j)
              /\ f = SubSeq(o, 1, 1 + j) => named("truncation", -1)
  <2>1. f = Without(o, 1 + j) =>
           IF j = N THEN named("truncation", j - 1) ELSE named("drop", j - 1)
    BY <1>5, LossIsNamed
  <2>2. ASSUME j <= N - 1, f = Swapped(o, 1 + j) PROVE named("reorder", j - 1)
    <3>1. j \in 1..(N - 1)
      BY <2>2
    <3>2. QED
      BY <1>5, <2>2, <3>1, SwapIsNamed
  <2>3. f = InsertAt(o, 1 + j, o[1 + j]) => named("reorder", j)
    BY <1>5, RepeatIsNamed
  <2>4. f = SubSeq(o, 1, 1 + j) => named("truncation", -1)
    BY <1>5, CutIsNamed
  <2> HIDE DEF named
  <2>5. QED
    BY <2>1, <2>2, <2>3, <2>4
<1>11. ASSUME NEW j \in 1..N, NEW l, l = f[1 + j], OtherLine(f, o, 1 + j, l),
              l.kind = "leaf", l.index = j - 1
       PROVE  IF Genuine(l)
              THEN named("chain", -1) \/ (named("content", j - 1) /\ l.keyid \notin DOMAIN f[1].keys)
              ELSE named("content", j - 1)
  <2>1. 1 + j \in DOMAIN f
    <3>1. PICK S : o \in Seq(S)
      BY <1>5 DEF WholeFile
    <3>2. QED
      BY <1>5, <1>11, <3>1 DEF OtherLine
  <2>2. LeafMade(l)
    BY <1>7, <1>9, <1>11, <2>1, MadeKinds
  <2>3. o[1 + j] = Leaf(j - 1, es[j], SignerOf(es[j]), <<SignerOf(es[j]), es[j]>>)
    BY <1>5
  <2>4. QED
    <3>1. WholeFile(o, N, es, ks) /\ OtherLine(f, o, 1 + j, l) /\ l.index = j - 1
      BY <1>5, <1>11
    <3>2. QED
      BY <2>2, <2>3, <3>1, AlteredLeaf, Zenon
<1>12. ASSUME NEW l, l = f[2 + N], OtherLine(f, o, 2 + N, l), l.kind = "head"
       PROVE  IF l.head.chain # o[2 + N].head.chain THEN named("chain", -1) ELSE named("head", -1)
  <2>1. 2 + N \in DOMAIN f
    <3>1. PICK S : o \in Seq(S)
      BY <1>5 DEF WholeFile
    <3>2. QED
      BY <1>5, <1>12, <3>1 DEF OtherLine
  <2>2. HeadMade(l, hd)
    BY <1>7, <1>9, <1>12, <2>1, MadeKinds
  <2>3. l.head.count \in Int /\ l.head.count <= N
    <3>1. PICK S : f \in Seq(S) /\ \A x \in S : x.kind = "head" => x.head.count \in Int /\ x.head.count <= N
      BY <1>8, <1>9 DEF HeadCounts
    <3>2. l \in S
      BY <1>12, <2>1, <3>1
    <3>3. QED
      BY <1>12, <3>1, <3>2
  <2>4. Findings(f) = IF l.head.chain # o[2 + N].head.chain
                      THEN <<Finding("chain", -1)>> ELSE <<Finding("head", -1)>>
    BY <1>5, <1>6, <1>12, <2>2, <2>3, AlteredHead
  <2>5. QED
    BY <2>4
<1> HIDE DEF named
<1>13. LeafLines = 2..(N + 1) /\ Len(Leaves(original)) = N
  BY <1>4, <1>5 DEF LeafLines
<1>14. ASSUME NEW n \in LeafLines
       PROVE  /\ file = Without(original, n) =>
                    IF n = N + 1 THEN named("truncation", n - 2) ELSE named("drop", n - 2)
              /\ n <= N /\ file = Swapped(original, n) => named("reorder", n - 2)
              /\ file = InsertAt(original, n, original[n]) => named("reorder", n - 1)
              /\ file = SubSeq(original, 1, n) => named("truncation", -1)
  <2>1. PICK j \in 1..N : n = 1 + j
    <3>1. n - 1 \in 1..N /\ n = 1 + (n - 1)
      BY <1>13
    <3>2. QED
      BY <3>1
  <2>2. n - 2 = j - 1 /\ n - 1 = j /\ (n = N + 1 <=> j = N) /\ (n <= N <=> j <= N - 1)
    BY <2>1
  <2>3. /\ f = Without(o, n) =>
             IF j = N THEN named("truncation", j - 1) ELSE named("drop", j - 1)
        /\ j <= N - 1 /\ f = Swapped(o, n) => named("reorder", j - 1)
        /\ f = InsertAt(o, n, o[n]) => named("reorder", j)
        /\ f = SubSeq(o, 1, n) => named("truncation", -1)
    BY <1>10, <2>1
  <2>4. QED
    BY <1>4, <1>9, <2>2, <2>3
<1>15. ASSUME NEW n \in LeafLines, file[n] # original[n], file = [original EXCEPT ![n] = file[n]],
              file[n].kind = "leaf", file[n].index = n - 2
       PROVE  IF Genuine(file[n])
              THEN named("chain", -1) \/ (named("content", n - 2) /\ file[n].keyid \notin DOMAIN file[1].keys)
              ELSE named("content", n - 2)
  <2>1. PICK j \in 1..N : n = 1 + j
    <3>1. n - 1 \in 1..N /\ n = 1 + (n - 1)
      BY <1>13
    <3>2. QED
      BY <3>1
  <2>2. n - 2 = j - 1
    BY <2>1
  <2>3. PICK l : l = file[n]
    OBVIOUS
  <2>4. l = f[1 + j] /\ OtherLine(f, o, 1 + j, l) /\ l.kind = "leaf" /\ l.index = j - 1
    BY <1>4, <1>9, <1>15, <2>1, <2>2, <2>3 DEF OtherLine
  <2>5. IF Genuine(l)
        THEN named("chain", -1) \/ (named("content", j - 1) /\ l.keyid \notin DOMAIN f[1].keys)
        ELSE named("content", j - 1)
    BY <1>11, <2>4
  <2>6. QED
    BY <1>9, <2>2, <2>3, <2>5
<1>16. ASSUME NEW n, n = N + 2, file[n] # original[n], file = [original EXCEPT ![n] = file[n]],
              file[n].kind = "head"
       PROVE  IF file[n].head.chain # original[n].head.chain THEN named("chain", -1)
              ELSE named("head", -1)
  <2>1. n = 2 + N
    BY <1>16
  <2>2. PICK l : l = file[n]
    OBVIOUS
  <2>3. l = f[2 + N] /\ OtherLine(f, o, 2 + N, l) /\ l.kind = "head"
    BY <1>4, <1>9, <1>16, <2>1, <2>2 DEF OtherLine
  <2>4. IF l.head.chain # o[2 + N].head.chain THEN named("chain", -1) ELSE named("head", -1)
    BY <1>12, <2>3
  <2>5. QED
    BY <1>4, <2>1, <2>2, <2>4
<1>17. \A c, k : named(c, k) <=> Findings(file) = <<Finding(c, k)>>
  BY <1>9 DEF named
<1>18. QED
  BY <1>13, <1>14, <1>15, <1>16, <1>17 DEF FileDamageNamed, Genuine

\* One change to an export gets the class and the index of the format's list,
\* and the directory verifier blames no sound entry.
THEOREM DamageNamed == EvidenceSpec => []DamageIsNamed
<1>1. InputOK /\ WalkInv /\ (OriginalInv /\ FileInv) /\ StrikeInv /\ AccusedIsGuilty => DamageIsNamed
  BY FileDamage DEF DamageIsNamed
<1>2. QED
  BY <1>1, WalkHolds, FileHolds, StrikesCount, AccusedAreGuilty, PTL

-----------------------------------------------------------------------------
(* The log an import builds. *)

\* The envelopes of an export: one of each receipt, all of one run.
EachOnce(es) ==
    /\ es \in Seq(Envelopes) /\ Len(es) \in Nat
    /\ \A m, n \in 1..Len(es) : /\ ReceiptOf[es[m]] = ReceiptOf[es[n]] => m = n
                                /\ RunOf(es[m]) = RunOf(es[n])

\* The entries come from the export, and none before those it stood behind.
Arrived(es, en) ==
    /\ en \in Seq(Envelopes) /\ Len(en) \in Nat
    /\ \A p \in 1..Len(en) : \E n \in 1..Len(es) : en[p] = es[n]
    /\ \A p \in 1..Len(en) : \A n \in 1..Len(es) : \A m \in 1..(n - 1) :
          en[p] = es[n] => \E q \in 1..(p - 1) : en[q] = es[m]

\* Row k is the one receipt n of the export is read from.
RowAt(es, rs, k, n) == k \in DOMAIN rs /\ rs[k].duplicateOf = 0 /\ rs[k].env = es[n]
Rowed(es, rs, n) == \E k \in DOMAIN rs : RowAt(es, rs, k, n)

\* The rows hold the first receipts of the export, in its order.
Recorded(es, en, rs) ==
    /\ RowsOf(rs, en)
    /\ \A n \in 1..Len(es) : \A m \in 1..(n - 1) : Rowed(es, rs, n) => Rowed(es, rs, m)
    /\ \A n \in 1..Len(es) : \A m \in 1..(n - 1) : \A k, l \in DOMAIN rs :
          RowAt(es, rs, k, m) /\ RowAt(es, rs, l, n) => k < l

Waiting == [stage : {"known", "queued", "durable", "acked"}, leaf : Nat]

\* What is durable and not recorded stands behind every row, and what is queued
\* behind what is durable.
UnderWay(es, en, rs, ts) ==
    /\ ts \in Seq(Waiting) /\ Len(ts) \in Nat /\ Len(ts) <= Len(es)
    /\ \A k \in DOMAIN rs : rs[k].duplicateOf = 0
    /\ \A n \in 1..Len(ts) :
          /\ ts[n].stage \in {"known", "acked"} <=> Rowed(es, rs, n)
          /\ ts[n].stage = "durable" => /\ ts[n].leaf \in 1..Len(en) /\ en[ts[n].leaf] = es[n]
                                        /\ \A k \in DOMAIN rs : k < ts[n].leaf
    /\ \A n \in 1..Len(ts) : \A m \in 1..(n - 1) :
          /\ ts[m].stage = "queued" => ts[n].stage # "durable"
          /\ ts[m].stage = "durable" /\ ts[n].stage = "durable" => ts[m].leaf < ts[n].leaf

\* A row stands where an entry of the export does.
LEMMA RowOfExport ==
    ASSUME NEW es, NEW en, NEW rs, Arrived(es, en), RowsOf(rs, en), NEW k \in DOMAIN rs
    PROVE  /\ k \in 1..Len(en) /\ k \in Nat \ {0} /\ rs[k].env = en[k]
           /\ \E n \in 1..Len(es) : rs[k].env = es[n]
BY DEF Arrived, RowsOf

\* Tessera integrates the oldest entry in its queue.
LEMMA IntegratedArrives ==
    ASSUME NEW es, EachOnce(es), NEW en, Arrived(es, en), NEW n \in 1..Len(es),
           \A m \in 1..(n - 1) : \E q \in 1..Len(en) : en[q] = es[m]
    PROVE  Arrived(es, Append(en, es[n]))
<1> DEFINE a == Append(en, es[n])
           L == Len(en)
<1>1. L \in Nat /\ en \in Seq(Envelopes) /\ es[n] \in Envelopes /\ es \in Seq(Envelopes)
  BY DEF Arrived, EachOnce
<1>2. a \in Seq(Envelopes) /\ Len(a) = L + 1 /\ a[L + 1] = es[n] /\ \A p \in 1..L : a[p] = en[p]
  BY <1>1
<1> HIDE DEF a, L
<1>3. \A p \in 1..(L + 1) : p \in 1..L \/ p = L + 1
  BY <1>1
<1>4. ASSUME NEW p \in 1..(L + 1) PROVE \E j \in 1..Len(es) : a[p] = es[j]
  BY <1>2, <1>3 DEF Arrived, L
<1>5. ASSUME NEW p \in 1..(L + 1), NEW j \in 1..Len(es), NEW m \in 1..(j - 1), a[p] = es[j]
      PROVE  \E q \in 1..(p - 1) : a[q] = es[m]
  <2>1. CASE p \in 1..L
    <3>1. \E q \in 1..(p - 1) : en[q] = es[m]
      BY <1>2, <1>5, <2>1 DEF Arrived, L
    <3>2. \A q \in 1..(p - 1) : q \in 1..L
      BY <1>1, <2>1
    <3>3. QED
      BY <3>1, <3>2, <1>2
  <2>2. CASE p = L + 1
    <3>1. j = n
      BY <1>2, <1>5, <2>2 DEF EachOnce
    <3>2. PICK q \in 1..L : en[q] = es[m]
      BY <3>1 DEF L
    <3>3. q \in 1..(p - 1)
      BY <1>1, <2>2
    <3>4. QED
      BY <3>2, <3>3, <1>2
  <2>3. QED
    BY <2>1, <2>2, <1>3
<1>6. Arrived(es, a)
  <2>1. a \in Seq(Envelopes) /\ Len(a) \in Nat /\ Len(a) = L + 1
    BY <1>1, <1>2
  <2>2. QED
    BY <2>1, <1>4, <1>5 DEF Arrived
<1>7. QED
  BY <1>6 DEF a

LEMMA IntegratedKeepsRows ==
    ASSUME NEW es, NEW en \in Seq(Envelopes), NEW rs, Recorded(es, en, rs), NEW e \in Envelopes
    PROVE  Recorded(es, Append(en, e), rs)
<1>1. Len(Append(en, e)) = Len(en) + 1 /\ Len(en) \in Nat /\ \A p \in 1..Len(en) : Append(en, e)[p] = en[p]
  OBVIOUS
<1>2. RowsOf(rs, Append(en, e))
  BY <1>1 DEF Recorded, RowsOf
<1>3. QED
  BY <1>2 DEF Recorded

LEMMA IntegratedGoesOn ==
    ASSUME NEW es, NEW en, Arrived(es, en), NEW rs, NEW ts, UnderWay(es, en, rs, ts), RowsOf(rs, en),
           NEW n \in 1..Len(ts), ts[n].stage = "queued", \A m \in 1..(n - 1) : ts[m].stage # "queued",
           es[n] \in Envelopes
    PROVE  UnderWay(es, Append(en, es[n]), rs, [ts EXCEPT ![n] = [stage |-> "durable", leaf |-> Len(en) + 1]])
<1> DEFINE a == Append(en, es[n])
           L == Len(en)
           T == Len(ts)
           u == [ts EXCEPT ![n] = [stage |-> "durable", leaf |-> L + 1]]
<1>1. L \in Nat /\ en \in Seq(Envelopes) /\ ts \in Seq(Waiting) /\ T \in Nat
  BY DEF Arrived, UnderWay
<1>2. Len(a) = L + 1 /\ a[L + 1] = es[n] /\ \A p \in 1..L : a[p] = en[p]
  BY <1>1
<1>3. [stage |-> "durable", leaf |-> L + 1] \in Waiting
  BY <1>1 DEF Waiting
<1>4. u \in Seq(Waiting) /\ Len(u) = T /\ u[n].stage = "durable" /\ u[n].leaf = L + 1
      /\ \A m \in 1..T : m # n => u[m] = ts[m]
  BY <1>1, <1>3
<1> HIDE DEF a, L, T, u
<1>5. \A k \in DOMAIN rs : k < L + 1 /\ k \in Int
  <2> TAKE k \in DOMAIN rs
  <2>1. k \in 1..L
    BY DEF RowsOf, L
  <2>2. QED
    BY <2>1, <1>1
<1>6. n \in Nat /\ \A m \in 1..T : m \in Int
  BY <1>1 DEF T
<1>7. ASSUME NEW m \in 1..T
      PROVE  /\ u[m].stage \in {"known", "acked"} <=> Rowed(es, rs, m)
             /\ u[m].stage = "durable" => /\ u[m].leaf \in 1..(L + 1) /\ a[u[m].leaf] = es[m]
                                          /\ \A k \in DOMAIN rs : k < u[m].leaf
  <2>1. CASE m = n
    <3>1. ~Rowed(es, rs, n)
      BY DEF UnderWay
    <3>2. L + 1 \in 1..(L + 1)
      BY <1>1
    <3>3. QED
      BY <2>1, <3>1, <3>2, <1>2, <1>4, <1>5
  <2>2. CASE m # n
    <3>1. u[m] = ts[m]
      BY <2>2, <1>4
    <3>2. /\ ts[m].stage \in {"known", "acked"} <=> Rowed(es, rs, m)
          /\ ts[m].stage = "durable" => /\ ts[m].leaf \in 1..L /\ en[ts[m].leaf] = es[m]
                                        /\ \A k \in DOMAIN rs : k < ts[m].leaf
      BY DEF UnderWay, L, T
    <3>3. \A l \in 1..L : l \in 1..(L + 1) /\ a[l] = en[l]
      BY <1>1, <1>2
    <3>4. QED
      BY <3>1, <3>2, <3>3
  <2>3. QED
    BY <2>1, <2>2
<1>8. ASSUME NEW j \in 1..T, NEW m \in 1..(j - 1)
      PROVE  /\ u[m].stage = "queued" => u[j].stage # "durable"
             /\ u[m].stage = "durable" /\ u[j].stage = "durable" => u[m].leaf < u[j].leaf
  <2>0. m \in 1..T /\ m # j
    BY <1>1
  <2>1. /\ ts[m].stage = "queued" => ts[j].stage # "durable"
        /\ ts[m].stage = "durable" /\ ts[j].stage = "durable" => ts[m].leaf < ts[j].leaf
    BY DEF UnderWay, T
  <2>2. CASE j = n
    <3>1. u[m] = ts[m] /\ ts[m].stage # "queued"
      BY <2>0, <2>2, <1>4
    <3>2. ts[m].stage = "durable" => ts[m].leaf \in 1..L
      BY <2>0 DEF UnderWay, L, T
    <3>3. ts[m].stage = "durable" => ts[m].leaf < L + 1
      BY <3>2, <1>1
    <3>4. QED
      BY <2>2, <3>1, <3>3, <1>4
  <2>3. CASE m = n
    <3>1. u[j] = ts[j] /\ ts[j].stage # "durable"
      BY <2>0, <2>3, <2>1, <1>4
    <3>2. QED
      BY <2>3, <3>1, <1>4
  <2>4. CASE m # n /\ j # n
    BY <2>0, <2>1, <2>4, <1>4
  <2>5. QED
    BY <2>2, <2>3, <2>4
<1>9. Len(u) <= Len(es) /\ \A k \in DOMAIN rs : rs[k].duplicateOf = 0
  BY <1>4 DEF UnderWay, T
<1>10. UnderWay(es, a, rs, u)
  BY <1>1, <1>2, <1>4, <1>7, <1>8, <1>9 DEF UnderWay
<1>11. QED
  BY <1>10 DEF a, u, L

\* The ack of the oldest entry that is durable: its row is the first of its
\* receipt, and stands behind those of the receipts before it.
LEMMA WaitedIsNew ==
    ASSUME NEW es, EachOnce(es), NEW en, Arrived(es, en), NEW rs, RowsOf(rs, en),
           NEW n \in 1..Len(es), ~Rowed(es, rs, n), \A k \in DOMAIN rs : rs[k].duplicateOf = 0,
           NEW leaf
    PROVE  /\ LookupBefore(rs, ReceiptOf[es[n]], leaf) = 0 /\ LookupCanonical(rs, ReceiptOf[es[n]]) = 0
           /\ ~Refused(rs, leaf, es[n], 0)
<1>1. Canonical(rs, ReceiptOf[es[n]]) = {}
  <2> SUFFICES ASSUME NEW k \in DOMAIN rs, ReceiptOf[rs[k].env] = ReceiptOf[es[n]] PROVE FALSE
    BY DEF Canonical
  <2>1. PICK j \in 1..Len(es) : rs[k].env = es[j]
    BY RowOfExport
  <2>2. j = n
    BY <2>1 DEF EachOnce
  <2>3. QED
    BY <2>1, <2>2 DEF Rowed, RowAt
<1>2. QED
  BY <1>1 DEF LookupBefore, LookupCanonical, First, Refused

\* rr is rs with a row of receipt n at leaf.
Added(es, rs, leaf, n, rr) ==
    /\ DOMAIN rr = DOMAIN rs \cup {leaf}
    /\ rr[leaf].env = es[n] /\ rr[leaf].duplicateOf = 0
    /\ \A k \in DOMAIN rs : rr[k] = rs[k]
    /\ \A j \in 1..Len(es) : \A k : RowAt(es, rr, k, j) <=> RowAt(es, rs, k, j) \/ (k = leaf /\ j = n)
    /\ \A j \in 1..Len(es) : Rowed(es, rr, j) <=> Rowed(es, rs, j) \/ j = n

LEMMA RowAdded ==
    ASSUME NEW es, EachOnce(es), NEW rs, NEW leaf, leaf \notin DOMAIN rs, NEW n \in 1..Len(es),
           NEW rr, rr = Upsert(rs, leaf, es[n], 0)
    PROVE  Added(es, rs, leaf, n, rr)
<1>1. /\ DOMAIN rr = DOMAIN rs \cup {leaf}
      /\ rr[leaf].env = es[n] /\ rr[leaf].duplicateOf = 0
      /\ \A k \in DOMAIN rs : rr[k] = rs[k]
  BY DEF Upsert
<1>2. ASSUME NEW j \in 1..Len(es), NEW k
      PROVE  RowAt(es, rr, k, j) <=> RowAt(es, rs, k, j) \/ (k = leaf /\ j = n)
  <2>1. es[j] = es[n] => j = n
    BY DEF EachOnce
  <2>2. CASE k = leaf
    BY <1>1, <2>1, <2>2 DEF RowAt
  <2>3. CASE k # leaf
    BY <1>1, <2>3 DEF RowAt
  <2>4. QED
    BY <2>2, <2>3
<1>3. ASSUME NEW j \in 1..Len(es)
      PROVE  Rowed(es, rr, j) <=> Rowed(es, rs, j) \/ j = n
  <2>1. CASE Rowed(es, rr, j)
    <3>1. PICK k : k \in DOMAIN rr /\ RowAt(es, rr, k, j)
      BY <2>1 DEF Rowed
    <3>2. RowAt(es, rs, k, j) \/ j = n
      BY <1>2, <3>1
    <3>3. RowAt(es, rs, k, j) => Rowed(es, rs, j)
      BY DEF Rowed, RowAt
    <3>4. QED
      BY <2>1, <3>2, <3>3
  <2>2. CASE Rowed(es, rs, j)
    <3>1. PICK k : k \in DOMAIN rs /\ RowAt(es, rs, k, j)
      BY <2>2 DEF Rowed
    <3>2. RowAt(es, rr, k, j) /\ k \in DOMAIN rr
      BY <1>1, <1>2, <3>1
    <3>3. QED
      BY <2>2, <3>2 DEF Rowed
  <2>3. CASE j = n
    <3>1. RowAt(es, rr, leaf, n) /\ leaf \in DOMAIN rr
      BY <1>1, <1>2
    <3>2. QED
      BY <2>3, <3>1 DEF Rowed
  <2>4. QED
    BY <2>1, <2>2, <2>3
<1>4. QED
  BY <1>1, <1>2, <1>3 DEF Added

LEMMA WaitedIsRecorded ==
    ASSUME NEW es, EachOnce(es), NEW en, Arrived(es, en), NEW rs, Recorded(es, en, rs),
           NEW n \in 1..Len(es), \A m \in 1..(n - 1) : Rowed(es, rs, m), ~Rowed(es, rs, n),
           NEW leaf \in 1..Len(en), en[leaf] = es[n], \A k \in DOMAIN rs : k < leaf,
           \A k \in DOMAIN rs : rs[k].duplicateOf = 0
    PROVE  Recorded(es, en, Upsert(rs, leaf, es[n], 0))
<1>1. PICK rr : rr = Upsert(rs, leaf, es[n], 0)
  OBVIOUS
<1>2. RowsOf(rs, en) /\ \A k \in DOMAIN rs : k \in Nat \ {0}
  BY RowOfExport DEF Recorded
<1>3. leaf \in Nat /\ leaf \notin DOMAIN rs
  <2>1. leaf \in Nat
    BY DEF Arrived
  <2>2. QED
    BY <2>1
<1>4. /\ DOMAIN rr = DOMAIN rs \cup {leaf}
      /\ rr[leaf].env = es[n] /\ rr[leaf].duplicateOf = 0
      /\ \A k \in DOMAIN rs : rr[k] = rs[k]
      /\ \A j \in 1..Len(es) : \A k : RowAt(es, rr, k, j) <=> RowAt(es, rs, k, j) \/ (k = leaf /\ j = n)
      /\ \A j \in 1..Len(es) : Rowed(es, rr, j) <=> Rowed(es, rs, j) \/ j = n
  <2>1. Added(es, rs, leaf, n, rr)
    BY <1>1, <1>3, RowAdded
  <2>2. QED
    BY <2>1 DEF Added
<1>5. \A k \in DOMAIN rs : ReceiptOf[rs[k].env] # ReceiptOf[es[n]]
  <2> SUFFICES ASSUME NEW k \in DOMAIN rs, ReceiptOf[rs[k].env] = ReceiptOf[es[n]] PROVE FALSE
    OBVIOUS
  <2>1. PICK j \in 1..Len(es) : rs[k].env = es[j]
    BY <1>2, RowOfExport
  <2>2. j = n
    BY <2>1 DEF EachOnce
  <2>3. QED
    BY <2>1, <2>2 DEF Rowed, RowAt
<1>6. RowsOf(rr, en)
  <2>1. DOMAIN rr \subseteq 1..Len(en) /\ \A k \in DOMAIN rr : rr[k].env = en[k]
    BY <1>2, <1>4 DEF RowsOf
  <2>2. ASSUME NEW k \in DOMAIN rr, NEW l \in DOMAIN rr, rr[k].duplicateOf = 0, rr[l].duplicateOf = 0,
               ReceiptOf[rr[k].env] = ReceiptOf[rr[l].env]
        PROVE  k = l
    <3>1. CASE k \in DOMAIN rs /\ l \in DOMAIN rs
      BY <1>2, <1>4, <2>2, <3>1 DEF RowsOf
    <3>2. CASE k = leaf /\ l \in DOMAIN rs
      BY <1>4, <1>5, <2>2, <3>2
    <3>3. CASE k \in DOMAIN rs /\ l = leaf
      BY <1>4, <1>5, <2>2, <3>3
    <3>4. QED
      BY <1>4, <3>1, <3>2, <3>3
  <2>3. QED
    BY <2>1, <2>2 DEF RowsOf
<1>7. Len(es) \in Nat /\ \A j \in 1..Len(es) : \A m \in 1..(j - 1) : m \in 1..Len(es) /\ m < j
  BY DEF EachOnce
<1>8. ASSUME NEW j \in 1..Len(es), NEW m \in 1..(j - 1), Rowed(es, rr, j)
      PROVE  Rowed(es, rr, m)
  <2>1. Rowed(es, rs, j) => Rowed(es, rs, m)
    BY DEF Recorded
  <2>2. j = n => Rowed(es, rs, m)
    OBVIOUS
  <2>3. QED
    BY <1>4, <1>7, <1>8, <2>1, <2>2
<1>9. ASSUME NEW j \in 1..Len(es), NEW m \in 1..(j - 1), NEW k \in DOMAIN rr, NEW l \in DOMAIN rr,
             RowAt(es, rr, k, m), RowAt(es, rr, l, j)
      PROVE  k < l
  <2>1. m \in 1..Len(es) /\ m < j
    BY <1>7
  <2>2. (RowAt(es, rs, k, m) \/ (k = leaf /\ m = n)) /\ (RowAt(es, rs, l, j) \/ (l = leaf /\ j = n))
    BY <1>4, <1>9, <2>1
  <2>3. CASE RowAt(es, rs, k, m) /\ RowAt(es, rs, l, j)
    <3>1. k \in DOMAIN rs /\ l \in DOMAIN rs
      BY <2>3 DEF RowAt
    <3>2. QED
      BY <2>3, <3>1 DEF Recorded
  <2>4. CASE RowAt(es, rs, k, m) /\ l = leaf
    BY <2>4 DEF RowAt
  <2>5. CASE k = leaf /\ m = n /\ RowAt(es, rs, l, j)
    <3>1. Rowed(es, rs, j)
      BY <2>5 DEF Rowed, RowAt
    <3>2. Rowed(es, rs, n)
      BY <2>5, <3>1 DEF Recorded
    <3>3. QED
      BY <3>2
  <2>6. CASE m = n /\ j = n
    BY <2>1, <2>6
  <2>7. QED
    BY <2>2, <2>3, <2>4, <2>5, <2>6
<1>10. Recorded(es, en, rr)
  BY <1>6, <1>8, <1>9 DEF Recorded
<1>11. QED
  BY <1>1, <1>10

LEMMA WaitedGoesOn ==
    ASSUME NEW es, EachOnce(es), NEW en, Arrived(es, en), NEW rs, Recorded(es, en, rs),
           NEW ts, UnderWay(es, en, rs, ts), NEW n \in 1..Len(ts), ts[n].stage = "durable",
           \A m \in 1..(n - 1) : ts[m].stage = "acked"
    PROVE  UnderWay(es, en, Upsert(rs, ts[n].leaf, es[n], 0), [ts EXCEPT ![n].stage = "acked"])
<1> DEFINE T == Len(ts)
           u == [ts EXCEPT ![n].stage = "acked"]
<1>0. PICK leaf : leaf = ts[n].leaf
  OBVIOUS
<1>1. PICK rr : rr = Upsert(rs, leaf, es[n], 0)
  OBVIOUS
<1>2. ts \in Seq(Waiting) /\ T \in Nat /\ T <= Len(es) /\ Len(es) \in Nat /\ ts[n] \in Waiting
  BY DEF UnderWay, EachOnce
<1>3. /\ leaf \in 1..Len(en) /\ en[leaf] = es[n] /\ \A k \in DOMAIN rs : k < leaf
      /\ ~Rowed(es, rs, n)
  BY <1>0 DEF UnderWay
<1>4. leaf \in Nat /\ leaf \notin DOMAIN rs
  <2>1. leaf \in Nat
    BY <1>3 DEF Arrived
  <2>2. \A k \in DOMAIN rs : k \in Nat
    BY RowOfExport DEF Recorded
  <2>3. QED
    BY <1>3, <2>1, <2>2
<1>5. [ts[n] EXCEPT !.stage = "acked"] \in Waiting /\ [ts[n] EXCEPT !.stage = "acked"].stage = "acked"
  BY <1>2 DEF Waiting
<1>6. u \in Seq(Waiting) /\ Len(u) = T /\ u[n].stage = "acked" /\ \A m \in 1..T : m # n => u[m] = ts[m]
  BY <1>2, <1>5
<1> HIDE DEF T, u
<1>7. n \in 1..Len(es) /\ \A m \in 1..T : m \in 1..Len(es) /\ m \in Nat
  BY <1>2 DEF T
<1>8. /\ DOMAIN rr = DOMAIN rs \cup {leaf}
      /\ rr[leaf].env = es[n] /\ rr[leaf].duplicateOf = 0
      /\ \A k \in DOMAIN rs : rr[k] = rs[k]
      /\ \A j \in 1..Len(es) : Rowed(es, rr, j) <=> Rowed(es, rs, j) \/ j = n
  <2>1. Added(es, rs, leaf, n, rr)
    BY <1>1, <1>4, <1>7, RowAdded
  <2>2. QED
    BY <2>1 DEF Added
<1>9. \A k \in DOMAIN rr : rr[k].duplicateOf = 0
  BY <1>8 DEF UnderWay
<1>10. ASSUME NEW m \in 1..T
       PROVE  /\ u[m].stage \in {"known", "acked"} <=> Rowed(es, rr, m)
              /\ u[m].stage = "durable" => /\ u[m].leaf \in 1..Len(en) /\ en[u[m].leaf] = es[m]
                                           /\ \A k \in DOMAIN rr : k < u[m].leaf
  <2>1. CASE m = n
    BY <2>1, <1>6, <1>7, <1>8
  <2>2. CASE m # n
    <3>1. u[m] = ts[m]
      BY <2>2, <1>6
    <3>2. /\ ts[m].stage \in {"known", "acked"} <=> Rowed(es, rs, m)
          /\ ts[m].stage = "durable" => /\ ts[m].leaf \in 1..Len(en) /\ en[ts[m].leaf] = es[m]
                                        /\ \A k \in DOMAIN rs : k < ts[m].leaf
      BY DEF UnderWay, T
    <3>3. ts[m].stage = "durable" => leaf < ts[m].leaf
      <4> SUFFICES ASSUME ts[m].stage = "durable" PROVE leaf < ts[m].leaf
        OBVIOUS
      <4>1. n \in 1..(m - 1)
        <5>1. m \notin 1..(n - 1)
          OBVIOUS
        <5>2. QED
          BY <5>1, <1>2, <2>2 DEF T
      <4>2. QED
        BY <1>0, <4>1 DEF UnderWay, T
    <3>4. QED
      BY <3>1, <3>2, <3>3, <1>7, <1>8, <2>2
  <2>3. QED
    BY <2>1, <2>2
<1>11. ASSUME NEW j \in 1..T, NEW m \in 1..(j - 1)
       PROVE  /\ u[m].stage = "queued" => u[j].stage # "durable"
              /\ u[m].stage = "durable" /\ u[j].stage = "durable" => u[m].leaf < u[j].leaf
  <2>1. m \in 1..T
    BY <1>2 DEF T
  <2>2. /\ ts[m].stage = "queued" => ts[j].stage # "durable"
        /\ ts[m].stage = "durable" /\ ts[j].stage = "durable" => ts[m].leaf < ts[j].leaf
    BY DEF UnderWay, T
  <2>3. CASE m = n \/ j = n
    BY <2>3, <1>6
  <2>4. CASE m # n /\ j # n
    BY <2>1, <2>2, <2>4, <1>6
  <2>5. QED
    BY <2>3, <2>4
<1>12. UnderWay(es, en, rr, u)
  BY <1>2, <1>6, <1>9, <1>10, <1>11 DEF UnderWay
<1>13. QED
  BY <1>0, <1>1, <1>12 DEF u

\* BeginAppend: the receipt has a row already, or its entry is queued.
LEMMA BegunGoesOn ==
    ASSUME NEW es, NEW en, NEW rs, NEW ts, UnderWay(es, en, rs, ts), Len(es) \in Nat,
           NEW n \in 1..Len(es), n = Len(ts) + 1,
           NEW st \in {"known", "queued"}, st = "known" <=> Rowed(es, rs, n)
    PROVE  UnderWay(es, en, rs, Append(ts, [stage |-> st, leaf |-> 0]))
<1> DEFINE T == Len(ts)
           u == Append(ts, [stage |-> st, leaf |-> 0])
<1>1. ts \in Seq(Waiting) /\ T \in Nat /\ [stage |-> st, leaf |-> 0] \in Waiting
  BY DEF UnderWay, Waiting
<1>2. u \in Seq(Waiting) /\ Len(u) = T + 1 /\ u[n].stage = st /\ \A m \in 1..T : u[m] = ts[m]
  BY <1>1
<1> HIDE DEF T, u
<1>3. n = T + 1 /\ \A m \in 1..(T + 1) : m = n \/ m \in 1..T
  BY <1>1 DEF T
<1>4. ASSUME NEW m \in 1..(T + 1)
      PROVE  /\ u[m].stage \in {"known", "acked"} <=> Rowed(es, rs, m)
             /\ u[m].stage = "durable" => /\ u[m].leaf \in 1..Len(en) /\ en[u[m].leaf] = es[m]
                                          /\ \A k \in DOMAIN rs : k < u[m].leaf
  <2>1. CASE m = n
    BY <2>1, <1>2
  <2>2. CASE m \in 1..T
    <3>1. u[m] = ts[m]
      BY <2>2, <1>2
    <3>2. QED
      BY <2>2, <3>1 DEF UnderWay, T
  <2>3. QED
    BY <2>1, <2>2, <1>3
<1>5. ASSUME NEW j \in 1..(T + 1), NEW m \in 1..(j - 1)
      PROVE  /\ u[m].stage = "queued" => u[j].stage # "durable"
             /\ u[m].stage = "durable" /\ u[j].stage = "durable" => u[m].leaf < u[j].leaf
  <2>1. m \in 1..T
    BY <1>1
  <2>2. CASE j = n
    BY <2>2, <1>2
  <2>3. CASE j \in 1..T
    <3>1. u[j] = ts[j] /\ u[m] = ts[m]
      BY <2>1, <2>3, <1>2
    <3>2. QED
      BY <2>3, <3>1 DEF UnderWay, T
  <2>4. QED
    BY <2>2, <2>3, <1>3
<1>6. T + 1 \in Nat /\ T + 1 <= Len(es) /\ \A k \in DOMAIN rs : rs[k].duplicateOf = 0
  BY <1>1, <1>3 DEF UnderWay
<1>7. UnderWay(es, en, rs, u)
  BY <1>2, <1>4, <1>5, <1>6 DEF UnderWay
<1>8. QED
  BY <1>7 DEF u

LEMMA LookedUp ==
    ASSUME NEW es, EachOnce(es), NEW en, Arrived(es, en), NEW rs, RowsOf(rs, en),
           \A k \in DOMAIN rs : rs[k].duplicateOf = 0, NEW n \in 1..Len(es)
    PROVE  LookupCanonical(rs, ReceiptOf[es[n]]) # 0 <=> Rowed(es, rs, n)
<1>1. CASE ~Rowed(es, rs, n)
  <2>1. LookupCanonical(rs, ReceiptOf[es[n]]) = 0
    <3>1. PICK leaf : leaf = 0
      OBVIOUS
    <3>2. QED
      BY <1>1, WaitedIsNew
  <2>2. QED
    BY <1>1, <2>1
<1>2. CASE Rowed(es, rs, n)
  <2>1. PICK k : k \in DOMAIN rs /\ RowAt(es, rs, k, n)
    BY <1>2 DEF Rowed
  <2>2. k \in Canonical(rs, ReceiptOf[es[n]])
    BY <2>1 DEF RowAt, Canonical
  <2>3. Canonical(rs, ReceiptOf[es[n]]) \in SUBSET (Nat \ {0})
    BY RowOfExport DEF Canonical
  <2>4. First(Canonical(rs, ReceiptOf[es[n]])) # 0
    BY <2>2, <2>3, FirstOfNone
  <2>5. QED
    BY <1>2, <2>4 DEF LookupCanonical
<1>3. QED
  BY <1>1, <1>2

\* `behalf-log reindex`: the first entry of each receipt is its row.
LEMMA ReindexedRows ==
    ASSUME NEW es, EachOnce(es), NEW en, Arrived(es, en), NEW rr, rr = Replay(<< >>, en, 1, Len(en)).rows
    PROVE  /\ DOMAIN rr = 1..Len(en)
           /\ RowsOf(rr, en)
           /\ \A k \in 1..Len(en) : rr[k].duplicateOf = 0
                 <=> \A j \in 1..(k - 1) : ReceiptOf[en[j]] # ReceiptOf[en[k]]
<1> DEFINE L == Len(en)
<1>1. L \in Nat /\ en \in Seq(Envelopes)
  BY DEF Arrived
<1>2. PICK none : none = << >> /\ DOMAIN none = {}
  OBVIOUS
<1>3. \A r : Canonical(none, r) = {}
  BY <1>2 DEF Canonical
<1>4. ~WalkRefused(none, en, 1, L)
  BY <1>3 DEF WalkRefused
<1>5. rr = Walked(none, en, 1, L)
  BY <1>2, <1>4 DEF Replay
<1> HIDE DEF L
<1>6. DOMAIN rr = 1..L /\ \A k \in 1..L : rr[k].duplicateOf = WalkDup(none, en, 1, k)
  <2>1. DOMAIN rr = DOMAIN none \cup 1..L
    BY <1>5 DEF Walked
  <2>2. DOMAIN none \cup 1..L = 1..L
    BY <1>2
  <2>3. ASSUME NEW k \in 1..L PROVE rr[k].duplicateOf = WalkDup(none, en, 1, k)
    <3>1. rr[k] = [env |-> en[k], duplicateOf |-> WalkDup(none, en, 1, k)]
      BY <1>5 DEF Walked
    <3>2. QED
      BY <3>1
  <2>4. QED
    BY <2>1, <2>2, <2>3
<1>7. RowsOf(none, en)
  BY <1>2 DEF RowsOf
<1>8. RowsOf(rr, en)
  <2>1. 1 \in Nat \ {0} /\ L \in 0..Len(en)
    BY <1>1 DEF L
  <2>2. PICK o : o = 1
    OBVIOUS
  <2>3. RowsOf(Walked(none, en, o, L), en)
    BY <1>1, <1>4, <1>7, <2>1, <2>2, WalkedRows
  <2>4. QED
    BY <1>5, <2>2, <2>3
<1>9. ASSUME NEW k \in 1..L
      PROVE  rr[k].duplicateOf = 0 <=> \A j \in 1..(k - 1) : ReceiptOf[en[j]] # ReceiptOf[en[k]]
  <2> DEFINE E == {j \in 1..(k - 1) : ReceiptOf[en[j]] = ReceiptOf[en[k]]}
  <2>1. WalkDup(none, en, 1, k) = First(E)
    <3>1. {j \in Canonical(none, ReceiptOf[en[k]]) : j < 1} = {}
      BY <1>3
    <3>2. {j \in Canonical(none, ReceiptOf[en[k]]) : j < 1} \cup E = E
      BY <3>1
    <3> HIDE DEF E
    <3>3. QED
      BY <3>2 DEF WalkDup, E
  <2>2. E \in SUBSET (Nat \ {0})
    OBVIOUS
  <2>3. E = {} <=> \A j \in 1..(k - 1) : ReceiptOf[en[j]] # ReceiptOf[en[k]]
    OBVIOUS
  <2> HIDE DEF E
  <2>4. First(E) = 0 <=> E = {}
    BY <2>2, FirstOfNone DEF First
  <2>5. QED
    BY <1>6, <2>1, <2>3, <2>4
<1>10. QED
  BY <1>6, <1>8, <1>9 DEF L

LEMMA ReindexedIsRecorded ==
    ASSUME NEW es, EachOnce(es), NEW en, Arrived(es, en), NEW rr, rr = Replay(<< >>, en, 1, Len(en)).rows,
           \A n \in 1..Len(es) : \E q \in 1..Len(en) : en[q] = es[n]
    PROVE  Recorded(es, en, rr) /\ \A n \in 1..Len(es) : Rowed(es, rr, n)
<1>1. /\ DOMAIN rr = 1..Len(en)
      /\ RowsOf(rr, en)
      /\ \A k \in 1..Len(en) : rr[k].duplicateOf = 0
            <=> \A j \in 1..(k - 1) : ReceiptOf[en[j]] # ReceiptOf[en[k]]
  BY ReindexedRows
<1>2. \A k \in 1..Len(en) : rr[k].env = en[k] /\ k \in Nat
  BY <1>1 DEF RowsOf
<1>3. ASSUME NEW n \in 1..Len(es) PROVE Rowed(es, rr, n)
  <2> DEFINE Q == {q \in 1..Len(en) : en[q] = es[n]}
  <2>1. Q \in SUBSET Nat /\ Q # {}
    BY <1>2
  <2>2. PICK k \in Q : \A q \in Q : k <= q
    BY <2>1, LeastExists
  <2>3. k \in 1..Len(en) /\ en[k] = es[n] /\ Len(en) \in Nat
    BY DEF Arrived
  <2>4. ASSUME NEW j \in 1..(k - 1), ReceiptOf[en[j]] = ReceiptOf[en[k]] PROVE FALSE
    <3>1. j \in 1..Len(en) /\ ~(k <= j)
      BY <2>3
    <3>2. PICK m \in 1..Len(es) : en[j] = es[m]
      BY <3>1 DEF Arrived
    <3>3. m = n
      BY <2>3, <2>4, <3>2 DEF EachOnce
    <3>4. QED
      BY <2>2, <3>1, <3>2, <3>3
  <2>5. RowAt(es, rr, k, n)
    BY <1>1, <1>2, <2>3, <2>4 DEF RowAt
  <2>6. QED
    BY <2>5 DEF Rowed, RowAt
<1>4. ASSUME NEW n \in 1..Len(es), NEW m \in 1..(n - 1), NEW k \in DOMAIN rr, NEW l \in DOMAIN rr,
             RowAt(es, rr, k, m), RowAt(es, rr, l, n)
      PROVE  k < l
  <2>1. k \in 1..Len(en) /\ l \in 1..Len(en) /\ en[k] = es[m] /\ en[l] = es[n] /\ Len(en) \in Nat
    BY <1>1, <1>2, <1>4 DEF RowAt, Arrived
  <2>2. PICK q \in 1..(l - 1) : en[q] = es[m]
    BY <2>1 DEF Arrived
  <2>3. \A j \in 1..(k - 1) : ReceiptOf[en[j]] # ReceiptOf[en[k]]
    BY <1>1, <1>4, <2>1 DEF RowAt
  <2>4. q \notin 1..(k - 1)
    BY <2>1, <2>2, <2>3
  <2>5. QED
    BY <2>1, <2>4
<1>5. \A n \in 1..Len(es) : \A m \in 1..(n - 1) : Rowed(es, rr, m)
  <2>1. \A n \in 1..Len(es) : \A m \in 1..(n - 1) : m \in 1..Len(es)
    BY DEF EachOnce
  <2>2. QED
    BY <1>3, <2>1
<1>6. QED
  BY <1>1, <1>3, <1>4, <1>5 DEF Recorded

-----------------------------------------------------------------------------
(* The header of a file on its way. *)

\* No header carries a token that the export did not.
TokensKept(f, ts) == \E S : f \in Seq(S) /\ \A l \in S : l.kind = "header" => DOMAIN l.tokens \subseteq ts

\* What one change spares: the header or the leaves, or nobody reads the file.
Spared(f, o) == f[1] = o[1] \/ Leaves(f) = Leaves(o) \/ f[1].kind # "header"

HeaderInv ==
    /\ TokensKept(file, DOMAIN original[1].tokens)
    /\ strikes = 1 => Spared(file, original)

LEMMA ChangedTokens ==
    ASSUME NEW l, NEW hd, Made(l, hd), NEW ts, l.kind = "header" => DOMAIN l.tokens \subseteq ts,
           NEW x \in {Blank, Garbage} \union Changed(l), x.kind = "header"
    PROVE  l.kind = "header" /\ DOMAIN x.tokens \subseteq ts
<1>1. x # Blank /\ x # Garbage
  BY DEF Blank, Garbage
<1>2. l.kind # "leaf"
  <2> SUFFICES ASSUME l.kind = "leaf" PROVE FALSE
    OBVIOUS
  <2>1. LeafMade(l) /\ x \in ChangedLeaf(l)
    BY <1>1, MadeKinds DEF Changed
  <2>2. LeafMade(x)
    BY <2>1, ChangedLeafMade
  <2>3. QED
    BY <2>2 DEF LeafMade
<1>3. l.kind # "head"
  <2> SUFFICES ASSUME l.kind = "head" PROVE FALSE
    OBVIOUS
  <2>1. HeadMade(l, hd) /\ x \in Heads(l)
    BY <1>1, MadeKinds DEF Changed
  <2>2. HeadMade(x, hd)
    BY <2>1, ChangedHeadMade
  <2>3. QED
    BY <2>2 DEF HeadMade
<1>4. l.kind = "header" /\ x \in ChangedHeader(l)
  BY <1>1, <1>2, <1>3 DEF Changed
<1>5. PICK kn, o, ks, vs :
        l = [kind |-> "header", known |-> kn, origin |-> o, keys |-> ks, tokens |-> vs]
  BY <1>4, MadeKinds DEF HeaderMade
<1>6. \/ \E v : x = [l EXCEPT !.known = v]
      \/ \E v : x = [l EXCEPT !.origin = v]
      \/ \E v : x = [l EXCEPT !.keys = v]
      \/ \E r : x = [l EXCEPT !.tokens = [t \in DOMAIN l.tokens |-> IF t = r THEN Forged ELSE l.tokens[t]]]
      \/ \E r : x = [l EXCEPT !.tokens = Addressed((DOMAIN l.tokens) \ {r})]
  <2>1. \/ x \in {[l EXCEPT !.known = FALSE], [l EXCEPT !.origin = Elsewhere],
                 [l EXCEPT !.keys = [k \in (DOMAIN l.keys) \union {Stranger} |-> k]],
                 [l EXCEPT !.keys = [k \in (DOMAIN l.keys) \ {CpKey} |-> k]],
                 [l EXCEPT !.keys = [k \in DOMAIN l.keys |-> Stranger]]}
        \/ x \in {[l EXCEPT !.tokens = [t \in DOMAIN l.tokens |-> IF t = r THEN Forged ELSE l.tokens[t]]] :
                     r \in DOMAIN l.tokens}
        \/ x \in {[l EXCEPT !.tokens = Addressed((DOMAIN l.tokens) \ {r})] : r \in DOMAIN l.tokens}
    BY Zenon, <1>4 DEF ChangedHeader
  <2>2. CASE x \in {[l EXCEPT !.known = FALSE], [l EXCEPT !.origin = Elsewhere],
                     [l EXCEPT !.keys = [k \in (DOMAIN l.keys) \union {Stranger} |-> k]],
                     [l EXCEPT !.keys = [k \in (DOMAIN l.keys) \ {CpKey} |-> k]],
                     [l EXCEPT !.keys = [k \in DOMAIN l.keys |-> Stranger]]}
    <3>1. PICK v : \/ x = [l EXCEPT !.known = v] \/ x = [l EXCEPT !.origin = v]
                   \/ x = [l EXCEPT !.keys = v]
      BY Zenon, <2>2
    <3>2. QED
      BY Zenon, <3>1
  <2>3. CASE x \in {[l EXCEPT !.tokens = [t \in DOMAIN l.tokens |-> IF t = r THEN Forged ELSE l.tokens[t]]] :
                       r \in DOMAIN l.tokens}
    BY SMT, <2>3
  <2>4. CASE x \in {[l EXCEPT !.tokens = Addressed((DOMAIN l.tokens) \ {r})] : r \in DOMAIN l.tokens}
    BY Zenon, <2>4
  <2>5. QED
    BY Zenon, <2>1, <2>2, <2>3, <2>4
<1>7. DOMAIN x.tokens \subseteq DOMAIN vs
  <2>1. CASE \/ \E v : x = [l EXCEPT !.known = v]
             \/ \E v : x = [l EXCEPT !.origin = v]
             \/ \E v : x = [l EXCEPT !.keys = v]
    BY <1>5, <2>1
  <2>2. CASE \E r : x = [l EXCEPT !.tokens = [t \in DOMAIN l.tokens |->
                                                  IF t = r THEN Forged ELSE l.tokens[t]]]
    <3>1. PICK r : x = [l EXCEPT !.tokens = [t \in DOMAIN l.tokens |->
                                                  IF t = r THEN Forged ELSE l.tokens[t]]]
      BY <2>2
    <3>2. x.tokens = [t \in DOMAIN vs |-> IF t = r THEN Forged ELSE vs[t]]
      BY <1>5, <3>1
    <3>3. QED
      BY <3>2
  <2>3. CASE \E r : x = [l EXCEPT !.tokens = Addressed((DOMAIN l.tokens) \ {r})]
    <3>1. PICK r : x = [l EXCEPT !.tokens = Addressed((DOMAIN l.tokens) \ {r})]
      BY <2>3
    <3>2. x.tokens = Addressed((DOMAIN vs) \ {r})
      BY <1>5, <3>1
    <3>3. QED
      BY <3>2 DEF Addressed
  <2>4. QED
    BY <1>6, <2>1, <2>2, <2>3
<1>8. QED
  BY <1>4, <1>5, <1>7

\* One change to an export.
LEMMA OneChangeSpares ==
    ASSUME NEW es, NEW ks, NEW ts, Exported(file, es, ks, ts, CpKey),
           Lose \/ Cut \/ Swap \/ Repeat \/ Change
    PROVE  Spared(file', file)
<1>1. PICK N \in Nat \ {0} : N = Len(es)
  BY ExportedLines
<1>2. /\ DOMAIN file = 1..(N + 2) /\ Len(file) = N + 2 /\ file \in Seq({file[n] : n \in DOMAIN file})
      /\ file[1].kind = "header" /\ file[2].kind = "leaf"
  <2>1. PICK n \in 1..N : n = 1
    BY <1>1
  <2>2. file[2].kind = "leaf"
    <3>1. file[1 + n] = Leaf(n - 1, es[n], SignerOf(es[n]), <<SignerOf(es[n]), es[n]>>)
      BY <1>1 DEF Exported
    <3>2. Leaf(n - 1, es[n], SignerOf(es[n]), <<SignerOf(es[n]), es[n]>>).kind = "leaf"
      BY DEF Leaf
    <3>3. 1 + n = 2
      BY <2>1
    <3>4. QED
      BY <3>1, <3>2, <3>3
  <2>3. Len(file) = N + 2 /\ file = [m \in 1..(N + 2) |-> file[m]]
    BY <1>1 DEF Exported
  <2>4. QED
    BY <1>1, <2>2, <2>3 DEF Exported, Header
<1>3. CASE Lose
  <2>1. PICK n \in 1..(N + 2) : file' = Without(file, n)
    BY <1>2, <1>3 DEF Lose, Strike
  <2>2. n = 1 => file'[1] = file[2]
    <3> SUFFICES ASSUME n = 1 PROVE file'[1] = file[2]
      OBVIOUS
    <3>1. SubSeq(file, 1, n - 1) = << >>
      BY <1>2
    <3>2. PICK rest : rest = SubSeq(file, n + 1, Len(file))
      OBVIOUS
    <3>3. rest \in Seq({file[m] : m \in DOMAIN file}) /\ Len(rest) = N + 1 /\ rest[1] = file[2]
      <4>1. n + 1 = 2 /\ 2 \in 1..Len(file) /\ Len(file) \in 1..Len(file)
        BY <1>1, <1>2
      <4>2. rest \in Seq({file[m] : m \in DOMAIN file})
        <5>1. PICK S, l : S = {file[m] : m \in DOMAIN file} /\ l = Len(file)
          OBVIOUS
        <5>2. file \in Seq(S) /\ rest = SubSeq(file, 2, l) /\ 2 \in 1..l /\ l \in 1..l /\ l = Len(file)
          BY <1>2, <3>2, <4>1, <5>1
        <5>3. rest \in Seq(S)
          BY <5>2
        <5>4. QED
          BY <5>1, <5>3
      <4>3. Len(rest) = N + 1
        BY <1>1, <1>2, <3>2, <4>1
      <4>4. rest[1] = file[2]
        BY <1>1, <1>2, <3>2, <4>1, <4>3
      <4>5. QED
        BY <4>2, <4>3, <4>4
    <3>4. file' = << >> \o rest
      BY <2>1, <3>1, <3>2 DEF Without
    <3>5. QED
      BY <1>1, <3>3, <3>4
  <2>3. n # 1 => file'[1] = file[1]
    <3> SUFFICES ASSUME n # 1 PROVE file'[1] = file[1]
      OBVIOUS
    <3>1. PICK S, first, rest : /\ S = {file[m] : m \in DOMAIN file}
                                /\ first = SubSeq(file, 1, n - 1) /\ rest = SubSeq(file, n + 1, Len(file))
      OBVIOUS
    <3>2. first \in Seq(S) /\ rest \in Seq(S)
      BY <1>2, <3>1
    <3>3. Len(first) = n - 1 /\ first[1] = file[1] /\ n - 1 \in Nat \ {0}
      BY <1>1, <1>2, <3>1
    <3>4. file' = first \o rest
      BY <2>1, <3>1 DEF Without
    <3>5. QED
      BY <3>2, <3>3, <3>4
  <2>4. QED
    BY <1>2, <2>2, <2>3 DEF Spared
<1>4. CASE Cut
  <2>1. PICK n \in 1..(N + 1) : file' = SubSeq(file, 1, n)
    BY <1>1, <1>2, <1>4 DEF Cut, Strike
  <2>2. file'[1] = file[1]
    BY <1>1, <1>2, <2>1
  <2>3. QED
    BY <2>2 DEF Spared
<1>5. CASE Swap
  <2>1. PICK n \in 1..(N + 1) : file' = Swapped(file, n)
    BY <1>1, <1>2, <1>5 DEF Swap, Strike
  <2>2. n = 1 => file'[1] = file[2]
    BY <1>1, <1>2, <2>1 DEF Swapped
  <2>3. n # 1 => file'[1] = file[1]
    <3> SUFFICES ASSUME n # 1 PROVE file'[1] = file[1]
      OBVIOUS
    <3>1. 1 \in DOMAIN file /\ 1 # n + 1
      BY <1>1, <1>2, <2>1
    <3>2. QED
      BY <1>2, <2>1, <3>1 DEF Swapped
  <2>4. QED
    BY <1>2, <2>2, <2>3 DEF Spared
<1>6. CASE Repeat
  <2>1. PICK n \in 1..(N + 2) : file' = InsertAt(file, n, file[n])
    BY <1>2, <1>6 DEF Repeat, Strike
  <2>2. file'[1] = file[1]
    BY <1>1, <1>2, <2>1 DEF InsertAt
  <2>3. QED
    BY <2>2 DEF Spared
<1>7. CASE Change
  <2>1. PICK n \in 1..(N + 2) : \E x \in {Blank, Garbage} \union Changed(file[n]) :
           file' = [file EXCEPT ![n] = x]
    BY <1>2, <1>7 DEF Change, Strike
  <2>2. PICK x : file' = [file EXCEPT ![n] = x]
    BY <2>1
  <2>3. CASE n # 1 \/ x.kind # "header"
    BY <1>1, <1>2, <2>2, <2>3 DEF Spared
  <2>4. CASE n = 1 /\ x.kind = "header"
    <3>1. DOMAIN file' = DOMAIN file /\ file'[1] = x /\ \A m \in DOMAIN file : m # 1 => file'[m] = file[m]
      BY <1>2, <2>2, <2>4
    <3>2. {m \in DOMAIN file' : file'[m].kind = "leaf"} = {m \in DOMAIN file : file[m].kind = "leaf"}
      BY <1>2, <2>4, <3>1
    <3>3. Leaves(file') = Leaves(file)
      <4> DEFINE P == {m \in DOMAIN file : file[m].kind = "leaf"}
                 at == InOrder(P)
      <4>1. IsFiniteSet(P) /\ P \in SUBSET Nat
        <5>1. IsFiniteSet(1..(N + 2))
          BY <1>1, FS_Interval
        <5>2. P \subseteq 1..(N + 2)
          BY <1>2
        <5>3. IsFiniteSet(P)
          BY <5>1, <5>2, FS_Subset
        <5>4. QED
          BY <1>1, <5>2, <5>3
      <4>2. at \in [1..Cardinality(P) -> P]
        BY <4>1, InOrderLists
      <4>3. \A m \in P : file'[m] = file[m]
        BY <1>2, <3>1
      <4>4. Leaves(file) = [m \in DOMAIN at |-> file[at[m]]]
        BY DEF Leaves, OfKind
      <4>5. Leaves(file') = [m \in DOMAIN at |-> file'[at[m]]]
        BY <3>2 DEF Leaves, OfKind
      <4> HIDE DEF P, at
      <4>6. QED
        BY <4>2, <4>3, <4>4, <4>5
    <3>4. QED
      BY <3>3 DEF Spared
  <2>5. QED
    BY <2>3, <2>4
<1>8. QED
  BY <1>3, <1>4, <1>5, <1>6, <1>7

LEMMA StruckTokens ==
    ASSUME NEW ts, TokensKept(file, ts), NEW hd, Lines(file, hd),
           Lose \/ Cut \/ Swap \/ Repeat \/ Change
    PROVE  TokensKept(file', ts)
<1>1. PICK S : file \in Seq(S) /\ \A l \in S : l.kind = "header" => DOMAIN l.tokens \subseteq ts
  BY DEF TokensKept
<1>2. CASE Lose
  BY <1>1, <1>2, EditsStay DEF Lose, Strike, TokensKept
<1>3. CASE Cut
  BY <1>1, <1>3, EditsStay DEF Cut, Strike, TokensKept
<1>4. CASE Swap
  BY <1>1, <1>4, EditsStay DEF Swap, Strike, TokensKept
<1>5. CASE Repeat
  BY <1>1, <1>5, EditsStay DEF Repeat, Strike, TokensKept
<1>6. CASE Change
  <2>1. PICK n \in DOMAIN file : \E x \in {Blank, Garbage} \union Changed(file[n]) :
           file' = [file EXCEPT ![n] = x]
    BY <1>6 DEF Change, Strike
  <2>2. PICK x \in {Blank, Garbage} \union Changed(file[n]) : file' = [file EXCEPT ![n] = x]
    BY <2>1
  <2>3. PICK l : l = file[n] /\ l \in S
    BY <1>1
  <2>4. Made(l, hd)
    BY <2>3 DEF Lines
  <2>5. x.kind = "header" => DOMAIN x.tokens \subseteq ts
    BY <1>1, <2>2, <2>3, <2>4, ChangedTokens
  <2>6. file' \in Seq(S \cup {x})
    BY <1>1, <2>2, EditsStay
  <2>7. QED
    BY <1>1, <2>5, <2>6 DEF TokensKept
<1>7. QED
  BY <1>2, <1>3, <1>4, <1>5, <1>6

-----------------------------------------------------------------------------
(* The steps of an import. *)

\* What an import has made so far of the receipts es.
Copied(c, es) ==
    /\ Arrived(es, c.entries) /\ Recorded(es, c.entries, c.rows)
    /\ c.stage = "closed" => c.tasks = << >>
    /\ c.stage # "done" => UnderWay(es, c.entries, c.rows, c.tasks)
    /\ c.stage = "done" => \A n \in 1..Len(es) : Rowed(es, c.rows, n)

LEMMA NothingUnderWay ==
    ASSUME NEW es, Len(es) \in Nat, NEW en, NEW rs, \A k \in DOMAIN rs : rs[k].duplicateOf = 0
    PROVE  UnderWay(es, en, rs, << >>)
<1>1. << >> \in Seq(Waiting) /\ Len(<< >>) = 0
  OBVIOUS
<1>2. Len(<< >>) <= Len(es) /\ 1..Len(<< >>) = {} /\ Len(<< >>) \in Nat
  BY <1>1
<1>3. QED
  BY <1>1, <1>2 DEF UnderWay

LEMMA FreshIsCopied ==
    ASSUME NEW es, EachOnce(es), NEW c, c.stage = "closed", c.entries = << >>, c.rows = << >>,
           c.tasks = << >>
    PROVE  Copied(c, es)
<1>1. PICK none : none = << >> /\ DOMAIN none = {} /\ none \in Seq(Envelopes) /\ Len(none) = 0
  <2>1. << >> \in Seq(Envelopes) /\ Len(<< >>) = 0
    OBVIOUS
  <2>2. DOMAIN << >> = {}
    OBVIOUS
  <2>3. QED
    BY <2>1, <2>2
<1>2. 1..Len(none) = {}
  BY <1>1
<1>3. Arrived(es, none)
  BY <1>1, <1>2 DEF Arrived
<1>4. \A n \in 1..Len(es) : ~Rowed(es, none, n)
  BY <1>1 DEF Rowed
<1>5. Recorded(es, none, none)
  BY <1>1, <1>4 DEF Recorded, RowsOf
<1>6. UnderWay(es, none, none, none)
  BY <1>1, NothingUnderWay DEF EachOnce
<1>7. QED
  BY <1>1, <1>3, <1>5, <1>6 DEF Copied

\* A receipt that has a row has an entry.
LEMMA RowedArrived ==
    ASSUME NEW es, NEW en, NEW rs, RowsOf(rs, en), NEW n, Rowed(es, rs, n)
    PROVE  \E q \in 1..Len(en) : en[q] = es[n]
<1>1. PICK k \in DOMAIN rs : RowAt(es, rs, k, n)
  BY DEF Rowed
<1>2. k \in 1..Len(en) /\ en[k] = es[n]
  BY <1>1 DEF RowAt, RowsOf
<1>3. QED
  BY <1>2

LEMMA KnownGoesOn ==
    ASSUME NEW es, NEW en, NEW rs, NEW ts, UnderWay(es, en, rs, ts),
           NEW n \in 1..Len(ts), ts[n].stage = "known"
    PROVE  UnderWay(es, en, rs, [ts EXCEPT ![n].stage = "acked"])
<1> DEFINE T == Len(ts)
           u == [ts EXCEPT ![n].stage = "acked"]
<1>1. ts \in Seq(Waiting) /\ T \in Nat /\ T <= Len(es) /\ ts[n] \in Waiting
  BY DEF UnderWay
<1>2. [ts[n] EXCEPT !.stage = "acked"] \in Waiting /\ [ts[n] EXCEPT !.stage = "acked"].stage = "acked"
  BY <1>1 DEF Waiting
<1>3. u \in Seq(Waiting) /\ Len(u) = T /\ u[n].stage = "acked" /\ \A m \in 1..T : m # n => u[m] = ts[m]
  BY <1>1, <1>2
<1> HIDE DEF T, u
<1>4. Rowed(es, rs, n)
  BY DEF UnderWay
<1>5. ASSUME NEW m \in 1..T
      PROVE  /\ u[m].stage \in {"known", "acked"} <=> Rowed(es, rs, m)
             /\ u[m].stage = "durable" => /\ u[m].leaf \in 1..Len(en) /\ en[u[m].leaf] = es[m]
                                          /\ \A k \in DOMAIN rs : k < u[m].leaf
  <2>1. CASE m = n
    BY <2>1, <1>3, <1>4
  <2>2. CASE m # n
    <3>1. u[m] = ts[m]
      BY <2>2, <1>3
    <3>2. QED
      BY <3>1 DEF UnderWay, T
  <2>3. QED
    BY <2>1, <2>2
<1>6. ASSUME NEW j \in 1..T, NEW m \in 1..(j - 1)
      PROVE  /\ u[m].stage = "queued" => u[j].stage # "durable"
             /\ u[m].stage = "durable" /\ u[j].stage = "durable" => u[m].leaf < u[j].leaf
  <2>1. m \in 1..T
    BY <1>1 DEF T
  <2>2. /\ ts[m].stage = "queued" => ts[j].stage # "durable"
        /\ ts[m].stage = "durable" /\ ts[j].stage = "durable" => ts[m].leaf < ts[j].leaf
    BY DEF UnderWay, T
  <2>3. CASE m = n \/ j = n
    BY <2>3, <1>3
  <2>4. CASE m # n /\ j # n
    BY <2>1, <2>2, <2>4, <1>3
  <2>5. QED
    BY <2>3, <2>4
<1>7. \A k \in DOMAIN rs : rs[k].duplicateOf = 0
  BY DEF UnderWay
<1>8. UnderWay(es, en, rs, u)
  BY <1>1, <1>3, <1>5, <1>6, <1>7 DEF UnderWay
<1>9. QED
  BY <1>8 DEF u

\* The leaves of an accepted file are the receipts of the export.
Carries(f, es) == Len(Leaves(f)) = Len(es) /\ \A n \in 1..Len(es) : Leaves(f)[n].payload = es[n]

CopyRecord(c) ==
    c = [stage |-> c.stage, entries |-> c.entries, rows |-> c.rows, keys |-> c.keys,
         store |-> c.store, tasks |-> c.tasks, killed |-> c.killed]

LEMMA BegunIsCopied ==
    ASSUME NEW es, EachOnce(es), CopyRecord(copy), Copied(copy, es), Carries(file, es), ImportBegin
    PROVE  /\ Copied(copy', es) /\ CopyRecord(copy') /\ copy'.stage = copy.stage
           /\ copy'.keys = copy.keys /\ copy'.store = copy.store
<1>1. PICK en, rs, ts : en = copy.entries /\ rs = copy.rows /\ ts = copy.tasks
  OBVIOUS
<1>2. copy.stage = "open" /\ Len(ts) < Len(es)
  BY <1>1 DEF ImportBegin, Carries
<1>3. /\ Arrived(es, en) /\ Recorded(es, en, rs) /\ UnderWay(es, en, rs, ts)
      /\ ts \in Seq(Waiting) /\ Len(ts) \in Nat /\ Len(es) \in Nat
  <2>1. Arrived(es, en) /\ Recorded(es, en, rs) /\ UnderWay(es, en, rs, ts)
    BY <1>1, <1>2 DEF Copied
  <2>2. QED
    BY <2>1 DEF UnderWay, EachOnce
<1>4. PICK n \in 1..Len(es) : n = Len(ts) + 1
  BY <1>2, <1>3
<1>5. Logged(n) = es[n]
  BY DEF Carries, Logged
<1>6. InFlightAt(ReceiptOf[es[n]]) = {}
  <2> SUFFICES ASSUME NEW m \in DOMAIN ts, ReceiptOf[Logged(m)] = ReceiptOf[es[n]] PROVE FALSE
    BY <1>1 DEF InFlightAt
  <2>1. m \in 1..Len(es) /\ m # n
    BY <1>2, <1>3, <1>4
  <2>2. Logged(m) = es[m]
    BY <2>1 DEF Carries, Logged
  <2>3. QED
    BY <2>1, <2>2 DEF EachOnce
<1>7. PICK st : st = IF InFlightAt(ReceiptOf[es[n]]) # {} \/ LookupCanonical(rs, ReceiptOf[es[n]]) # 0
                     THEN "known" ELSE "queued"
  OBVIOUS
<1>8. copy' = [copy EXCEPT !.tasks = Append(ts, [stage |-> st, leaf |-> 0])]
  BY <1>1, <1>4, <1>5, <1>7 DEF ImportBegin
<1>9. st \in {"known", "queued"} /\ (st = "known" <=> Rowed(es, rs, n))
  <2>1. LookupCanonical(rs, ReceiptOf[es[n]]) # 0 <=> Rowed(es, rs, n)
    BY <1>3, LookedUp DEF Recorded, UnderWay
  <2>2. QED
    BY <1>6, <1>7, <2>1
<1>10. UnderWay(es, en, rs, Append(ts, [stage |-> st, leaf |-> 0]))
  BY <1>3, <1>4, <1>9, BegunGoesOn
<1>11. PICK us : us = Append(ts, [stage |-> st, leaf |-> 0])
  OBVIOUS
<1>12. copy' = [stage |-> copy.stage, entries |-> en, rows |-> rs, keys |-> copy.keys,
                store |-> copy.store, tasks |-> us, killed |-> copy.killed]
  BY <1>1, <1>8, <1>11 DEF CopyRecord
<1>13. QED
  BY <1>2, <1>3, <1>10, <1>11, <1>12 DEF Copied, CopyRecord

LEMMA IntegratedIsCopied ==
    ASSUME NEW es, EachOnce(es), CopyRecord(copy), Copied(copy, es), Carries(file, es), ImportIntegrate
    PROVE  /\ Copied(copy', es) /\ CopyRecord(copy') /\ copy'.stage = copy.stage
           /\ copy'.keys = copy.keys /\ copy'.store = copy.store
<1>1. PICK en, rs, ts : en = copy.entries /\ rs = copy.rows /\ ts = copy.tasks
  OBVIOUS
<1>2. PICK queued : queued = {n \in DOMAIN ts : ts[n].stage = "queued"}
  OBVIOUS
<1>3. copy.stage = "open" /\ queued # {}
  BY <1>1, <1>2 DEF ImportIntegrate
<1>4. /\ Arrived(es, en) /\ Recorded(es, en, rs) /\ RowsOf(rs, en) /\ UnderWay(es, en, rs, ts)
      /\ ts \in Seq(Waiting) /\ Len(ts) \in Nat /\ Len(ts) <= Len(es) /\ Len(es) \in Nat
      /\ en \in Seq(Envelopes)
  <2>1. Arrived(es, en) /\ Recorded(es, en, rs) /\ UnderWay(es, en, rs, ts)
    BY <1>1, <1>3 DEF Copied
  <2>2. QED
    BY <2>1 DEF UnderWay, EachOnce, Recorded, Arrived
<1>5. PICK n \in queued : n = Lowest(queued) /\ \A m \in queued : n <= m
  <2>1. queued \in SUBSET Nat
    BY <1>2, <1>4
  <2>2. QED
    BY <1>3, <2>1, LowestIsLeast
<1>6. n \in 1..Len(ts) /\ n \in 1..Len(es) /\ ts[n].stage = "queued"
  BY <1>2, <1>4
<1>7. \A m \in 1..(n - 1) : m \in 1..Len(ts) /\ m \in 1..Len(es) /\ ts[m].stage # "queued"
  <2> TAKE m \in 1..(n - 1)
  <2>1. m \in 1..Len(ts) /\ m \in 1..Len(es) /\ ~(n <= m)
    BY <1>4, <1>6
  <2>2. QED
    BY <1>2, <1>4, <1>5, <2>1
<1>8. Logged(n) = es[n] /\ es[n] \in Envelopes
  BY <1>6 DEF Carries, Logged, EachOnce
<1>9. PICK vs, us : /\ vs = Append(en, es[n])
                    /\ us = [ts EXCEPT ![n] = [stage |-> "durable", leaf |-> Len(en) + 1]]
  OBVIOUS
<1>10. copy' = [stage |-> copy.stage, entries |-> vs, rows |-> rs, keys |-> copy.keys,
                store |-> copy.store, tasks |-> us, killed |-> copy.killed]
  <2>1. copy' = [copy EXCEPT !.entries = Append(copy.entries, es[n]),
                             !.tasks[n] = [stage |-> "durable", leaf |-> Len(copy.entries) + 1]]
    BY <1>1, <1>2, <1>5, <1>8 DEF ImportIntegrate
  <2>2. QED
    BY <1>1, <1>9, <2>1 DEF CopyRecord
<1>11. \A m \in 1..(n - 1) : \E q \in 1..Len(en) : en[q] = es[m]
  <2> TAKE m \in 1..(n - 1)
  <2>1. m \in 1..Len(ts) /\ ts[m].stage # "queued" /\ ts[m] \in Waiting
    BY <1>4, <1>7
  <2>2. CASE ts[m].stage = "durable"
    <3>1. ts[m].leaf \in 1..Len(en) /\ en[ts[m].leaf] = es[m]
      BY <1>4, <2>1, <2>2 DEF UnderWay
    <3>2. QED
      BY <3>1
  <2>3. CASE ts[m].stage \in {"known", "acked"}
    <3>1. Rowed(es, rs, m)
      BY <1>4, <2>1, <2>3 DEF UnderWay
    <3>2. QED
      BY <1>4, <3>1, RowedArrived
  <2>4. QED
    BY <2>1, <2>2, <2>3 DEF Waiting
<1>12. Arrived(es, vs)
  BY <1>4, <1>6, <1>9, <1>11, IntegratedArrives
<1>13. Recorded(es, vs, rs)
  BY <1>4, <1>8, <1>9, IntegratedKeepsRows
<1>14. UnderWay(es, vs, rs, us)
  BY <1>4, <1>6, <1>7, <1>8, <1>9, IntegratedGoesOn
<1>15. QED
  BY <1>3, <1>10, <1>12, <1>13, <1>14 DEF Copied, CopyRecord

LEMMA WaitedIsCopied ==
    ASSUME NEW es, EachOnce(es), CopyRecord(copy), Copied(copy, es), Carries(file, es), ImportWait
    PROVE  /\ Copied(copy', es) /\ CopyRecord(copy') /\ copy'.stage = copy.stage
           /\ copy'.keys = copy.keys /\ copy'.store = copy.store
<1>1. PICK en, rs, ts : en = copy.entries /\ rs = copy.rows /\ ts = copy.tasks
  OBVIOUS
<1>2. PICK left : left = {n \in DOMAIN ts : ts[n].stage # "acked"}
  OBVIOUS
<1>3. copy.stage = "open" /\ Len(ts) = Len(es) /\ left # {}
  BY <1>1, <1>2 DEF ImportWait, Carries
<1>4. /\ Arrived(es, en) /\ Recorded(es, en, rs) /\ RowsOf(rs, en) /\ UnderWay(es, en, rs, ts)
      /\ ts \in Seq(Waiting) /\ Len(ts) \in Nat /\ Len(es) \in Nat
      /\ \A k \in DOMAIN rs : rs[k].duplicateOf = 0
  <2>1. Arrived(es, en) /\ Recorded(es, en, rs) /\ UnderWay(es, en, rs, ts)
    BY <1>1, <1>3 DEF Copied
  <2>2. QED
    BY <2>1 DEF UnderWay, EachOnce, Recorded
<1>5. PICK n \in left : n = Lowest(left) /\ \A m \in left : n <= m
  <2>1. left \in SUBSET Nat
    BY <1>2, <1>4
  <2>2. QED
    BY <1>3, <2>1, LowestIsLeast
<1>6. n \in 1..Len(ts) /\ n \in 1..Len(es) /\ ts[n] \in Waiting
  BY <1>2, <1>3, <1>4
<1>7. \A m \in 1..(n - 1) : m \in 1..Len(ts) /\ ts[m].stage = "acked"
  <2> TAKE m \in 1..(n - 1)
  <2>1. m \in 1..Len(ts) /\ ~(n <= m)
    BY <1>4, <1>6
  <2>2. QED
    BY <1>2, <1>4, <1>5, <2>1
<1>8. Logged(n) = es[n]
  BY <1>6 DEF Carries, Logged
<1>9. PICK leaf, dup : leaf = ts[n].leaf /\ dup = LookupBefore(rs, ReceiptOf[es[n]], leaf)
  OBVIOUS
<1>10. /\ ts[n].stage # "queued" /\ ts[n].stage # "acked"
       /\ copy' = IF ts[n].stage = "known"
                  THEN [copy EXCEPT !.tasks[n].stage = "acked"]
                  ELSE IF Refused(rs, leaf, es[n], dup)
                  THEN [copy EXCEPT !.stage = "closed", !.tasks = << >>]
                  ELSE [copy EXCEPT !.tasks[n].stage = "acked",
                                    !.rows = Upsert(copy.rows, leaf, es[n], dup)]
  <2>1. ts[n].stage # "acked"
    BY <1>2
  <2>2. n = Lowest({m \in DOMAIN copy.tasks : copy.tasks[m].stage # "acked"})
    BY <1>1, <1>2, <1>5
  <2>3. /\ copy.tasks[n].stage # "queued"
        /\ IF copy.tasks[n].stage = "known"
           THEN copy' = [copy EXCEPT !.tasks[n].stage = "acked"]
           ELSE IF Refused(copy.rows, copy.tasks[n].leaf, Logged(n),
                           LookupBefore(copy.rows, ReceiptOf[Logged(n)], copy.tasks[n].leaf))
           THEN copy' = [copy EXCEPT !.stage = "closed", !.tasks = << >>]
           ELSE copy' = [copy EXCEPT !.tasks[n].stage = "acked",
                            !.rows = Upsert(@, copy.tasks[n].leaf, Logged(n),
                                LookupBefore(copy.rows, ReceiptOf[Logged(n)], copy.tasks[n].leaf))]
    BY Zenon, <2>2 DEF ImportWait
  <2>4. QED
    BY <1>1, <1>8, <1>9, <2>1, <2>3
<1>11. PICK us : us = [ts EXCEPT ![n].stage = "acked"]
  OBVIOUS
<1>12. CASE ts[n].stage = "known"
  <2>1. copy' = [stage |-> copy.stage, entries |-> en, rows |-> rs, keys |-> copy.keys,
                 store |-> copy.store, tasks |-> us, killed |-> copy.killed]
    BY <1>1, <1>10, <1>11, <1>12 DEF CopyRecord
  <2>2. UnderWay(es, en, rs, us)
    BY <1>4, <1>6, <1>11, <1>12, KnownGoesOn
  <2>3. QED
    BY <1>3, <1>4, <2>1, <2>2 DEF Copied, CopyRecord
<1>13. CASE ts[n].stage = "durable"
  <2>1. /\ leaf \in 1..Len(en) /\ en[leaf] = es[n] /\ (\A k \in DOMAIN rs : k < leaf)
        /\ ~Rowed(es, rs, n)
    BY <1>4, <1>6, <1>9, <1>13 DEF UnderWay
  <2>2. dup = 0 /\ ~Refused(rs, leaf, es[n], 0)
    BY <1>4, <1>6, <1>9, <2>1, WaitedIsNew
  <2>3. PICK qs : qs = Upsert(rs, leaf, es[n], 0)
    OBVIOUS
  <2>4. copy' = [stage |-> copy.stage, entries |-> en, rows |-> qs, keys |-> copy.keys,
                 store |-> copy.store, tasks |-> us, killed |-> copy.killed]
    <3>1. copy' = [copy EXCEPT !.tasks[n].stage = "acked", !.rows = qs]
      BY <1>1, <1>10, <1>13, <2>2, <2>3
    <3>2. QED
      BY <1>1, <1>11, <3>1 DEF CopyRecord
  <2>5. \A m \in 1..(n - 1) : Rowed(es, rs, m)
    BY <1>4, <1>7 DEF UnderWay
  <2>6. Recorded(es, en, qs)
    BY <1>4, <1>6, <2>1, <2>3, <2>5, WaitedIsRecorded
  <2>7. UnderWay(es, en, qs, us)
    <3>1. UnderWay(es, en, Upsert(rs, ts[n].leaf, es[n], 0), [ts EXCEPT ![n].stage = "acked"])
      BY <1>4, <1>6, <1>7, <1>13, WaitedGoesOn
    <3>2. QED
      BY <1>9, <1>11, <2>3, <3>1
  <2>8. QED
    BY <1>3, <1>4, <2>4, <2>6, <2>7 DEF Copied, CopyRecord
<1>14. QED
  BY <1>6, <1>10, <1>12, <1>13 DEF Waiting

LEMMA EndedIsCopied ==
    ASSUME NEW es, EachOnce(es), CopyRecord(copy), Copied(copy, es), Carries(file, es),
           ImportEnd \/ ImportKilled
    PROVE  /\ Copied(copy', es) /\ CopyRecord(copy') /\ copy'.stage \in {"closed", "done"}
           /\ copy.stage = "open" /\ copy'.keys = copy.keys /\ copy'.store = copy.store
<1>1. PICK en, rs, ts : en = copy.entries /\ rs = copy.rows /\ ts = copy.tasks
  OBVIOUS
<1>2. copy.stage = "open"
  BY DEF ImportEnd, ImportKilled
<1>3. /\ Arrived(es, en) /\ Recorded(es, en, rs) /\ UnderWay(es, en, rs, ts)
      /\ ts \in Seq(Waiting) /\ Len(es) \in Nat /\ \A k \in DOMAIN rs : rs[k].duplicateOf = 0
  <2>1. Arrived(es, en) /\ Recorded(es, en, rs) /\ UnderWay(es, en, rs, ts)
    BY <1>1, <1>2 DEF Copied
  <2>2. QED
    BY <2>1 DEF UnderWay, EachOnce
<1>4. CASE ImportEnd
  <2>1. /\ Len(ts) = Len(es) /\ \A n \in DOMAIN ts : ts[n].stage = "acked"
        /\ copy' = [copy EXCEPT !.stage = "done", !.tasks = << >>]
    BY <1>1, <1>4 DEF ImportEnd, Carries
  <2>2. copy' = [stage |-> "done", entries |-> en, rows |-> rs, keys |-> copy.keys,
                 store |-> copy.store, tasks |-> << >>, killed |-> copy.killed]
    BY <1>1, <2>1 DEF CopyRecord
  <2>3. ASSUME NEW n \in 1..Len(es) PROVE Rowed(es, rs, n)
    <3>1. n \in 1..Len(ts) /\ ts[n].stage = "acked"
      BY <1>3, <2>1
    <3>2. QED
      BY <1>3, <3>1 DEF UnderWay
  <2>4. QED
    BY <1>2, <1>3, <2>2, <2>3 DEF Copied, CopyRecord
<1>5. CASE ImportKilled
  <2>1. PICK kd : kd = copy.killed + 1
    OBVIOUS
  <2>2. copy' = [copy EXCEPT !.stage = "closed", !.tasks = << >>, !.killed = kd]
    BY <1>5, <2>1 DEF ImportKilled
  <2>3. copy' = [stage |-> "closed", entries |-> en, rows |-> rs, keys |-> copy.keys,
                 store |-> copy.store, tasks |-> << >>, killed |-> kd]
    BY <1>1, <2>2 DEF CopyRecord
  <2>4. UnderWay(es, en, rs, << >>)
    BY <1>3, NothingUnderWay
  <2>5. QED
    BY <1>2, <1>3, <2>3, <2>4 DEF Copied, CopyRecord
<1>6. QED
  BY <1>4, <1>5

\* The header's keys are registered, and an address of its tokens holds a blob.
LEMMA OpenedIsCopied ==
    ASSUME NEW es, EachOnce(es), CopyRecord(copy), Copied(copy, es), ImportOpen
    PROVE  /\ Copied(copy', es) /\ CopyRecord(copy') /\ copy'.stage = "open"
           /\ file # << >> /\ Verified(file) /\ DOMAIN file[1].keys \subseteq copy'.keys
           /\ DOMAIN file[1].tokens \subseteq DOMAIN copy'.store
<1>1. PICK en, rs, ts : en = copy.entries /\ rs = copy.rows /\ ts = copy.tasks
  OBVIOUS
<1>2. PICK ks, bs : /\ ks = copy.keys \union {CopyKey} \union DOMAIN file[1].keys
                    /\ bs = [r \in (DOMAIN copy.store) \union DOMAIN file[1].tokens |->
                                IF r \in DOMAIN copy.store THEN copy.store[r] ELSE file[1].tokens[r]]
  OBVIOUS
<1>3. /\ copy.stage = "closed" /\ file # << >> /\ Verified(file)
      /\ copy' = [copy EXCEPT !.stage = "open", !.keys = ks, !.store = bs]
  BY <1>2 DEF ImportOpen
<1>4. copy' = [stage |-> "open", entries |-> en, rows |-> rs, keys |-> ks,
               store |-> bs, tasks |-> ts, killed |-> copy.killed]
  BY <1>1, <1>3 DEF CopyRecord
<1>5. Arrived(es, en) /\ Recorded(es, en, rs) /\ UnderWay(es, en, rs, ts)
  BY <1>1, <1>3 DEF Copied
<1>6. DOMAIN file[1].keys \subseteq ks /\ DOMAIN file[1].tokens \subseteq DOMAIN bs
  BY <1>2
<1>7. QED
  BY <1>3, <1>4, <1>5, <1>6 DEF Copied, CopyRecord

LEMMA ReindexedIsCopied ==
    ASSUME NEW es, EachOnce(es), CopyRecord(copy), Copied(copy, es), ImportReindex
    PROVE  /\ Copied(copy', es) /\ CopyRecord(copy') /\ copy'.stage = copy.stage
           /\ copy'.keys = copy.keys \ {CopyKey} /\ copy'.store = copy.store
<1>1. PICK en, rs, ts : en = copy.entries /\ rs = copy.rows /\ ts = copy.tasks
  OBVIOUS
<1>2. PICK rr : rr = Replay(<< >>, en, 1, Len(en)).rows
  OBVIOUS
<1>3. copy.stage = "done" /\ copy' = [copy EXCEPT !.rows = rr, !.keys = copy.keys \ {CopyKey}]
  BY <1>1, <1>2 DEF ImportReindex
<1>4. copy' = [stage |-> "done", entries |-> en, rows |-> rr, keys |-> copy.keys \ {CopyKey},
               store |-> copy.store, tasks |-> ts, killed |-> copy.killed]
  BY <1>1, <1>3 DEF CopyRecord
<1>5. Arrived(es, en) /\ Recorded(es, en, rs) /\ \A n \in 1..Len(es) : Rowed(es, rs, n)
  BY <1>1, <1>3 DEF Copied
<1>6. \A n \in 1..Len(es) : \E q \in 1..Len(en) : en[q] = es[n]
  BY <1>5, RowedArrived DEF Recorded
<1>7. Recorded(es, en, rr) /\ \A n \in 1..Len(es) : Rowed(es, rr, n)
  BY <1>2, <1>5, <1>6, ReindexedIsRecorded
<1>8. Copied(copy', es)
  BY <1>4, <1>5, <1>7 DEF Copied
<1>9. CopyRecord(copy')
  BY <1>4 DEF CopyRecord
<1>10. QED
  BY <1>3, <1>4, <1>8, <1>9

-----------------------------------------------------------------------------
(* The export of an imported log. *)

\* What grows through all of S is S in order.
LEMMA OrderIs ==
    ASSUME NEW S \in SUBSET Nat, NEW N \in Nat, NEW p \in [1..N -> S],
           \A k \in S : \E n \in 1..N : p[n] = k,
           \A m, n \in 1..N : m < n => p[m] < p[n]
    PROVE  IsFiniteSet(S) /\ Cardinality(S) = N /\ InOrder(S) = p
<1>1. \A m \in 1..N : p[m] \in S /\ p[m] \in Nat
  OBVIOUS
<1>2. \A m, n \in 1..N : p[m] = p[n] => m = n
  <2> TAKE m \in 1..N, n \in 1..N
  <2>1. m < n => p[m] # p[n]
    BY <1>1
  <2>2. n < m => p[n] # p[m]
    BY <1>1
  <2>3. QED
    BY <2>1, <2>2
<1>3. \A m, n \in 1..N : p[m] <= p[n] <=> m <= n
  <2> TAKE m \in 1..N, n \in 1..N
  <2>1. m < n => p[m] < p[n]
    OBVIOUS
  <2>2. n < m => p[n] < p[m]
    OBVIOUS
  <2>3. QED
    BY <1>1, <2>1, <2>2
<1>4. p \in Bijection(1..N, S)
  BY <1>2 DEF Bijection, Injection, Surjection, IsInjective
<1>5. IsFiniteSet(S) /\ Cardinality(S) = N
  <2>1. ExistsBijection(1..N, S)
    BY <1>4 DEF ExistsBijection
  <2>2. Cardinality(S) = N
    BY <2>1, FS_CountingElements
  <2>3. IsFiniteSet(S)
    <3>1. IsFiniteSet(1..N)
      BY FS_Interval
    <3>2. p \in Surjection(1..N, S)
      BY <1>4 DEF Bijection
    <3>3. QED
      BY <3>1, <3>2, FS_Surjection
  <2>4. QED
    BY <2>2, <2>3
<1>6. ASSUME NEW n \in 1..N
      PROVE  Cardinality({j \in S : j <= p[n]}) = n
  <2> DEFINE B == {j \in S : j <= p[n]}
             q == [m \in 1..n |-> p[m]]
  <2>1. \A m \in 1..n : m \in 1..N /\ p[m] \in B
    BY <1>1, <1>3
  <2>2. \A k \in B : \E m \in 1..n : q[m] = k
    <3> TAKE k \in B
    <3>1. PICK m \in 1..N : p[m] = k
      OBVIOUS
    <3>2. m \in 1..n
      BY <1>3, <3>1
    <3>3. QED
      BY <3>1, <3>2
  <2>3. \A l, m \in 1..n : q[l] = q[m] => l = m
    BY <1>2, <2>1
  <2> HIDE DEF B
  <2>4. q \in [1..n -> B]
    BY <2>1
  <2> HIDE DEF q
  <2>5. q \in Bijection(1..n, B)
    BY <2>2, <2>3, <2>4 DEF Bijection, Injection, Surjection, IsInjective
  <2>6. ExistsBijection(1..n, B) /\ n \in Nat
    BY <2>5 DEF ExistsBijection
  <2>7. Cardinality(B) = n
    BY <2>6, FS_CountingElements
  <2>8. QED
    BY <2>7 DEF B
<1> DEFINE rank(k) == Cardinality({j \in S : j <= k})
<1>7. \A k \in S : \E m \in 1..N : p[m] = k /\ rank(k) = m
  BY <1>6
<1>8. \A n \in 1..N : p[n] \in S /\ rank(p[n]) = n
  BY <1>1, <1>6
<1> HIDE DEF rank
<1>9. ASSUME NEW n \in 1..N PROVE (CHOOSE k \in S : rank(k) = n) = p[n]
  <2>1. \A k \in S : rank(k) = n => k = p[n]
    BY <1>7
  <2>2. QED
    BY <1>8, <2>1
<1>10. InOrder(S) = [n \in 1..N |-> CHOOSE k \in S : rank(k) = n]
  BY <1>5 DEF InOrder, rank
<1>11. QED
  BY <1>5, <1>9, <1>10

\* In a directory nobody touched the reader finds the entry at k.
LEMMA FetchedIsLogged ==
    ASSUME NEW S, NEW entries \in Seq(S), NEW k \in 1..Len(entries)
    PROVE  Fetched(Tiles(entries), Len(entries), k) = entries[k]
<1> DEFINE L == Len(entries)
           W == TileWidth
           b == TileOf(k)
           j == PlaceOf(k)
           w == Needed(L, b)
           m == b * W
           data == SubSeq(entries, m + 1, m + w)
<1>1. W \in Nat \ {0} /\ L \in Nat /\ k \in Nat \ {0} /\ k - 1 \in 0..(L - 1)
  BY TileAssumption
<1>2. b \in Nat /\ j \in 1..W /\ m \in Nat /\ m = W * b /\ k = m + j
  <2>1. b \in Nat /\ j \in 1..W /\ W * b \in Nat /\ k = W * b + j
    BY <1>1, PlaceInTile
  <2>2. b * W = W * b
    BY <1>1, <2>1
  <2>3. QED
    BY <2>1, <2>2
<1>3. w \in Int /\ w <= W /\ \A u \in 1..W : W * b + u <= L <=> u <= w
  BY <1>1, <1>2, NeededIs
<1>4. j \in 1..w /\ w \in 1..W
  BY <1>1, <1>2, <1>3
<1>5. m + w <= L
  BY <1>2, <1>3, <1>4
<1>6. b \in DOMAIN Tiles(entries) /\ Tiles(entries)[b] = [v \in 1..w |-> SubSeq(entries, m + 1, m + v)]
  <2>1. b = (k - 1) \div W
    BY DEF TileOf
  <2>2. b \in {n \div W : n \in 0..(L - 1)}
    BY <1>1, <2>1
  <2>3. Tiles(entries) = [c \in {n \div W : n \in 0..(L - 1)} |->
                            [v \in 1..Needed(L, c) |-> SubSeq(entries, c * W + 1, c * W + v)]]
    BY DEF Tiles, Needed
  <2> HIDE DEF b, w
  <2>4. QED
    BY <2>2, <2>3 DEF w
<1>7. Widths(Tiles(entries), b) = 1..w
  BY <1>6 DEF Widths
<1> HIDE DEF L, W, b, j, w, m
<1>8. data[j] = entries[k] /\ j \in DOMAIN data
  <2>1. m + 1 \in 1..(L + 1) /\ m + w \in m..L /\ (m + w) - (m + 1) + 1 = w
    BY <1>1, <1>2, <1>4, <1>5
  <2>2. Len(data) = w /\ DOMAIN data = 1..w
    BY <1>1, <1>2, <1>4, <1>5, <2>1 DEF L
  <2>3. data[j] = entries[m + 1 + j - 1]
    BY <1>1, <1>2, <1>4, <1>5, <2>1 DEF L
  <2>4. m + 1 + j - 1 = k
    BY <1>2, <1>4, <1>1
  <2>5. QED
    BY <1>4, <2>2, <2>3, <2>4
<1>9. Tiles(entries)[b][w] = data
  <2>1. w \in 1..w
    BY <1>1, <1>4
  <2>2. QED
    BY <2>1, <1>6
<1>10. w \in Widths(Tiles(entries), b)
  BY <1>1, <1>4, <1>7
<1> HIDE DEF data
<1>11. Fetched(Tiles(entries), L, k) = IF j \in DOMAIN data THEN data[j] ELSE Unframed
  BY <1>9, <1>10 DEF Fetched, TileOf, PlaceOf, b, j, w, W
<1>12. QED
  BY <1>8, <1>11 DEF L

\* The rows of the run are those the receipts of the export are read from.
LEMMA RunIsRecorded ==
    ASSUME NEW es, EachOnce(es), NEW en, Arrived(es, en), NEW rs, Recorded(es, en, rs),
           \A n \in 1..Len(es) : Rowed(es, rs, n), NEW run, \A n \in 1..Len(es) : RunOf(es[n]) = run
    PROVE  /\ RunRows(rs, run) \subseteq DOMAIN rs
           /\ EnvsAt(rs, RunRows(rs, run)) = es
           /\ EnvsOf(rs, RunRows(rs, run)) = {es[n] : n \in 1..Len(es)}
           /\ Len(es) # 0 => RunRows(rs, run) # {}
<1> DEFINE R == RunRows(rs, run)
           N == Len(es)
           p == [n \in 1..N |-> CHOOSE k \in DOMAIN rs : RowAt(es, rs, k, n)]
<1>1. N \in Nat /\ es \in Seq(Envelopes) /\ RowsOf(rs, en)
  BY DEF EachOnce, Recorded
<1>2. ASSUME NEW n \in 1..N PROVE p[n] \in DOMAIN rs /\ RowAt(es, rs, p[n], n)
  <2>1. \E k \in DOMAIN rs : RowAt(es, rs, k, n)
    BY DEF Rowed
  <2>2. QED
    BY <2>1
<1> HIDE DEF p
<1>3. \A n \in 1..N : p[n] \in R
  BY <1>2 DEF RowAt, RunRows
<1>4. ASSUME NEW k \in R PROVE \E n \in 1..N : p[n] = k
  <2>1. k \in DOMAIN rs /\ rs[k].duplicateOf = 0
    BY DEF RunRows
  <2>2. PICK n \in 1..N : rs[k].env = es[n]
    BY <1>1, <2>1, RowOfExport
  <2>3. p[n] = k
    <3>1. p[n] \in DOMAIN rs /\ rs[p[n]].duplicateOf = 0 /\ rs[p[n]].env = es[n]
      BY <1>2 DEF RowAt
    <3>2. QED
      BY <1>1, <2>1, <2>2, <3>1 DEF RowsOf
  <2>4. QED
    BY <2>3
<1>5. ASSUME NEW m \in 1..N, NEW n \in 1..N, m < n PROVE p[m] < p[n]
  <2>1. m \in 1..(n - 1)
    BY <1>1, <1>5
  <2>2. RowAt(es, rs, p[m], m) /\ RowAt(es, rs, p[n], n) /\ p[m] \in DOMAIN rs /\ p[n] \in DOMAIN rs
    BY <1>2
  <2>3. QED
    BY <2>1, <2>2 DEF Recorded
<1>6. R \subseteq DOMAIN rs /\ R \in SUBSET Nat
  <2>1. R \subseteq DOMAIN rs
    BY DEF RunRows
  <2>2. \A k \in DOMAIN rs : k \in Nat
    BY <1>1, RowOfExport
  <2>3. QED
    BY <2>1, <2>2
<1>7. p \in [1..N -> R]
  BY <1>3 DEF p
<1> HIDE DEF R
<1>8. Cardinality(R) = N /\ InOrder(R) = p
  BY <1>1, <1>4, <1>5, <1>6, <1>7, OrderIs
<1>9. \A n \in 1..N : rs[p[n]].env = es[n]
  BY <1>2 DEF RowAt
<1>10. EnvsAt(rs, R) = es
  <2>1. EnvsAt(rs, R) = [n \in 1..N |-> es[n]]
    BY <1>8, <1>9 DEF EnvsAt
  <2>2. QED
    BY <1>1, <2>1
<1>11. EnvsOf(rs, R) = {es[n] : n \in 1..N}
  <2>1. \A k \in R : \E n \in 1..N : rs[k].env = es[n]
    BY <1>4, <1>9
  <2>2. \A n \in 1..N : p[n] \in R /\ rs[p[n]].env = es[n]
    BY <1>3, <1>9 DEF R
  <2>3. QED
    BY <2>1, <2>2 DEF EnvsOf
<1>12. N # 0 => R # {}
  <2>1. N # 0 => 1 \in 1..N
    BY <1>1
  <2>2. QED
    BY <1>7, <2>1
<1>13. QED
  BY <1>6, <1>10, <1>11, <1>12 DEF R

-----------------------------------------------------------------------------
(* What the export carries. *)

Carried == Payloads(Leaves(original))

\* The export of the receipts es, once each, with their signers' keys and
\* tokens of theirs.
Sent(es, ks, ts) ==
    /\ Exported(original, es, ks, ts, CpKey) /\ EachOnce(es) /\ Carried = es
    /\ \A r \in ts : \E n \in 1..Len(es) : r \in TokensOf(es[n])

LEMMA OriginalIsSent ==
    InputOK /\ WalkInv /\ OriginalInv => (original # << >> => \E es, ks, ts : Sent(es, ks, ts))
<1> SUFFICES ASSUME InputOK, WalkInv, OriginalInv, original # << >>
             PROVE  \E es, ks, ts : Sent(es, ks, ts)
  OBVIOUS
<1>1. PICK run \in Runs, ks \in SUBSET (Signers \cup {CpKey}) : WrittenFrom(run, ks)
  BY DEF OriginalInv
<1>2. PICK R, es, ts : /\ R = RunRows(table, run) /\ es = EnvsAt(table, R)
                       /\ ts = Gathered(EnvsOf(table, R), store)
  OBVIOUS
<1>3. Exported(original, es, ks, ts, CpKey)
  BY <1>1, <1>2 DEF WrittenFrom
<1>4. RowsOf(table, leaves) /\ leaves \in Seq(Envelopes)
  BY TableRows DEF InputOK, WalkInv, WalkRange
<1>5. R \in SUBSET DOMAIN table /\ \A k \in R : table[k].duplicateOf = 0 /\ RunOf(table[k].env) = run
  BY <1>2 DEF RunRows
<1>6. PICK N \in Nat : N = Len(es) /\ N = Cardinality(R)
  BY <1>2, <1>4, <1>5, RunRowsListed
<1>7. /\ es \in Seq(Envelopes) /\ InOrder(R) \in [1..N -> R]
      /\ R \in SUBSET Nat /\ IsFiniteSet(R)
  BY <1>2, <1>4, <1>5, <1>6, RunRowsListed
<1>8. /\ \A k \in R : \E n \in 1..N : InOrder(R)[n] = k
      /\ \A m, n \in 1..N : m < n => InOrder(R)[m] < InOrder(R)[n]
  BY <1>6, <1>7, InOrderLists
<1>9. \A n \in 1..N : InOrder(R)[n] \in R /\ es[n] = table[InOrder(R)[n]].env
  BY <1>2, <1>6, <1>7 DEF EnvsAt
<1>10. ASSUME NEW m \in 1..N, NEW n \in 1..N, ReceiptOf[es[m]] = ReceiptOf[es[n]] PROVE m = n
  <2>1. InOrder(R)[m] = InOrder(R)[n]
    <3>1. PICK k \in R, l \in R : k = InOrder(R)[m] /\ l = InOrder(R)[n]
      BY <1>9
    <3>2. ReceiptOf[table[k].env] = ReceiptOf[table[l].env]
      BY <1>9, <1>10, <3>1
    <3>3. k = l
      BY <1>4, <1>5, <3>2 DEF RowsOf
    <3>4. QED
      BY <3>1, <3>3
  <2>2. InOrder(R)[m] \in Nat
    BY <1>7, <1>9
  <2>3. ~(m < n) /\ ~(n < m)
    BY <1>8, <2>1, <2>2
  <2>4. QED
    BY <2>3
<1>11. EachOnce(es)
  <2>1. \A n \in 1..N : RunOf(es[n]) = run
    BY <1>5, <1>9
  <2>2. QED
    BY <1>6, <1>7, <1>10, <2>1 DEF EachOnce
<1>12. Carried = es
  <2>1. Leaves(original) = [n \in 1..N |-> Leaf(n - 1, es[n], SignerOf(es[n]), <<SignerOf(es[n]), es[n]>>)]
    BY <1>3, <1>6, ExportedLines
  <2>2. Carried = [n \in 1..N |-> es[n]]
    BY <2>1 DEF Carried, Payloads, Leaf
  <2>3. es = [n \in 1..N |-> es[n]]
    <3>1. \A q \in Seq(Envelopes) : q = [n \in 1..Len(q) |-> q[n]]
      OBVIOUS
    <3>2. QED
      BY <1>6, <1>7, <3>1
  <2> HIDE DEF Carried
  <2>4. QED
    BY <2>2, <2>3
<1>13. ASSUME NEW r \in ts PROVE \E n \in 1..N : r \in TokensOf(es[n])
  <2>1. PICK e \in EnvsOf(table, R) : r \in TokensOf(e)
    BY <1>2 DEF Gathered
  <2>2. PICK k \in R : e = table[k].env
    BY DEF EnvsOf
  <2>3. PICK n \in 1..N : InOrder(R)[n] = k
    BY <1>8
  <2>4. QED
    BY <1>9, <2>1, <2>2, <2>3
<1>14. Sent(es, ks, ts)
  BY <1>3, <1>6, <1>11, <1>12, <1>13 DEF Sent
<1>15. QED
  BY <1>14

\* Exports list every receipt once.
OnceInv == original # << >> => EachOnce(Carried)

LEMMA OnceHolds == EvidenceSpec => []OnceInv
<1>1. InputOK /\ WalkInv /\ OriginalInv => OnceInv
  BY OriginalIsSent DEF OnceInv, Sent
<1>2. QED
  BY <1>1, WalkHolds, FileHolds, PTL

-----------------------------------------------------------------------------
(* The header, and the leaves of a file that is accepted. *)

LEMMA WrittenTokens ==
    ASSUME NEW f, NEW es, NEW ks, NEW ts, Exported(f, es, ks, ts, CpKey)
    PROVE  TokensKept(f, DOMAIN f[1].tokens)
<1> DEFINE N == Len(es)
<1>1. N \in Nat
  BY ExportedLines
<1>2. N + 2 \in Nat /\ f = [n \in 1..(N + 2) |-> f[n]]
  BY <1>1 DEF Exported
<1>3. ASSUME NEW n \in DOMAIN f, f[n].kind = "header" PROVE n = 1
  <2>1. n = 1 \/ n = N + 2 \/ (n - 1 \in 1..N /\ n = 1 + (n - 1))
    BY <1>1, <1>2
  <2>2. n # N + 2
    BY <1>3 DEF Exported, HeadLine
  <2>3. ASSUME NEW m \in 1..N, n = 1 + m PROVE FALSE
    <3>1. f[n] = Leaf(m - 1, es[m], SignerOf(es[m]), <<SignerOf(es[m]), es[m]>>)
      BY <2>3 DEF Exported
    <3>2. QED
      BY <1>3, <3>1 DEF Leaf
  <2>4. QED
    BY <2>1, <2>2, <2>3
<1>4. PICK S : S = {f[n] : n \in DOMAIN f}
  OBVIOUS
<1>5. f \in Seq(S)
  BY <1>2, <1>4
<1>6. \A l \in S : l.kind = "header" => DOMAIN l.tokens \subseteq DOMAIN f[1].tokens
  BY <1>3, <1>4
<1>7. QED
  BY <1>5, <1>6 DEF TokensKept

LEMMA HeaderHolds == EvidenceSpec => []HeaderInv
<1>1. EvidenceInit => HeaderInv
  <2> SUFFICES ASSUME EvidenceInit PROVE HeaderInv
    OBVIOUS
  <2>1. file = << >> /\ strikes = 0
    BY DEF EvidenceInit
  <2>2. \A ts : TokensKept(<< >>, ts)
    <3> TAKE ts
    <3>1. PICK S : S = {}
      OBVIOUS
    <3>2. << >> \in Seq(S) /\ \A l \in S : l.kind = "header" => DOMAIN l.tokens \subseteq ts
      BY <3>1
    <3>3. QED
      BY Zenon, <3>2 DEF TokensKept
  <2>3. QED
    BY <2>1, <2>2 DEF HeaderInv
<1>2. HeaderInv /\ StrikeInv /\ (OriginalInv /\ FileInv) /\ (OriginalInv /\ FileInv)' /\ [EvidenceNext]_evars
         => HeaderInv'
  <2> SUFFICES ASSUME HeaderInv, StrikeInv, OriginalInv, FileInv, OriginalInv', [EvidenceNext]_evars
               PROVE  HeaderInv'
    OBVIOUS
  <2>1. CASE \E run \in Runs : Export(run)
    <3>1. original = << >> /\ file' = original' /\ file' # << >> /\ strikes' = strikes
      BY Zenon, <2>1 DEF Export, fileVars
    <3>2. strikes' = 0
      BY <3>1 DEF StrikeInv
    <3>3. PICK es, ks, ts : Exported(original', es, ks, ts, CpKey)
      BY <3>1 DEF OriginalInv, WrittenFrom
    <3>4. PICK f : f = original'
      OBVIOUS
    <3>5. TokensKept(f, DOMAIN f[1].tokens)
      BY <3>3, <3>4, WrittenTokens
    <3>6. QED
      BY <3>1, <3>2, <3>4, <3>5 DEF HeaderInv
  <2>2. CASE UNCHANGED <<file, original, strikes>>
    BY <2>2 DEF HeaderInv
  <2>3. CASE Lose \/ Cut \/ Swap \/ Repeat \/ Change
    <3>1. file # << >> /\ strikes' = strikes + 1 /\ original' = original
      BY <2>3 DEF Lose, Cut, Swap, Repeat, Change, Strike
    <3>2. original # << >> /\ strikes \in Nat
      BY <3>1 DEF FileInv, StrikeInv
    <3>3. TokensKept(file', DOMAIN original[1].tokens)
      <4>1. PICK ts, hd : ts = DOMAIN original[1].tokens /\ hd = Last(original).head
        OBVIOUS
      <4>2. TokensKept(file, ts) /\ Lines(file, hd)
        BY <4>1 DEF HeaderInv, FileInv
      <4>3. TokensKept(file', ts)
        BY <2>3, <4>2, StruckTokens
      <4>4. QED
        BY <4>1, <4>3
    <3>4. CASE strikes # 0
      BY <3>1, <3>2, <3>3, <3>4 DEF HeaderInv
    <3>5. CASE strikes = 0
      <4>1. file = original
        BY <3>5 DEF StrikeInv
      <4>2. PICK es, ks, ts : Exported(file, es, ks, ts, CpKey)
        BY <3>2, <4>1 DEF OriginalInv, WrittenFrom
      <4>3. Spared(file', file)
        BY <2>3, <4>2, OneChangeSpares
      <4>4. QED
        BY <3>1, <3>3, <4>1, <4>3 DEF HeaderInv
    <3>6. QED
      BY <3>4, <3>5
  <2>4. QED
    BY <2>1, <2>2, <2>3, FileMoves
<1>3. QED
  BY <1>1, <1>2, FileHolds, StrikesCount, PTL DEF EvidenceSpec

\* The keys of the file an import reads are the writer's, or the file was
\* changed at most once.
KeysKnown == copy.stage = "open" => DOMAIN file[1].keys \subseteq DOMAIN original[1].keys \/ strikes <= 1

LEMMA AcceptedLeaves ==
    ASSUME OriginalInv, FileInv, StrikeInv, HeaderInv, file # << >>, Verified(file),
           DOMAIN file[1].keys \subseteq DOMAIN original[1].keys \/ strikes <= 1
    PROVE  Leaves(file) = Leaves(original)
<1>1. CASE DOMAIN file[1].keys \subseteq DOMAIN original[1].keys
  BY <1>1, AcceptedIsWhole DEF FileVerifiedIsWhole
<1>2. CASE strikes = 0
  BY <1>2 DEF StrikeInv
<1>3. CASE strikes = 1
  <2>1. Spared(file, original) /\ file[1].kind = "header"
    BY <1>3, VerifiedMeans DEF HeaderInv, Readable
  <2>2. file[1] = original[1] \/ Leaves(file) = Leaves(original)
    BY <2>1 DEF Spared
  <2>3. QED
    BY <1>1, <2>2
<1>4. QED
  <2>1. strikes <= 1 => strikes = 0 \/ strikes = 1
    BY DEF StrikeInv
  <2>2. QED
    BY <1>1, <1>2, <1>3, <2>1

-----------------------------------------------------------------------------
(* The import. *)

\* A log begins to be imported when there is an export; while an import has
\* the file, and when it is done, the log holds of the export's receipts what
\* Copied says, and of its header the keys and the addresses.
CopyInv ==
    /\ CopyRecord(copy)
    /\ original = << >> => /\ copy.stage = "closed" /\ copy.entries = << >>
                           /\ copy.rows = << >> /\ copy.tasks = << >>
    /\ original # << >> => Copied(copy, Carried)
    /\ copy.stage \in {"closed", "open", "done"}
    /\ copy.stage # "closed" => /\ file # << >> /\ Verified(file) /\ Leaves(file) = Leaves(original)
                                /\ DOMAIN file[1].keys \subseteq copy.keys \cup {CopyKey}
                                /\ DOMAIN file[1].tokens \subseteq DOMAIN copy.store

LEMMA InitCopied == EvidenceInit => CopyInv
<1> SUFFICES ASSUME EvidenceInit PROVE CopyInv
  OBVIOUS
<1>1. PICK blobs : copy = NoCopy(blobs)
  BY DEF EvidenceInit
<1>2. copy = [stage |-> "closed", entries |-> << >>, rows |-> << >>, keys |-> {}, store |-> blobs,
              tasks |-> << >>, killed |-> 0]
  BY <1>1 DEF NoCopy
<1>3. CopyRecord(copy)
  BY <1>2 DEF CopyRecord
<1>4. original = << >>
  BY DEF EvidenceInit
<1>5. QED
  BY <1>2, <1>3, <1>4 DEF CopyInv

\* A step writes the export, moves an import, or leaves it alone.
LEMMA CopySteps ==
    ASSUME [EvidenceNext]_evars
    PROVE  \/ \E run \in Runs : Export(run)
           \/ /\ ImportOpen \/ ImportBegin \/ ImportIntegrate \/ ImportWait \/ ImportEnd
                 \/ ImportKilled \/ ImportReindex
              /\ UNCHANGED <<file, original, strikes>>
           \/ UNCHANGED copy /\ UNCHANGED original /\ (copy.stage = "closed" \/ UNCHANGED file)
<1>1. CASE \E k \in Signers : (Play.keyed /\ RegisterKey(k)) \/ RegisterTorn(k)
  BY <1>1 DEF RegisterKey, RegisterTorn, fileVars
<1>2. CASE DropIndex \/ Reindex \/ OpenLog \/ Catch
  BY <1>2 DEF DropIndex, Reindex, OpenLog, Catch, fileVars
<1>3. CASE Rot \/ Restore \/ Rewrite \/ Prune
  BY <1>3 DEF Rot, Restore, Rewrite, Prune, fileVars
<1>4. CASE ImportOpen \/ ImportBegin \/ ImportIntegrate \/ ImportWait \/ ImportEnd
           \/ ImportKilled \/ ImportReindex
  <2>1. UNCHANGED fileVars
    BY <1>4 DEF ImportOpen, ImportBegin, ImportIntegrate, ImportWait, ImportEnd,
                ImportKilled, ImportReindex
  <2>2. QED
    BY <1>4, <2>1 DEF fileVars
<1>5. CASE UNCHANGED evars
  BY <1>5 DEF evars, fileVars
<1>6. CASE Lose \/ Cut \/ Swap \/ Repeat \/ Change
  BY <1>6 DEF Lose, Cut, Swap, Repeat, Change, Strike
<1>7. QED
  BY <1>1, <1>2, <1>3, <1>4, <1>5, <1>6 DEF EvidenceNext

LEMMA ImportGoesOn ==
    ASSUME OriginalInv, FileInv, StrikeInv, HeaderInv, OnceInv, CopyInv, KeysKnown',
           ImportOpen \/ ImportBegin \/ ImportIntegrate \/ ImportWait \/ ImportEnd
              \/ ImportKilled \/ ImportReindex,
           UNCHANGED <<file, original, strikes>>
    PROVE  CopyInv'
<1>1. original # << >>
  <2>1. CASE ImportOpen
    <3>1. file # << >>
      BY <2>1 DEF ImportOpen
    <3>2. QED
      BY <3>1 DEF FileInv
  <2>2. CASE ImportBegin \/ ImportIntegrate \/ ImportWait \/ ImportEnd \/ ImportKilled \/ ImportReindex
    <3>1. copy.stage # "closed"
      BY <2>2 DEF ImportBegin, ImportIntegrate, ImportWait, ImportEnd, ImportKilled, ImportReindex
    <3>2. QED
      BY <3>1 DEF CopyInv
  <2>3. QED
    BY <2>1, <2>2
<1>2. PICK es : es = Carried /\ EachOnce(es) /\ Copied(copy, es)
  BY <1>1 DEF OnceInv, CopyInv
<1>3. CopyRecord(copy) /\ UNCHANGED <<file, original, Carried>>
  BY DEF CopyInv, Carried
<1>4. Leaves(file) = Leaves(original) => Carries(file, es)
  BY <1>2 DEF Carried, Payloads, Carries
<1>5. CASE ImportOpen
  <2>1. /\ Copied(copy', es) /\ CopyRecord(copy') /\ copy'.stage = "open"
        /\ file # << >> /\ Verified(file) /\ DOMAIN file[1].keys \subseteq copy'.keys
        /\ DOMAIN file[1].tokens \subseteq DOMAIN copy'.store
    BY <1>2, <1>3, <1>5, OpenedIsCopied
  <2>2. DOMAIN file[1].keys \subseteq DOMAIN original[1].keys \/ strikes <= 1
    BY <2>1 DEF KeysKnown
  <2>3. Leaves(file) = Leaves(original)
    BY <2>1, <2>2, AcceptedLeaves
  <2>4. QED
    BY <1>1, <1>2, <1>3, <2>1, <2>3 DEF CopyInv
<1>6. CASE ImportBegin \/ ImportIntegrate \/ ImportWait
  <2>1. copy.stage # "closed"
    BY <1>6 DEF ImportBegin, ImportIntegrate, ImportWait
  <2>2. /\ file # << >> /\ Verified(file) /\ Leaves(file) = Leaves(original)
        /\ DOMAIN file[1].keys \subseteq copy.keys \cup {CopyKey}
        /\ DOMAIN file[1].tokens \subseteq DOMAIN copy.store
        /\ copy.stage \in {"closed", "open", "done"}
    BY <2>1 DEF CopyInv
  <2>3. /\ Copied(copy', es) /\ CopyRecord(copy') /\ copy'.stage = copy.stage
        /\ copy'.keys = copy.keys /\ copy'.store = copy.store
    BY <1>2, <1>3, <1>4, <1>6, <2>2, BegunIsCopied, IntegratedIsCopied, WaitedIsCopied
  <2>4. QED
    BY <1>1, <1>2, <1>3, <2>2, <2>3 DEF CopyInv
<1>7. CASE ImportEnd \/ ImportKilled
  <2>1. copy.stage # "closed"
    BY <1>7 DEF ImportEnd, ImportKilled
  <2>2. /\ file # << >> /\ Verified(file) /\ Leaves(file) = Leaves(original)
        /\ DOMAIN file[1].keys \subseteq copy.keys \cup {CopyKey}
        /\ DOMAIN file[1].tokens \subseteq DOMAIN copy.store
    BY <2>1 DEF CopyInv
  <2>3. /\ Copied(copy', es) /\ CopyRecord(copy') /\ copy'.stage \in {"closed", "done"}
        /\ copy'.keys = copy.keys /\ copy'.store = copy.store
    BY <1>2, <1>3, <1>4, <1>7, <2>2, EndedIsCopied
  <2>4. QED
    BY <1>1, <1>2, <1>3, <2>2, <2>3 DEF CopyInv
<1>8. CASE ImportReindex
  <2>1. copy.stage # "closed"
    BY <1>8 DEF ImportReindex
  <2>2. /\ file # << >> /\ Verified(file) /\ Leaves(file) = Leaves(original)
        /\ DOMAIN file[1].keys \subseteq copy.keys \cup {CopyKey}
        /\ DOMAIN file[1].tokens \subseteq DOMAIN copy.store
        /\ copy.stage \in {"closed", "open", "done"}
    BY <2>1 DEF CopyInv
  <2>3. /\ Copied(copy', es) /\ CopyRecord(copy') /\ copy'.stage = copy.stage
        /\ copy'.keys = copy.keys \ {CopyKey} /\ copy'.store = copy.store
    BY <1>2, <1>3, <1>8, ReindexedIsCopied
  <2>4. QED
    BY <1>1, <1>2, <1>3, <2>2, <2>3 DEF CopyInv
<1>9. QED
  BY <1>5, <1>6, <1>7, <1>8

LEMMA CopyGoesOn ==
    ASSUME OriginalInv, FileInv, StrikeInv, HeaderInv, OnceInv, OnceInv', CopyInv, KeysKnown',
           [EvidenceNext]_evars
    PROVE  CopyInv'
<1>1. CASE \E run \in Runs : Export(run)
  <2>1. original = << >> /\ original' # << >> /\ UNCHANGED copy
    BY Zenon, <1>1 DEF Export
  <2>2. EachOnce(Carried')
    BY <2>1 DEF OnceInv
  <2>3. /\ copy.stage = "closed" /\ copy.entries = << >> /\ copy.rows = << >> /\ copy.tasks = << >>
        /\ CopyRecord(copy)
    BY <2>1 DEF CopyInv
  <2>4. Copied(copy, Carried')
    BY <2>2, <2>3, FreshIsCopied
  <2>5. QED
    BY <2>1, <2>3, <2>4 DEF CopyInv
<1>2. CASE /\ ImportOpen \/ ImportBegin \/ ImportIntegrate \/ ImportWait \/ ImportEnd
              \/ ImportKilled \/ ImportReindex
           /\ UNCHANGED <<file, original, strikes>>
  BY <1>2, ImportGoesOn
<1>3. CASE UNCHANGED copy /\ UNCHANGED original /\ (copy.stage = "closed" \/ UNCHANGED file)
  <2>1. UNCHANGED Carried
    BY <1>3 DEF Carried
  <2>2. QED
    BY <1>3, <2>1 DEF CopyInv
<1>4. QED
  BY <1>1, <1>2, <1>3, CopySteps

\* The export of an imported log, once the import is done.
LEMMA ImportedIsTheRun ==
    InputOK /\ WalkInv /\ OriginalInv /\ FileInv /\ HeaderInv /\ OnceInv /\ CopyInv => ImportKeepsRun
<1> SUFFICES ASSUME InputOK, WalkInv, OriginalInv, FileInv, HeaderInv, OnceInv, CopyInv,
                    copy.stage = "done"
             PROVE  ImportKeepsRun
  BY DEF ImportKeepsRun
<1>1. /\ file # << >> /\ Verified(file) /\ Leaves(file) = Leaves(original)
      /\ DOMAIN file[1].keys \subseteq copy.keys \cup {CopyKey}
      /\ DOMAIN file[1].tokens \subseteq DOMAIN copy.store
      /\ original # << >> /\ Copied(copy, Carried)
  BY DEF CopyInv
<1>2. PICK es, ks, ts : Sent(es, ks, ts)
  BY <1>1, OriginalIsSent
<1>3. PICK N \in Nat \ {0} : N = Len(es)
  BY <1>2, ExportedLines DEF Sent
<1>4. /\ Exported(original, es, ks, ts, CpKey) /\ EachOnce(es) /\ Carried = es
      /\ \A n \in 1..N : es[n] \in Envelopes
      /\ Leaves(original) = [n \in 1..N |-> Leaf(n - 1, es[n], SignerOf(es[n]), <<SignerOf(es[n]), es[n]>>)]
  <2>1. Exported(original, es, ks, ts, CpKey) /\ EachOnce(es) /\ Carried = es
    BY <1>2 DEF Sent
  <2>2. QED
    BY <1>3, <2>1, ExportedLines
<1>5. PICK en, rs, run : en = copy.entries /\ rs = copy.rows /\ run = RunOf(es[1])
  OBVIOUS
<1>6. /\ Arrived(es, en) /\ Recorded(es, en, rs) /\ \A n \in 1..N : Rowed(es, rs, n)
      /\ en \in Seq(Envelopes) /\ RowsOf(rs, en)
  BY <1>1, <1>3, <1>4, <1>5 DEF Copied, Arrived, Recorded
<1>7. \A n \in 1..N : RunOf(es[n]) = run
  <2>1. 1 \in 1..N
    BY <1>3
  <2>2. QED
    BY <1>3, <1>4, <1>5, <2>1 DEF EachOnce
<1>8. RunOf(Logged(1)) = run
  <2>1. PICK n \in 1..N : n = 1
    BY <1>3
  <2>2. Leaves(file)[n].payload = es[n]
    BY <1>1, <1>4, <2>1 DEF Leaf
  <2>3. QED
    BY <1>5, <2>1, <2>2 DEF Logged
<1>9. PICK R : R = RunRows(rs, run)
  OBVIOUS
<1>10. /\ R \subseteq DOMAIN rs /\ EnvsAt(rs, R) = es /\ EnvsOf(rs, R) = {es[n] : n \in 1..N}
       /\ R # {}
  BY <1>3, <1>4, <1>6, <1>7, <1>9, RunIsRecorded
<1>11. PICK d, hs, us : /\ d = Directory(Origin, Entries(en), Len(en), CopyKey)
                        /\ hs = copy.keys \cup {CopyKey} /\ us = Gathered(EnvsOf(rs, R), copy.store)
  OBVIOUS
<1>12. PICK again : again = Reexport(run)
  OBVIOUS
<1>13. ExportOf(again, rs, en, d, copy.keys, CopyKey, copy.store, run, R, hs, es, us)
  BY <1>5, <1>6, <1>9, <1>10, <1>11, <1>12 DEF ExportOf, Reexport
<1>14. ASSUME NEW n \in 1..N PROVE SignerOf(es[n]) \in hs
  <2>1. Unsound(Leaves(file), DOMAIN file[1].keys) = {}
    BY <1>1, VerifiedMeans
  <2>2. n \in DOMAIN Leaves(file) /\ Leaves(file)[n].keyid = SignerOf(es[n])
    BY <1>1, <1>4 DEF Leaf
  <2>3. Leaves(file)[n].keyid \in DOMAIN file[1].keys
    BY <2>1, <2>2 DEF Unsound, Signed
  <2>4. QED
    BY <1>1, <1>11, <2>2, <2>3
<1>15. ~Refuses(rs, d, hs, R)
  <2> SUFFICES ASSUME NEW k \in R
               PROVE  /\ ~(k > d.note.size)
                      /\ Fetched(d.entries, d.note.size, k) = Entry(rs[k].env)
                      /\ SignerOf(rs[k].env) \in hs
    BY DEF Refuses
  <2>1. k \in 1..Len(en) /\ rs[k].env = en[k] /\ Len(en) \in Nat
    BY <1>6, <1>10 DEF RowsOf
  <2>2. PICK es2 : es2 = Entries(en)
    OBVIOUS
  <2>3. es2 \in Seq(EntrySet) /\ Len(es2) = Len(en) /\ es2[k] = Entry(en[k])
    BY <1>6, <2>1, <2>2, EntriesOfLog
  <2>4. d.note.size = Len(es2) /\ d.entries = Tiles(es2)
    <3>1. Len(SubSeq(es2, 1, Len(en))) = Len(en)
      BY <2>1, <2>3
    <3>2. QED
      BY <1>11, <2>2, <2>3, <3>1 DEF Directory, Note
  <2>5. Fetched(Tiles(es2), Len(es2), k) = es2[k]
    BY <2>1, <2>3, FetchedIsLogged
  <2>6. rs[k].env \in EnvsOf(rs, R)
    BY DEF EnvsOf
  <2>7. SignerOf(rs[k].env) \in hs
    BY <1>10, <1>14, <2>6
  <2>8. QED
    BY <2>1, <2>3, <2>4, <2>5, <2>7
<1>16. Exported(again, es, hs, us, CopyKey)
  BY <1>10, <1>13, <1>15, ExportIs
<1>17. /\ again # << >> /\ Verified(again) /\ Leaves(again) = Leaves(file)
  <2>1. CopyKey \in hs
    BY <1>11
  <2>2. Verified(again)
    BY <1>3, <1>14, <1>16, <2>1, ExportedPasses
  <2>3. /\ again # << >>
        /\ Leaves(again) = [n \in 1..N |-> Leaf(n - 1, es[n], SignerOf(es[n]), <<SignerOf(es[n]), es[n]>>)]
    BY <1>3, <1>16, ExportedLines
  <2>4. QED
    BY <1>1, <1>4, <2>2, <2>3
<1>18. ASSUME NEW r \in DOMAIN file[1].tokens, copy.store[r] = r
       PROVE  r \in DOMAIN again[1].tokens
  <2>1. DOMAIN again[1].tokens = us
    BY <1>16 DEF Exported, Header, Addressed
  <2>2. DOMAIN original[1].tokens = ts
    BY <1>4 DEF Exported, Header, Addressed
  <2>3. r \in ts
    <3>1. PICK S : file \in Seq(S) /\ \A l \in S : l.kind = "header" => DOMAIN l.tokens \subseteq ts
      BY <2>2 DEF HeaderInv, TokensKept
    <3>2. file[1] \in S
      BY <1>1, <3>1
    <3>3. file[1].kind = "header"
      BY <1>1, VerifiedMeans DEF Readable
    <3>4. QED
      BY <3>1, <3>2, <3>3
  <2>4. PICK n \in 1..N : r \in TokensOf(es[n])
    BY <1>2, <1>3, <2>3 DEF Sent
  <2>5. r \in us
    BY <1>1, <1>10, <1>11, <1>18, <2>4 DEF Gathered
  <2>6. QED
    BY <2>1, <2>5
<1>19. QED
  BY <1>8, <1>12, <1>17, <1>18 DEF ImportKeepsRun

LEMMA KnownImports ==
    EvidenceSpec /\ []KeysKnown => []ImportKeepsRun
<1>1. EvidenceInit => CopyInv
  BY InitCopied
<1>2. (OriginalInv /\ FileInv) /\ StrikeInv /\ HeaderInv /\ OnceInv /\ OnceInv' /\ KeysKnown'
         /\ CopyInv /\ [EvidenceNext]_evars => CopyInv'
  BY CopyGoesOn
<1>3. (InputOK /\ WalkInv) /\ (OriginalInv /\ FileInv) /\ HeaderInv /\ OnceInv /\ CopyInv => ImportKeepsRun
  BY ImportedIsTheRun
<1>4. QED
  BY <1>1, <1>2, <1>3, WalkHolds, FileHolds, StrikesCount, HeaderHolds, OnceHolds, PTL DEF EvidenceSpec

\* The header of the file an import reads names no key but the writer's.
KeysTrusted == copy.stage = "open" => DOMAIN file[1].keys \subseteq DOMAIN original[1].keys

\* An import that reads a file whose keys are the writer's, killed as often as
\* may be and run again, and its index rebuilt, gives a log whose export
\* carries the receipts of the file in their order with the signatures of their
\* emitters, and every token the machine held unaltered: for every log, every
\* run, and any number of changes the file suffered before or between attempts.
THEOREM TrustedImportKeepsRun == EvidenceSpec /\ []KeysTrusted => []ImportKeepsRun
<1>1. KeysTrusted => KeysKnown
  BY DEF KeysTrusted, KeysKnown
<1>2. QED
  BY <1>1, KnownImports, PTL

\* The settings in which a file that is imported suffers one change at most.
OneChange == \A c \in DOMAIN Casts : Casts[c].imports => Casts[c].strikes \in {0, 1}

\* In those nobody has to vouch for the header.
THEOREM ImportCarriesRun == ASSUME OneChange PROVE EvidenceSpec => []ImportKeepsRun
<1> DEFINE Inv == /\ cast \in DOMAIN Casts /\ (copy.stage # "closed" => Play.imports)
                  /\ strikes = 0 \/ (Play.strikes \in Int => strikes <= Play.strikes)
<1>1. EvidenceInit => Inv
  BY DEF EvidenceInit, NoCopy
<1>2. StrikeInv /\ Inv /\ [EvidenceNext]_evars => Inv'
  <2> SUFFICES ASSUME StrikeInv, Inv, [EvidenceNext]_evars PROVE Inv'
    OBVIOUS
  <2>1. cast' = cast /\ Play' = Play
    BY OnlyTheLoopWalks DEF Play
  <2>2. copy'.stage # "closed" => copy.stage # "closed" \/ Play.imports
    BY CopySteps DEF Export, ImportOpen, ImportBegin, ImportIntegrate, ImportWait, ImportEnd,
                     ImportKilled, ImportReindex
  <2>3. strikes' = strikes \/ (strikes < Play.strikes /\ strikes' = strikes + 1)
    <3>1. CASE \E run \in Runs : Export(run)
      BY Zenon, <3>1 DEF Export
    <3>2. CASE Lose \/ Cut \/ Swap \/ Repeat \/ Change
      BY <3>2 DEF Lose, Cut, Swap, Repeat, Change, Strike
    <3>3. QED
      BY <3>1, <3>2, FileMoves
  <2>4. strikes' = 0 \/ (Play.strikes \in Int => strikes' <= Play.strikes)
    BY <2>3 DEF StrikeInv
  <2>5. QED
    BY <2>1, <2>2, <2>4
<1>3. StrikeInv /\ Inv => KeysKnown
  <2> SUFFICES ASSUME StrikeInv, Inv, copy.stage = "open" PROVE strikes <= 1
    BY DEF KeysKnown
  <2>1. Play.strikes \in {0, 1}
    BY DEF OneChange, Play
  <2>2. QED
    BY <2>1 DEF StrikeInv
<1> HIDE DEF Inv
<1>4. QED
  BY <1>1, <1>2, <1>3, StrikesCount, KnownImports, PTL DEF EvidenceSpec
=============================================================================
