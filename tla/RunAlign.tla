------------------------------ MODULE RunAlign ------------------------------
(***************************************************************************)
(* The first part of internal/diff: Align pairs the steps of two runs, by  *)
(* their step keys, by a sequence alignment, or block by block between     *)
(* anchors.  It is pure, so it is a module of operators.                   *)
(***************************************************************************)
EXTENDS Values, Integers, Sequences, FiniteSets

CONSTANTS
    Namespace,      \* [operations -> the dotted prefix, or NoText]
    MaxCells        \* maxCells

ASSUME AlignAssumption == MaxCells \in Nat

(* Scores are in two-hundredths, so that proximity is a number of steps: the
   code's 0.60, 0.20, 0.12, 0.08, 0.15 and -0.30. *)
Certain == 200
Gap == -60
Proximity(d) == IF d < 16 THEN 16 - d ELSE 0

Similarity(a, b, d) ==
    IF a.key # <<>> /\ a.key = b.key THEN Certain
      ELSE IF a.op # b.op
             THEN IF Namespace[a.op] # NoText /\ Namespace[a.op] = Namespace[b.op] THEN 30 ELSE 0
             ELSE 120 + (IF a.target = b.target THEN 40 ELSE 0)
                      + (IF a.shape = b.shape THEN 24 ELSE 0) + Proximity(d)

Distance(i, j) == IF i > j THEN i - j ELSE j - i
Score(a, b, i, j) == 2 * Similarity(a[i], b[j], Distance(i, j)) - Certain

(* A pair of steps by their places, of which 0 is none. *)
Both(i, j) == [a |-> i, b |-> j]
OnlyA(i) == [a |-> i, b |-> 0]
OnlyB(j) == [a |-> 0, b |-> j]
OnlyOneSide(a, b) == [i \in DOMAIN a |-> OnlyA(i)] \o [j \in DOMAIN b |-> OnlyB(j)]

-----------------------------------------------------------------------------
(* Tier 1: a perfect bijection of unique, non-empty step keys. *)

KeysUnique(s) == \A i, j \in DOMAIN s : s[i].key # <<>> /\ (s[i].key = s[j].key => i = j)
KeysLineUp(a, b) ==
    /\ a # <<>> /\ Len(a) = Len(b)
    /\ KeysUnique(a) /\ KeysUnique(b)
    /\ {a[i].key : i \in DOMAIN a} = {b[j].key : j \in DOMAIN b}

AlignByStepKey(a, b) ==
    [i \in DOMAIN a |-> Both(i, CHOOSE j \in DOMAIN b : b[j].key = a[i].key)]

-----------------------------------------------------------------------------
(* Tier 2, needlemanWunsch: the table of best scores over prefixes, filled
   row by row, and the way back through it. *)

Better(x, y) == IF y > x THEN y ELSE x
NextRow(a, b, above, i) ==
    LET row[j \in 0..Len(b)] ==
            IF j = 0 THEN above[0] + Gap
              ELSE Better(Better(above[j - 1] + Score(a, b, i, j), above[j] + Gap), row[j - 1] + Gap)
    IN  row
Filled(a, b) ==
    LET dp[i \in 0..Len(a)] ==
            IF i = 0 THEN [j \in 0..Len(b) |-> j * Gap] ELSE NextRow(a, b, dp[i - 1], i)
    IN  dp

StepBack(a, b, dp, at) ==
    LET i == at.i
        j == at.j
        Before(p, q, pair) == [i |-> p, j |-> q, pairs |-> <<pair>> \o at.pairs]
    IN  IF i = 0 /\ j = 0 THEN at
          ELSE IF i > 0 /\ j > 0 /\ dp[i][j] = dp[i - 1][j - 1] + Score(a, b, i, j)
                 THEN Before(i - 1, j - 1, Both(i, j))
                 ELSE IF i > 0 /\ dp[i][j] = dp[i - 1][j] + Gap
                        THEN Before(i - 1, j, OnlyA(i))
                        ELSE Before(i, j - 1, OnlyB(j))
Traceback(a, b, dp) ==
    LET back[k \in 0..(Len(a) + Len(b))] ==
            IF k = 0 THEN [i |-> Len(a), j |-> Len(b), pairs |-> <<>>]
              ELSE StepBack(a, b, dp, back[k - 1])
    IN  back[Len(a) + Len(b)].pairs

NeedlemanWunsch(a, b) == Traceback(a, b, Filled(a, b))

-----------------------------------------------------------------------------
(* Tier 3: blocks between anchors, which are step keys unique in both runs,
   kept in increasing order on both sides. *)

Keyed(s, k) == {i \in DOMAIN s : s[i].key = k}
ChainedMutant(a, b, chain, j) ==   \* mutant: the order in the first run is not kept
    LET from == Keyed(a, b[j].key)
    IN  IF b[j].key # <<>> /\ Cardinality(from) = 1
          THEN Append(chain, Both(CHOOSE i \in from : TRUE, j)) ELSE chain
Chained(a, b, chain, j) ==
    LET from == Keyed(a, b[j].key)
        lastA == IF chain = <<>> THEN 0 ELSE chain[Len(chain)].a
    IN  IF /\ b[j].key # <<>>
           /\ \A i \in 1..(j - 1) : b[i].key # b[j].key
           /\ Cardinality(from) = 1
           /\ \A i \in from : i > lastA
          THEN Append(chain, Both(CHOOSE i \in from : TRUE, j)) ELSE chain
AnchorChain(a, b) ==
    LET chain[j \in 0..Len(b)] == IF j = 0 THEN <<>> ELSE Chained(a, b, chain[j - 1], j)
    IN  chain[Len(b)]

(* The last resort inside a block too large to align. *)
ZipPositional(a, b) ==
    LET n == IF Len(b) < Len(a) THEN Len(b) ELSE Len(a)
    IN  [i \in 1..n |-> Both(i, i)] \o [i \in 1..(Len(a) - n) |-> OnlyA(n + i)]
          \o [j \in 1..(Len(b) - n) |-> OnlyB(n + j)]

(* A block is aligned on its own, its steps counted from its first. *)
AlignBlock(a, b) ==
    IF a = <<>> \/ b = <<>> THEN OnlyOneSide(a, b)
      ELSE IF Len(a) * Len(b) <= MaxCells THEN NeedlemanWunsch(a, b) ELSE ZipPositional(a, b)

Shifted(pairs, i, j) ==
    LET By(x, d) == IF x = 0 THEN 0 ELSE x + d
    IN  [k \in DOMAIN pairs |-> [a |-> By(pairs[k].a, i), b |-> By(pairs[k].b, j)]]

(* The steps strictly between two places of each run. *)
Block(a, b, from, to) ==
    Shifted(AlignBlock(SubSeq(a, from.a + 1, to.a - 1), SubSeq(b, from.b + 1, to.b - 1)),
            from.a, from.b)
AlignAnchored(a, b) ==
    LET anchors == AnchorChain(a, b)
        After(k) == IF k = 0 THEN Both(0, 0) ELSE anchors[k]
        joined[k \in 0..Len(anchors)] ==
            IF k = 0 THEN <<>>
              ELSE joined[k - 1] \o Block(a, b, After(k - 1), anchors[k]) \o <<anchors[k]>>
    IN  joined[Len(anchors)] \o Block(a, b, After(Len(anchors)), Both(Len(a) + 1, Len(b) + 1))

-----------------------------------------------------------------------------
Aligner(a, b) ==
    IF KeysLineUp(a, b) THEN "step-key"
      ELSE IF Len(a) * Len(b) <= MaxCells THEN "sequence" ELSE "blocked"

Align(a, b) ==
    IF Aligner(a, b) = "step-key" THEN AlignByStepKey(a, b)
      ELSE IF Aligner(a, b) = "sequence" THEN AlignBlock(a, b) ELSE AlignAnchored(a, b)
=============================================================================
