----------------------------- MODULE RunCauses -----------------------------
(***************************************************************************)
(* The last part of internal/diff: Analyze keeps the aligned pairs that    *)
(* differ and reads what caused what, namely the first divergence and the  *)
(* one later step to show under it.  It is pure, too.                      *)
(***************************************************************************)
EXTENDS RunDiff

CONSTANT MinLinkLength    \* minLinkValueLen

\* What links is not empty: no text of MinLinkLength is.
ASSUME CausesAssumption ==
    /\ MinLinkLength \in Nat \ {0}
    /\ NoText \in DOMAIN Length => Length[NoText] = 0

Rank(x) == CHOOSE i \in DOMAIN Lexical : Lexical[i] = x

-----------------------------------------------------------------------------
(* Compare: the pairs that are not identical, in aligned order. *)

OneSided(class) ==
    [changes |-> <<>>, noise |-> <<>>, classes |-> {class}, opaque |-> FALSE, truncated |-> FALSE]
CompareOne(pair, a, b) ==
    IF pair.b = 0 THEN OneSided("only-in-A")
      ELSE IF pair.a = 0 THEN OneSided("only-in-B") ELSE ComparePair(a[pair.a], b[pair.b])

Difference(k, pair, found) ==
    [index |-> k, pair |-> pair, changes |-> found.changes, noise |-> found.noise,
     classes |-> found.classes, opaque |-> found.opaque, truncated |-> found.truncated]
NotIdentical(all, opaque) ==
    LET kept == ByIndex({k \in DOMAIN all : all[k].classes # {} /\ all[k].opaque = opaque})
    IN  [n \in DOMAIN kept |-> all[kept[n]]]
Compare(pairs, a, b, opaque) ==
    NotIdentical([k \in DOMAIN pairs |-> Difference(k, pairs[k], CompareOne(pairs[k], a, b))], opaque)

-----------------------------------------------------------------------------
(* The causal reading. *)

RiskRank(class) ==
    CASE class = "low" -> 1 [] class = "medium" -> 2 [] class = "high" -> 3
      [] class = "critical" -> 4 [] OTHER -> 0
RiskOf(d, a, b) ==
    LET ofA == IF d.pair.a = 0 THEN 0 ELSE RiskRank(a[d.pair.a].risk)
        ofB == IF d.pair.b = 0 THEN 0 ELSE RiskRank(b[d.pair.b].risk)
    IN  IF ofB > ofA THEN ofB ELSE ofA

\* A difference's changes are a sequence; these are their places.
OfClass(changes, class) == {k \in 1..Len(changes) : changes[k].class = class}

(* The places at which two reordered arrays hold different elements. *)
Differing(a, b) ==
    {i \in DOMAIN Positions : /\ Positions[i] \in (DOMAIN a.parts) \cap (DOMAIN b.parts)
                              /\ a.parts[Positions[i]] # b.parts[Positions[i]]}

(* What a change of the first divergence could have handed to a later step. *)
Carries(change) == change.kind = "reordered" => Differing(change.a, change.b) # {}
Carrier(change) ==
    LET n == Positions[Least(Differing(change.a, change.b))]
    IN  IF change.kind = "reordered"
          THEN [path |-> change.path, at |-> n,
                a |-> Leaves[change.a.parts[n]], b |-> Leaves[change.b.parts[n]]]
          ELSE [path |-> change.path, at |-> NoText, a |-> Leaves[change.a], b |-> Leaves[change.b]]
Carrying(changes) ==
    {k \in IF OfClass(changes, "result") = {} THEN 1..Len(changes) ELSE OfClass(changes, "result") :
        Carries(changes[k])}

ChangedLeaves(changes, class) ==
    LET of == OfClass(changes, class)
    IN  [a |-> UNION {Leaves[changes[k].a] : k \in of}, b |-> UNION {Leaves[changes[k].b] : k \in of}]

(* The longest value of mine, not of theirs, that the step used. *)
LinkableMutant(mine, theirs, used) ==   \* mutant: a value of both runs may link
    {v \in DOMAIN Length : v \in mine \cap used /\ Length[v] >= MinLinkLength}
Linkable(mine, theirs, used) ==
    {v \in DOMAIN Length : v \in (mine \cap used) \ theirs /\ Length[v] >= MinLinkLength}
PickLink(mine, theirs, used) ==
    LET can == Linkable(mine, theirs, used)
    IN  IF can = {} THEN NoText
          ELSE CHOOSE v \in can : \A w \in can :
                  Length[v] > Length[w] \/ (Length[v] = Length[w] /\ Rank(v) <= Rank(w))

NoLink == [path |-> <<>>, at |-> NoText, a |-> NoText, b |-> NoText]
LinkBy(change, args) ==
    LET c == Carrier(change)
    IN  [path |-> c.path, at |-> c.at,
         a |-> PickLink(c.a, c.b, args.a), b |-> PickLink(c.b, c.a, args.b)]
Links(link) == link.a # NoText /\ link.b # NoText /\ link.a # link.b
LinkTo(first, d) ==
    LET args == ChangedLeaves(d.changes, "arguments")
        good == {k \in Carrying(first.changes) : Links(LinkBy(first.changes[k], args))}
    IN  IF d.pair.a = 0 \/ d.pair.b = 0 \/ good = {} THEN NoLink
          ELSE LinkBy(first.changes[Least(good)], args)

(* Among these differences the riskiest, the latest of equals. *)
Riskiest(which, differences, a, b) ==
    LET Risk(i) == RiskOf(differences[i], a, b)
    IN  CHOOSE i \in which : \A j \in which : Risk(j) < Risk(i) \/ (Risk(j) = Risk(i) /\ j <= i)

(* analyzeCausality: which difference is featured (0: none), by which link. *)
Causality(differences, a, b) ==
    LET later == 2..Len(differences)
        linked == {i \in later : Links(LinkTo(differences[1], differences[i]))}
        featured == IF later = {} THEN 0
                      ELSE Riskiest(IF linked = {} THEN later ELSE linked, differences, a, b)
    IN  [featured |-> featured, consequence |-> linked # {},
         link |-> IF linked = {} THEN NoLink ELSE LinkTo(differences[1], differences[featured]),
         suppressed |-> Cardinality(later \ {featured})]

(* Analyze, of the steps of two runs. *)
Analyze(a, b) ==
    LET pairs == Align(a, b)
        differences == Compare(pairs, a, b, FALSE)
    IN  [a |-> a, b |-> b, aligner |-> Aligner(a, b), pairs |-> pairs,
         differences |-> differences, opaque |-> Compare(pairs, a, b, TRUE),
         causality |-> Causality(differences, a, b)]
=============================================================================
