------------------------------ MODULE RunDiff ------------------------------
(***************************************************************************)
(* The middle part of internal/diff: what NewStep keeps of a receipt, and  *)
(* the comparison of an aligned pair of steps beyond what is noise.        *)
(*                                                                         *)
(* A path into a value is a sequence of names of parts.                    *)
(***************************************************************************)
EXTENDS RunAlign, SequencesExt

CONSTANTS
    Depth,          \* [the JSON values that occur -> how deep they nest]
    Lexical,        \* every name and atom, in the order of their bytes
    Positions,      \* the names "0", "1", ... of array positions
    Length,         \* [atoms -> Nat]
    Shape,          \* [atoms -> {"ulid", "uuid", "time", "plain"}]
    NoisyFields,
    NoisySegments,
    MaxChanges      \* maxChangesPerPair

Json == DOMAIN Depth
Path == Seq(STRING)

ASSUME DiffAssumption ==
    /\ MaxChanges \in Nat \ {0}
    /\ Lexical \in Seq(STRING) /\ Positions \in Seq(STRING)
    /\ Length \in [DOMAIN Length -> Nat]
    /\ DOMAIN Length \subseteq ToSet(Lexical)
    /\ Shape \in [DOMAIN Length -> {"ulid", "uuid", "time", "plain"}]
    /\ NoisyFields \cup NoisySegments \subseteq ToSet(Lexical)

(* The parts of a value that occurs occur, too, and nest less deep; of the
   code's nil, Absent, there is nothing to compare. *)
ASSUME JsonAssumption ==
    /\ Depth \in [Json -> Nat] /\ Absent \in Json /\ Depth[Absent] = 0
    /\ \A v \in Json :
          /\ v.tag = "object" => DOMAIN v.parts \subseteq ToSet(Lexical)
          /\ v.tag = "array" => DOMAIN v.parts \subseteq ToSet(Positions)
          /\ \A n \in DOMAIN v.parts :
                v.parts[n] \in Json \ {Absent} /\ Depth[v.parts[n]] < Depth[v]

\* A set of numbers in ascending order, each at the place of its rank.
ByIndex(S) ==
    [n \in 1..Cardinality(S) |-> CHOOSE i \in S : Cardinality({j \in S : j <= i}) = n]
Least(S) == CHOOSE i \in S : \A j \in S : i <= j

\* The members of a sequence that are among these names.
InOrder(order, names) ==
    LET at == ByIndex({i \in DOMAIN order : order[i] \in names})
    IN  [n \in DOMAIN at |-> order[at[n]]]

-----------------------------------------------------------------------------
(* Values. *)

Array(s) ==
    [tag |-> "array", is |-> "",
     parts |-> [n \in {Positions[i] : i \in DOMAIN s} |->
                  s[CHOOSE i \in DOMAIN s : Positions[i] = n]]]

Leaves[v \in Json] ==
    IF v.tag = "atom" THEN {v.is} \ {NoText} ELSE UNION {Leaves[v.parts[n]] : n \in DOMAIN v.parts}

(* The same elements in another sequence. *)
SameMultiset(a, b) ==
    LET Count(v, e) == Cardinality({n \in DOMAIN v.parts : v.parts[n] = e})
    IN  /\ a.parts # NoParts
        /\ DOMAIN a.parts = DOMAIN b.parts
        /\ \A n \in DOMAIN a.parts : Count(a, a.parts[n]) = Count(b, a.parts[n])

(* Both sides are the same kind of per-run identifier or timestamp. *)
VolatileMutant(a, b) == a.tag = "atom" /\ Shape[a.is] # "plain"   \* mutant: one side is enough
Volatile(a, b) ==
    /\ a.tag = "atom" /\ b.tag = "atom"
    /\ Shape[a.is] # "plain"
    /\ Shape[a.is] = Shape[b.is]

(* leafKey: the last name of a path that is not a position. *)
LeafKey(path) ==
    LET named == SelectSeq(path, LAMBDA n : n \notin ToSet(Positions))
    IN  IF named = <<>> THEN "" ELSE Last(named)

IsNoise(path, a, b) ==
    \/ LeafKey(path) \in NoisyFields
    \/ ToSet(path) \cap NoisySegments # {}
    \/ Volatile(a, b)

-----------------------------------------------------------------------------
(* Compare.  A view is a sequence of fields, in the order projectViews lists
   them; a finding is gathered with the noise and what is left of the budget. *)

View == Seq([path : Path, value : Json \ {Absent}])
Field(path, value) == [path |-> path, value |-> value]
Paths(view) == [i \in DOMAIN view |-> view[i].path]
Get(view, path) ==
    LET held == {i \in DOMAIN view : view[i].path = path}
    IN  IF held = {} THEN Absent ELSE view[Least(held)].value

(* The views of a receipt: what was asked, what came back, how it ended, and
   the digest of the output slot.  A digest and a name are atoms. *)
Optional(name, x) == IF x = "" THEN <<>> ELSE <<Field(<<name>>, Atom(x))>>
StateField(slot) ==
    IF slot.state \in {"", "present"} THEN <<>> ELSE <<Field(<<slot.role, "state">>, Atom(slot.state))>>

ArgsView(op, target, idem, slots) ==
    <<Field(<<"operation">>, Atom(op))>> \o Optional("target", target) \o Optional("idempotency_key", idem)
      \o FlattenSeq([i \in DOMAIN slots |->
            LET slot == slots[i]
            IN  IF slot.role # "input" THEN <<>>
                  ELSE LET names == InOrder(Lexical, DOMAIN slot.manifest)
                       IN  [n \in DOMAIN names |->
                              Field(<<"input", "$", names[n]>>, Atom(slot.manifest[names[n]]))]
                             \o StateField(slot)])

Ending == {"status", "error"}
OutcomeFields(outcome, names) ==
    LET ordered == InOrder(Lexical, names)
    IN  [n \in DOMAIN ordered |-> Field(<<ordered[n]>>, outcome[ordered[n]])]

Outputs(slots) == SelectSeq(slots, LAMBDA slot : slot.role = "output")
ResultView(slots, outcome) ==
    FlattenSeq([i \in DOMAIN Outputs(slots) |-> StateField(Outputs(slots)[i])])
      \o OutcomeFields(outcome, DOMAIN outcome \ Ending)
OutcomeView(outcome) == OutcomeFields(outcome, DOMAIN outcome \cap Ending)
SlotEvidence(slots) ==
    IF Outputs(slots) = <<>> \/ Last(Outputs(slots)).digest = NoText THEN <<>>
      ELSE <<Field(<<"output", "digest">>, Atom(Last(Outputs(slots)).digest))>>

\* What JsonAssumption is of: the values that receipts' views hold.
Viewable(r) ==
    {ArgsView(r.op, r.target, r.idem, r.slots), ResultView(r.slots, r.outcome),
     OutcomeView(r.outcome), SlotEvidence(r.slots)} \subseteq View

(* NewStep: what the diff reads of a receipt. *)
Step(r) ==
    LET args == ArgsView(r.op, r.target, r.idem, r.slots)
    IN  [op |-> r.op, target |-> r.target, key |-> r.key, risk |-> r.risk,
         args |-> args, result |-> ResultView(r.slots, r.outcome), outcome |-> OutcomeView(r.outcome),
         output |-> SlotEvidence(r.slots), shape |-> ToSet(Paths(args))]

Change(class, path, kind, a, b) == [class |-> class, path |-> path, kind |-> kind, a |-> a, b |-> b]
Classes == {"outcome", "arguments", "result"}
Kinds == {"only-in-A", "only-in-B", "changed", "reordered"}
Seen == [changes : Seq([class : Classes, path : Path, kind : Kinds, a : Json, b : Json]),
         noise : Seq(Path)]
NothingSeen == [changes |-> <<>>, noise |-> <<>>]
Budget(seen) == MaxChanges - Len(seen.changes)

AppendChange(seen, change) ==
    CASE IsNoise(change.path, change.a, change.b) ->
           [seen EXCEPT !.noise = Append(@, change.path)]
      [] OTHER ->
           IF Budget(seen) = 0 THEN seen ELSE [seen EXCEPT !.changes = Append(@, change)]

(* What is compared next: a path with what each side has there.  DiffValue,
   below, compares what both sides have. *)
Place(path, a, b) == [path |-> path, a |-> a, b |-> b]
DiffPlace(diff, seen, class, at) ==
    IF at.b = Absent THEN AppendChange(seen, Change(class, at.path, "only-in-A", at.a, at.b))
      ELSE IF at.a = Absent THEN AppendChange(seen, Change(class, at.path, "only-in-B", at.a, at.b))
             ELSE diff[<<seen, class, at.path, at.a, at.b>>]
DiffPlaces(diff, seen, class, places) ==
    LET upTo[k \in 0..Len(places)] ==
            IF k = 0 THEN seen ELSE DiffPlace(diff, upTo[k - 1], class, places[k])
    IN  upTo[Len(places)]

Containers(a, b) == a.tag = b.tag /\ a.tag \in {"object", "array"}
PartPlaces(path, a, b) ==
    LET names == InOrder(IF a.tag = "object" THEN Lexical ELSE Positions, DOMAIN a.parts \cup DOMAIN b.parts)
    IN  [k \in DOMAIN names |-> Place(Append(path, names[k]), Part(a, names[k]), Part(b, names[k]))]
ViewPlaces(a, b) ==
    LET only == ByIndex({i \in DOMAIN b : b[i].path \notin ToSet(Paths(a))})
    IN  [i \in DOMAIN a |-> Place(a[i].path, a[i].value, Get(b, a[i].path))]
          \o [k \in DOMAIN only |-> Place(b[only[k]].path, Absent, b[only[k]].value)]

DiffBoth(diff, seen, class, path, a, b) ==
    IF Budget(seen) = 0 \/ a = b THEN seen
      ELSE IF Containers(a, b) /\ ~(a.tag = "array" /\ SameMultiset(a, b))
             THEN DiffPlaces(diff, seen, class, PartPlaces(path, a, b))
             ELSE AppendChange(seen, Change(class, path,
                               IF Containers(a, b) THEN "reordered" ELSE "changed", a, b))
DiffValue[x \in Seen \X Classes \X Path \X Json \X Json] ==
    DiffBoth(DiffValue, x[1], x[2], x[3], x[4], x[5])

DiffFields(seen, class, a, b) == DiffPlaces(DiffValue, seen, class, ViewPlaces(a, b))

ClassesOf(changes) ==
    {c.class : c \in ToSet(changes)}
      \cup {"order" : c \in {d \in ToSet(changes) : d.kind = "reordered"}}

(* compareOne, of a pair with a step on both sides: the output's digest is
   evidence only where the result view shows nothing. *)
Structural(a, b) ==
    DiffFields(DiffFields(DiffFields(NothingSeen, "outcome", a.outcome, b.outcome),
                          "arguments", a.args, b.args), "result", a.result, b.result)
WithOutput(seen, a, b) ==
    IF \E c \in ToSet(seen.changes) : c.class = "result" THEN seen
      ELSE DiffFields(seen, "result", a.output, b.output)
Finding(seen, all) ==
    [changes |-> all.changes, noise |-> all.noise, classes |-> ClassesOf(all.changes),
     opaque |-> seen.changes = <<>> /\ all.changes # <<>>, truncated |-> Budget(all) = 0]
ComparePair(a, b) ==
    LET seen == Structural(a, b)
    IN  Finding(seen, WithOutput(seen, a, b))
=============================================================================
