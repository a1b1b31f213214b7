------------------------------- MODULE Grants -------------------------------
(***************************************************************************)
(* The comparison of a delegated grant with its parent's: internal/why     *)
(* chain.go (behalf's own vocabulary) and aat_i4.go (the vocabulary of the *)
(* AAT draft).  A hop carries a sequence of grants.  A decimal amount is a *)
(* natural number, a JSON value is a number or a member of Texts, and the  *)
(* prose of a reason is left out.                                          *)
(*                                                                         *)
(* CompareGrants is a set: the answers the code can give.  compareV1       *)
(* ranges over Go maps and answers at the first fault it meets, so two     *)
(* faults of different kinds leave the answer to the iteration order.      *)
(***************************************************************************)
EXTENDS Integers, Sequences, SequencesExt

CONSTANTS
    AAT,             \* the grant type of the draft, AATGrantType
    ActionOrder,     \* the actions, in the order sort.Strings gives them
    Covers(_),       \* the actions a wildcard action matches, {} for another
    NoLimit,         \* a privilege without a limit
    NotDecimal,      \* an amount that is not a decimal
    NoBound,         \* a range constraint without this bound
    Unreadable,      \* a `tools` member, or constraint map, that does not parse
    Texts,           \* the JSON values that are not numbers
    Lists,           \* those that are arrays
    Elements(_),     \* the elements of an array
    MaxConstraintDepth

Unchanged == "unchanged"
Attenuated == "attenuated"
Broadened == "broadened"
Unknown == "unknown"

Verdict(narrowed) == IF narrowed THEN Attenuated ELSE Unchanged

-----------------------------------------------------------------------------
(* behalf's own vocabulary. *)

Types(grants) == {grants[i].type : i \in DOMAIN grants}

ActionSet(grants, type) ==
    UNION {grants[i].actions : i \in {j \in DOMAIN grants : grants[j].type = type}}

AllActions(grants) == UNION {grants[i].actions : i \in DOMAIN grants}

(* The ceilings a grant set writes for an operation, in reading order. *)
Ceilings(grants, operation) ==
    LET privileges == FlattenSeq([i \in DOMAIN grants |-> grants[i].privileges])
        of(p) == p.operation = operation /\ p.limit # NoLimit
        hits == SelectSeq(privileges, of)
    IN  [i \in DOMAIN hits |-> hits[i].limit]

Tightest(ceilings) ==
    LET least == CHOOSE i \in DOMAIN ceilings :
                     /\ \A j \in DOMAIN ceilings : ceilings[i].amount <= ceilings[j].amount
                     /\ \A j \in 1..(i - 1) : ceilings[j].amount # ceilings[i].amount
    IN  ceilings[least]

(* NoLimit when no grant limits the operation, NotDecimal when one of the
   limits cannot be compared. *)
LimitFor(grants, operation) ==
    LET ceilings == Ceilings(grants, operation)
    IN  IF \E i \in DOMAIN ceilings : ceilings[i].amount = NotDecimal
        THEN NotDecimal
        ELSE IF ceilings = << >> THEN NoLimit ELSE Tightest(ceilings)

(* What the comparison of one child action finds, if anything. *)
ActionFault(parentActions, action) ==
    IF \E p \in parentActions : action \in Covers(p) THEN Unknown ELSE Broadened

ActionFaults(parent, child) ==
    UNION {IF type \notin Types(parent)
           THEN {Broadened}
           ELSE {ActionFault(ActionSet(parent, type), a) :
                    a \in ActionSet(child, type) \ ActionSet(parent, type)} :
               type \in Types(child)}

LimitFault(parent, child, action) ==
    LET pl == LimitFor(parent, action)
        cl == LimitFor(child, action)
    IN  CASE pl = NotDecimal \/ cl = NotDecimal -> Unknown
          [] pl = NoLimit -> Unchanged
          [] cl = NoLimit -> Broadened
          [] pl.currency # cl.currency -> Unknown
          [] cl.amount > pl.amount -> Broadened
          [] cl.amount < pl.amount -> Attenuated
          [] OTHER -> Unchanged

DropsActions(parent, child) ==
    \E type \in Types(parent) : ActionSet(parent, type) \ ActionSet(child, type) # {}

CompareLimits(parent, child) ==
    LET compared(a) == a \in AllActions(child)
        actions == SelectSeq(ActionOrder, compared)
        found == [i \in DOMAIN actions |-> LimitFault(parent, child, actions[i])]
        decides(v) == v \in {Unknown, Broadened}
        first == SelectInSeq(found, decides)
    IN  IF first > 0 THEN found[first]
        ELSE Verdict(DropsActions(parent, child) \/ Attenuated \in Range(found))

CompareV1(parent, child) ==
    IF parent = << >> \/ child = << >>
       \/ \E i \in DOMAIN (parent \o child) : (parent \o child)[i].actions = {}
    THEN {Unknown}
    ELSE LET faults == ActionFaults(parent, child)
         IN  IF faults # {} THEN faults ELSE {CompareLimits(parent, child)}

(* The entries the draft does not define, beside one it does. *)
CompareOther(parent, child) ==
    IF parent # << >> /\ child # << >> THEN CompareV1(parent, child)
    ELSE IF child # << >> THEN {Broadened}
    ELSE {Verdict(parent # << >>)}

-----------------------------------------------------------------------------
(* The draft's vocabulary: a constraint is a record [kind, set, lo, hi,
   loIn, hiIn, nested] of which each kind reads its own members. *)

Kinds == {"exact", "range", "one_of", "not_one_of", "contains", "subset",
          "wildcard", "all", "any"}

IsNumber(v) == v \notin Texts

RECURSIVE Parses(_, _)
Parses(c, depth) ==
    /\ depth <= MaxConstraintDepth
    /\ c.kind \in Kinds
    /\ c.kind = "range" => c.lo # NoBound \/ c.hi # NoBound
    /\ c.kind \in {"all", "any"} =>
           \A i \in DOMAIN c.nested : Parses(c.nested[i], depth + 1)

InRange(n, c) ==
    /\ c.lo # NoBound => n > c.lo \/ (n = c.lo /\ c.loIn)
    /\ c.hi # NoBound => n < c.hi \/ (n = c.hi /\ c.hiIn)

RangeSubsumes(d, p) ==
    /\ p.lo # NoBound => /\ d.lo # NoBound
                         /\ d.lo > p.lo \/ (d.lo = p.lo /\ (d.loIn => p.loIn))
    /\ p.hi # NoBound => /\ d.hi # NoBound
                         /\ d.hi < p.hi \/ (d.hi = p.hi /\ (d.hiIn => p.hiIn))

ExactSubsumes(v, p) ==
    CASE p.kind \in {"exact", "one_of"} -> v \in p.set
      [] p.kind = "range" -> IsNumber(v) /\ InRange(v, p)
      [] OTHER -> FALSE

(* The pairs section 4.5 of the draft permits, and no other: the step budget
   of the matcher is beyond every bounded input and is left out. *)
RECURSIVE Subsumes(_, _)

AllSubsumes(d, p) ==
    \E match \in [DOMAIN p.nested -> DOMAIN d.nested] :
        /\ IsInjective(match)
        /\ \A i \in DOMAIN p.nested : Subsumes(d.nested[match[i]], p.nested[i])

AnySubsumes(d, p) ==
    /\ d.nested # << >>
    /\ \A i \in DOMAIN d.nested : \E j \in DOMAIN p.nested :
           Subsumes(d.nested[i], p.nested[j])

Subsumes(d, p) ==
    \/ p.kind = "wildcard"
    \/ d.kind = "exact" /\ \E v \in d.set : ExactSubsumes(v, p)
    \/ /\ d.kind = p.kind
       /\ CASE d.kind = "range" -> RangeSubsumes(d, p)
            [] d.kind \in {"one_of", "subset"} -> d.set \subseteq p.set
            [] d.kind \in {"not_one_of", "contains"} -> p.set \subseteq d.set
            [] d.kind = "all" -> AllSubsumes(d, p)
            [] d.kind = "any" -> AnySubsumes(d, p)
            [] OTHER -> FALSE

(* The single capability entry of a side: none is an empty tools map. *)
ReadTools(entries) == IF entries = << >> THEN << >> ELSE entries[1].tools

ToolNarrows(pArgs, cArgs) ==
    \/ DOMAIN pArgs = {} /\ DOMAIN cArgs # {}
    \/ \E a \in DOMAIN pArgs : pArgs[a] # cArgs[a]

ToolHolds(pArgs, cArgs) ==
    DOMAIN pArgs # {} =>
        /\ DOMAIN cArgs = DOMAIN pArgs
        /\ \A a \in DOMAIN cArgs : /\ Parses(pArgs[a], 0)
                                   /\ Parses(cArgs[a], 0)
                                   /\ Subsumes(cArgs[a], pArgs[a])

CompareAAT(parent, child) ==
    LET p == ReadTools(parent)
        c == ReadTools(child)
        holds == /\ Len(parent) <= 1 /\ Len(child) <= 1
                 /\ p # Unreadable /\ c # Unreadable
                 /\ DOMAIN c \subseteq DOMAIN p
                 /\ \A t \in DOMAIN c : ToolHolds(p[t], c[t])
    IN  IF ~holds THEN Broadened
        ELSE Verdict(\/ DOMAIN p # DOMAIN c
                     \/ \E t \in DOMAIN c : ToolNarrows(p[t], c[t]))

-----------------------------------------------------------------------------
IsAAT(g) == g.type = AAT
IsOther(g) == g.type # AAT
SplitAAT(grants) == [aat |-> SelectSeq(grants, IsAAT), other |-> SelectSeq(grants, IsOther)]

(* Both comparisons run and the stricter answer wins. *)
Stricter(att, other) ==
    CASE other \in {Broadened, Unknown} -> other
      [] other = Attenuated -> Attenuated
      [] OTHER -> att

CompareGrants(parent, child) ==
    LET p == SplitAAT(parent)
        c == SplitAAT(child)
        att == CompareAAT(p.aat, c.aat)
    IN  IF p.aat = << >> /\ c.aat = << >> THEN CompareV1(parent, child)
        ELSE IF att = Broadened THEN {Broadened}
        ELSE {Stricter(att, v) : v \in CompareOther(p.other, c.other)}

-----------------------------------------------------------------------------
(* What a grant set admits: the reference the comparison is checked against.
   A granted action admits itself and what it matches, up to the ceiling the
   set places on that operation; a capability entry admits its tools, for the
   arguments every constraint of the tool accepts. *)

RECURSIVE Accepts(_, _)
Accepts(c, v) ==
    CASE c.kind = "exact" -> v \in c.set
      [] c.kind = "range" -> IsNumber(v) /\ InRange(v, c)
      [] c.kind = "one_of" -> v \in c.set
      [] c.kind = "not_one_of" -> v \notin c.set
      [] c.kind = "wildcard" -> TRUE
      [] c.kind = "all" -> \A i \in DOMAIN c.nested : Accepts(c.nested[i], v)
      [] c.kind = "any" -> \E i \in DOMAIN c.nested : Accepts(c.nested[i], v)
      [] c.kind = "contains" -> v \in Lists /\ c.set \subseteq Elements(v)
      [] c.kind = "subset" -> v \in Lists /\ Elements(v) \subseteq c.set
      [] OTHER -> FALSE

Granted(grants, type) ==
    UNION {{a} \union Covers(a) : a \in ActionSet(grants, type)}

AdmitsAmount(grants, operation, amount) ==
    LET limit == LimitFor(grants, operation)
    IN  limit \notin {NoLimit, NotDecimal} => amount <= limit.amount

AdmitsCall(grants, tool, args) ==
    LET tools == ReadTools(SplitAAT(grants).aat)
    IN  /\ tools # Unreadable
        /\ tool \in DOMAIN tools
        /\ DOMAIN tools[tool] # {} =>
               /\ DOMAIN args = DOMAIN tools[tool]
               /\ \A a \in DOMAIN args : Accepts(tools[tool][a], args[a])
=============================================================================
