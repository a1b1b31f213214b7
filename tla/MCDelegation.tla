---------------------------- MODULE MCDelegation ----------------------------
(***************************************************************************)
(* Delegation chains under behalf's comparator, on small vocabularies.     *)
(***************************************************************************)
EXTENDS DelegationProps, FiniteSetsExt

CONSTANTS k1, k2, NoLimit, NotDecimal, NoBound, Unreadable, text, none, one, both

MCCovers(a) == IF a = "*" THEN {"*", "pay", "ship"} ELSE {}

MCElements(v) == CASE v = none -> {} [] v = one -> {1} [] v = both -> {1, 2}

G == INSTANCE Grants WITH
         AAT <- "aat", ActionOrder <- <<"*", "pay", "ship">>, Covers <- MCCovers,
         Texts <- {text, none, one, both}, Lists <- {none, one, both},
         Elements <- MCElements, MaxConstraintDepth <- 1

-----------------------------------------------------------------------------
(* Grants of behalf's own vocabulary. *)
Own(type, actions, privileges) ==
    [type |-> type, actions |-> actions, privileges |-> privileges, tools |-> Unreadable]

Limit(operation, amount, currency) ==
    [operation |-> operation, limit |-> [amount |-> amount, currency |-> currency]]

PayCeilings == {<< >>, <<[operation |-> "pay", limit |-> NoLimit]>>,
                <<Limit("pay", 1, "EUR")>>, <<Limit("pay", 2, "EUR")>>,
                <<Limit("pay", 2, "USD")>>, <<Limit("pay", NotDecimal, "EUR")>>,
                <<Limit("pay", 2, "EUR"), Limit("pay", 1, "EUR")>>}

OwnGrants ==
    {<<Own("till", actions, ceiling)>> : actions \in {{"pay"}, {"pay", "ship"}},
                                         ceiling \in PayCeilings}
    \union {<<Own("till", {"pay"}, << >>), Own("dock", {"ship"}, <<Limit("pay", 1, "EUR")>>)>>,
            <<Own("dock", {"ship"}, << >>)>>, <<Own("till", {}, << >>)>>}

Wildcards ==
    {<<Own("till", {"*"}, << >>)>>, <<Own("till", {"*"}, <<Limit("pay", 1, "EUR")>>)>>,
     <<Own("till", {"*"}, << >>), Own("dock", {"ship"}, << >>)>>,
     <<Own("till", {"pay"}, << >>), Own("dock", {"pay"}, << >>)>>}

(* Grants of the draft's vocabulary. *)
Entry(tools) == [type |-> "aat", actions |-> {}, privileges |-> << >>, tools |-> tools]

C(kind) == [kind |-> kind, set |-> {}, lo |-> NoBound, hi |-> NoBound,
            loIn |-> TRUE, hiIn |-> TRUE, nested |-> << >>]

SetOf(kind, set) == [C(kind) EXCEPT !.set = set]

Leaves ==
    {SetOf("exact", {v}) : v \in {1, text, one}}
    \union {SetOf(kind, set) : kind \in {"one_of", "not_one_of"},
                               set \in {{}, {1}, {1, text}}}
    \union {SetOf(kind, set) : kind \in {"contains", "subset"}, set \in {{1}, {1, 2}}}
    \union {C("wildcard")}

Ranges ==
    {[C("range") EXCEPT !.lo = lo, !.hi = hi, !.loIn = loIn, !.hiIn = hiIn] :
        lo \in {NoBound, 1}, hi \in {NoBound, 1, 2}, loIn \in BOOLEAN, hiIn \in BOOLEAN}

Deep == [C("all") EXCEPT !.nested = <<[C("any") EXCEPT !.nested = <<C("wildcard")>>]>>]

Clauses == {<< >>} \union {<<SetOf("exact", {1})>>, <<SetOf("one_of", {1, text})>>,
            <<SetOf("exact", {1}), SetOf("one_of", {1, text})>>,
            <<SetOf("one_of", {1, text}), SetOf("exact", {1})>>,
            <<SetOf("not_one_of", {1}), SetOf("one_of", {1, text}), SetOf("subset", {1})>>}

Constraints ==
    Leaves \union Ranges \union {Deep, C("regex")}
    \union {[C(kind) EXCEPT !.nested = clauses] : kind \in {"all", "any"}, clauses \in Clauses}

Constrained == {<<Entry([find |-> [id |-> c]])>> : c \in Constraints}

(* Shapes of the tools map, and entries beside behalf's own. *)
AnyId == C("wildcard")
Is1 == SetOf("exact", {1})

Shapes ==
    {<<Entry(Unreadable)>>, <<Entry(<< >>)>>,
     <<Entry([find |-> << >>])>>, <<Entry([find |-> << >>, send |-> << >>])>>,
     <<Entry([find |-> [id |-> AnyId]])>>, <<Entry([find |-> [id |-> Is1]])>>,
     <<Entry([find |-> [id |-> AnyId, to |-> AnyId]])>>,
     <<Entry([find |-> << >>]), Entry([find |-> [id |-> AnyId]])>>,
     <<Entry([find |-> << >>]), Own("till", {"pay"}, << >>)>>,
     <<Entry([find |-> << >>]), Own("till", {"pay"}, <<Limit("pay", 1, "EUR")>>)>>,
     <<Own("till", {"pay"}, << >>)>>, << >>}

-----------------------------------------------------------------------------
(* A grant set is known to Delegation by its place in this list, 0 being an
   empty one. *)
Till == <<Own("till", {"pay", "ship"}, << >>)>>
Pay == <<Own("till", {"pay"}, << >>)>>
Odd == <<Own("till", {}, << >>)>>

Menu == FoldSet(LAMBDA g, menu : Append(menu, g), << >>,
                OwnGrants \union Wildcards \union Shapes \union Constrained)

Grant(n) == IF n = 0 THEN << >> ELSE Menu[n]

Listed(sets) == {n \in DOMAIN Menu : Menu[n] \in sets}

MCGrantSets == 0..Len(Menu)

Answers == [pair \in MCGrantSets \X MCGrantSets |->
               G!CompareGrants(Grant(pair[1]), Grant(pair[2]))]

MCCompare(parent, child) == Answers[<<parent, child>>]

MCDecidable(n) == "*" \notin G!AllActions(Grant(n))

Values == {0, 1, 2, 3, text, none, one, both}

Args == {<< >>} \union [{"id"} -> Values] \union [{"id", "to"} -> {1, text}]

AllWithin(child, parent) ==
    /\ \A type \in {"till", "dock"}, o \in {"pay", "ship"} :
          o \in G!Granted(child, type) =>
             /\ o \in G!Granted(parent, type)
             /\ \A n \in 0..3 : G!AdmitsAmount(child, o, n) => G!AdmitsAmount(parent, o, n)
    /\ \A tool \in {"find", "send"}, args \in Args :
          G!AdmitsCall(child, tool, args) => G!AdmitsCall(parent, tool, args)

Withins == {pair \in MCGrantSets \X MCGrantSets :
               AllWithin(Grant(pair[1]), Grant(pair[2]))}

MCWithin(child, parent) == <<child, parent>> \in Withins

MCCeilingOf(n, operation) ==
    LET limit == G!LimitFor(Grant(n), operation)
    IN  IF limit \in {NoLimit, NotDecimal} THEN {} ELSE {limit.amount}
MCMay(n, operation) == operation \in G!AllActions(Grant(n))
MCOperations == {"pay", "ship"} \X ((0..3) \union {NotDecimal})

-----------------------------------------------------------------------------
Login == [state |-> "verified", device |-> k1]
Logins == {Login, [state |-> "verified", device |-> Foreign],
           [state |-> "verified", device |-> k2], [state |-> "degraded", device |-> k1],
           [state |-> "broken", device |-> k1], [state |-> "absent", device |-> Foreign]}

Setting(grants, expiries, anchors, keys, foreign, reports, instants) ==
    [grants |-> grants, expiries |-> expiries, anchors |-> anchors, budgets |-> {2},
     keys |-> keys, others |-> foreign, reports |-> reports, instants |-> instants]

(* Chains whose grants vary, chains of two under every pair of constraints,
   and chains whose hops vary: one of them not minted, or not carried as it
   was made. *)
Own1 == {"own_key"}
OwnCast == Setting(Listed(OwnGrants \union Wildcards), {1}, Own1, {k1}, 0, {Login}, {0})
ToolsCast == Setting(Listed(Shapes), {1}, Own1, {k1}, 0, {Login}, {0})
PairsCast == [Setting(Listed(Constrained), {1}, Own1, {k1}, 0, {Login}, {0}) EXCEPT !.budgets = {1}]
OddCast == Setting(Listed({Till, Pay, Odd}), {1}, Own1, {k1}, 1, {Login}, {0})
HopsCast == [Setting(Listed({Till}), {0, 1, 2}, Own1, {k1, k2}, 1, {Login}, {0, 2})
                EXCEPT !.budgets = {0, 2}]
LoginCast == Setting(Listed({Till}), {1}, Anchors \ {"none"}, {k1}, 1, Logins, {0})

MCCasts == [own |-> OwnCast, tools |-> ToolsCast, pairs |-> PairsCast,
            odd |-> OddCast, hops |-> HopsCast, login |-> LoginCast]
=============================================================================
