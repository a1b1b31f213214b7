----------------------------- MODULE Delegation -----------------------------
(***************************************************************************)
(* The life of one delegation chain: minted hop by hop (internal/aat       *)
(* aat.go), carried to a capture surface, verified there from the root up  *)
(* (verify.go), recorded in a receipt while its tokens are retained in the *)
(* customer's store (internal/capture), exported with the tokens that can  *)
(* still be resolved (internal/tlog export.go), and read once more by the  *)
(* offline verifier (verifier/src/aat.rs), which shares no code with the   *)
(* first.                                                                  *)
(*                                                                         *)
(* A hop is the claim set plus its signer, Nobody for a bare claim.        *)
(* par_hash is reduced to what it names: no parent, the token of the hop   *)
(* below, or a token that is not in the chain.  Comparing two grants can   *)
(* give one of several answers: see Grants.                                *)
(***************************************************************************)
EXTENDS Integers, Sequences, FiniteSets

CONSTANTS
    Keys,            \* the Ed25519 keys
    Foreign,         \* a key of another type: it has no thumbprint
    Garbled,         \* an Ed25519 key, or a signature, that does not decode
    Nobody,          \* the signer of a bare claim
    Compare(_, _),   \* the answers CompareGrants can give
    CeilingOf(_, _), \* {the decimal a grant set limits an operation to}, or {}
    GrantSets,       \* the authorization_details hops carry
    NoGrants,        \* authorization_details with no object in it
    MaxHops,         \* a bound on the length of a chain
    Casts            \* the settings to play, by name

ASSUME KeyAssumption == {Foreign, Garbled, Nobody} \cap Keys = {}

ASSUME BoundAssumption == MaxHops \in Nat \ {0}

(* One setting: the grants in use, the instants hops expire at, the depth
   budgets and the anchors of roots, the keys hops confirm, how many hops may
   be the work of another implementation, and the login material and the clock
   of the capture surface.  An instant of 0 is no exp, or no clock. *)
Report == [state : {"absent", "verified", "degraded", "broken"}, device : Keys \union {Foreign}]
Anchors == {"none", "own_key", "another_key", "trigger"}
Cast == [grants : SUBSET GrantSets, expiries : SUBSET Nat, budgets : SUBSET Nat,
         anchors : SUBSET Anchors, keys : SUBSET Keys,
         others : Nat, reports : SUBSET Report, instants : SUBSET Nat]

ASSUME CastAssumption == \A c \in DOMAIN Casts : Casts[c] \in Cast

VARIABLES
    cast,      \* the name of the setting of this behaviour
    chain,     \* the hops, the root first
    others,    \* hops another implementation made, or that were changed
    whole,     \* the chain is carried as it was made
    report,    \* what VerifyRoot says of this state directory's login
    at,        \* the instant of the crossing, 0 when none is supplied
    results,   \* the outcomes of the hops verified so far
    stage,     \* how far the chain has come
    store,     \* hops whose token the customer's store holds
    carried,   \* hops whose token the export carries
    findings   \* what the offline verifier reports

vars == <<cast, chain, others, whole, report, at, results, stage, store, carried, findings>>
presented == <<cast, chain, others, whole, report, at>>

Play == Casts[cast]

Stages == {"carried", "recorded", "exported", "checked"}

-----------------------------------------------------------------------------
(* Keys and tokens. *)
PublicKey(k) == k \in Keys
HasThumbprint(k) == k # Foreign
Signed(h) == h.signer # Nobody
SignedBy(h, k) == h.signer = k /\ k \in Keys

(* Mint, below a hop or at the root.  `att` is the comparator's answer. *)
RootHop(key, budget, exp, grants, anchor) ==
    [signer |-> key, key |-> key, depth |-> 0, max |-> budget, par |-> "none",
     exp |-> exp, jti |-> TRUE, grants |-> grants, anchor |-> anchor]

ChildHopMutant(parent, key, exp, grants) ==
    [signer |-> parent.key, key |-> key, depth |-> parent.depth, max |-> parent.max,
     par |-> "below", exp |-> exp, jti |-> TRUE, grants |-> grants, anchor |-> "none"]
ChildHop(parent, key, exp, grants) ==
    [signer |-> parent.key, key |-> key, depth |-> parent.depth + 1, max |-> parent.max,
     par |-> "below", exp |-> exp, jti |-> TRUE, grants |-> grants, anchor |-> "none"]

(* A delegation outlives the hop it came from. *)
Outlives(h, parent) == parent.exp > 0 /\ h.exp > parent.exp

Mints(parent, hop, att) ==
    /\ hop.exp > 0
    /\ hop.grants # NoGrants
    /\ Signed(parent)
    /\ parent.key \in Keys
    /\ hop.depth <= hop.max
    /\ ~Outlives(hop, parent)
    /\ att # "broadened"

-----------------------------------------------------------------------------
(* Verify.  A predicate is a table of checks, answered by the first that
   fails: rows are <<the check fails, status, method>>. *)
FirstOf(rows, otherwise) ==
    LET hit == {i \in DOMAIN rows : rows[i][1]}
    IN  IF hit = {} THEN otherwise
        ELSE LET i == CHOOSE j \in hit : \A k \in hit : j <= k
             IN  <<rows[i][2], rows[i][3]>>

Malformed(h) == ~h.jti \/ h.exp = 0

Expired(h) == at # 0 /\ at > h.exp

(* The depth invariants of a hop: one deeper, the budget never wider, the
   depth inside it. *)
DepthBreaksMutant(h, parent) == h.depth # parent.depth + 1 \/ h.depth > h.max
DepthBreaks(h, parent) ==
    \/ h.depth # parent.depth + 1
    \/ h.max > parent.max
    \/ h.depth > h.max

RootVerdict(h) == FirstOf(<<
    <<h.depth # 0, "broken", "depth">>,
    <<~Signed(h), "asserted", "no_signature">>,
    <<h.par # "none", "broken", "par_hash">>,
    <<~PublicKey(h.key), "asserted", "unsupported_key">>,
    <<~SignedBy(h, h.key), "broken", "signature">>,
    <<Malformed(h), "broken", "malformed">>,
    <<Expired(h), "broken", "expiry">>,
    <<report.state = "absent", "asserted", "no_root_material">>,
    <<report.device \notin {Foreign, h.key}, "broken", "root">>,
    <<h.anchor = "another_key", "broken", "root">>,
    <<report.state = "broken", "broken", "root">>,
    <<report.state = "degraded", "asserted", "root_incomplete">> >>,
    <<"verified", "oidc">>)

HopVerdict(h, parent, below, att) == FirstOf(<<
    <<~Signed(h), "asserted", "no_signature">>,
    <<~PublicKey(parent.key), "asserted", "unsupported_key">>,
    <<~SignedBy(h, parent.key), "broken", "signature">>,
    <<~HasThumbprint(h.key), "asserted", "unsupported_key">>,
    <<~h.jti, "broken", "malformed">>,
    <<DepthBreaks(h, parent), "broken", "depth">>,
    <<h.exp = 0, "broken", "malformed">>,
    <<Outlives(h, parent), "broken", "expiry">>,
    <<Expired(h), "broken", "expiry">>,
    <<Signed(parent) /\ h.par # "below", "broken", "par_hash">>,
    <<att = "broadened", "broken", "attenuation">>,
    <<below.status # "verified", "asserted", "parent_unverified">>,
    <<att = "unknown", "asserted", "not_comparable">> >>,
    <<"verified", "signature_chain">>)

(* The address a reader should fetch. *)
Evidence(h, verdict) ==
    IF verdict = <<"verified", "oidc">> THEN "statement"
    ELSE IF ~Signed(h) \/ (Len(results) = 0 /\ h.depth # 0) THEN "none"
    ELSE "token"

Result(h, verdict, att) ==
    [status |-> verdict[1], method |-> verdict[2], evidence |-> Evidence(h, verdict), att |-> att]

(* StoredFlag: the frozen enum has no value for a broadened grant. *)
StoredFlagMutant(res) == res.att
StoredFlag(res) ==
    IF res.method \in {"attenuation", "signature_chain", "not_comparable", "parent_unverified"}
       /\ res.att # "broadened"
    THEN res.att ELSE "none"

(* The rollup of a receipt: the weakest hop. *)
Weakest(rs) ==
    IF \E i \in DOMAIN rs : rs[i].status = "broken" THEN "broken"
    ELSE IF rs = << >> \/ \E i \in DOMAIN rs : rs[i].status = "asserted" THEN "asserted"
    ELSE "verified"

Attribution ==
    [verification |-> Weakest(results),
     class |-> IF chain = << >> THEN "unattributed"
               ELSE IF chain[1].anchor = "trigger" THEN "autonomous"
               ELSE IF Len(chain) = 1 THEN "direct" ELSE "delegated"]

-----------------------------------------------------------------------------
(* The offline verifier. *)

(* Hop i of a receipt resolves to its token by its evidence, or by the
   par_hash of the hop above it. *)
Resolves(i) == i \in carried /\ results[i].evidence # "none"

ParsesOffline(h) == ~Malformed(h) /\ h.key \in Keys

RootFindings(h) ==
    {inv \in {"I1", "I2", "I5"} :
        \/ inv = "I2" /\ h.depth # 0
        \/ inv = "I5" /\ h.par # "none"
        \/ inv = "I1" /\ ~SignedBy(h, h.key)}

HopFindingsMutant(h, parent) ==
    {inv \in {"I1", "I2", "I3", "I5"} :
        \/ inv = "I1" /\ ~SignedBy(h, parent.key)
        \/ inv = "I2" /\ h.depth # parent.depth + 1
        \/ inv = "I3" /\ parent.exp > 0 /\ h.exp > parent.exp
        \/ inv = "I5" /\ h.par # "below"}
HopFindings(h, parent) ==
    {inv \in {"I1", "I2", "I3", "I5"} :
        \/ inv = "I1" /\ ~SignedBy(h, parent.key)
        \/ inv = "I2" /\ \/ h.depth # parent.depth + 1
                         \/ h.max > parent.max
                         \/ h.depth > h.max
        \/ inv = "I3" /\ parent.exp > 0 /\ h.exp > parent.exp
        \/ inv = "I5" /\ h.par # "below"}

FindingsAt(i) ==
    IF ~Resolves(i) THEN {}
    ELSE IF ~ParsesOffline(chain[i]) THEN {"malformed"}
    ELSE IF i = 1 THEN RootFindings(chain[1])
    ELSE IF Resolves(i - 1) /\ ParsesOffline(chain[i - 1])
         THEN HopFindings(chain[i], chain[i - 1])
         ELSE {}

-----------------------------------------------------------------------------
Init ==
    /\ cast \in DOMAIN Casts
    /\ report \in Play.reports
    /\ at \in Play.instants
    /\ chain = << >>
    /\ others = 0
    /\ whole = TRUE
    /\ results = << >>
    /\ stage = "carried"
    /\ store = {}
    /\ carried = {}
    /\ findings = << >>

Building == results = << >> /\ stage = "carried"

Append1(hop) ==
    /\ Building
    /\ Len(chain) < MaxHops
    /\ chain' = Append(chain, hop)

MintRoot ==
    \E key \in Play.keys, budget \in Play.budgets, exp \in Play.expiries \ {0},
       grants \in Play.grants \ {NoGrants}, anchor \in Play.anchors \ {"none"} :
        /\ chain = << >>
        /\ Append1(RootHop(key, budget, exp, grants, anchor))
        /\ UNCHANGED <<cast, others, whole, report, at, results, stage, store, carried, findings>>

Mint ==
    /\ chain # << >>
    /\ LET parent == chain[Len(chain)]
       IN  \E key \in Play.keys, exp \in Play.expiries, grants \in Play.grants :
               /\ \E att \in Compare(parent.grants, grants) :
                      Mints(parent, ChildHop(parent, key, exp, grants), att)
               /\ Append1(ChildHop(parent, key, exp, grants))
    /\ UNCHANGED <<cast, others, whole, report, at, results, stage, store, carried, findings>>

(* The next hop by an implementation that does not hold Mint's rules, or as a
   bare claim: a well-made hop but for one member. *)
WellMade ==
    IF chain = << >>
    THEN {RootHop(key, budget, exp, grants, "own_key") :
             key \in Play.keys, budget \in Play.budgets, exp \in Play.expiries \ {0},
             grants \in Play.grants}
    ELSE {ChildHop(chain[Len(chain)], key, exp, grants) :
             key \in Play.keys, exp \in Play.expiries \ {0}, grants \in Play.grants}

Deviants(h) ==
    {h} \union {[h EXCEPT !.signer = s] : s \in Play.keys \union {Garbled, Nobody}}
        \union {[h EXCEPT !.key = k] : k \in {Foreign, Garbled}}
        \union {[h EXCEPT !.key = k, !.signer = k] : k \in {Foreign, Garbled}}
        \union {[h EXCEPT !.depth = d] : d \in 0..MaxHops}
        \union {[h EXCEPT !.max = d] : d \in 0..MaxHops}
        \union {[h EXCEPT !.par = p] : p \in {"none", "below", "other"}}
        \union {[h EXCEPT !.anchor = a] : a \in Anchors}
        \union {[h EXCEPT !.jti = FALSE], [h EXCEPT !.exp = 0]}

AddOther ==
    /\ others < Play.others
    /\ \E h \in WellMade : \E other \in Deviants(h) : Append1(other)
    /\ others' = others + 1
    /\ UNCHANGED <<cast, whole, report, at, results, stage, store, carried, findings>>

(* A hop is minted again, with another jti, and the hop above it still names
   the token it replaces. *)
Renew ==
    /\ Building
    /\ others < Play.others
    /\ \E i \in 2..Len(chain) :
          /\ chain[i].par = "below"
          /\ chain' = [chain EXCEPT ![i].par = "other"]
    /\ others' = others + 1
    /\ UNCHANGED <<cast, whole, report, at, results, stage, store, carried, findings>>

(* The chain is carried without its first hop. *)
CarryTail ==
    /\ Building
    /\ whole
    /\ others < Play.others
    /\ Len(chain) > 1
    /\ chain' = [Tail(chain) EXCEPT ![1].par = "other"]
    /\ whole' = FALSE
    /\ UNCHANGED <<cast, others, report, at, results, stage, store, carried, findings>>

(* One hop is verified, against the hop below and what was found of it. *)
Verify ==
    /\ Len(results) < Len(chain)
    /\ LET i == Len(results) + 1
           h == chain[i]
       IN  IF i = 1
           THEN results' = <<Result(h, RootVerdict(h), "none")>>
           ELSE \E att \in Compare(chain[i - 1].grants, h.grants) :
                    results' = Append(results,
                        Result(h, HopVerdict(h, chain[i - 1], results[i - 1], att), att))
    /\ UNCHANGED <<presented, stage, store, carried, findings>>

(* The surface retains the signed tokens, then the receipt embeds the chain. *)
Record ==
    /\ stage = "carried"
    /\ chain # << >>
    /\ Len(results) = Len(chain)
    /\ store' = {i \in DOMAIN chain : Signed(chain[i])}
    /\ stage' = "recorded"
    /\ UNCHANGED <<presented, results, carried, findings>>

(* The customer prunes a blob. *)
Prune ==
    /\ stage = "recorded"
    /\ \E i \in store : store' = store \ {i}
    /\ UNCHANGED <<presented, results, stage, carried, findings>>

(* The tokens an export carries: by a hop's own evidence, or as the parent a
   par_hash names. *)
HopTokens ==
    {i \in store : \/ results[i].evidence = "token"
                   \/ i < Len(chain) /\ chain[i + 1].par = "below"}

Export ==
    /\ stage = "recorded"
    /\ stage' = "exported"
    /\ carried' = HopTokens
    /\ UNCHANGED <<presented, results, store, findings>>

CheckChain ==
    /\ stage = "exported"
    /\ stage' = "checked"
    /\ findings' = [i \in DOMAIN chain |-> FindingsAt(i)]
    /\ UNCHANGED <<presented, results, store, carried>>

-----------------------------------------------------------------------------
(* CheckScope, the finding of a read: the operation went past the tightest
   ceiling any hop of the chain placed on it.  A decimal is a natural number. *)
Tightest(ceilings) == CHOOSE l \in ceilings : \A m \in ceilings : l <= m

CheckScopeMutant(hops, operation, amount) ==   \* mutant: the first ceiling, not the tightest
    LET placing == {i \in DOMAIN hops : CeilingOf(hops[i].grants, operation) # {}}
    IN  /\ amount \in Nat
        /\ placing # {}
        /\ amount > Tightest(CeilingOf(hops[CHOOSE i \in placing : \A j \in placing : i <= j].grants, operation))
CheckScope(hops, operation, amount) ==
    LET ceilings == UNION {CeilingOf(hops[i].grants, operation) : i \in DOMAIN hops}
    IN  /\ amount \in Nat
        /\ ceilings # {}
        /\ amount > Tightest(ceilings)

-----------------------------------------------------------------------------
Next ==
    \/ MintRoot \/ Mint \/ AddOther \/ Renew \/ CarryTail
    \/ Verify \/ Record \/ Prune \/ Export \/ CheckChain

Spec == Init /\ [][Next]_vars
=============================================================================
