--------------------------- MODULE DelegationProps ---------------------------
(***************************************************************************)
(* What the statuses of a chain promise its reader.                        *)
(***************************************************************************)
EXTENDS Delegation

CONSTANTS
    Within(_, _),       \* all the first grant set admits, the second admits
    Decidable(_),       \* no granted action is a wildcard
    May(_, _),          \* a grant set grants an operation
    Operations          \* <<operation, amount>>: what a reader asks CheckScope

(* The grant sets the comparator settles. *)
Plain == {g \in GrantSets : Decidable(g)}

(* What is asked of the comparator, of two neighbours at a time: it gives one
   of the four answers; without wildcards, an answer that widens nothing is
   right, and "broadened" is the only answer of a pair or none of its answers
   (I-4 and behalf's own rules, checked here of the rules in Grants). *)
Answered == {"unchanged", "attenuated", "unknown", "broadened"}

ASSUME ComparatorAssumption ==
    /\ \A p, c \in GrantSets : Compare(p, c) \subseteq Answered
    /\ \A p, c \in Plain :
           /\ Compare(p, c) \cap {"unchanged", "attenuated"} # {} => Within(c, p)
           /\ "broadened" \in Compare(p, c) => Compare(p, c) = {"broadened"}

(* Admitting no more than another is a preorder. *)
ASSUME WithinAssumption ==
    /\ \A a \in Plain : Within(a, a)
    /\ \A a, b \in Plain : Within(a, b) =>
           \A c \in Plain : Within(b, c) => Within(a, c)

(* A ceiling is a decimal, at most one for an operation; and a grant set that
   admits no more of an operation it grants has a ceiling wherever the other
   has one, and none above it. *)
ASSUME CeilingAssumption ==
    \A o \in Operations :
        /\ \A g \in GrantSets : \A l, m \in CeilingOf(g, o[1]) : l \in Nat /\ l = m
        /\ \A p, c \in Plain : Within(c, p) /\ May(c, o[1]) =>
               \A l \in CeilingOf(p, o[1]) : \E m \in CeilingOf(c, o[1]) : m <= l

(* Every variable has its type. *)
TypeOK ==
    /\ cast \in DOMAIN Casts
    /\ Len(chain) <= MaxHops
    /\ \A i \in DOMAIN chain : /\ chain[i].signer \in Keys \union {Foreign, Garbled, Nobody}
                               /\ chain[i].key \in Keys \union {Foreign, Garbled}
                               /\ chain[i].grants \in GrantSets
    /\ others \in 0..Play.others
    /\ whole \in BOOLEAN
    /\ report \in Report
    /\ at \in Nat
    /\ Len(results) <= Len(chain)
    /\ \A i \in DOMAIN results :
           /\ results[i].status \in {"verified", "asserted", "broken"}
           /\ results[i].evidence \in {"none", "token", "statement"}
           /\ StoredFlag(results[i]) \in {"none", "unchanged", "attenuated", "unknown"}
    /\ stage \in Stages
    /\ carried \subseteq store
    /\ store \subseteq DOMAIN chain

(* A verified hop rests on a verified prefix: from the root to it every hop is
   signed by the key the hop below confirms and names that hop's token, sits
   one deeper inside a budget no hop widened, and expires no later than any
   hop below.  The root is of this login's device and its login evidence is
   complete.  verifyHop compares a hop with its parent alone. *)
VerifiedIsEarned ==
    \A i \in DOMAIN results : results[i].status = "verified" =>
        /\ report.state = "verified" /\ report.device \in {Foreign, chain[1].key}
        /\ SignedBy(chain[1], chain[1].key) /\ chain[1].par = "none"
        /\ \A j \in 1..i : /\ results[j].status = "verified"
                           /\ chain[j].depth = j - 1
                           /\ chain[j].jti /\ ~Expired(chain[j])
                           /\ chain[j].exp \in 1..chain[1].exp
                           /\ i - 1 <= chain[j].max
                           /\ chain[i].exp <= chain[j].exp
                           /\ j > 1 => /\ SignedBy(chain[j], chain[j - 1].key)
                                       /\ chain[j].par = "below"

(* Behind a verified hop no authority was gained on the way: whatever it
   admits, every hop below admits.  The comparator only ever looks at two
   neighbours and at the grammar of their grants.  Wildcard grants are left
   out: compareV1 looks for the parent's ceiling on the actions the child
   names, so one on an operation that a wildcard matches is not compared. *)
VerifiedIsWithin ==
    \A i \in DOMAIN results :
        /\ results[i].status = "verified"
        /\ \A j \in 1..i : Decidable(chain[j].grants)
        => \A j \in 1..i : Within(chain[i].grants, chain[j].grants)

(* Verified, all the way from the root. *)
VerifiedStands == VerifiedIsEarned /\ VerifiedIsWithin

(* What Mint makes, Verify does not call broken: a chain of minted hops,
   carried whole, in its lifetime, under the login it was minted under.  Mint
   takes the binding it is given: that it names the root's own key is the
   caller's to see to. *)
MintedHolds ==
    \A i \in DOMAIN results :
        /\ others = 0 /\ whole
        /\ report.device \in {Foreign, chain[1].key} /\ report.state # "broken"
        /\ chain[1].anchor # "another_key"
        /\ \A j \in 1..i : ~Expired(chain[j]) /\ Decidable(chain[j].grants)
        => results[i].status # "broken"

(* The comparator's answer is a matter of the grants alone: Mint emits no hop
   its verifier would reject for attenuation, whatever the grants. *)
MintedIsNotBroadened ==
    \A i \in DOMAIN results : others = 0 => results[i].method # "attenuation"

(* The two verifiers agree wherever both could look: on a hop whose token and
   whose parent's token the export carries, with keys v1 can read, the offline
   verifier reports a finding exactly when capture called the hop broken on
   its signature, depth, lifetime, linkage or a missing claim. *)
Structural == {"signature", "depth", "par_hash", "malformed"}

OpinionsAgree ==
    stage = "checked" =>
        \A i \in DOMAIN chain :
            /\ Resolves(i) /\ chain[i].key \in Keys
            /\ i > 1 => Resolves(i - 1) /\ ParsesOffline(chain[i - 1])
            => /\ findings[i] # {} => results[i].status = "broken"
               /\ results[i].method \in Structural => findings[i] # {}
               /\ (i > 1 /\ Outlives(chain[i], chain[i - 1])) => findings[i] # {}

(* A chain capture recorded as broken on a structural ground, whose tokens
   are all in the export, does not read as clean offline. *)
BrokenIsFoundOffline ==
    stage = "checked" /\ carried = {i \in DOMAIN chain : Signed(chain[i])} =>
        \A i \in DOMAIN chain :
            Signed(chain[i]) /\ results[i].method \in Structural
            => \E j \in DOMAIN chain : findings[j] # {}

(* Reading a verified chain, the scope check flags what exceeds the ceiling of
   the hop that acted, and what the last hop allows is allowed by all. *)
ScopeReadsTheLeaf ==
    Len(chain) > 0 /\ Len(results) = Len(chain)
    /\ results[Len(chain)].status = "verified"
    /\ (\A i \in DOMAIN chain : Decidable(chain[i].grants)) =>
        \A o \in {p \in Operations : May(chain[Len(chain)].grants, p[1])} :
            CheckScope(chain, o[1], o[2]) <=> CheckScope(<<chain[Len(chain)]>>, o[1], o[2])
=============================================================================
