-------------------------- MODULE DelegationProofs --------------------------
(***************************************************************************)
(* What the statuses of a delegation chain hold to for any keys, grants,   *)
(* logins, clocks and chain lengths, hops of other implementations         *)
(* included: authority is judged one hop at a time, from the root up, and  *)
(* stands for the whole prefix.                                            *)
(***************************************************************************)
EXTENDS DelegationProps, SequenceTheorems, WellFoundedInduction, TLAPS

-----------------------------------------------------------------------------
(* The inductive invariant, part by part.                                  *)

Hops == [signer : Keys \cup {Foreign, Garbled, Nobody}, key : Keys \cup {Foreign, Garbled},
         depth : Nat, max : Nat, par : {"none", "below", "other"}, exp : Nat,
         jti : BOOLEAN, grants : GrantSets, anchor : Anchors]

(* The outcome of a hop. *)
Methods == {"oidc", "signature_chain", "no_signature", "unsupported_key", "signature", "par_hash",
            "malformed", "depth", "expiry", "root", "no_root_material", "root_incomplete",
            "attenuation", "parent_unverified", "not_comparable"}

Outcomes == [status : {"verified", "asserted", "broken"}, method : Methods,
             evidence : {"none", "token", "statement"}, att : Answered \cup {"none"}]

(* The types of the variables, and what a stage has behind it. *)
Shape ==
    /\ cast \in DOMAIN Casts
    /\ chain \in Seq(Hops) /\ Len(chain) <= MaxHops
    /\ report \in Report
    /\ at \in Nat
    /\ others \in 0..Play.others
    /\ whole \in BOOLEAN
    /\ stage \in Stages
    /\ results \in Seq(Outcomes) /\ Len(results) <= Len(chain)
    /\ stage # "carried" => Len(results) = Len(chain) /\ Len(chain) > 0
    /\ stage = "carried" => store = {}
    /\ stage \in {"carried", "recorded"} => carried = {}
    /\ store \subseteq {i \in DOMAIN chain : Signed(chain[i])}
    /\ carried \subseteq store
    /\ stage = "checked" => findings = [i \in DOMAIN chain |-> FindingsAt(i)]

(* A result is what the table of its hop says, of the hop, the hop below and
   the result below; a receipt has evidence of no bare hop, and of a first hop
   only when it is a root. *)
Says(res, verdict) == res.status = verdict[1] /\ res.method = verdict[2]

Judged(i) ==
    /\ i = 1 => Says(results[1], RootVerdict(chain[1]))
    /\ i > 1 => /\ results[i].att \in Compare(chain[i - 1].grants, chain[i].grants)
                /\ Says(results[i], HopVerdict(chain[i], chain[i - 1], results[i - 1],
                                               results[i].att))
    /\ results[i].evidence # "none" => Signed(chain[i]) /\ (i = 1 => chain[1].depth = 0)

AllJudged == \A i \in DOMAIN results : Judged(i)

(* A hop Mint made. *)
MintedRoot(h) ==
    /\ h.signer = h.key /\ h.key \in Keys
    /\ h.depth = 0 /\ h.par = "none" /\ h.jti /\ h.exp > 0

MintedFrom(h, parent) ==
    /\ h.signer = parent.key /\ parent.key \in Keys /\ h.key \in Keys
    /\ h.depth = parent.depth + 1 /\ h.max = parent.max /\ h.depth <= h.max
    /\ h.par = "below" /\ h.jti /\ h.exp > 0
    /\ h.exp <= parent.exp
    /\ \E att \in Compare(parent.grants, h.grants) : att # "broadened"

AllMinted ==
    others = 0 /\ whole =>
        \A i \in DOMAIN chain : /\ i = 1 => MintedRoot(chain[1])
                                /\ i > 1 => MintedFrom(chain[i], chain[i - 1])

(* Below a verified hop no budget is narrower: VerifiedIsEarned alone bounds
   the depth of a hop by every budget below it, which says nothing of the next
   hop. *)
BudgetsNarrow ==
    \A i \in DOMAIN results : results[i].status = "verified" =>
        \A j \in 1..i : chain[i].max <= chain[j].max

IInv == /\ Shape /\ AllJudged /\ AllMinted
        /\ BudgetsNarrow /\ VerifiedIsEarned /\ VerifiedIsWithin

-----------------------------------------------------------------------------
(* Sequences.                                                              *)

\* The elements of a sequence.
LEMMA SeqElements ==
    ASSUME NEW S, NEW s \in Seq(S)
    PROVE  Len(s) \in Nat /\ DOMAIN s = 1..Len(s) /\ \A i \in DOMAIN s : s[i] \in S
  OBVIOUS

\* A sequence with one more element.
LEMMA AppendFacts ==
    ASSUME NEW S, NEW s \in Seq(S), NEW e \in S
    PROVE  /\ Append(s, e) \in Seq(S)
           /\ Len(Append(s, e)) = Len(s) + 1
           /\ DOMAIN Append(s, e) = DOMAIN s \cup {Len(s) + 1}
           /\ Len(s) + 1 \notin DOMAIN s
           /\ \A i \in DOMAIN s : Append(s, e)[i] = s[i]
           /\ Append(s, e)[Len(s) + 1] = e
  OBVIOUS

-----------------------------------------------------------------------------
(* The tables of Verify, read as chains of conditions.                     *)

\* A table answers with its first row that hits.
LEMMA FirstOfFacts ==
    ASSUME NEW rows, NEW n \in Nat, DOMAIN rows = 1..n, NEW otherwise
    PROVE  \/ (\A i \in 1..n : ~rows[i][1]) /\ FirstOf(rows, otherwise) = otherwise
           \/ \E i \in 1..n : /\ rows[i][1] /\ \A k \in 1..(i - 1) : ~rows[k][1]
                              /\ FirstOf(rows, otherwise) = <<rows[i][2], rows[i][3]>>
<1> DEFINE hit == {i \in DOMAIN rows : rows[i][1]}
<1>1. CASE hit = {}
  BY <1>1 DEF FirstOf
<1>2. CASE hit # {}
  <2> DEFINE R == {ss \in Nat \X Nat : ss[1] < ss[2]}
  <2>1. IsWellFoundedOn(R, Nat)
    BY NatLessThanWellFounded DEF OpToRel
  <2>2. PICK x \in hit : \A y \in hit : ~(<<y, x>> \in R)
    BY <1>2, <2>1, WFMin
  <2>3. \A y \in hit : x <= y
    <3>1. ASSUME NEW y \in hit
          PROVE  x <= y
      <4>1. x \in Nat /\ y \in Nat
        OBVIOUS
      <4>2. ~(y < x)
        BY <2>2, <4>1
      <4>. QED BY <4>1, <4>2
    <3>. QED BY <3>1
  <2> DEFINE i == CHOOSE j \in hit : \A k \in hit : j <= k
  <2>4. i \in hit /\ \A k \in hit : i <= k
    BY <2>3
  <2>5. FirstOf(rows, otherwise) = <<rows[i][2], rows[i][3]>>
    BY <1>2 DEF FirstOf
  <2>. HIDE DEF i
  <2>6. \A k \in 1..(i - 1) : k \notin hit
    BY <2>4
  <2>. QED BY <2>4, <2>5, <2>6
<1>. QED BY <1>1, <1>2

(* The root's table. *)
RootRead(h) ==
    IF h.depth # 0 THEN <<"broken", "depth">>
    ELSE IF ~Signed(h) THEN <<"asserted", "no_signature">>
    ELSE IF h.par # "none" THEN <<"broken", "par_hash">>
    ELSE IF ~PublicKey(h.key) THEN <<"asserted", "unsupported_key">>
    ELSE IF ~SignedBy(h, h.key) THEN <<"broken", "signature">>
    ELSE IF Malformed(h) THEN <<"broken", "malformed">>
    ELSE IF Expired(h) THEN <<"broken", "expiry">>
    ELSE IF report.state = "absent" THEN <<"asserted", "no_root_material">>
    ELSE IF report.device \notin {Foreign, h.key} THEN <<"broken", "root">>
    ELSE IF h.anchor = "another_key" THEN <<"broken", "root">>
    ELSE IF report.state = "broken" THEN <<"broken", "root">>
    ELSE IF report.state = "degraded" THEN <<"asserted", "root_incomplete">>
    ELSE <<"verified", "oidc">>

\* The table answers as its reading does.
LEMMA RootTable ==
    ASSUME NEW h
    PROVE  RootVerdict(h) = RootRead(h)
<1> DEFINE rows == <<
    <<h.depth # 0, "broken", "depth">>,
    <<~Signed(h), "asserted", "no_signature">>,
    <<h.par # "none", "broken", "par_hash">>,
    <<~PublicKey(h.key), "asserted", "unsupported_key">>,
    <<~SignedBy(h, h.key), "broken", "signature">>,
    <<Malformed(h), "broken", "malformed">>,
    <<Expired(h), "broken", "expiry">>,
    <<report.state = "absent", "asserted", "no_root_material">>,
    <<report.device \notin {Foreign, h.key}, "broken", "root">>,
    <<h.anchor = "another_key", "broken", "root">>,
    <<report.state = "broken", "broken", "root">>,
    <<report.state = "degraded", "asserted", "root_incomplete">> >>
<1>1. DOMAIN rows = 1..12
  OBVIOUS
<1>2. RootVerdict(h) = FirstOf(rows, <<"verified", "oidc">>)
  BY DEF RootVerdict
<1>3. /\ rows[1][2] = "broken" /\ rows[1][3] = "depth"
      /\ rows[2][2] = "asserted" /\ rows[2][3] = "no_signature"
      /\ rows[3][2] = "broken" /\ rows[3][3] = "par_hash"
      /\ rows[4][2] = "asserted" /\ rows[4][3] = "unsupported_key"
      /\ rows[5][2] = "broken" /\ rows[5][3] = "signature"
      /\ rows[6][2] = "broken" /\ rows[6][3] = "malformed"
      /\ rows[7][2] = "broken" /\ rows[7][3] = "expiry"
      /\ rows[8][2] = "asserted" /\ rows[8][3] = "no_root_material"
      /\ rows[9][2] = "broken" /\ rows[9][3] = "root"
      /\ rows[10][2] = "broken" /\ rows[10][3] = "root"
      /\ rows[11][2] = "broken" /\ rows[11][3] = "root"
      /\ rows[12][2] = "asserted" /\ rows[12][3] = "root_incomplete"
  OBVIOUS
<1>4. rows[1][1] <=> h.depth # 0
  OBVIOUS
<1>5. rows[2][1] <=> ~Signed(h)
  OBVIOUS
<1>6. rows[3][1] <=> h.par # "none"
  OBVIOUS
<1>7. rows[4][1] <=> ~PublicKey(h.key)
  OBVIOUS
<1>8. rows[5][1] <=> ~SignedBy(h, h.key)
  OBVIOUS
<1>9. rows[6][1] <=> Malformed(h)
  OBVIOUS
<1>10. rows[7][1] <=> Expired(h)
  OBVIOUS
<1>11. rows[8][1] <=> report.state = "absent"
  OBVIOUS
<1>12. rows[9][1] <=> report.device \notin {Foreign, h.key}
  OBVIOUS
<1>13. rows[10][1] <=> h.anchor = "another_key"
  OBVIOUS
<1>14. rows[11][1] <=> report.state = "broken"
  OBVIOUS
<1>15. rows[12][1] <=> report.state = "degraded"
  OBVIOUS
<1>. HIDE DEF rows
<1>16. \/ (\A i \in 1..12 : ~rows[i][1]) /\ RootVerdict(h) = <<"verified", "oidc">>
       \/ \E i \in 1..12 : /\ rows[i][1] /\ \A k \in 1..(i - 1) : ~rows[k][1]
                           /\ RootVerdict(h) = <<rows[i][2], rows[i][3]>>
  BY <1>1, <1>2, FirstOfFacts
<1>17. CASE (\A i \in 1..12 : ~rows[i][1]) /\ RootVerdict(h) = <<"verified", "oidc">>
  <2>1. \A i \in 1..12 : ~rows[i][1]
    BY <1>17
  <2>2. ~rows[1][1] /\ ~rows[2][1] /\ ~rows[3][1] /\ ~rows[4][1] /\ ~rows[5][1] /\ ~rows[6][1]
    BY <2>1
  <2>3. ~rows[7][1] /\ ~rows[8][1] /\ ~rows[9][1] /\ ~rows[10][1] /\ ~rows[11][1] /\ ~rows[12][1]
    BY <2>1
  <2>. QED BY <1>17, <2>2, <2>3, <1>4, <1>5, <1>6, <1>7, <1>8, <1>9, <1>10, <1>11, <1>12, <1>13, <1>14, <1>15 DEF RootRead
<1>18. ASSUME NEW i \in 1..12, rows[i][1], \A k \in 1..(i - 1) : ~rows[k][1],
              RootVerdict(h) = <<rows[i][2], rows[i][3]>>
       PROVE  RootVerdict(h) = RootRead(h)
  <2>1. CASE i = 1
    BY <1>3, <1>4, <1>18, <2>1 DEF RootRead
  <2>2. CASE i = 2
    <3>1. ~rows[1][1]
      BY <1>18, <2>2
    <3>2. RootVerdict(h) = <<"asserted", "no_signature">> /\ rows[2][1]
      BY <1>3, <1>18, <2>2
    <3>. QED BY <3>1, <3>2, <1>4, <1>5 DEF RootRead
  <2>3. CASE i = 3
    <3>1. ~rows[1][1] /\ ~rows[2][1]
      BY <1>18, <2>3
    <3>2. RootVerdict(h) = <<"broken", "par_hash">> /\ rows[3][1]
      BY <1>3, <1>18, <2>3
    <3>. QED BY <3>1, <3>2, <1>4, <1>5, <1>6 DEF RootRead
  <2>4. CASE i = 4
    <3>1. ~rows[1][1] /\ ~rows[2][1] /\ ~rows[3][1]
      BY <1>18, <2>4
    <3>2. RootVerdict(h) = <<"asserted", "unsupported_key">> /\ rows[4][1]
      BY <1>3, <1>18, <2>4
    <3>. QED BY <3>1, <3>2, <1>4, <1>5, <1>6, <1>7 DEF RootRead
  <2>5. CASE i = 5
    <3>1. ~rows[1][1] /\ ~rows[2][1] /\ ~rows[3][1] /\ ~rows[4][1]
      BY <1>18, <2>5
    <3>2. RootVerdict(h) = <<"broken", "signature">> /\ rows[5][1]
      BY <1>3, <1>18, <2>5
    <3>. QED BY <3>1, <3>2, <1>4, <1>5, <1>6, <1>7, <1>8 DEF RootRead
  <2>6. CASE i = 6
    <3>1. ~rows[1][1] /\ ~rows[2][1] /\ ~rows[3][1] /\ ~rows[4][1] /\ ~rows[5][1]
      BY <1>18, <2>6
    <3>2. RootVerdict(h) = <<"broken", "malformed">> /\ rows[6][1]
      BY <1>3, <1>18, <2>6
    <3>. QED BY <3>1, <3>2, <1>4, <1>5, <1>6, <1>7, <1>8, <1>9 DEF RootRead
  <2>7. CASE i = 7
    <3>1. ~rows[1][1] /\ ~rows[2][1] /\ ~rows[3][1] /\ ~rows[4][1] /\ ~rows[5][1] /\ ~rows[6][1]
      BY <1>18, <2>7
    <3>2. RootVerdict(h) = <<"broken", "expiry">> /\ rows[7][1]
      BY <1>3, <1>18, <2>7
    <3>. QED BY <3>1, <3>2, <1>4, <1>5, <1>6, <1>7, <1>8, <1>9, <1>10 DEF RootRead
  <2>8. CASE i = 8
    <3>1. ~rows[1][1] /\ ~rows[2][1] /\ ~rows[3][1] /\ ~rows[4][1] /\ ~rows[5][1] /\ ~rows[6][1]
          /\ ~rows[7][1]
      BY <1>18, <2>8
    <3>2. RootVerdict(h) = <<"asserted", "no_root_material">> /\ rows[8][1]
      BY <1>3, <1>18, <2>8
    <3>. QED BY <3>1, <3>2, <1>4, <1>5, <1>6, <1>7, <1>8, <1>9, <1>10, <1>11 DEF RootRead
  <2>9. CASE i = 9
    <3>1. ~rows[1][1] /\ ~rows[2][1] /\ ~rows[3][1] /\ ~rows[4][1] /\ ~rows[5][1] /\ ~rows[6][1]
          /\ ~rows[7][1] /\ ~rows[8][1]
      BY <1>18, <2>9
    <3>2. RootVerdict(h) = <<"broken", "root">> /\ rows[9][1]
      BY <1>3, <1>18, <2>9
    <3>. QED BY <3>1, <3>2, <1>4, <1>5, <1>6, <1>7, <1>8, <1>9, <1>10, <1>11, <1>12 DEF RootRead
  <2>10. CASE i = 10
    <3>1. ~rows[1][1] /\ ~rows[2][1] /\ ~rows[3][1] /\ ~rows[4][1] /\ ~rows[5][1] /\ ~rows[6][1]
          /\ ~rows[7][1] /\ ~rows[8][1] /\ ~rows[9][1]
      BY <1>18, <2>10
    <3>2. RootVerdict(h) = <<"broken", "root">> /\ rows[10][1]
      BY <1>3, <1>18, <2>10
    <3>. QED BY <3>1, <3>2, <1>4, <1>5, <1>6, <1>7, <1>8, <1>9, <1>10, <1>11, <1>12, <1>13 DEF RootRead
  <2>11. CASE i = 11
    <3>1. ~rows[1][1] /\ ~rows[2][1] /\ ~rows[3][1] /\ ~rows[4][1] /\ ~rows[5][1] /\ ~rows[6][1]
          /\ ~rows[7][1] /\ ~rows[8][1] /\ ~rows[9][1] /\ ~rows[10][1]
      BY <1>18, <2>11
    <3>2. RootVerdict(h) = <<"broken", "root">> /\ rows[11][1]
      BY <1>3, <1>18, <2>11
    <3>. QED BY <3>1, <3>2, <1>4, <1>5, <1>6, <1>7, <1>8, <1>9, <1>10, <1>11, <1>12, <1>13, <1>14 DEF RootRead
  <2>12. CASE i = 12
    <3>1. ~rows[1][1] /\ ~rows[2][1] /\ ~rows[3][1] /\ ~rows[4][1] /\ ~rows[5][1] /\ ~rows[6][1]
          /\ ~rows[7][1] /\ ~rows[8][1] /\ ~rows[9][1] /\ ~rows[10][1] /\ ~rows[11][1]
      BY <1>18, <2>12
    <3>2. RootVerdict(h) = <<"asserted", "root_incomplete">> /\ rows[12][1]
      BY <1>3, <1>18, <2>12
    <3>. QED BY <3>1, <3>2, <1>4, <1>5, <1>6, <1>7, <1>8, <1>9, <1>10, <1>11, <1>12, <1>13, <1>14, <1>15 DEF RootRead
  <2>13. i = 1 \/ i = 2 \/ i = 3 \/ i = 4 \/ i = 5 \/ i = 6
        \/ i = 7 \/ i = 8 \/ i = 9 \/ i = 10 \/ i = 11 \/ i = 12
    OBVIOUS
  <2>. QED BY <2>13, <2>1, <2>2, <2>3, <2>4, <2>5, <2>6, <2>7, <2>8, <2>9, <2>10, <2>11, <2>12
<1>. QED BY <1>16, <1>17, <1>18

(* The table of every other hop. *)
HopRead(h, parent, below, att) ==
    IF ~Signed(h) THEN <<"asserted", "no_signature">>
    ELSE IF ~PublicKey(parent.key) THEN <<"asserted", "unsupported_key">>
    ELSE IF ~SignedBy(h, parent.key) THEN <<"broken", "signature">>
    ELSE IF ~HasThumbprint(h.key) THEN <<"asserted", "unsupported_key">>
    ELSE IF ~h.jti THEN <<"broken", "malformed">>
    ELSE IF DepthBreaks(h, parent) THEN <<"broken", "depth">>
    ELSE IF h.exp = 0 THEN <<"broken", "malformed">>
    ELSE IF Outlives(h, parent) THEN <<"broken", "expiry">>
    ELSE IF Expired(h) THEN <<"broken", "expiry">>
    ELSE IF (Signed(parent) /\ h.par # "below") THEN <<"broken", "par_hash">>
    ELSE IF att = "broadened" THEN <<"broken", "attenuation">>
    ELSE IF below.status # "verified" THEN <<"asserted", "parent_unverified">>
    ELSE IF att = "unknown" THEN <<"asserted", "not_comparable">>
    ELSE <<"verified", "signature_chain">>

\* The table answers as its reading does.
LEMMA HopTable ==
    ASSUME NEW h, NEW parent, NEW below, NEW att
    PROVE  HopVerdict(h, parent, below, att) = HopRead(h, parent, below, att)
<1> DEFINE rows == <<
    <<~Signed(h), "asserted", "no_signature">>,
    <<~PublicKey(parent.key), "asserted", "unsupported_key">>,
    <<~SignedBy(h, parent.key), "broken", "signature">>,
    <<~HasThumbprint(h.key), "asserted", "unsupported_key">>,
    <<~h.jti, "broken", "malformed">>,
    <<DepthBreaks(h, parent), "broken", "depth">>,
    <<h.exp = 0, "broken", "malformed">>,
    <<Outlives(h, parent), "broken", "expiry">>,
    <<Expired(h), "broken", "expiry">>,
    <<Signed(parent) /\ h.par # "below", "broken", "par_hash">>,
    <<att = "broadened", "broken", "attenuation">>,
    <<below.status # "verified", "asserted", "parent_unverified">>,
    <<att = "unknown", "asserted", "not_comparable">> >>
<1>1. DOMAIN rows = 1..13
  OBVIOUS
<1>2. HopVerdict(h, parent, below, att) = FirstOf(rows, <<"verified", "signature_chain">>)
  BY DEF HopVerdict
<1>3. /\ rows[1][2] = "asserted" /\ rows[1][3] = "no_signature"
      /\ rows[2][2] = "asserted" /\ rows[2][3] = "unsupported_key"
      /\ rows[3][2] = "broken" /\ rows[3][3] = "signature"
      /\ rows[4][2] = "asserted" /\ rows[4][3] = "unsupported_key"
      /\ rows[5][2] = "broken" /\ rows[5][3] = "malformed"
      /\ rows[6][2] = "broken" /\ rows[6][3] = "depth"
      /\ rows[7][2] = "broken" /\ rows[7][3] = "malformed"
      /\ rows[8][2] = "broken" /\ rows[8][3] = "expiry"
      /\ rows[9][2] = "broken" /\ rows[9][3] = "expiry"
      /\ rows[10][2] = "broken" /\ rows[10][3] = "par_hash"
      /\ rows[11][2] = "broken" /\ rows[11][3] = "attenuation"
      /\ rows[12][2] = "asserted" /\ rows[12][3] = "parent_unverified"
      /\ rows[13][2] = "asserted" /\ rows[13][3] = "not_comparable"
  OBVIOUS
<1>4. rows[1][1] <=> ~Signed(h)
  OBVIOUS
<1>5. rows[2][1] <=> ~PublicKey(parent.key)
  OBVIOUS
<1>6. rows[3][1] <=> ~SignedBy(h, parent.key)
  OBVIOUS
<1>7. rows[4][1] <=> ~HasThumbprint(h.key)
  OBVIOUS
<1>8. rows[5][1] <=> ~h.jti
  OBVIOUS
<1>9. rows[6][1] <=> DepthBreaks(h, parent)
  OBVIOUS
<1>10. rows[7][1] <=> h.exp = 0
  OBVIOUS
<1>11. rows[8][1] <=> Outlives(h, parent)
  OBVIOUS
<1>12. rows[9][1] <=> Expired(h)
  OBVIOUS
<1>13. rows[10][1] <=> (Signed(parent) /\ h.par # "below")
  OBVIOUS
<1>14. rows[11][1] <=> att = "broadened"
  OBVIOUS
<1>15. rows[12][1] <=> below.status # "verified"
  OBVIOUS
<1>16. rows[13][1] <=> att = "unknown"
  OBVIOUS
<1>. HIDE DEF rows
<1>17. \/ (\A i \in 1..13 : ~rows[i][1]) /\ HopVerdict(h, parent, below, att) = <<"verified", "signature_chain">>
       \/ \E i \in 1..13 : /\ rows[i][1] /\ \A k \in 1..(i - 1) : ~rows[k][1]
                           /\ HopVerdict(h, parent, below, att) = <<rows[i][2], rows[i][3]>>
  BY <1>1, <1>2, FirstOfFacts
<1>18. CASE (\A i \in 1..13 : ~rows[i][1]) /\ HopVerdict(h, parent, below, att) = <<"verified", "signature_chain">>
  <2>1. \A i \in 1..13 : ~rows[i][1]
    BY <1>18
  <2>2. ~rows[1][1] /\ ~rows[2][1] /\ ~rows[3][1] /\ ~rows[4][1] /\ ~rows[5][1] /\ ~rows[6][1]
    BY <2>1
  <2>3. ~rows[7][1] /\ ~rows[8][1] /\ ~rows[9][1] /\ ~rows[10][1] /\ ~rows[11][1] /\ ~rows[12][1] /\ ~rows[13][1]
    BY <2>1
  <2>. QED BY <1>18, <2>2, <2>3, <1>4, <1>5, <1>6, <1>7, <1>8, <1>9, <1>10, <1>11, <1>12, <1>13, <1>14, <1>15, <1>16 DEF HopRead
<1>19. ASSUME NEW i \in 1..13, rows[i][1], \A k \in 1..(i - 1) : ~rows[k][1],
              HopVerdict(h, parent, below, att) = <<rows[i][2], rows[i][3]>>
       PROVE  HopVerdict(h, parent, below, att) = HopRead(h, parent, below, att)
  <2>1. CASE i = 1
    BY <1>3, <1>4, <1>19, <2>1 DEF HopRead
  <2>2. CASE i = 2
    <3>1. ~rows[1][1]
      BY <1>19, <2>2
    <3>2. HopVerdict(h, parent, below, att) = <<"asserted", "unsupported_key">> /\ rows[2][1]
      BY <1>3, <1>19, <2>2
    <3>. QED BY <3>1, <3>2, <1>4, <1>5 DEF HopRead
  <2>3. CASE i = 3
    <3>1. ~rows[1][1] /\ ~rows[2][1]
      BY <1>19, <2>3
    <3>2. HopVerdict(h, parent, below, att) = <<"broken", "signature">> /\ rows[3][1]
      BY <1>3, <1>19, <2>3
    <3>. QED BY <3>1, <3>2, <1>4, <1>5, <1>6 DEF HopRead
  <2>4. CASE i = 4
    <3>1. ~rows[1][1] /\ ~rows[2][1] /\ ~rows[3][1]
      BY <1>19, <2>4
    <3>2. HopVerdict(h, parent, below, att) = <<"asserted", "unsupported_key">> /\ rows[4][1]
      BY <1>3, <1>19, <2>4
    <3>. QED BY <3>1, <3>2, <1>4, <1>5, <1>6, <1>7 DEF HopRead
  <2>5. CASE i = 5
    <3>1. ~rows[1][1] /\ ~rows[2][1] /\ ~rows[3][1] /\ ~rows[4][1]
      BY <1>19, <2>5
    <3>2. HopVerdict(h, parent, below, att) = <<"broken", "malformed">> /\ rows[5][1]
      BY <1>3, <1>19, <2>5
    <3>. QED BY <3>1, <3>2, <1>4, <1>5, <1>6, <1>7, <1>8 DEF HopRead
  <2>6. CASE i = 6
    <3>1. ~rows[1][1] /\ ~rows[2][1] /\ ~rows[3][1] /\ ~rows[4][1] /\ ~rows[5][1]
      BY <1>19, <2>6
    <3>2. HopVerdict(h, parent, below, att) = <<"broken", "depth">> /\ rows[6][1]
      BY <1>3, <1>19, <2>6
    <3>. QED BY <3>1, <3>2, <1>4, <1>5, <1>6, <1>7, <1>8, <1>9 DEF HopRead
  <2>7. CASE i = 7
    <3>1. ~rows[1][1] /\ ~rows[2][1] /\ ~rows[3][1] /\ ~rows[4][1] /\ ~rows[5][1] /\ ~rows[6][1]
      BY <1>19, <2>7
    <3>2. HopVerdict(h, parent, below, att) = <<"broken", "malformed">> /\ rows[7][1]
      BY <1>3, <1>19, <2>7
    <3>. QED BY <3>1, <3>2, <1>4, <1>5, <1>6, <1>7, <1>8, <1>9, <1>10 DEF HopRead
  <2>8. CASE i = 8
    <3>1. ~rows[1][1] /\ ~rows[2][1] /\ ~rows[3][1] /\ ~rows[4][1] /\ ~rows[5][1] /\ ~rows[6][1]
          /\ ~rows[7][1]
      BY <1>19, <2>8
    <3>2. HopVerdict(h, parent, below, att) = <<"broken", "expiry">> /\ rows[8][1]
      BY <1>3, <1>19, <2>8
    <3>. QED BY <3>1, <3>2, <1>4, <1>5, <1>6, <1>7, <1>8, <1>9, <1>10, <1>11 DEF HopRead
  <2>9. CASE i = 9
    <3>1. ~rows[1][1] /\ ~rows[2][1] /\ ~rows[3][1] /\ ~rows[4][1] /\ ~rows[5][1] /\ ~rows[6][1]
          /\ ~rows[7][1] /\ ~rows[8][1]
      BY <1>19, <2>9
    <3>2. HopVerdict(h, parent, below, att) = <<"broken", "expiry">> /\ rows[9][1]
      BY <1>3, <1>19, <2>9
    <3>. QED BY <3>1, <3>2, <1>4, <1>5, <1>6, <1>7, <1>8, <1>9, <1>10, <1>11, <1>12 DEF HopRead
  <2>10. CASE i = 10
    <3>1. ~rows[1][1] /\ ~rows[2][1] /\ ~rows[3][1] /\ ~rows[4][1] /\ ~rows[5][1] /\ ~rows[6][1]
          /\ ~rows[7][1] /\ ~rows[8][1] /\ ~rows[9][1]
      BY <1>19, <2>10
    <3>2. HopVerdict(h, parent, below, att) = <<"broken", "par_hash">> /\ rows[10][1]
      BY <1>3, <1>19, <2>10
    <3>. QED BY <3>1, <3>2, <1>4, <1>5, <1>6, <1>7, <1>8, <1>9, <1>10, <1>11, <1>12, <1>13 DEF HopRead
  <2>11. CASE i = 11
    <3>1. ~rows[1][1] /\ ~rows[2][1] /\ ~rows[3][1] /\ ~rows[4][1] /\ ~rows[5][1] /\ ~rows[6][1]
          /\ ~rows[7][1] /\ ~rows[8][1] /\ ~rows[9][1] /\ ~rows[10][1]
      BY <1>19, <2>11
    <3>2. HopVerdict(h, parent, below, att) = <<"broken", "attenuation">> /\ rows[11][1]
      BY <1>3, <1>19, <2>11
    <3>. QED BY <3>1, <3>2, <1>4, <1>5, <1>6, <1>7, <1>8, <1>9, <1>10, <1>11, <1>12, <1>13, <1>14 DEF HopRead
  <2>12. CASE i = 12
    <3>1. ~rows[1][1] /\ ~rows[2][1] /\ ~rows[3][1] /\ ~rows[4][1] /\ ~rows[5][1] /\ ~rows[6][1]
          /\ ~rows[7][1] /\ ~rows[8][1] /\ ~rows[9][1] /\ ~rows[10][1] /\ ~rows[11][1]
      BY <1>19, <2>12
    <3>2. HopVerdict(h, parent, below, att) = <<"asserted", "parent_unverified">> /\ rows[12][1]
      BY <1>3, <1>19, <2>12
    <3>. QED BY <3>1, <3>2, <1>4, <1>5, <1>6, <1>7, <1>8, <1>9, <1>10, <1>11, <1>12, <1>13, <1>14, <1>15 DEF HopRead
  <2>13. CASE i = 13
    <3>1. ~rows[1][1] /\ ~rows[2][1] /\ ~rows[3][1] /\ ~rows[4][1] /\ ~rows[5][1] /\ ~rows[6][1]
          /\ ~rows[7][1] /\ ~rows[8][1] /\ ~rows[9][1] /\ ~rows[10][1] /\ ~rows[11][1] /\ ~rows[12][1]
      BY <1>19, <2>13
    <3>2. HopVerdict(h, parent, below, att) = <<"asserted", "not_comparable">> /\ rows[13][1]
      BY <1>3, <1>19, <2>13
    <3>. QED BY <3>1, <3>2, <1>4, <1>5, <1>6, <1>7, <1>8, <1>9, <1>10, <1>11, <1>12, <1>13, <1>14, <1>15, <1>16 DEF HopRead
  <2>14. i = 1 \/ i = 2 \/ i = 3 \/ i = 4 \/ i = 5 \/ i = 6
        \/ i = 7 \/ i = 8 \/ i = 9 \/ i = 10 \/ i = 11 \/ i = 12 \/ i = 13
    OBVIOUS
  <2>. QED BY <2>14, <2>1, <2>2, <2>3, <2>4, <2>5, <2>6, <2>7, <2>8, <2>9, <2>10, <2>11, <2>12, <2>13
<1>. QED BY <1>17, <1>18, <1>19

-----------------------------------------------------------------------------
(* What a table says of the hop it passes, and of the hop it stops.        *)

\* A setting keeps to the types of its members.
LEMMA PlayFacts ==
    ASSUME cast \in DOMAIN Casts
    PROVE  /\ Play.grants \subseteq GrantSets /\ Play.expiries \subseteq Nat
           /\ Play.budgets \subseteq Nat /\ Play.anchors \subseteq Anchors
           /\ Play.keys \subseteq Keys /\ Play.others \in Nat
           /\ Play.reports \subseteq Report /\ Play.instants \subseteq Nat
<1>1. Play \in Cast
  BY CastAssumption DEF Play
<1>. QED BY <1>1 DEF Cast

\* The keys are Ed25519 keys, the signers known.
LEMMA KeyFacts ==
    /\ Foreign \notin Keys /\ Garbled \notin Keys /\ Nobody \notin Keys
  BY KeyAssumption

\* A verdict is a status and a method.
LEMMA RootVerdictTyped ==
    ASSUME NEW h
    PROVE  /\ RootVerdict(h)[1] \in {"verified", "asserted", "broken"}
           /\ RootVerdict(h)[2] \in Methods
  BY RootTable DEF RootRead, Methods

LEMMA HopVerdictTyped ==
    ASSUME NEW h, NEW parent, NEW below, NEW att
    PROVE  /\ HopVerdict(h, parent, below, att)[1] \in {"verified", "asserted", "broken"}
           /\ HopVerdict(h, parent, below, att)[2] \in Methods
           /\ HopVerdict(h, parent, below, att) # <<"verified", "oidc">>
  BY HopTable DEF HopRead, Methods

\* A verified root.
LEMMA RootVerified ==
    ASSUME NEW h, report \in Report, RootVerdict(h)[1] = "verified"
    PROVE  /\ h.depth = 0 /\ Signed(h) /\ h.par = "none" /\ SignedBy(h, h.key)
           /\ ~Malformed(h) /\ ~Expired(h)
           /\ report.state = "verified" /\ report.device \in {Foreign, h.key}
<1>1. report.state \in {"absent", "verified", "degraded", "broken"}
  BY DEF Report
<1>. QED BY <1>1, RootTable DEF RootRead

\* A root called verified by its login is at depth 0.
LEMMA RootByLogin ==
    ASSUME NEW h, RootVerdict(h) = <<"verified", "oidc">>
    PROVE  h.depth = 0 /\ Signed(h)
  BY RootTable DEF RootRead

\* A verified hop above the root.
LEMMA HopVerified ==
    ASSUME NEW h, NEW parent, NEW below, NEW att,
           HopVerdict(h, parent, below, att)[1] = "verified"
    PROVE  /\ SignedBy(h, parent.key) /\ h.jti /\ ~DepthBreaks(h, parent) /\ h.exp # 0
           /\ ~Outlives(h, parent) /\ ~Expired(h)
           /\ Signed(parent) => h.par = "below"
           /\ att \notin {"broadened", "unknown"} /\ below.status = "verified"
  BY HopTable DEF HopRead

\* The statuses and methods of a result are those of its verdict.
LEMMA ResultFacts ==
    ASSUME NEW h, NEW verdict, NEW att \in Answered \cup {"none"},
           verdict[1] \in {"verified", "asserted", "broken"}, verdict[2] \in Methods,
           verdict = <<"verified", "oidc">> => Signed(h) /\ h.depth = 0
    PROVE  /\ Result(h, verdict, att) \in Outcomes
           /\ Says(Result(h, verdict, att), verdict)
           /\ Result(h, verdict, att).att = att
           /\ Result(h, verdict, att).evidence # "none" =>
                 Signed(h) /\ (Len(results) = 0 => h.depth = 0)
<1>1. /\ Evidence(h, verdict) \in {"none", "token", "statement"}
      /\ Evidence(h, verdict) # "none" => Signed(h) /\ (Len(results) = 0 => h.depth = 0)
  BY DEF Evidence
<1>. QED BY <1>1 DEF Result, Says, Outcomes

\* The readings hold of the next state too.
LEMMA TablesRead ==
    /\ \A h : RootVerdict(h) = RootRead(h)
    /\ \A h, parent, below, att :
          HopVerdict(h, parent, below, att) = HopRead(h, parent, below, att)
  BY RootTable, HopTable

LEMMA TablesReadNext ==
    (/\ \A h : RootVerdict(h) = RootRead(h)
     /\ \A h, parent, below, att :
           HopVerdict(h, parent, below, att) = HopRead(h, parent, below, att))'
  BY TablesRead, PTL

\* The verdicts are a matter of the login and the clock alone.
LEMMA VerdictsKept ==
    ASSUME UNCHANGED <<report, at>>
    PROVE  /\ \A h : RootVerdict(h)' = RootVerdict(h)
           /\ \A h, parent, below, att :
                 HopVerdict(h, parent, below, att)' = HopVerdict(h, parent, below, att)
<1>1. \A h : RootRead(h)' = RootRead(h)
  BY DEF RootRead, Expired
<1>2. \A h, parent, below, att :
         HopRead(h, parent, below, att)' = HopRead(h, parent, below, att)
  BY DEF HopRead, Expired
<1>. QED BY <1>1, <1>2, TablesRead, TablesReadNext

-----------------------------------------------------------------------------
(* The chain is built.                                                     *)

\* The first state.
LEMMA InitHolds == Init => IInv
<1> SUFFICES ASSUME Init PROVE IInv
  OBVIOUS
<1>1. chain = << >> /\ results = << >> /\ store = {} /\ carried = {} /\ stage = "carried"
  BY DEF Init
<1>2. Len(chain) = 0 /\ Len(results) = 0 /\ DOMAIN chain = {} /\ DOMAIN results = {}
  BY <1>1
<1>3. Shape
  <2>1. cast \in DOMAIN Casts /\ others = 0 /\ whole = TRUE /\ report \in Play.reports
        /\ at \in Play.instants
    BY DEF Init
  <2>2. report \in Report /\ at \in Nat /\ others \in 0..Play.others
    BY <2>1, PlayFacts
  <2>3. chain \in Seq(Hops) /\ results \in Seq(Outcomes)
    BY <1>1
  <2>. QED BY <1>1, <1>2, <2>1, <2>2, <2>3, BoundAssumption DEF Shape, Stages
<1>. QED BY <1>2, <1>3 DEF IInv, AllJudged, AllMinted, BudgetsNarrow, VerifiedIsEarned,
                           VerifiedIsWithin

\* A step before the first hop is verified keeps the invariant when it keeps
\* the types and what Mint made.
LEMMA BuildingKeeps ==
    ASSUME Shape, Building, results' = results,
           UNCHANGED <<cast, report, at, stage, store, carried>>,
           chain' \in Seq(Hops), Len(chain') <= MaxHops,
           others' \in 0..Play.others, whole' \in BOOLEAN, AllMinted'
    PROVE  IInv'
<1>1. results' = << >> /\ stage' = "carried" /\ store' = {} /\ carried' = {}
  BY DEF Building, Shape
<1>2. Len(results') = 0 /\ DOMAIN results' = {} /\ results' \in Seq(Outcomes)
  BY <1>1
<1>3. Len(chain') \in Nat
  OBVIOUS
<1>4. Play' = Play
  BY DEF Play
<1>5. Shape'
  BY <1>1, <1>2, <1>3, <1>4 DEF Shape
<1>. QED BY <1>2, <1>5 DEF IInv, AllJudged, BudgetsNarrow, VerifiedIsEarned, VerifiedIsWithin

\* The hops Mint makes.
LEMMA RootHopFacts ==
    ASSUME NEW key \in Keys, NEW budget \in Nat, NEW exp \in Nat, NEW grants \in GrantSets,
           NEW anchor \in Anchors
    PROVE  RootHop(key, budget, exp, grants, anchor) \in Hops
  BY DEF RootHop, Hops

LEMMA ChildHopFacts ==
    ASSUME NEW parent \in Hops, NEW key \in Keys, NEW exp \in Nat, NEW grants \in GrantSets
    PROVE  ChildHop(parent, key, exp, grants) \in Hops
<1>1. parent.depth + 1 \in Nat /\ "none" \in Anchors
  BY DEF Hops, Anchors
<1>. QED BY <1>1 DEF ChildHop, Hops

\* One more hop.
LEMMA Append1Facts ==
    ASSUME Shape, NEW hop \in Hops, Append1(hop)
    PROVE  /\ Building /\ Len(chain) \in Nat
           /\ chain' \in Seq(Hops) /\ Len(chain') = Len(chain) + 1 /\ Len(chain') <= MaxHops
           /\ DOMAIN chain' = DOMAIN chain \cup {Len(chain) + 1}
           /\ \A i \in DOMAIN chain : chain'[i] = chain[i]
           /\ chain'[Len(chain) + 1] = hop
           /\ DOMAIN chain = 1..Len(chain)
<1>1. chain \in Seq(Hops) /\ chain' = Append(chain, hop) /\ Building /\ Len(chain) < MaxHops
  BY DEF Shape, Append1
<1>2. Len(chain) \in Nat /\ DOMAIN chain = 1..Len(chain)
  BY <1>1, SeqElements
<1>3. Len(chain) + 1 <= MaxHops
  BY <1>1, <1>2, BoundAssumption
<1>. QED BY <1>1, <1>2, <1>3, AppendFacts

\* A root is minted.
LEMMA MintRootKeeps == ASSUME IInv, MintRoot PROVE IInv'
<1>1. Shape /\ cast \in DOMAIN Casts
  BY DEF IInv, Shape
<1>2. PICK key \in Play.keys, budget \in Play.budgets, exp \in Play.expiries \ {0},
           grants \in Play.grants \ {NoGrants}, anchor \in Play.anchors \ {"none"} :
        /\ chain = << >>
        /\ Append1(RootHop(key, budget, exp, grants, anchor))
        /\ UNCHANGED <<cast, others, whole, report, at, results, stage, store, carried, findings>>
  BY DEF MintRoot
<1>3. key \in Keys /\ budget \in Nat /\ exp \in Nat /\ exp > 0 /\ grants \in GrantSets
      /\ anchor \in Anchors
  BY <1>1, <1>2, PlayFacts
<1> DEFINE hop == RootHop(key, budget, exp, grants, anchor)
<1>4. hop \in Hops
  BY <1>3, RootHopFacts
<1>5. MintedRoot(hop)
  BY <1>3 DEF RootHop, MintedRoot
<1>. HIDE DEF hop
<1>6. Append1(hop)
  BY <1>2 DEF hop
<1>7. Len(chain) = 0 /\ DOMAIN chain = {}
  BY <1>2
<1>8. /\ Building /\ chain' \in Seq(Hops) /\ Len(chain') <= MaxHops
      /\ DOMAIN chain' = {1} /\ chain'[1] = hop
  BY <1>1, <1>4, <1>6, <1>7, Append1Facts
<1>9. AllMinted'
  BY <1>5, <1>8 DEF AllMinted, MintedRoot
<1>10. others' \in 0..Play.others /\ whole' \in BOOLEAN
  BY <1>1, <1>2 DEF Shape
<1>. QED BY <1>1, <1>2, <1>8, <1>9, <1>10, BuildingKeeps

\* A hop is minted below the last.
LEMMA MintKeeps == ASSUME IInv, Mint PROVE IInv'
<1>1. Shape /\ cast \in DOMAIN Casts /\ AllMinted
  BY DEF IInv, Shape
<1>2. chain # << >> /\ UNCHANGED <<cast, others, whole, report, at, results, stage, store, carried, findings>>
  BY DEF Mint
<1>3. PICK key \in Play.keys, exp \in Play.expiries, grants \in Play.grants :
        /\ \E att \in Compare(chain[Len(chain)].grants, grants) :
              Mints(chain[Len(chain)], ChildHop(chain[Len(chain)], key, exp, grants), att)
        /\ Append1(ChildHop(chain[Len(chain)], key, exp, grants))
  BY DEF Mint
<1>4. PICK parent : parent = chain[Len(chain)]
  OBVIOUS
<1>5. key \in Keys /\ exp \in Nat /\ grants \in GrantSets
  BY <1>1, <1>3, PlayFacts
<1>6. Len(chain) \in Nat /\ Len(chain) \in DOMAIN chain /\ parent \in Hops /\ DOMAIN chain = 1..Len(chain)
  <2>1. chain \in Seq(Hops)
    BY <1>1 DEF Shape
  <2>. QED BY <1>2, <1>4, <2>1
<1>7. PICK hop : hop = ChildHop(parent, key, exp, grants)
  OBVIOUS
<1>8. hop \in Hops
  BY <1>5, <1>6, <1>7, ChildHopFacts
<1>9. Append1(hop)
  BY <1>3, <1>4, <1>7
<1>10. /\ Building /\ chain' \in Seq(Hops) /\ Len(chain') <= MaxHops
       /\ DOMAIN chain' = DOMAIN chain \cup {Len(chain) + 1}
       /\ \A i \in DOMAIN chain : chain'[i] = chain[i]
       /\ chain'[Len(chain) + 1] = hop
  BY <1>1, <1>8, <1>9, Append1Facts
<1>11. PICK att \in Compare(parent.grants, grants) : Mints(parent, hop, att)
  BY <1>3, <1>4, <1>7
<1>12. /\ hop.signer = parent.key /\ hop.key = key /\ hop.depth = parent.depth + 1
       /\ hop.max = parent.max /\ hop.par = "below" /\ hop.jti /\ hop.exp = exp
       /\ hop.grants = grants
  BY <1>7 DEF ChildHop
<1>13. /\ hop.exp > 0 /\ parent.key \in Keys /\ hop.depth <= hop.max
       /\ ~Outlives(hop, parent) /\ att # "broadened"
  BY <1>11 DEF Mints
<1>14. parent.exp > 0 => MintedFrom(hop, parent)
  <2>1. parent.exp > 0 => hop.exp <= parent.exp
    <3>1. hop.exp \in Nat /\ parent.exp \in Nat
      BY <1>6, <1>8 DEF Hops
    <3>. QED BY <1>13, <3>1 DEF Outlives
  <2>2. \E a \in Compare(parent.grants, hop.grants) : a # "broadened"
    BY <1>11, <1>12, <1>13
  <2>. QED BY <1>5, <1>12, <1>13, <2>1, <2>2 DEF MintedFrom
<1>15. AllMinted'
  <2> SUFFICES ASSUME others = 0, whole, NEW i \in DOMAIN chain'
               PROVE  /\ i = 1 => MintedRoot(chain'[1])
                      /\ i > 1 => MintedFrom(chain'[i], chain'[i - 1])
    BY <1>2 DEF AllMinted, MintedRoot, MintedFrom
  <2>1. \A k \in DOMAIN chain : /\ k = 1 => MintedRoot(chain[1])
                                /\ k > 1 => MintedFrom(chain[k], chain[k - 1])
    BY <1>1 DEF AllMinted
  <2>2. CASE i \in DOMAIN chain
    <3>1. chain'[i] = chain[i] /\ (i > 1 => i - 1 \in DOMAIN chain /\ chain'[i - 1] = chain[i - 1])
      BY <1>6, <1>10, <2>2
    <3>. QED BY <2>1, <2>2, <3>1
  <2>3. CASE i = Len(chain) + 1
    <3>1. i > 1 /\ chain'[i] = hop /\ chain'[i - 1] = parent
      BY <1>4, <1>6, <1>10, <2>3
    <3>2. parent.exp > 0
      BY <1>4, <1>6, <2>1 DEF MintedRoot, MintedFrom
    <3>. QED BY <1>14, <3>1, <3>2
  <2>. QED BY <1>10, <2>2, <2>3
<1>16. others' \in 0..Play.others /\ whole' \in BOOLEAN
  BY <1>1, <1>2 DEF Shape
<1>. QED BY <1>1, <1>2, <1>10, <1>15, <1>16, BuildingKeeps

\* A well-made root is a root.
LEMMA WellMadeRoot ==
    ASSUME chain = << >>, NEW h \in WellMade
    PROVE  \E key \in Play.keys, budget \in Play.budgets, exp \in Play.expiries \ {0},
              grants \in Play.grants : h = RootHop(key, budget, exp, grants, "own_key")
<1>1. h \in {RootHop(key, budget, exp, grants, "own_key") :
               key \in Play.keys, budget \in Play.budgets, exp \in Play.expiries \ {0},
               grants \in Play.grants}
  BY DEF WellMade
<1>. QED BY <1>1

\* A hop of another implementation is a hop.
LEMMA DeviantsAreHops ==
    ASSUME Shape, NEW h \in WellMade, NEW other \in Deviants(h)
    PROVE  other \in Hops
<1>1. h \in Hops
  <2>1. cast \in DOMAIN Casts /\ chain \in Seq(Hops)
    BY DEF Shape
  <2>2. CASE chain = << >>
    <3>1. PICK key \in Play.keys, budget \in Play.budgets, exp \in Play.expiries \ {0},
               grants \in Play.grants : h = RootHop(key, budget, exp, grants, "own_key")
      BY <2>2, WellMadeRoot
    <3>2. key \in Keys /\ budget \in Nat /\ exp \in Nat /\ grants \in GrantSets
          /\ "own_key" \in Anchors
      BY <2>1, <3>1, PlayFacts DEF Anchors
    <3>. QED BY <3>1, <3>2, RootHopFacts
  <2>3. CASE chain # << >>
    <3>1. PICK key \in Play.keys, exp \in Play.expiries \ {0}, grants \in Play.grants :
               h = ChildHop(chain[Len(chain)], key, exp, grants)
      BY <2>3 DEF WellMade
    <3>2. key \in Keys /\ exp \in Nat /\ grants \in GrantSets
      BY <2>1, <3>1, PlayFacts
    <3>3. chain[Len(chain)] \in Hops
      BY <2>1, <2>3
    <3>. QED BY <3>1, <3>2, <3>3, ChildHopFacts
  <2>. QED BY <2>2, <2>3
<1>2. Play.keys \subseteq Keys /\ MaxHops \in Nat
  BY PlayFacts, BoundAssumption DEF Shape
<1>3. CASE other = h
  BY <1>1, <1>3
<1>4. CASE \E s \in Play.keys \cup {Garbled, Nobody} : other = [h EXCEPT !.signer = s]
  BY <1>1, <1>2, <1>4 DEF Hops
<1>5. CASE \E k \in {Foreign, Garbled} : other = [h EXCEPT !.key = k]
  BY <1>1, <1>5 DEF Hops
<1>6. CASE \E k \in {Foreign, Garbled} : other = [h EXCEPT !.key = k, !.signer = k]
  BY <1>1, <1>6 DEF Hops
<1>7. CASE \E d \in 0..MaxHops : other = [h EXCEPT !.depth = d]
  BY <1>1, <1>2, <1>7 DEF Hops
<1>8. CASE \E d \in 0..MaxHops : other = [h EXCEPT !.max = d]
  BY <1>1, <1>2, <1>8 DEF Hops
<1>9. CASE \E p \in {"none", "below", "other"} : other = [h EXCEPT !.par = p]
  BY <1>1, <1>9 DEF Hops
<1>10. CASE \E a \in Anchors : other = [h EXCEPT !.anchor = a]
  BY <1>1, <1>10 DEF Hops
<1>11. CASE other = [h EXCEPT !.jti = FALSE]
  <2>1. FALSE \in BOOLEAN
    OBVIOUS
  <2>. QED BY <1>1, <1>11, <2>1 DEF Hops
<1>12. CASE other = [h EXCEPT !.exp = 0]
  BY <1>1, <1>12 DEF Hops
<1>. QED BY <1>3, <1>4, <1>5, <1>6, <1>7, <1>8, <1>9, <1>10, <1>11, <1>12 DEF Deviants

\* A hop of another implementation is added.
LEMMA AddOtherKeeps == ASSUME IInv, AddOther PROVE IInv'
<1>1. Shape
  BY DEF IInv
<1>2. /\ others < Play.others /\ others' = others + 1
      /\ UNCHANGED <<cast, whole, report, at, results, stage, store, carried, findings>>
  BY DEF AddOther
<1>3. PICK h \in WellMade : \E other \in Deviants(h) : Append1(other)
  BY DEF AddOther
<1>4. PICK other \in Deviants(h) : Append1(other)
  BY <1>3
<1>5. other \in Hops
  BY <1>1, DeviantsAreHops
<1>6. Building /\ chain' \in Seq(Hops) /\ Len(chain') <= MaxHops
  BY <1>4, <1>1, <1>5, Append1Facts
<1>7. others \in Nat /\ others' \in 0..Play.others /\ whole' \in BOOLEAN
  BY <1>1, <1>2, PlayFacts DEF Shape
<1>8. AllMinted'
  BY <1>2, <1>7 DEF AllMinted
<1>. QED BY <1>1, <1>2, <1>6, <1>7, <1>8, BuildingKeeps

\* Another token of a hop is named.
LEMMA ParFacts ==
    ASSUME NEW s \in Seq(Hops), NEW i \in DOMAIN s
    PROVE  /\ [s EXCEPT ![i].par = "other"] \in Seq(Hops)
           /\ Len([s EXCEPT ![i].par = "other"]) = Len(s)
<1> DEFINE h == [s[i] EXCEPT !.par = "other"]
<1>1. Len(s) \in Nat /\ DOMAIN s = 1..Len(s) /\ \A k \in DOMAIN s : s[k] \in Hops
  BY SeqElements
<1>2. h \in Hops
  BY <1>1 DEF Hops
<1>3. [s EXCEPT ![i].par = "other"] = [s EXCEPT ![i] = h]
  OBVIOUS
<1>. HIDE DEF h
<1>4. [s EXCEPT ![i] = h] \in Seq(Hops) /\ Len([s EXCEPT ![i] = h]) = Len(s)
  BY <1>1, <1>2, ExceptSeq
<1>. QED BY <1>3, <1>4

\* A hop is minted again.
LEMMA RenewKeeps == ASSUME IInv, Renew PROVE IInv'
<1>1. Shape /\ chain \in Seq(Hops) /\ Len(chain) <= MaxHops
  BY DEF IInv, Shape
<1>2. /\ Building /\ others < Play.others /\ others' = others + 1
      /\ UNCHANGED <<cast, whole, report, at, results, stage, store, carried, findings>>
  BY DEF Renew
<1>3. PICK i \in 2..Len(chain) : chain' = [chain EXCEPT ![i].par = "other"]
  BY DEF Renew
<1>4. i \in DOMAIN chain
  BY <1>1
<1>5. chain' \in Seq(Hops) /\ Len(chain') <= MaxHops
  BY <1>1, <1>3, <1>4, ParFacts
<1>6. others \in Nat /\ others' \in 0..Play.others /\ whole' \in BOOLEAN
  BY <1>1, <1>2, PlayFacts DEF Shape
<1>7. AllMinted'
  BY <1>2, <1>6 DEF AllMinted
<1>. QED BY <1>1, <1>2, <1>5, <1>6, <1>7, BuildingKeeps

\* The chain is carried without its first hop.
LEMMA CarryTailKeeps == ASSUME IInv, CarryTail PROVE IInv'
<1>1. Shape /\ chain \in Seq(Hops) /\ Len(chain) <= MaxHops
  BY DEF IInv, Shape
<1>2. /\ Building /\ Len(chain) > 1 /\ whole' = FALSE
      /\ chain' = [Tail(chain) EXCEPT ![1].par = "other"]
      /\ UNCHANGED <<cast, others, report, at, results, stage, store, carried, findings>>
  BY DEF CarryTail
<1>3. PICK tail : tail = Tail(chain)
  OBVIOUS
<1>4. chain' \in Seq(Hops) /\ Len(chain') <= MaxHops
  <2>1. tail \in Seq(Hops) /\ Len(tail) = Len(chain) - 1 /\ 1 \in DOMAIN tail
    BY <1>1, <1>2, <1>3
  <2>2. chain' = [tail EXCEPT ![1].par = "other"]
    BY <1>2, <1>3
  <2>3. chain' \in Seq(Hops) /\ Len(chain') = Len(tail)
    BY <2>1, <2>2, ParFacts
  <2>. QED BY <1>1, <2>1, <2>3, BoundAssumption
<1>5. others' \in 0..Play.others /\ whole' \in BOOLEAN
  <2>1. Play' = Play
    BY <1>2 DEF Play
  <2>. QED BY <1>1, <1>2, <2>1 DEF Shape
<1>6. AllMinted'
  BY <1>2 DEF AllMinted
<1>7. others' \in 0..Play.others
  BY <1>1, <1>2 DEF Shape
<1>. QED BY <1>1, <1>2, <1>4, <1>5, <1>6, <1>7, BuildingKeeps

-----------------------------------------------------------------------------
(* The chain is verified.                                                  *)

\* The first hop is judged.
LEMMA VerifyRoot ==
    ASSUME IInv, Verify, Len(results) = 0
    PROVE  IInv'
<1>1. Shape /\ AllMinted /\ chain \in Seq(Hops) /\ report \in Report /\ results \in Seq(Outcomes)
  BY DEF IInv, Shape
<1>2. /\ 0 < Len(chain)
      /\ results' = <<Result(chain[1], RootVerdict(chain[1]), "none")>>
      /\ UNCHANGED <<cast, chain, others, whole, report, at, stage, store, carried, findings>>
  BY DEF Verify, presented
<1>3. PICK res : res = Result(chain[1], RootVerdict(chain[1]), "none")
  OBVIOUS
<1>4. 1 \in DOMAIN chain /\ chain[1] \in Hops
  BY <1>1, <1>2
<1>5. /\ res \in Outcomes /\ Says(res, RootVerdict(chain[1]))
      /\ res.evidence # "none" => Signed(chain[1]) /\ chain[1].depth = 0
  BY <1>3, RootVerdictTyped, RootByLogin, ResultFacts
<1>6. /\ results' = <<res>> /\ results' \in Seq(Outcomes) /\ Len(results') = 1
      /\ DOMAIN results' = {1} /\ results'[1] = res
  BY <1>2, <1>3, <1>5
<1>7. stage = "carried"
  BY <1>1, <1>2 DEF Shape
<1>8. Shape'
  <2>1. Play' = Play
    BY <1>2 DEF Play
  <2>2. Len(chain) \in Nat /\ 1 <= Len(chain)
    BY <1>1, <1>2
  <2>. QED BY <1>1, <1>2, <1>6, <1>7, <2>1, <2>2 DEF Shape
<1>9. AllJudged'
  <2>1. \A h : RootVerdict(h)' = RootVerdict(h)
    BY <1>2, VerdictsKept
  <2>2. RootVerdict(chain[1])' = RootVerdict(chain[1])
    <3>1. PICK h : h = chain[1]
      OBVIOUS
    <3>2. h = chain'[1]
      BY <1>2, <3>1
    <3>3. RootVerdict(chain[1])' = RootVerdict(h)'
      BY <3>2
    <3>. QED BY <2>1, <3>1, <3>3
  <2>3. Says(results[1], RootVerdict(chain[1]))'
    BY <1>5, <1>6, <2>2 DEF Says
  <2>4. Judged(1)'
    BY <1>2, <1>5, <1>6, <2>3 DEF Judged, Signed
  <2>. QED BY <1>6, <2>4 DEF AllJudged
<1>10. AllMinted'
  BY <1>1, <1>2 DEF AllMinted
<1>11. ASSUME res.status = "verified"
       PROVE  /\ chain[1].depth = 0 /\ chain[1].par = "none" /\ SignedBy(chain[1], chain[1].key)
              /\ chain[1].jti /\ chain[1].exp \in 1..chain[1].exp /\ ~Expired(chain[1])
              /\ report.state = "verified" /\ report.device \in {Foreign, chain[1].key}
              /\ 0 <= chain[1].max
  <2>1. RootVerdict(chain[1])[1] = "verified"
    BY <1>5, <1>11 DEF Says
  <2>2. chain[1].exp \in Nat /\ chain[1].max \in Nat
    BY <1>4 DEF Hops
  <2>. QED BY <1>1, <2>1, <2>2, RootVerified DEF Malformed
<1>12. BudgetsNarrow'
  <2>1. chain[1].max \in Nat
    BY <1>4 DEF Hops
  <2>. QED BY <1>2, <1>6, <2>1 DEF BudgetsNarrow
<1>13. VerifiedIsEarned'
  <2>1. Expired(chain[1])' <=> Expired(chain[1])
    BY <1>2 DEF Expired
  <2>2. \A j \in 1..1 : j = 1
    OBVIOUS
  <2>3. chain[1].exp \in Nat
    BY <1>4 DEF Hops
  <2>. QED BY <1>2, <1>6, <1>11, <2>1, <2>2, <2>3 DEF VerifiedIsEarned, SignedBy
<1>14. VerifiedIsWithin'
  <2> SUFFICES ASSUME Decidable(chain[1].grants)
               PROVE  Within(chain[1].grants, chain[1].grants)
    BY <1>2, <1>6 DEF VerifiedIsWithin
  <2>1. chain[1].grants \in Plain
    BY <1>4 DEF Hops, Plain
  <2>. QED BY <2>1, WithinAssumption
<1>. QED BY <1>8, <1>9, <1>10, <1>12, <1>13, <1>14 DEF IInv

\* A verified hop has what verifyHop asked of it, and a verified hop below.
LEMMA VerifiedHop ==
    ASSUME NEW h \in Hops, NEW parent \in Hops, NEW below, NEW att,
           NEW res, Says(res, HopVerdict(h, parent, below, att)), res.status = "verified"
    PROVE  /\ below.status = "verified" /\ att \notin {"broadened", "unknown"}
           /\ SignedBy(h, parent.key)
           /\ Signed(parent) => h.par = "below"
           /\ h.jti /\ ~Expired(h) /\ h.exp \in Nat \ {0}
           /\ h.depth = parent.depth + 1 /\ h.max <= parent.max /\ h.depth <= h.max
           /\ parent.exp > 0 => h.exp <= parent.exp
<1>1. HopVerdict(h, parent, below, att)[1] = "verified"
  BY DEF Says
<1>2. /\ SignedBy(h, parent.key) /\ h.jti /\ ~DepthBreaks(h, parent) /\ h.exp # 0
      /\ ~Outlives(h, parent) /\ ~Expired(h)
      /\ Signed(parent) => h.par = "below"
      /\ att \notin {"broadened", "unknown"} /\ below.status = "verified"
  BY <1>1, HopVerified
<1>3. /\ h.exp \in Nat /\ h.depth \in Nat /\ h.max \in Nat
      /\ parent.exp \in Nat /\ parent.depth \in Nat /\ parent.max \in Nat
  BY DEF Hops
<1>. QED BY <1>2, <1>3 DEF DepthBreaks, Outlives

\* The next hop is judged, against the hop below and its result.
LEMMA VerifyHop ==
    ASSUME IInv, Verify, Len(results) # 0
    PROVE  IInv'
<1>1. Shape /\ AllJudged /\ AllMinted /\ BudgetsNarrow /\ VerifiedIsEarned /\ VerifiedIsWithin
  BY DEF IInv
<1>2. PICK n : n = Len(results)
  OBVIOUS
<1>3. /\ chain \in Seq(Hops) /\ report \in Report /\ results \in Seq(Outcomes)
      /\ n \in Nat /\ n > 0 /\ n < Len(chain) /\ Len(chain) \in Nat
      /\ n \in DOMAIN results /\ DOMAIN results = 1..n
      /\ DOMAIN chain = 1..Len(chain) /\ \A i \in DOMAIN chain : chain[i] \in Hops
  <2>1. chain \in Seq(Hops) /\ report \in Report /\ results \in Seq(Outcomes)
    BY <1>1 DEF Shape
  <2>2. n < Len(chain)
    BY <1>2 DEF Verify
  <2>. QED BY <1>2, <2>1, <2>2, SeqElements
<1>4. UNCHANGED <<cast, chain, others, whole, report, at, stage, store, carried, findings>>
  BY DEF Verify, presented
<1>5. PICK h, parent, below : h = chain[n + 1] /\ parent = chain[n] /\ below = results[n]
  OBVIOUS
<1>6. h \in Hops /\ parent \in Hops /\ n \in DOMAIN chain /\ n + 1 \in DOMAIN chain
  BY <1>3, <1>5
<1>7. PICK att \in Compare(parent.grants, h.grants) :
         results' = Append(results, Result(h, HopVerdict(h, parent, below, att), att))
  <2>1. n + 1 # 1 /\ (n + 1) - 1 = n
    BY <1>3
  <2>. QED BY <1>2, <1>5, <2>1 DEF Verify
<1>8. PICK res : res = Result(h, HopVerdict(h, parent, below, att), att)
  OBVIOUS
<1>9. att \in Answered
  <2>1. parent.grants \in GrantSets /\ h.grants \in GrantSets
    BY <1>6 DEF Hops
  <2>. QED BY <1>7, <2>1, ComparatorAssumption
<1>10. /\ res \in Outcomes /\ Says(res, HopVerdict(h, parent, below, att)) /\ res.att = att
       /\ res.evidence # "none" => Signed(h)
  BY <1>8, <1>9, HopVerdictTyped, ResultFacts
<1>11. /\ results' \in Seq(Outcomes) /\ Len(results') = n + 1
       /\ DOMAIN results' = 1..(n + 1)
       /\ \A i \in 1..n : results'[i] = results[i]
       /\ results'[n + 1] = res
  <2>1. results' = Append(results, res)
    BY <1>7, <1>8
  <2>2. 1..(n + 1) = 1..n \cup {n + 1}
    BY <1>3
  <2>. QED BY <1>2, <1>3, <1>10, <2>1, <2>2, AppendFacts
<1>12. Shape'
  <2>1. stage = "carried"
    <3>1. stage # "carried" => Len(results) = Len(chain)
      BY <1>1 DEF Shape
    <3>2. PICK len : len = Len(chain)
      OBVIOUS
    <3>3. n \in Nat /\ len \in Nat /\ n < len
      BY <1>3, <3>2
    <3>4. n # len
      BY <3>3
    <3>. QED BY <1>2, <3>1, <3>2, <3>4
  <2>2. Play' = Play
    BY <1>4 DEF Play
  <2>3. n + 1 <= Len(chain)
    BY <1>3
  <2>. QED BY <1>1, <1>4, <1>11, <2>1, <2>2, <2>3 DEF Shape
<1>13. AllJudged'
  <2>1. /\ \A hop : RootVerdict(hop)' = RootVerdict(hop)
        /\ \A hop, par, b, a : HopVerdict(hop, par, b, a)' = HopVerdict(hop, par, b, a)
    BY <1>4, VerdictsKept
  <2> SUFFICES ASSUME NEW i \in 1..(n + 1)
               PROVE  Judged(i)'
    BY <1>11 DEF AllJudged
  <2>2. PICK hop, par, b, r : /\ hop = chain[i] /\ par = chain[i - 1] /\ b = results'[i - 1]
                              /\ r = results'[i]
    OBVIOUS
  <2>3. /\ i = 1 => Says(r, RootVerdict(hop))
        /\ i > 1 => r.att \in Compare(par.grants, hop.grants)
        /\ i > 1 => Says(r, HopVerdict(hop, par, b, r.att))
        /\ r.evidence # "none" => Signed(hop) /\ (i = 1 => hop.depth = 0)
    <3>1. CASE i \in 1..n
      <4>1. r = results[i] /\ (i > 1 => b = results[i - 1])
        BY <1>3, <1>11, <2>2, <3>1
      <4>2. Judged(i)
        BY <1>1, <1>3, <3>1 DEF AllJudged
      <4>. QED BY <2>2, <4>1, <4>2 DEF Judged
    <3>2. CASE i = n + 1
      <4>1. i # 1 /\ i - 1 = n /\ n \in 1..n
        BY <1>3, <3>2
      <4>2. r = res /\ hop = h /\ par = parent /\ b = below
        BY <1>5, <1>11, <2>2, <3>2, <4>1
      <4>. QED BY <1>7, <1>10, <4>1, <4>2
    <3>. QED BY <1>3, <3>1, <3>2
  <2>4. PICK a : a = r.att
    OBVIOUS
  <2>5. /\ i = 1 => results'[1] = r /\ RootVerdict(chain[1])' = RootVerdict(hop)
        /\ HopVerdict(chain[i], chain[i - 1], results[i - 1], results[i].att)'
             = HopVerdict(hop, par, b, a)
    <3>1. /\ RootVerdict(chain[i])' = RootVerdict(hop)'
          /\ HopVerdict(chain[i], chain[i - 1], results[i - 1], results[i].att)'
               = HopVerdict(hop, par, b, a)'
      BY <1>4, <2>2, <2>4
    <3>. QED BY <2>1, <2>2, <3>1
  <2>6. i = 1 => Says(results[1], RootVerdict(chain[1]))'
    BY <2>2, <2>3, <2>5 DEF Says
  <2>7. i > 1 => Says(results[i], HopVerdict(chain[i], chain[i - 1], results[i - 1],
                                             results[i].att))'
    BY <2>2, <2>3, <2>4, <2>5 DEF Says
  <2>8. i > 1 => (results[i].att \in Compare(chain[i - 1].grants, chain[i].grants))'
    BY <1>4, <2>2, <2>3
  <2>9. (results[i].evidence # "none" => Signed(chain[i]) /\ (i = 1 => chain[1].depth = 0))'
    BY <1>4, <2>2, <2>3 DEF Signed
  <2>. QED BY <2>6, <2>7, <2>8, <2>9 DEF Judged
<1>14. AllMinted'
  BY <1>1, <1>4 DEF AllMinted
<1>15. ASSUME res.status = "verified"
       PROVE  /\ below.status = "verified" /\ att \in {"unchanged", "attenuated"}
              /\ SignedBy(h, parent.key) /\ h.par = "below"
              /\ h.jti /\ ~Expired(h) /\ h.exp \in Nat \ {0}
              /\ h.depth = n /\ h.max <= parent.max /\ n <= h.max
              /\ parent.exp > 0 /\ h.exp <= parent.exp
  <2>1. /\ below.status = "verified" /\ att \notin {"broadened", "unknown"}
        /\ SignedBy(h, parent.key) /\ (Signed(parent) => h.par = "below")
        /\ h.jti /\ ~Expired(h) /\ h.exp \in Nat \ {0}
        /\ h.depth = parent.depth + 1 /\ h.max <= parent.max /\ h.depth <= h.max
        /\ (parent.exp > 0 => h.exp <= parent.exp)
    BY <1>6, <1>10, <1>15, VerifiedHop
  <2>2. n \in 1..n
    BY <1>3
  <2>3. /\ SignedBy(chain[1], chain[1].key)
        /\ parent.depth = n - 1 /\ parent.exp \in 1..chain[1].exp
        /\ n > 1 => SignedBy(parent, chain[n - 1].key)
    BY <1>1, <1>3, <1>5, <2>1, <2>2 DEF VerifiedIsEarned
  <2>4. Signed(parent)
    <3>1. CASE n = 1
      BY <1>5, <2>3, <3>1, KeyFacts DEF SignedBy, Signed
    <3>2. CASE n > 1
      BY <2>3, <3>2, KeyFacts DEF SignedBy, Signed
    <3>. QED BY <1>3, <3>1, <3>2
  <2>5. parent.exp > 0 /\ h.depth = n
    <3>1. chain[1].exp \in Nat
      BY <1>3 DEF Hops
    <3>. QED BY <1>3, <2>1, <2>3, <3>1
  <2>. QED BY <1>9, <2>1, <2>4, <2>5 DEF Answered
<1>16. ASSUME NEW j \in 1..n
       PROVE  chain[j] \in Hops /\ chain[j].max \in Nat /\ chain[j].exp \in Nat
              /\ chain[j].grants \in GrantSets
  <2>1. chain[j] \in Hops
    BY <1>3
  <2>. QED BY <2>1 DEF Hops
<1>17. h.max \in Nat /\ h.exp \in Nat /\ parent.max \in Nat /\ parent.exp \in Nat
  BY <1>6 DEF Hops
<1>18. BudgetsNarrow'
  <2> SUFFICES ASSUME NEW i \in 1..(n + 1), results'[i].status = "verified", NEW j \in 1..i
               PROVE  chain[i].max <= chain[j].max
    BY <1>4, <1>11 DEF BudgetsNarrow
  <2>1. CASE i \in 1..n
    BY <1>1, <1>3, <1>11, <2>1 DEF BudgetsNarrow
  <2>2. CASE i = n + 1 /\ j = n + 1
    BY <1>5, <1>17, <2>2
  <2>3. CASE i = n + 1 /\ j \in 1..n
    <3>1. h.max <= parent.max /\ below.status = "verified"
      BY <1>11, <1>15, <2>3
    <3>2. parent.max <= chain[j].max
      BY <1>1, <1>3, <1>5, <2>3, <3>1 DEF BudgetsNarrow
    <3>. QED BY <1>5, <1>16, <1>17, <2>3, <3>1, <3>2
  <2>. QED BY <1>3, <2>1, <2>2, <2>3
<1>19. VerifiedIsEarned'
  <2>1. \A k : Expired(k)' = Expired(k)
    BY <1>4 DEF Expired
  <2>2. \A j : Expired(chain[j])' <=> Expired(chain[j])
    BY <1>4 DEF Expired
  <2> SUFFICES ASSUME NEW i \in 1..(n + 1), results'[i].status = "verified"
               PROVE  /\ report.state = "verified" /\ report.device \in {Foreign, chain[1].key}
                      /\ SignedBy(chain[1], chain[1].key) /\ chain[1].par = "none"
                      /\ \A j \in 1..i :
                           /\ results'[j].status = "verified"
                           /\ chain[j].depth = j - 1
                           /\ chain[j].jti /\ ~Expired(chain[j])
                           /\ chain[j].exp \in 1..chain[1].exp
                           /\ i - 1 <= chain[j].max
                           /\ chain[i].exp <= chain[j].exp
                           /\ j > 1 => /\ SignedBy(chain[j], chain[j - 1].key)
                                       /\ chain[j].par = "below"
    BY <1>4, <1>11, <2>2 DEF VerifiedIsEarned, SignedBy
  <2>3. CASE i \in 1..n
    <3>1. results[i].status = "verified" /\ \A j \in 1..i : results'[j] = results[j]
      BY <1>3, <1>11, <2>3
    <3>2. i \in DOMAIN results
      BY <1>1, <1>3, <2>3
    <3>3. /\ report.state = "verified" /\ report.device \in {Foreign, chain[1].key}
          /\ SignedBy(chain[1], chain[1].key) /\ chain[1].par = "none"
          /\ \A j \in 1..i :
               /\ results[j].status = "verified"
               /\ chain[j].depth = j - 1
               /\ chain[j].jti /\ ~Expired(chain[j])
               /\ chain[j].exp \in 1..chain[1].exp
               /\ i - 1 <= chain[j].max
               /\ chain[i].exp <= chain[j].exp
               /\ j > 1 => /\ SignedBy(chain[j], chain[j - 1].key)
                           /\ chain[j].par = "below"
      BY <1>1, <3>1, <3>2 DEF VerifiedIsEarned
    <3>. QED BY <3>1, <3>3
  <2>4. CASE i = n + 1
    <3>1. res.status = "verified"
      BY <1>11, <2>4
    <3>2. /\ below.status = "verified"
          /\ SignedBy(h, parent.key) /\ h.par = "below"
          /\ h.jti /\ ~Expired(h) /\ h.exp \in Nat \ {0}
          /\ h.depth = n /\ h.max <= parent.max /\ n <= h.max
          /\ parent.exp > 0 /\ h.exp <= parent.exp
      BY <1>15, <3>1
    <3>3. /\ report.state = "verified" /\ report.device \in {Foreign, chain[1].key}
          /\ SignedBy(chain[1], chain[1].key) /\ chain[1].par = "none"
          /\ \A j \in 1..n :
               /\ results[j].status = "verified"
               /\ chain[j].depth = j - 1
               /\ chain[j].jti /\ ~Expired(chain[j])
               /\ chain[j].exp \in 1..chain[1].exp
               /\ parent.exp <= chain[j].exp
               /\ j > 1 => /\ SignedBy(chain[j], chain[j - 1].key)
                           /\ chain[j].par = "below"
      BY <1>1, <1>3, <1>5, <3>2 DEF VerifiedIsEarned
    <3>4. \A j \in 1..n : parent.max <= chain[j].max
      BY <1>1, <1>3, <1>5, <3>2 DEF BudgetsNarrow
    <3>5. ASSUME NEW j \in 1..n
          PROVE  /\ results'[j].status = "verified"
                 /\ chain[j].depth = j - 1
                 /\ chain[j].jti /\ ~Expired(chain[j])
                 /\ chain[j].exp \in 1..chain[1].exp
                 /\ i - 1 <= chain[j].max
                 /\ chain[i].exp <= chain[j].exp
                 /\ j > 1 => /\ SignedBy(chain[j], chain[j - 1].key)
                             /\ chain[j].par = "below"
      <4>1. n <= chain[j].max /\ h.exp <= chain[j].exp
        BY <1>3, <1>16, <1>17, <3>2, <3>3, <3>4
      <4>2. i - 1 = n /\ chain[i] = h /\ results'[j] = results[j]
        BY <1>3, <1>5, <1>11, <2>4
      <4>. QED BY <3>3, <4>1, <4>2
    <3>6. /\ results'[i].status = "verified"
          /\ chain[i].depth = i - 1
          /\ chain[i].jti /\ ~Expired(chain[i])
          /\ chain[i].exp \in 1..chain[1].exp
          /\ i - 1 <= chain[i].max
          /\ chain[i].exp <= chain[i].exp
          /\ SignedBy(chain[i], chain[i - 1].key)
          /\ chain[i].par = "below"
      <4>1. i - 1 = n /\ chain[i] = h /\ chain[i - 1] = parent /\ results'[i] = res
        BY <1>3, <1>5, <1>11, <2>4
      <4>2. h.exp \in 1..chain[1].exp
        <5>1. 1 \in 1..n /\ chain[1].exp \in Nat /\ parent.exp <= chain[1].exp
          BY <1>3, <1>16, <3>3
        <5>. QED BY <1>17, <3>2, <5>1
      <4>. QED BY <1>17, <3>1, <3>2, <4>1, <4>2
    <3>7. \A j \in 1..i : j \in 1..n \/ j = i
      BY <1>3, <2>4
    <3>. QED BY <3>3, <3>5, <3>6, <3>7
  <2>. QED BY <1>3, <2>3, <2>4
<1>20. VerifiedIsWithin'
  <2> SUFFICES ASSUME NEW i \in 1..(n + 1), results'[i].status = "verified",
                      \A j \in 1..i : Decidable(chain[j].grants), NEW j \in 1..i
               PROVE  Within(chain[i].grants, chain[j].grants)
    BY <1>4, <1>11 DEF VerifiedIsWithin
  <2>1. CASE i \in 1..n
    BY <1>1, <1>3, <1>11, <2>1 DEF VerifiedIsWithin
  <2>2. CASE i = n + 1
    <3>1. /\ res.status = "verified" /\ i = n + 1 /\ n \in 1..i /\ n + 1 \in 1..i
          /\ \A k \in 1..n : k \in 1..i
      BY <1>3, <1>11, <2>2
    <3>2. below.status = "verified" /\ att \in {"unchanged", "attenuated"}
      BY <1>15, <3>1
    <3>3. h.grants \in Plain /\ parent.grants \in Plain
      BY <1>5, <1>6, <3>1 DEF Plain, Hops
    <3>4. Within(h.grants, parent.grants)
      BY <1>7, <3>2, <3>3, ComparatorAssumption
    <3>5. \A k \in 1..n : Decidable(chain[k].grants)
      BY <3>1
    <3>6. \A k \in 1..n : Within(parent.grants, chain[k].grants)
      BY <1>1, <1>3, <1>5, <3>2, <3>5 DEF VerifiedIsWithin
    <3>7. CASE j \in 1..n
      <4>1. chain[j].grants \in Plain
        BY <1>16, <3>5, <3>7 DEF Plain
      <4>. QED BY <1>5, <3>1, <3>3, <3>4, <3>6, <3>7, <4>1, WithinAssumption
    <3>8. CASE j = n + 1
      BY <1>5, <3>1, <3>3, <3>8, WithinAssumption
    <3>. QED BY <1>3, <2>2, <3>7, <3>8
  <2>. QED BY <1>3, <2>1, <2>2
<1>. QED BY <1>12, <1>13, <1>14, <1>18, <1>19, <1>20 DEF IInv

\* One hop is verified.
LEMMA VerifyKeeps == ASSUME IInv, Verify PROVE IInv'
  BY VerifyRoot, VerifyHop

-----------------------------------------------------------------------------
(* The chain is recorded, pruned, exported and read.                       *)

\* A step after the last hop is verified keeps what the verdicts promise.
LEMMA RecordedKeeps ==
    ASSUME IInv, UNCHANGED <<presented, results>>, Shape'
    PROVE  IInv'
<1>1. UNCHANGED <<cast, chain, others, whole, report, at, results>>
  BY DEF presented
<1>2. AllJudged'
  <2> SUFFICES ASSUME NEW i \in DOMAIN results
               PROVE  Judged(i)'
    BY <1>1 DEF AllJudged
  <2>1. Judged(i)
    BY DEF IInv, AllJudged
  <2>2. /\ \A hop : RootVerdict(hop)' = RootVerdict(hop)
        /\ \A hop, par, b, a : HopVerdict(hop, par, b, a)' = HopVerdict(hop, par, b, a)
    BY <1>1, VerdictsKept
  <2>3. PICK root, hop, par, b, a :
           root = chain[1] /\ hop = chain[i] /\ par = chain[i - 1] /\ b = results[i - 1]
           /\ a = results[i].att
    OBVIOUS
  <2>4. /\ RootVerdict(chain[1])' = RootVerdict(root)'
        /\ HopVerdict(chain[i], chain[i - 1], results[i - 1], results[i].att)'
             = HopVerdict(hop, par, b, a)'
    BY <1>1, <2>3
  <2>5. /\ RootVerdict(chain[1])' = RootVerdict(chain[1])
        /\ HopVerdict(chain[i], chain[i - 1], results[i - 1], results[i].att)'
             = HopVerdict(chain[i], chain[i - 1], results[i - 1], results[i].att)
    BY <2>2, <2>3, <2>4
  <2>. QED BY <1>1, <2>1, <2>5 DEF Judged, Says, Signed
<1>3. AllMinted'
  BY <1>1 DEF IInv, AllMinted
<1>4. BudgetsNarrow'
  BY <1>1 DEF IInv, BudgetsNarrow
<1>5. VerifiedIsEarned'
  <2>1. \A j : Expired(chain[j])' <=> Expired(chain[j])
    BY <1>1 DEF Expired
  <2>2. VerifiedIsEarned
    BY DEF IInv
  <2>. QED BY <1>1, <2>1, <2>2 DEF VerifiedIsEarned, SignedBy
<1>6. VerifiedIsWithin'
  BY <1>1 DEF IInv, VerifiedIsWithin
<1>. QED BY <1>2, <1>3, <1>4, <1>5, <1>6 DEF IInv

\* The tokens are retained and the receipt embeds the chain.
LEMMA RecordKeeps == ASSUME IInv, Record PROVE IInv'
<1>1. Shape
  BY DEF IInv
<1>2. /\ stage = "carried" /\ chain # << >> /\ Len(results) = Len(chain)
      /\ store' = {i \in DOMAIN chain : Signed(chain[i])} /\ stage' = "recorded"
      /\ UNCHANGED <<presented, results, carried, findings>>
  BY DEF Record
<1>3. UNCHANGED <<cast, chain, others, whole, report, at, results>>
  BY <1>2 DEF presented
<1>4. Shape'
  <2>1. Play' = Play
    BY <1>3 DEF Play
  <2>2. Len(chain) > 0
    <3>1. chain \in Seq(Hops)
      BY <1>1 DEF Shape
    <3>. QED BY <1>2, <3>1
  <2>3. carried = {}
    BY <1>1, <1>2 DEF Shape
  <2>. QED BY <1>1, <1>2, <1>3, <2>1, <2>2, <2>3 DEF Shape, Stages, Signed
<1>. QED BY <1>2, <1>4, RecordedKeeps

\* A blob is pruned.
LEMMA PruneKeeps == ASSUME IInv, Prune PROVE IInv'
<1>1. Shape
  BY DEF IInv
<1>2. /\ stage = "recorded" /\ store' \subseteq store
      /\ UNCHANGED <<presented, results, stage, carried, findings>>
  BY DEF Prune
<1>3. UNCHANGED <<cast, chain, others, whole, report, at, results>>
  BY <1>2 DEF presented
<1>4. Shape'
  <2>1. Play' = Play
    BY <1>3 DEF Play
  <2>2. carried' = {}
    BY <1>1, <1>2 DEF Shape
  <2>. QED BY <1>1, <1>2, <1>3, <2>1, <2>2 DEF Shape, Signed
<1>. QED BY <1>2, <1>4, RecordedKeeps

\* The tokens that resolve are exported.
LEMMA ExportKeeps == ASSUME IInv, Export PROVE IInv'
<1>1. Shape
  BY DEF IInv
<1>2. /\ stage = "recorded" /\ stage' = "exported" /\ carried' = HopTokens
      /\ UNCHANGED <<presented, results, store, findings>>
  BY DEF Export
<1>3. UNCHANGED <<cast, chain, others, whole, report, at, results>>
  BY <1>2 DEF presented
<1>4. HopTokens \subseteq store
  BY DEF HopTokens
<1>5. Shape'
  <2>1. Play' = Play
    BY <1>3 DEF Play
  <2>. QED BY <1>1, <1>2, <1>3, <1>4, <2>1 DEF Shape, Stages, Signed
<1>. QED BY <1>2, <1>5, RecordedKeeps

\* The export is read offline.
LEMMA CheckChainKeeps == ASSUME IInv, CheckChain PROVE IInv'
<1>1. Shape
  BY DEF IInv
<1>2. /\ stage = "exported" /\ stage' = "checked"
      /\ findings' = [i \in DOMAIN chain |-> FindingsAt(i)]
      /\ UNCHANGED <<presented, results, store, carried>>
  BY DEF CheckChain
<1>3. UNCHANGED <<cast, chain, others, whole, report, at, results>>
  BY <1>2 DEF presented
<1>4. Shape'
  <2>1. Play' = Play
    BY <1>3 DEF Play
  <2>2. \A i : FindingsAt(i)' = FindingsAt(i)
    BY <1>2, <1>3 DEF FindingsAt, Resolves
  <2>3. findings' = [i \in DOMAIN chain |-> FindingsAt(i)]'
    BY <1>2, <1>3, <2>2
  <2>. QED BY <1>1, <1>2, <1>3, <2>1, <2>3 DEF Shape, Stages, Signed
<1>. QED BY <1>2, <1>4, RecordedKeeps

\* Every step keeps the invariant.
LEMMA NextKeeps == ASSUME IInv, [Next]_vars PROVE IInv'
<1>1. CASE MintRoot
  BY <1>1, MintRootKeeps
<1>2. CASE Mint
  BY <1>2, MintKeeps
<1>3. CASE AddOther
  BY <1>3, AddOtherKeeps
<1>4. CASE Renew
  BY <1>4, RenewKeeps
<1>5. CASE CarryTail
  BY <1>5, CarryTailKeeps
<1>6. CASE Verify
  BY <1>6, VerifyKeeps
<1>7. CASE Record
  BY <1>7, RecordKeeps
<1>8. CASE Prune
  BY <1>8, PruneKeeps
<1>9. CASE Export
  BY <1>9, ExportKeeps
<1>10. CASE CheckChain
  BY <1>10, CheckChainKeeps
<1>11. CASE UNCHANGED vars
  <2>1. UNCHANGED <<presented, results>> /\ UNCHANGED vars
    BY <1>11 DEF vars, presented
  <2>2. Shape'
    <3>1. UNCHANGED <<cast, chain, others, whole, report, at, results, stage, store, carried,
                      findings>>
      BY <1>11 DEF vars
    <3>2. Play' = Play
      BY <3>1 DEF Play
    <3>3. \A i : FindingsAt(i)' = FindingsAt(i)
      BY <3>1 DEF FindingsAt, Resolves
    <3>4. [i \in DOMAIN chain |-> FindingsAt(i)]' = [i \in DOMAIN chain |-> FindingsAt(i)]
      BY <3>1, <3>3
    <3>5. Shape
      BY DEF IInv
    <3>. QED BY <3>1, <3>2, <3>4, <3>5 DEF Shape, Signed
  <2>. QED BY <2>1, <2>2, RecordedKeeps
<1>. QED BY <1>1, <1>2, <1>3, <1>4, <1>5, <1>6, <1>7, <1>8, <1>9, <1>10, <1>11 DEF Next

(* The invariant holds in every reachable state: what Verify writes of a hop
   is what its tables say of that hop and the one below, and a verified status
   stands for the whole prefix. *)
THEOREM InvariantHolds == Spec => []IInv
<1>1. Init => IInv
  BY InitHolds
<1>2. IInv /\ [Next]_vars => IInv'
  BY NextKeeps
<1>. QED BY <1>1, <1>2, PTL DEF Spec

(* A verified hop rests on a verified prefix, signed and linked from the root
   up inside every budget and lifetime, and behind it no authority was gained,
   whatever another implementation put into the chain (verify.go). *)
THEOREM VerifiedHops == Spec => []VerifiedStands
<1>1. IInv => VerifiedStands
  BY DEF IInv, VerifiedStands
<1>. QED BY <1>1, InvariantHolds, PTL

-----------------------------------------------------------------------------
(* What Mint makes, and what the offline verifier says.                    *)

\* Every variable has its type.
LEMMA InvariantTypes == IInv => TypeOK
<1> SUFFICES ASSUME IInv PROVE TypeOK
  OBVIOUS
<1>1. Shape
  BY DEF IInv
<1>2. chain \in Seq(Hops) /\ results \in Seq(Outcomes)
  BY <1>1 DEF Shape
<1>3. ASSUME NEW i \in DOMAIN chain
      PROVE  /\ chain[i].signer \in Keys \cup {Foreign, Garbled, Nobody}
             /\ chain[i].key \in Keys \cup {Foreign, Garbled}
             /\ chain[i].grants \in GrantSets
  <2>1. chain[i] \in Hops
    BY <1>2, SeqElements
  <2>. QED BY <2>1 DEF Hops
<1>4. ASSUME NEW i \in DOMAIN results
      PROVE  /\ results[i].status \in {"verified", "asserted", "broken"}
             /\ results[i].evidence \in {"none", "token", "statement"}
             /\ StoredFlag(results[i]) \in {"none", "unchanged", "attenuated", "unknown"}
  <2>1. results[i] \in Outcomes
    BY <1>2, SeqElements
  <2>2. results[i].att \in {"none", "unchanged", "attenuated", "unknown", "broadened"}
    BY <2>1 DEF Outcomes, Answered
  <2>. QED BY <2>1, <2>2 DEF Outcomes, StoredFlag
<1>5. store \subseteq DOMAIN chain
  BY <1>1 DEF Shape
<1>. QED BY <1>1, <1>3, <1>4, <1>5 DEF Shape, TypeOK

(* The types hold: among them that a receipt never carries a flag the frozen
   enum has no value for (StoredFlag). *)
THEOREM TypesHold == Spec => []TypeOK
  BY InvariantTypes, InvariantHolds, PTL

\* A hop Mint made fails no check but its clock, its login or its grants.
LEMMA MintedRootStands ==
    ASSUME NEW h, MintedRoot(h), ~Expired(h), report.device \in {Foreign, h.key},
           report.state # "broken", h.anchor # "another_key"
    PROVE  RootVerdict(h)[1] # "broken"
<1>1. /\ h.depth = 0 /\ h.par = "none" /\ SignedBy(h, h.key) /\ ~Malformed(h)
      /\ h.exp # 0
  BY DEF MintedRoot, SignedBy, Malformed
<1>. QED BY <1>1, RootTable DEF RootRead

LEMMA MintedHopStands ==
    ASSUME NEW h \in Hops, NEW parent \in Hops, NEW below, NEW att, MintedFrom(h, parent),
           ~Expired(h), att # "broadened"
    PROVE  HopVerdict(h, parent, below, att)[1] # "broken"
<1>1. /\ h.exp \in Nat /\ h.depth \in Nat /\ h.max \in Nat
      /\ parent.exp \in Nat /\ parent.depth \in Nat /\ parent.max \in Nat
  BY DEF Hops
<1>2. /\ SignedBy(h, parent.key) /\ h.jti /\ ~DepthBreaks(h, parent) /\ h.exp # 0
      /\ ~Outlives(h, parent) /\ h.par = "below"
  BY <1>1 DEF MintedFrom, SignedBy, DepthBreaks, Outlives
<1>. QED BY <1>2, HopTable DEF HopRead

(* What Mint makes, Verify does not call broken, whatever the keys, grants and
   lifetimes of the chain (aat.go, verify.go). *)
THEOREM MintedChainsHold == Spec => []MintedHolds
<1>1. ASSUME IInv PROVE MintedHolds
  <2> SUFFICES ASSUME NEW i \in DOMAIN results, others = 0, whole,
                      report.device \in {Foreign, chain[1].key}, report.state # "broken",
                      chain[1].anchor # "another_key",
                      \A j \in 1..i : ~Expired(chain[j]) /\ Decidable(chain[j].grants)
               PROVE  results[i].status # "broken"
    BY DEF MintedHolds
  <2>1. /\ chain \in Seq(Hops) /\ results \in Seq(Outcomes) /\ Len(results) <= Len(chain)
    BY <1>1 DEF IInv, Shape
  <2>2. i \in DOMAIN chain /\ i \in Nat /\ i >= 1 /\ i \in 1..i
    BY <2>1
  <2>3. /\ i = 1 => MintedRoot(chain[1])
        /\ i > 1 => MintedFrom(chain[i], chain[i - 1])
    BY <1>1, <2>2 DEF IInv, AllMinted
  <2>4. Judged(i)
    BY <1>1 DEF IInv, AllJudged
  <2>5. CASE i = 1
    <3>1. RootVerdict(chain[1])[1] # "broken"
      BY <2>2, <2>3, <2>5, MintedRootStands
    <3>. QED BY <2>4, <2>5, <3>1 DEF Judged, Says
  <2>6. CASE i > 1
    <3>1. PICK h, parent, below, att : /\ h = chain[i] /\ parent = chain[i - 1]
                                       /\ below = results[i - 1] /\ att = results[i].att
      OBVIOUS
    <3>2. i - 1 \in DOMAIN chain /\ i - 1 \in 1..i
      BY <2>1, <2>2, <2>6
    <3>3. h \in Hops /\ parent \in Hops
      BY <2>1, <2>2, <3>1, <3>2, SeqElements
    <3>4. h.grants \in Plain /\ parent.grants \in Plain
      BY <2>2, <3>1, <3>2, <3>3 DEF Plain, Hops
    <3>5. MintedFrom(h, parent) /\ att \in Compare(parent.grants, h.grants)
      BY <2>3, <2>4, <2>6, <3>1 DEF Judged
    <3>6. att # "broadened"
      BY <3>4, <3>5, ComparatorAssumption DEF MintedFrom
    <3>7. HopVerdict(h, parent, below, att)[1] # "broken"
      BY <2>2, <3>1, <3>3, <3>5, <3>6, MintedHopStands
    <3>. QED BY <2>4, <2>6, <3>1, <3>7 DEF Judged, Says
  <2>. QED BY <2>2, <2>5, <2>6
<1>. QED BY <1>1, InvariantHolds, PTL

\* The two verifiers look at the same members of a root they both can read.
LEMMA RootOpinions ==
    ASSUME NEW h, NEW status, NEW method, h.key \in Keys, Signed(h), h.depth = 0,
           RootVerdict(h) = <<status, method>>
    PROVE  /\ (Malformed(h) \/ RootFindings(h) # {}) => status = "broken"
           /\ method \in Structural => Malformed(h) \/ RootFindings(h) # {}
<1>1. RootFindings(h) # {} <=> h.par # "none" \/ ~SignedBy(h, h.key)
  BY DEF RootFindings
<1>. QED BY <1>1, RootTable DEF RootRead, PublicKey, Structural

\* And of any other hop.
LEMMA HopOpinions ==
    ASSUME NEW h, NEW parent, NEW below, NEW att, NEW status, NEW method,
           h.key \in Keys, Signed(h), parent.key \in Keys, Signed(parent),
           HopVerdict(h, parent, below, att) = <<status, method>>
    PROVE  /\ (Malformed(h) \/ HopFindings(h, parent) # {}) => status = "broken"
           /\ method \in Structural => Malformed(h) \/ HopFindings(h, parent) # {}
           /\ Outlives(h, parent) => HopFindings(h, parent) # {}
<1>1. HopFindings(h, parent) # {} <=>
        ~SignedBy(h, parent.key) \/ DepthBreaks(h, parent) \/ Outlives(h, parent) \/ h.par # "below"
  BY DEF HopFindings, DepthBreaks, Outlives
<1>2. HasThumbprint(h.key)
  BY KeyFacts DEF HasThumbprint
<1>. QED BY <1>1, <1>2, HopTable DEF HopRead, PublicKey, Structural, Malformed

(* The two verifiers agree wherever both could look, whatever hops the chain
   is made of and whatever the customer pruned (verify.go, aat.rs). *)
THEOREM VerifiersAgree == Spec => []OpinionsAgree
<1>1. ASSUME IInv PROVE OpinionsAgree
  <2> SUFFICES ASSUME stage = "checked", NEW i \in DOMAIN chain,
                      Resolves(i), chain[i].key \in Keys,
                      i > 1 => Resolves(i - 1) /\ ParsesOffline(chain[i - 1])
               PROVE  /\ findings[i] # {} => results[i].status = "broken"
                      /\ results[i].method \in Structural => findings[i] # {}
                      /\ (i > 1 /\ Outlives(chain[i], chain[i - 1])) => findings[i] # {}
    BY DEF OpinionsAgree
  <2>1. /\ chain \in Seq(Hops) /\ results \in Seq(Outcomes) /\ Len(results) = Len(chain)
        /\ findings = [k \in DOMAIN chain |-> FindingsAt(k)]
        /\ \A k \in carried : Signed(chain[k])
    BY <1>1 DEF IInv, Shape
  <2>2. /\ i \in DOMAIN results /\ i \in Nat /\ i >= 1
        /\ findings[i] = FindingsAt(i) /\ results[i] \in Outcomes
    BY <2>1, SeqElements
  <2>3. Judged(i) /\ Signed(chain[i]) /\ results[i].evidence # "none"
    BY <1>1, <2>1, <2>2 DEF IInv, AllJudged, Resolves
  <2>4. PICK status, method : status = results[i].status /\ method = results[i].method
    OBVIOUS
  <2>5. CASE i = 1
    <3>1. PICK h : h = chain[1]
      OBVIOUS
    <3>2. FindingsAt(i) = IF Malformed(h) THEN {"malformed"} ELSE RootFindings(h)
      BY <2>5, <3>1 DEF FindingsAt, ParsesOffline
    <3>3. h.depth = 0 /\ RootVerdict(h)[1] = status /\ RootVerdict(h)[2] = method
      BY <2>3, <2>4, <2>5, <3>1 DEF Judged, Says
    <3>4. RootVerdict(h) = <<status, method>>
      BY <3>3, RootTable DEF RootRead
    <3>5. /\ (Malformed(h) \/ RootFindings(h) # {}) => status = "broken"
          /\ method \in Structural => Malformed(h) \/ RootFindings(h) # {}
      BY <2>3, <2>5, <3>1, <3>3, <3>4, RootOpinions
    <3>. QED BY <2>2, <2>4, <2>5, <3>2, <3>5
  <2>6. CASE i > 1
    <3>1. PICK h, parent, below, att : /\ h = chain[i] /\ parent = chain[i - 1]
                                       /\ below = results[i - 1] /\ att = results[i].att
      OBVIOUS
    <3>2. FindingsAt(i) = IF Malformed(h) THEN {"malformed"} ELSE HopFindings(h, parent)
      BY <2>6, <3>1 DEF FindingsAt, ParsesOffline
    <3>3. HopVerdict(h, parent, below, att)[1] = status /\ HopVerdict(h, parent, below, att)[2] = method
      BY <2>3, <2>4, <2>6, <3>1 DEF Judged, Says
    <3>4. HopVerdict(h, parent, below, att) = <<status, method>>
      BY <3>3, HopTable DEF HopRead
    <3>5. Signed(parent) /\ parent.key \in Keys
      BY <2>1, <2>6, <3>1 DEF Resolves, ParsesOffline
    <3>6. /\ (Malformed(h) \/ HopFindings(h, parent) # {}) => status = "broken"
          /\ method \in Structural => Malformed(h) \/ HopFindings(h, parent) # {}
          /\ Outlives(h, parent) => HopFindings(h, parent) # {}
      BY <2>3, <3>1, <3>4, <3>5, HopOpinions
    <3>. QED BY <2>2, <2>4, <2>6, <3>1, <3>2, <3>6
  <2>. QED BY <2>2, <2>5, <2>6
<1>. QED BY <1>1, InvariantHolds, PTL

-----------------------------------------------------------------------------
(* The scope check.                                                        *)

\* Of some naturals there is a least.
LEMMA TightestIs ==
    ASSUME NEW S \in SUBSET Nat, S # {}
    PROVE  Tightest(S) \in S /\ \A m \in S : Tightest(S) <= m
<1>1. PICK n \in S : \A m \in S : ~(<<m, n>> \in OpToRel(<, Nat))
  BY NatLessThanWellFounded, WFMin
<1>2. ASSUME NEW m \in S PROVE n <= m
  <2>1. n \in Nat /\ m \in Nat
    OBVIOUS
  <2>2. ~(m < n)
    BY <1>1, <2>1 DEF OpToRel
  <2>. QED BY <2>1, <2>2
<1>. QED BY <1>2 DEF Tightest

\* It finds what some ceiling is exceeded by.
LEMMA ScopeFinds ==
    ASSUME NEW hops, NEW operation, NEW amount,
           \A i \in DOMAIN hops : CeilingOf(hops[i].grants, operation) \subseteq Nat
    PROVE  CheckScope(hops, operation, amount) <=>
             amount \in Nat /\ \E i \in DOMAIN hops : \E l \in CeilingOf(hops[i].grants, operation) : l < amount
<1> DEFINE S == UNION {CeilingOf(hops[i].grants, operation) : i \in DOMAIN hops}
<1>1. S \in SUBSET Nat
  OBVIOUS
<1>2. CheckScope(hops, operation, amount) <=> amount \in Nat /\ S # {} /\ amount > Tightest(S)
  BY DEF CheckScope
<1>3. \A l : l \in S <=> \E i \in DOMAIN hops : l \in CeilingOf(hops[i].grants, operation)
  OBVIOUS
<1> HIDE DEF S
<1>4. ASSUME amount \in Nat
      PROVE  (S # {} /\ amount > Tightest(S)) <=> \E l \in S : l < amount
  <2>1. CASE S = {}
    BY <2>1
  <2>2. CASE S # {}
    <3>1. PICK t : t = Tightest(S)
      OBVIOUS
    <3>2. t \in S /\ \A m \in S : t <= m
      BY <1>1, <2>2, <3>1, TightestIs
    <3>3. t \in Nat /\ \A m \in S : m \in Nat
      BY <1>1, <3>2
    <3>4. ASSUME NEW l \in S, l < amount PROVE t < amount
      BY <1>4, <3>2, <3>3, <3>4
    <3>. QED BY <2>2, <3>1, <3>2, <3>3, <3>4, <1>4
  <2>. QED BY <2>1, <2>2
<1>. QED BY <1>2, <1>3, <1>4

(* Of a verified chain without wildcards the scope check flags exactly what
   exceeds the ceiling of the hop that acted: however long the chain, none of
   the ceilings behind it is tighter (CheckScope, verify.go). *)
THEOREM ScopeIsTheLeafs == Spec => []ScopeReadsTheLeaf
<1>1. ASSUME IInv PROVE ScopeReadsTheLeaf
  <2> DEFINE n == Len(chain)
  <2> SUFFICES ASSUME n > 0, Len(results) = n, results[n].status = "verified",
                      \A i \in DOMAIN chain : Decidable(chain[i].grants),
                      NEW o \in Operations, May(chain[n].grants, o[1])
               PROVE  CheckScope(chain, o[1], o[2]) <=> CheckScope(<<chain[n]>>, o[1], o[2])
    BY DEF ScopeReadsTheLeaf
  <2>1. chain \in Seq(Hops) /\ results \in Seq(Outcomes)
    BY <1>1 DEF IInv, Shape
  <2>2. n \in Nat /\ DOMAIN chain = 1..n /\ n \in DOMAIN results
    BY <2>1
  <2>3. \A i \in 1..n : chain[i].grants \in Plain
    <3>1. \A i \in 1..n : chain[i] \in Hops
      BY <2>1
    <3>. QED BY <2>2, <3>1 DEF Hops, Plain
  <2>4. \A i \in 1..n : Within(chain[n].grants, chain[i].grants)
    BY <1>1, <2>2 DEF IInv, VerifiedIsWithin
  <2>5. \A i \in 1..n : CeilingOf(chain[i].grants, o[1]) \subseteq Nat
    BY <2>3, CeilingAssumption DEF Plain
  <2>6. \A i \in 1..n : \A l \in CeilingOf(chain[i].grants, o[1]) :
            \E m \in CeilingOf(chain[n].grants, o[1]) : m <= l
    <3>1. PICK leaf : leaf = chain[n].grants
      OBVIOUS
    <3>2. leaf \in Plain /\ May(leaf, o[1])
      BY <2>2, <2>3, <3>1
    <3>3. ASSUME NEW i \in 1..n, NEW l \in CeilingOf(chain[i].grants, o[1])
          PROVE  \E m \in CeilingOf(leaf, o[1]) : m <= l
      <4>1. PICK p : p = chain[i].grants
        OBVIOUS
      <4>2. p \in Plain /\ Within(leaf, p) /\ l \in CeilingOf(p, o[1])
        BY <2>3, <2>4, <3>1, <3>3, <4>1
      <4>. QED BY <3>2, <4>2, CeilingAssumption
    <3>. QED BY <3>1, <3>3
  <2>7. CheckScope(chain, o[1], o[2]) <=>
          o[2] \in Nat /\ \E i \in 1..n : \E l \in CeilingOf(chain[i].grants, o[1]) : l < o[2]
    BY <2>2, <2>5, ScopeFinds
  <2>8. CheckScope(<<chain[n]>>, o[1], o[2]) <=>
          o[2] \in Nat /\ \E l \in CeilingOf(chain[n].grants, o[1]) : l < o[2]
    <3>1. PICK h : h = chain[n]
      OBVIOUS
    <3>2. PICK one : one = <<h>>
      OBVIOUS
    <3>3. DOMAIN one = {1} /\ one[1] = h
      BY <3>2
    <3>4. \A i \in DOMAIN one : CeilingOf(one[i].grants, o[1]) \subseteq Nat
      BY <2>2, <2>5, <3>1, <3>3
    <3>5. CheckScope(one, o[1], o[2]) <=>
            o[2] \in Nat /\ \E i \in DOMAIN one : \E l \in CeilingOf(one[i].grants, o[1]) : l < o[2]
      BY <3>4, ScopeFinds
    <3>. QED BY <3>1, <3>2, <3>3, <3>5
  <2>9. ASSUME o[2] \in Nat
        PROVE  (\E i \in 1..n : \E l \in CeilingOf(chain[i].grants, o[1]) : l < o[2]) <=>
                 \E l \in CeilingOf(chain[n].grants, o[1]) : l < o[2]
    <3>1. ASSUME NEW i \in 1..n, NEW l \in CeilingOf(chain[i].grants, o[1]), l < o[2]
          PROVE  \E m \in CeilingOf(chain[n].grants, o[1]) : m < o[2]
      <4>1. PICK m \in CeilingOf(chain[n].grants, o[1]) : m <= l
        BY <2>6
      <4>2. n \in 1..n
        BY <2>2
      <4>3. m \in Nat /\ l \in Nat
        BY <2>5, <4>2
      <4>. QED BY <2>9, <3>1, <4>1, <4>3
    <3>2. n \in 1..n
      BY <2>2
    <3>. QED BY <3>1, <3>2
  <2>. QED BY <2>7, <2>8, <2>9
<1>. QED BY <1>1, InvariantHolds, PTL
=============================================================================
