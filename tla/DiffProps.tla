----------------------------- MODULE DiffProps -----------------------------
(* What the comparison of a page's steps, RunDiff, may be relied on for. *)
EXTENDS ReadingProps

(* What two runs differ in by construction: a named field, all that travels
   in `_meta`, and two identifiers or two timestamps of one shape. *)
PerRun(path, a, b) ==
    \/ LeafKey(path) \in NoisyFields
    \/ \E n \in DOMAIN path : path[n] \in NoisySegments
    \/ {a.tag, b.tag} = {"atom"} /\ Shape[a.is] = Shape[b.is] /\ Shape[a.is] # "plain"

(* The paths at and below this one at which two values differ beyond that. *)
BeyondRuns[x \in Path \X Json \X Json] ==
    LET path == x[1]
        a == x[2]
        b == x[3]
    IN  IF a = b \/ PerRun(path, a, b) THEN {}
          ELSE IF a.tag = b.tag /\ a.tag \in {"object", "array"}
                 THEN UNION {BeyondRuns[<<Append(path, n), Part(a, n), Part(b, n)>>] :
                               n \in DOMAIN a.parts \cup DOMAIN b.parts}
                 ELSE {path}
SameButPerRun(path, a, b) == BeyondRuns[<<path, a, b>>] = {}
SameView(a, b) ==
    \A path \in ToSet(Paths(a)) \cup ToSet(Paths(b)) : SameButPerRun(path, Get(a, path), Get(b, path))
SameAction(a, b) ==
    SameView(a.outcome, b.outcome) /\ SameView(a.args, b.args) /\ SameView(a.result, b.result)

(* A pair left out of the report differs in nothing but what every two runs
   differ in, however many findings the budget dropped; a pair set apart as
   opaque differs in the digest of its output alone; and a step without a
   counterpart is always reported (Compare, the noise filter). *)
NothingHidden ==
    LET d == page.diff
        Index(found) == {f.index : f \in ToSet(found)}
    IN  \A k \in DOMAIN d.pairs :
            LET p == d.pairs[k]
            IN  IF p.a = 0 \/ p.b = 0 THEN k \in Index(d.differences)
                  ELSE /\ k \notin Index(d.differences) => SameAction(d.a[p.a], d.b[p.b])
                       /\ k \in Index(d.opaque) => d.a[p.a].output # d.b[p.b].output
                       /\ k \notin Index(d.differences) \cup Index(d.opaque) =>
                             SameView(d.a[p.a].output, d.b[p.b].output)
=============================================================================
