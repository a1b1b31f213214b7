----------------------------- MODULE MCReading -----------------------------
(* Reading on small recordings, each with what it is about. *)
EXTENDS DiffProps

\* "u1" and "u2" are UUIDs, "t1" and "t2" timestamps; "ok" is too short to link.
Long == {"ord1", "ord2", "dollars", "note", "orders.search", "refund.issue", "orders.note",
         "refund_issue", "error", "failed", "refund", "done", "d1", "d2", "absent", "deleted",
         "dropped-at-capture", "u1", "u2", "t1", "t2", "x1", "x2"}
LengthOf == [x \in Long \cup {"ok"} |-> CASE x = "ok" -> 2 [] x = "dollars" -> 7 [] OTHER -> 4]
ShapeOf == [x \in DOMAIN LengthOf |-> CASE x \in {"u1", "u2"} -> "uuid" [] x \in {"t1", "t2"} -> "time"
                                       [] OTHER -> "plain"]
PositionNames == <<"0", "1", "2">>
Names == <<"_meta", "amount", "arguments", "baggage", "error", "id", "name", "note", "ref", "results",
           "status", "ts", "unit">>
Order == PositionNames \o Names
           \o <<"absent", "d1", "d2", "deleted", "dollars", "done", "dropped-at-capture", "failed", "ok", "ord1", "ord2",
                "orders.note", "orders.search", "refund", "refund.issue", "refund_issue", "t1", "t2",
                "u1", "u2", "x1", "x2">>
SpaceOf == [op \in {"orders.search", "orders.note", "refund.issue", "refund_issue"} |->
              CASE op \in {"orders.search", "orders.note"} -> "orders"
                [] op = "refund.issue" -> "refund" [] OTHER -> ""]
SanitizedAs == [op \in DOMAIN SpaceOf |-> IF op = "refund.issue" THEN "refund_issue" ELSE op]

ContentsOf == {"d1", "d2", "d3"}
ManifestOf ==
    [d1 |-> [amount |-> "x1", name |-> "t1"], d2 |-> [amount |-> "x2", name |-> "t1", note |-> "t2"],
     d3 |-> NoParts]

Ok == [status |-> Atom("ok")]
Base == [kind |-> "tool_call", emitter |-> "p1", surface |-> "mcp-proxy", op |-> "orders.search",
         target |-> "", idem |-> "", schema |-> {}, keyed |-> TRUE, slots |-> <<>>, outcome |-> Ok,
         risk |-> "low", verdict |-> "verified", hops |-> <<"verified">>, root |-> "alice",
         actor |-> "agent", arguments |-> ""]

Row(order) == Object([id |-> Atom(order), unit |-> Atom("dollars")])
Slot(role, digest) == [role |-> role, digest |-> digest, custody |-> "customer-held", state |-> "present",
                       manifest |-> NoParts]
Found(list) == [Base EXCEPT !.outcome = [results |-> Array(list)] @@ Ok]
Stamped(ref, ts) ==
    [Base EXCEPT !.outcome = [ref |-> ref, ts |-> ts, _meta |-> Object([baggage |-> ts])] @@ Ok]
Refund(order) == [Base EXCEPT !.op = "refund.issue", !.target = order, !.risk = "high"]
Note(order) == [Base EXCEPT !.op = "orders.note", !.target = order]

DiffCalls ==
    [search |-> Found(<<Row("ord1"), Row("ord2")>>),
     swapped |-> Found(<<Row("ord2"), Row("ord1")>>),
     refund1 |-> Refund("ord1"), refund2 |-> Refund("ord2"), dollars |-> Refund("dollars"),
     note1 |-> Note("ord1"), note2 |-> Note("ord2"),
     stamp1 |-> Stamped(Atom("u1"), Atom("t1")), stamp2 |-> Stamped(Atom("u2"), Atom("t2")),
     unstamped |-> Stamped(Atom("x1"), Atom("t2")),
     blob1 |-> [Base EXCEPT !.slots = <<Slot("output", "d1")>>],
     blob2 |-> [Base EXCEPT !.slots = <<Slot("output", "d2")>>],
     broke |-> [Base EXCEPT !.target = "ord2", !.idem = "x1",
                  !.outcome = [status |-> Atom("error"), error |-> Atom("failed")]],
     bare |-> [Base EXCEPT !.keyed = FALSE],
     twin |-> [Base EXCEPT !.emitter = "p2"]]

Plain == [leaves |-> <<>>, late |-> 0, again |-> 0, touches |-> 0, rehydrates |-> 0,
          reconstructs |-> 0, lists |-> 0, pages |-> {}]
InRun(run, calls) == {<<run, call>> : call \in calls}
Two == [Plain EXCEPT !.pages = {<<"a", "b">>}]

\* A wrong selection carried forward.
CauseCast == [Two EXCEPT !.leaves =
    <<InRun("a", {"search"}), InRun("a", {"refund1", "note1", "dollars"}), InRun("a", {"refund1", "note1"}),
      InRun("b", {"swapped", "search"}), InRun("b", {"refund2", "note2", "broke"}),
      InRun("b", {"refund2", "note2", "blob1"})>>]
\* What is noise and what is not.
NoiseCast == [Two EXCEPT !.leaves =
    <<InRun("a", {"stamp1", "blob1"}), InRun("a", {"stamp1", "search", "blob1"}),
      InRun("b", {"stamp2", "unstamped", "blob2", "broke"}),
      InRun("b", {"stamp2", "unstamped", "swapped", "blob2", "broke"})>>]
\* Step keys missing, repeated, permuted, and runs of two lengths.
Shapes == {"search", "note1", "refund1", "bare", "twin"}
AlignCast == [Two EXCEPT !.leaves =
    <<InRun("a", Shapes), InRun("a", Shapes), InRun("b", Shapes), InRun("b", Shapes), InRun("b", Shapes)>>]
BlockCast == [Two EXCEPT !.leaves =
    <<InRun("a", {"search", "twin", "bare"}), InRun("a", Shapes), InRun("a", {"search", "note1", "twin"}),
      InRun("b", {"search", "twin", "bare"}), InRun("b", Shapes), InRun("b", {"search", "note1", "twin"})>>]


\* Payload slots: kept, dropped, the vendor's, and the notice of an erasure.
Kept1 == [Slot("input", "d1") EXCEPT !.manifest = ManifestOf["d1"]]
Kept2 == Slot("output", "d2")
Dropped == [Slot("output", "d2") EXCEPT !.custody = "dropped-with-digest", !.state = "dropped-at-capture"]
Vendor == [Slot("output", "d2") EXCEPT !.custody = "vendor-held"]
Erased == [Slot("output", "d2") EXCEPT !.state = "deleted"]
SlotCalls ==
    [kept |-> [Base EXCEPT !.slots = <<Kept1, Kept2>>],
     apart |-> [Base EXCEPT !.slots = <<Kept1, Dropped, Vendor, Erased>>],
     notice |-> [Base EXCEPT !.kind = "erasure_notice", !.slots = <<[Kept1 EXCEPT !.state = "deleted"]>>]]
SlotCast == [Plain EXCEPT !.touches = 2, !.rehydrates = 1, !.late = 1, !.pages = {<<"a">>}, !.leaves =
    <<InRun("a", {"kept", "apart"}), InRun("a", {"kept"}) \cup InRun("b", {"notice"})>>]

\* Verdicts, statuses and principals.
VerdictCalls ==
    [fine |-> Base,
     weak |-> [Base EXCEPT !.verdict = "asserted", !.hops = <<"verified", "asserted">>],
     bad |-> [Base EXCEPT !.verdict = "broken", !.hops = <<"broken", "asserted">>],
     chainless |-> [Base EXCEPT !.verdict = "asserted", !.hops = <<>>, !.root = "", !.actor = "other"],
     blank |-> [Base EXCEPT !.verdict = "", !.hops = <<>>, !.root = "", !.kind = "policy_change",
                            !.outcome = NoParts]]
ListCast == [Plain EXCEPT !.late = 1, !.lists = 1, !.pages = {<<"a">>}, !.leaves =
    <<InRun("a", DOMAIN VerdictCalls), InRun("a", DOMAIN VerdictCalls) \cup InRun("b", {"bad"}),
      InRun("a", DOMAIN VerdictCalls)>>]

\* Pages of a growing run.
PageCast == [Plain EXCEPT !.late = 1, !.again = 1, !.rehydrates = 2, !.reconstructs = 2, !.leaves =
    <<InRun("a", {"fine"}), InRun("a", {"fine"}) \cup InRun("b", {"fine"}), InRun("a", {"fine"})>>]

\* One call seen by two surfaces.
SeenCalls ==
    [wire |-> [Base EXCEPT !.op = "refund.issue", !.arguments = "d1"],
     alike |-> [Base EXCEPT !.op = "refund_issue", !.arguments = "d1"],
     other |-> [Base EXCEPT !.op = "refund.issue", !.arguments = "d2"],
     hook |-> [Base EXCEPT !.op = "refund_issue", !.arguments = "d1", !.surface = "claude-code-hook",
                           !.emitter = "h"],
     bash |-> [Base EXCEPT !.op = "refund_issue", !.surface = "claude-code-hook", !.emitter = "h"]]
ByBoth == InRun("a", DOMAIN SeenCalls)
SeenCast == [Plain EXCEPT !.again = 1, !.leaves = <<ByBoth, ByBoth, ByBoth, ByBoth>>]

CatalogueOf == DiffCalls @@ SlotCalls @@ VerdictCalls @@ SeenCalls
Casts0 == {CauseCast, NoiseCast, AlignCast, BlockCast, SlotCast, ListCast, PageCast, SeenCast}

\* The values that occur in these calls, by their depth.
Rows == {Row(order) : order \in {"ord1", "ord2"}}
Lists == {Array(<<x, y>>) : x, y \in Rows}
Metas == {Object([baggage |-> Atom(x)]) : x \in {"t1", "t2"}}
DepthOf ==
    [v \in {Absent} \cup {Atom(x) : x \in DOMAIN LengthOf} \cup Rows \cup Lists \cup Metas |->
        CASE v \in Lists -> 2 [] v \in Rows \cup Metas -> 1 [] OTHER -> 0]
=============================================================================
