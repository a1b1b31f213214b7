--------------------------- MODULE WitnessingProps ---------------------------
(* What the record of witnessing beside a log is worth.                     *)
EXTENDS Witnessing

\* Every variable of the log side keeps its type, and a pass has a request out
\* exactly while it waits for one.
SideTypeOK ==
    /\ published \in Tree /\ offered \subseteq Tree
    /\ pass \in [Submitters -> Pass]
    /\ lastSize \in [Submitters -> Sizes]
    /\ seen \in [Submitters -> Heads]
    /\ records \subseteq [tree : Tree, outcome : Outcome]
    /\ \A s \in Submitters : pass[s].stage = "await" <=> pass[s].slot # NoSlot
    /\ witnessed \in Heads /\ reopens \in 0..MaxReopens

\* A refusal is a finding about the log (client.go:50-51, behalf-log
\* witness.go:28): a pass is refused only when some tree published before it
\* read its own is not carried forward by that one.
RefusedForCause ==
    \A s \in Submitters :
        pass[s].stage = "record" /\ pass[s].outcome.kind = "refused" =>
            \E u \in pass[s].before : ~Grows(u, pass[s].tree)

\* checkpoint.witnessed is never a note without a cosignature the witness
\* remembers, nor one the outcome record does not name (witness.go:328-335).
WitnessedIsRecorded ==
    witnessed # NoHead =>
        /\ [tree |-> witnessed, outcome |-> Result("cosigned", "")] \in records
        /\ \A st \in durable : st[TheOrigin] # NoHead /\ Grows(witnessed, st[TheOrigin])

\* Of two forks of the log at most one is ever recorded as cosigned, over
\* every restore, restart and lost answer (package comment of the witness).
OneForkCosigned ==
    \A c, d \in records :
        c.outcome.kind = "cosigned" /\ d.outcome.kind = "cosigned" =>
            OneHistory(c.tree, d.tree)

\* What the log's side keeps is true of the witness: the witnessed checkpoint is
\* covered by its record, and the heads on record belong to one log.
RecordIsTrue == WitnessedIsRecorded /\ OneForkCosigned

\* Every head the log leaves published gets an outcome on record, whatever
\* the witness does (witness.go:43-46).
EveryHeadRecorded ==
    \A t \in Tree : published = t ~>
        published # t \/ \E rec \in records : rec.tree = t
=============================================================================
