---------------------------- MODULE WitnessProps ----------------------------
(* What the witness must keep, whatever submitters ask of it.              *)
EXTENDS Witness

Ledger == INSTANCE CosignLedger

\* Every variable keeps its type, the process that serves is the one that has
\* the lock, and a request is handled by it.
TypeOK ==
    /\ phase \in [Procs -> {"down", "loaded", "serving"}]
    /\ lock \in Procs \cup {NoProc}
    /\ mem \in [Procs -> [Origin -> Heads]]
    /\ disk \in [Origin -> Heads]
    /\ durable \subseteq [Origin -> Heads]
    /\ req \in [Requests -> Handler]
    /\ issued \subseteq [origin : Origin, tree : Tree]
    /\ faults \in 0..MaxFaults
    /\ \A p \in Procs : phase[p] = "serving" <=> lock = p
    /\ \A r \in Requests :
        req[r].stage \notin {"idle", "answered"} =>
            /\ req[r].proc \in Procs /\ lock = req[r].proc
            /\ req[r].origin \in Origin /\ req[r].tree \in Tree

\* A witness never puts its name to two histories of one origin, whichever
\* of its processes signed, and whatever was lost in between
\* (witness.go:174-177, main.go:166-168).
NoSplitView == Ledger!NoSplitView

\* The witness never forgets a head it has cosigned: every state file a power
\* loss could leave carries each issued cosignature forward (store.go:24-29).
NeverForgets ==
    \A s \in durable, c \in issued :
        s[c.origin] # NoHead /\ Grows(c.tree, s[c.origin])

\* The head a serving process goes by is never ahead of the state file, a
\* flush that failed half way included (store.go:199).
NotAheadOfDisk ==
    \A p \in Procs, o \in Origin :
        phase[p] = "serving" /\ ~Recording(p) /\ mem[p][o] # NoHead =>
            disk[o] # NoHead /\ Grows(mem[p][o], disk[o])

\* The witness implements the ledger of cosignatures: each one it lets out
\* agrees with all it let out before.
Promise == Ledger!Spec
=============================================================================
