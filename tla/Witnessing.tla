----------------------------- MODULE Witnessing -----------------------------
(***************************************************************************)
(* The log side of witnessing, composed with the witness: tlog's           *)
(* witnessSubmitter (witnessLoop, witnessPass, submit, and WitnessDir for  *)
(* `behalf-log witness`) and the protocol client it submits through        *)
(* (witness.Client.Submit and post).  One witness, one origin; the quorum  *)
(* is that witness.                                                        *)
(***************************************************************************)
EXTENDS Witness

CONSTANTS
    Loops,         \* open log handles, each with a witness loop
    Commands,      \* `behalf-log witness` invocations, a fresh client each
    Recalibrations, \* maxRecalibrations
    Impatient,     \* may a pass end while the witness still handles its request?
    Restores,      \* may the log directory be restored to another tree?
    MaxReopens     \* bound: handles reopened and directories restored

Submitters == Loops \cup Commands

\* No request of this pass in flight.
NoSlot == "no request"

ASSUME WitnessingAssumption ==
    /\ Origin # {} /\ NoSlot \notin Requests
    /\ Loops \cap Commands = {}
    /\ Recalibrations \in Nat /\ MaxReopens \in Nat
    /\ Impatient \in BOOLEAN /\ Restores \in BOOLEAN

VARIABLES
    published,   \* the tree of the log's published checkpoint
    offered,     \* every tree the log ever published
    pass,        \* pass[s]: s's pass in progress
    lastSize,    \* lastSize[s]: Client.lastSize, what s thinks is cosigned
    seen,        \* seen[s]: the head s's handle has submitted, or NoHead
    records,     \* witness/outcomes.jsonl, as a set
    witnessed,   \* checkpoint.witnessed
    reopens

logVars == <<published, offered>>
fileVars == <<records, witnessed>>
sideVars == <<logVars, pass, lastSize, seen, fileVars, reopens>>
allVars == <<vars, sideVars>>

TheOrigin == CHOOSE o \in Origin : TRUE

\* What one submission produced.
Outcome == [kind : {"none", "cosigned", "refused", "unreachable"},
            reason : Reasons \cup {""}]
Result(k, why) == [kind |-> k, reason |-> why]

\* A pass: the head it read, everything published when it read it, the old
\* size it will declare, how often the witness has revised it, its request.
Pass == [stage : {"idle", "post", "await", "record", "write"}, tree : Heads,
         before : SUBSET Tree, old : Sizes, tries : 0..Recalibrations,
         slot : Requests \cup {NoSlot}, outcome : Outcome]
NoPass == [stage |-> "idle", tree |-> NoHead, before |-> {}, old |-> 0,
           tries |-> 0, slot |-> NoSlot, outcome |-> Result("none", "")]

\* Mutant: the request is not let go.
ReturnedMutant(s, res) == [pass EXCEPT ![s].stage = "record", ![s].outcome = res]

\* Submit returns: with one witness summarize keeps its outcome.
Returned(s, res) ==
    [pass EXCEPT ![s].stage = "record", ![s].outcome = res, ![s].slot = NoSlot]

-----------------------------------------------------------------------------
\* The log publishes a larger tree of the same history.
Publish(t) ==
    /\ t # published /\ Grows(published, t)
    /\ published' = t /\ offered' = offered \cup {t}
    /\ UNCHANGED <<vars, pass, lastSize, seen, fileVars, reopens>>

\* The log is closed and opened again: the handle's memory is gone.
Reopen ==
    /\ reopens < MaxReopens
    /\ \A s \in Submitters : pass[s].stage = "idle"
    /\ lastSize' = [s \in Submitters |-> 0]
    /\ seen' = [s \in Submitters |-> NoHead]
    /\ reopens' = reopens + 1
    /\ UNCHANGED <<vars, logVars, pass, fileVars>>

\* Another tree is put in the log's directory, under an open handle or not.
Restore(t) ==
    /\ Restores /\ reopens < MaxReopens
    /\ \A s \in Submitters : pass[s].stage = "idle"
    /\ published' = t /\ offered' = offered \cup {t}
    /\ reopens' = reopens + 1
    /\ UNCHANGED <<vars, pass, lastSize, seen, fileVars>>

\* witnessPass, or one run of the command: read the checkpoint, skip a head
\* this handle has submitted, and take the size the client remembers.
Start(s) ==
    /\ pass[s].stage = "idle"
    /\ s \in Loops => seen[s] # published
    /\ pass' = [pass EXCEPT ![s] =
           [NoPass EXCEPT !.stage = "post", !.tree = published, !.before = offered,
                          !.old = IF s \in Loops THEN lastSize[s] ELSE 0]]
    /\ UNCHANGED <<vars, logVars, lastSize, seen, fileVars, reopens>>

\* Submit, before the request: the client itself refuses to go backwards.
RefuseLocally(s) ==
    /\ pass[s].stage = "post" /\ pass[s].old > Len(pass[s].tree)
    /\ pass' = Returned(s, Result("refused", "smaller-size"))
    /\ UNCHANGED <<vars, logVars, lastSize, seen, fileVars, reopens>>

\* Mutant: a tree that grew is offered without its proof.
ProofFromMutant(old, t) == 0

\* The consistency proof Submit builds from the log's tiles.
ProofFrom(old, t) == IF 0 < old /\ old < Len(t) THEN old ELSE 0

\* post: the request reaches a serving witness.
Post(s, r, p) ==
    LET t == pass[s].tree  old == pass[s].old
    IN  /\ pass[s].stage = "post" /\ old <= Len(t)
        /\ Receive(r, p, TheOrigin, TRUE, t, old, ProofFrom(old, t))
        /\ pass' = [pass EXCEPT ![s].stage = "await", ![s].slot = r]
        /\ UNCHANGED <<logVars, lastSize, seen, fileVars, reopens>>

\* post: nobody serves there.
Unreachable(s) ==
    /\ pass[s].stage = "post" /\ pass[s].old <= Len(pass[s].tree)
    /\ \A p \in Procs : phase[p] # "serving"
    /\ pass' = Returned(s, Result("unreachable", ""))
    /\ UNCHANGED <<vars, logVars, lastSize, seen, fileVars, reopens>>

\* post and Submit on the answer: done with an outcome, or the witness names
\* another size and Submit goes round again, a bounded number of times.
Answered(s) ==
    LET r == pass[s].slot
        a == req[r].answer
        again == a.kind = "size" /\ pass[s].tries < Recalibrations
    IN  /\ pass[s].stage = "await" /\ req[r].stage = "answered"
        /\ pass' =
             IF again
             THEN [pass EXCEPT ![s].stage = "post", ![s].slot = NoSlot,
                               ![s].old = a.size, ![s].tries = @ + 1]
             ELSE Returned(s, IF a.kind \in {"cosigned", "refused"}
                              THEN Result(a.kind, a.reason)
                              ELSE Result("unreachable", ""))
        /\ lastSize' = [lastSize EXCEPT ![s] =
             IF again THEN a.size
             ELSE IF a.kind = "cosigned" THEN Len(pass[s].tree) ELSE @]
        /\ req' = [req EXCEPT ![r] = Idle]
        /\ UNCHANGED <<serveVars, stateVars, issued, faults, logVars, seen, fileVars, reopens>>

\* The answer is lost, or the pass ends before it: its second is over, or
\* Close cancelled it.  The witness is not told and its handler runs on.
Abandon(s) ==
    /\ pass[s].stage = "await"
    /\ Impatient \/ req[pass[s].slot].stage = "answered"
    /\ pass' = Returned(s, Result("unreachable", ""))
    /\ UNCHANGED <<vars, logVars, lastSize, seen, fileVars, reopens>>

\* Mutant: the note is written for a witness that did not answer, too.
RecordMutant(s) ==
    /\ pass[s].stage = "record"
    /\ records' = records \cup {[tree |-> pass[s].tree, outcome |-> pass[s].outcome]}
    /\ pass' = [pass EXCEPT ![s].stage = "write"]
    /\ UNCHANGED <<vars, logVars, lastSize, seen, witnessed, reopens>>

\* appendWitnessRecord, synced; a cosigned pass goes on to the note.
Record(s) ==
    /\ pass[s].stage = "record"
    /\ records' = records \cup {[tree |-> pass[s].tree, outcome |-> pass[s].outcome]}
    /\ IF pass[s].outcome.kind = "cosigned"
       THEN pass' = [pass EXCEPT ![s].stage = "write"] /\ UNCHANGED seen
       ELSE pass' = [pass EXCEPT ![s] = NoPass] /\ seen' = [seen EXCEPT ![s] = pass[s].tree]
    /\ UNCHANGED <<vars, logVars, lastSize, witnessed, reopens>>

\* writeWitnessedCheckpoint, and the handle notes the head as submitted.
WriteWitnessed(s) ==
    /\ pass[s].stage = "write"
    /\ witnessed' = pass[s].tree
    /\ pass' = [pass EXCEPT ![s] = NoPass]
    /\ seen' = [seen EXCEPT ![s] = pass[s].tree]
    /\ UNCHANGED <<vars, logVars, lastSize, records, reopens>>

\* Mutant: the head is noted although nothing was recorded.
WriteFailsMutant(s) ==
    /\ pass[s].stage \in {"record", "write"} /\ faults < MaxFaults
    /\ pass' = [pass EXCEPT ![s] = NoPass]
    /\ seen' = [seen EXCEPT ![s] = pass[s].tree]
    /\ faults' = faults + 1
    /\ UNCHANGED <<serveVars, stateVars, req, issued, logVars, lastSize, fileVars, reopens>>

\* Writing the record or the note fails: submit returns the error, the head
\* is not noted and the next tick offers it again.
WriteFails(s) ==
    /\ pass[s].stage \in {"record", "write"} /\ faults < MaxFaults
    /\ pass' = [pass EXCEPT ![s] = NoPass]
    /\ faults' = faults + 1
    /\ UNCHANGED <<serveVars, stateVars, req, issued, logVars, lastSize, seen, fileVars, reopens>>

\* The answer to a request nobody waits for any more.
Unread(r) ==
    /\ \A s \in Submitters : pass[s].slot # r
    /\ HangUp(r)
    /\ UNCHANGED sideVars

-----------------------------------------------------------------------------
InitSide ==
    /\ published \in {t \in Tree : Len(t) <= 1} /\ offered = {published}
    /\ pass = [s \in Submitters |-> NoPass]
    /\ lastSize = [s \in Submitters |-> 0]
    /\ seen = [s \in Submitters |-> NoHead]
    /\ records = {} /\ witnessed = NoHead /\ reopens = 0

\* One step of the pass of s that its own goroutine takes.
Step(s) ==
    \/ RefuseLocally(s) \/ Unreachable(s) \/ Answered(s)
    \/ \E r \in Requests, p \in Procs : Post(s, r, p)
    \/ Record(s) \/ WriteWitnessed(s) \/ WriteFails(s)

Handle(r) == Cosign(r) \/ Rename(r) \/ SyncDir(r) \/ FlushFails(r) \/ Sign(r)

SideNext ==
    \/ \E t \in Tree : Publish(t) \/ Restore(t)
    \/ Reopen
    \/ \E s \in Submitters : Start(s) \/ Step(s) \/ Abandon(s)
    \/ \E r \in Requests : Unread(r)

AllNext == SideNext \/ ((Lifecycle \/ Handling) /\ UNCHANGED sideVars)

\* The loop ticks, its goroutine and the handlers' run, connections close.
Fairness ==
    /\ \A s \in Loops : WF_allVars(Start(s)) /\ WF_allVars(Step(s))
    /\ \A r \in Requests : WF_allVars((Handle(r) /\ UNCHANGED sideVars) \/ Unread(r))

AllInit == Init /\ InitSide
AllSpec == AllInit /\ [][AllNext]_allVars /\ Fairness
=============================================================================
