------------------------------ MODULE Witness ------------------------------
(***************************************************************************)
(* The witness: internal/witness (Server.addCheckpoint, Witness.Cosign,    *)
(* Store.Record and its flush) inside `behalf-witness serve`.  Several     *)
(* serving processes may share one state directory over time; each answers *)
(* several requests at once, one goroutine per request.                    *)
(*                                                                         *)
(* A consistency proof is the size it starts from, 0 for the empty proof:  *)
(* with collision-free hashes a proof verifies exactly when it was built   *)
(* from the held size and the offered tree carries the held one forward.   *)
(* w.mu and s.mu are both held in the stages "rename" and "sync" and only  *)
(* there, so they are read off the stages.                                 *)
(***************************************************************************)
EXTENDS TreeHeads, FiniteSets

CONSTANTS
    Origin,     \* origins the witness holds a log key for
    Stranger,   \* an origin it holds no key for
    Procs,      \* `behalf-witness serve` processes over one state dir
    NoProc,
    Requests,   \* bound: requests in flight at once
    Takeover,   \* may the serving process end while another is starting?
    MaxFaults   \* bound: failing disk calls, processes ended, power losses

ASSUME WitnessAssumption ==
    /\ Stranger \notin Origin
    /\ NoProc \notin Procs
    /\ Takeover \in BOOLEAN
    /\ MaxFaults \in Nat

VARIABLES
    phase,     \* phase[p]: "down", "loaded" (OpenStore done), "serving"
    lock,      \* who holds witness.lock
    mem,       \* mem[p]: Store.st, the head held for each origin
    disk,      \* the state file as a reader sees it
    durable,   \* the state files a power loss may leave behind
    req,       \* req[r]: a request in its handler
    issued,    \* cosignatures written to a client
    faults

serveVars == <<phase, lock>>
stateVars == <<mem, disk, durable>>
vars == <<serveVars, stateVars, req, issued, faults>>

Heads  == Tree \cup {NoHead}
Empty  == [o \in Origin |-> NoHead]
Sizes  == {Len(t) : t \in Tree} \cup {0}
SizeOf(h) == IF h = NoHead THEN 0 ELSE Len(h)

Reasons == {"smaller-size", "same-size-different-root", "inconsistent-proof"}
Stages  == {"idle", "cosign", "rename", "sync", "signed", "answered"}
Kinds   == {"none", "cosigned", "refused", "size", "rejected", "dropped"}

\* An answer: its kind, the refusal reason or "", and the size it carries.
Answer(k, why, n) == [kind |-> k, reason |-> why, size |-> n]
NoAnswer == Answer("none", "", 0)

\* A request in its handler; from is kept until Cosign has judged it, prev is
\* the head Record replaces.
Handler == [stage : Stages, proc : Procs \cup {NoProc},
            origin : Origin \cup {Stranger}, tree : Heads, from : Sizes,
            prev : Heads,
            answer : [kind : Kinds, reason : Reasons \cup {""}, size : Sizes]]
Idle == [stage |-> "idle", proc |-> NoProc, origin |-> Stranger,
         tree |-> NoHead, from |-> 0, prev |-> NoHead, answer |-> NoAnswer]

Reply(a) == [Idle EXCEPT !.stage = "answered", !.answer = a]

\* w.mu and s.mu are held by a request of p.
Recording(p) == \E r \in Requests : req[r].proc = p /\ req[r].stage \in {"rename", "sync"}

-----------------------------------------------------------------------------
(* internal/witness/server.go, witness.go: the decisions.                  *)

\* Mutant: any proof of the right length will do.
ProvesMutant(held, offered, from) == from = Len(held)

\* rfc6962 VerifyConsistency: from an empty tree only the empty proof is right.
Proves(held, offered, from) == from = Len(held) /\ Grows(held, offered)

\* Mutant: equal sizes are taken for equal trees.
JudgeMutant(held, offered, from) ==
    IF held = NoHead THEN IF from > 0 THEN "inconsistent-proof" ELSE ""
    ELSE IF Len(offered) < Len(held) THEN "smaller-size"
    ELSE IF Len(offered) = Len(held) \/ Proves(held, offered, from) THEN ""
    ELSE "inconsistent-proof"

\* checkConsistent, and Cosign's rule for an origin never seen: "" to accept.
Judge(held, offered, from) ==
    IF held = NoHead THEN IF from > 0 THEN "inconsistent-proof" ELSE ""
    ELSE IF Len(offered) < Len(held) THEN "smaller-size"
    ELSE IF Len(offered) = Len(held)
         THEN IF offered # held THEN "same-size-different-root"
              ELSE IF from > 0 THEN "inconsistent-proof" ELSE ""
    ELSE IF Proves(held, offered, from) THEN "" ELSE "inconsistent-proof"

\* A refusal carries the held size only in its smaller-size form (refuse).
Refusal(why, held) ==
    Answer("refused", why, IF why = "smaller-size" THEN Len(held) ELSE 0)

\* addCheckpoint up to the call of Cosign: what it answers, or NoAnswer.
Precheck(held, signed, o, t, old) ==
    IF o = Stranger \/ ~signed THEN Answer("rejected", "", 0)
    ELSE IF held # NoHead /\ Len(t) < Len(held) THEN Refusal("smaller-size", held)
    ELSE IF old > Len(t) THEN Answer("rejected", "", 0)
    ELSE IF old # SizeOf(held) THEN Answer("size", "", SizeOf(held))
    ELSE NoAnswer

\* A request arrives at p: Inspect, then Held reads the head under s.mu only.
Receive(r, p, o, signed, t, old, from) ==
    /\ phase[p] = "serving" /\ req[r].stage = "idle"
    /\ ~Recording(p)
    /\ LET held == IF o = Stranger THEN NoHead ELSE mem[p][o]
           a    == Precheck(held, signed, o, t, old)
       IN  req' = [req EXCEPT ![r] =
                IF a # NoAnswer THEN Reply(a)
                ELSE [Idle EXCEPT !.stage = "cosign", !.proc = p, !.origin = o,
                                  !.tree = t, !.from = from]]
    /\ UNCHANGED <<serveVars, stateVars, issued, faults>>

\* Witness.Cosign takes w.mu, judges again, signs; Record then moves the
\* in-memory head and goes to flush it, holding s.mu.
Cosign(r) ==
    LET p == req[r].proc  o == req[r].origin  t == req[r].tree
        held == mem[p][o]
        why  == Judge(held, t, req[r].from)
    IN  /\ req[r].stage = "cosign" /\ ~Recording(p)
        /\ IF why = ""
           THEN /\ mem' = [mem EXCEPT ![p][o] = t]
                /\ req' = [req EXCEPT ![r].stage = "rename", ![r].from = 0,
                                        ![r].prev = held]
           ELSE /\ req' = [req EXCEPT ![r] = Reply(Refusal(why, held))]
                /\ UNCHANGED mem
        /\ UNCHANGED <<serveVars, disk, durable, issued, faults>>

\* flushLocked: the synced temp file is renamed over the state file.
Rename(r) ==
    /\ req[r].stage = "rename"
    /\ disk' = mem[req[r].proc]
    /\ durable' = durable \cup {disk'}
    /\ req' = [req EXCEPT ![r].stage = "sync"]
    /\ UNCHANGED <<serveVars, mem, issued, faults>>

\* Mutant: the rename is trusted without a sync of the directory.
SyncDirMutant(r) ==
    /\ req[r].stage = "sync"
    /\ req' = [req EXCEPT ![r].stage = "signed", ![r].prev = NoHead]
    /\ UNCHANGED <<serveVars, stateVars, issued, faults>>

\* The directory is synced; Record and Cosign return the signature.
SyncDir(r) ==
    /\ req[r].stage = "sync"
    /\ durable' = {disk}
    /\ req' = [req EXCEPT ![r].stage = "signed", ![r].prev = NoHead]
    /\ UNCHANGED <<serveVars, mem, disk, issued, faults>>

\* Mutant: the in-memory head stays.
FlushFailsMutant(r) ==
    /\ req[r].stage \in {"rename", "sync"} /\ faults < MaxFaults
    /\ req' = [req EXCEPT ![r] = Reply(Answer("rejected", "", 0))]
    /\ faults' = faults + 1
    /\ UNCHANGED <<serveVars, stateVars, issued>>

\* Any step of the flush fails: Record puts the previous head back and the
\* client is answered 500.  The state file may already be renamed over.
FlushFails(r) ==
    /\ req[r].stage \in {"rename", "sync"} /\ faults < MaxFaults
    /\ mem' = [mem EXCEPT ![req[r].proc][req[r].origin] = req[r].prev]
    /\ req' = [req EXCEPT ![r] = Reply(Answer("rejected", "", 0))]
    /\ faults' = faults + 1
    /\ UNCHANGED <<serveVars, disk, durable, issued>>

\* The handler writes the signature to the connection: it is out.
Sign(r) ==
    /\ req[r].stage = "signed"
    /\ issued' = issued \cup {[origin |-> req[r].origin, tree |-> req[r].tree]}
    /\ req' = [req EXCEPT ![r] = Reply(Answer("cosigned", "", 0))]
    /\ UNCHANGED <<serveVars, stateVars, faults>>

\* The connection is closed, its answer read or not.
HangUp(r) ==
    /\ req[r].stage = "answered"
    /\ req' = [req EXCEPT ![r] = Idle]
    /\ UNCHANGED <<serveVars, stateVars, issued, faults>>

-----------------------------------------------------------------------------
(* cmd/behalf-witness serve: the life of a process.                        *)

\* OpenStore reads the state file, before the lock is asked for.
Load(p) ==
    /\ phase[p] = "down"
    /\ phase' = [phase EXCEPT ![p] = "loaded"]
    /\ mem' = [mem EXCEPT ![p] = disk]
    /\ UNCHANGED <<lock, disk, durable, req, issued, faults>>

\* TryLock: serve, or give up when another process holds it.
Serve(p) ==
    /\ phase[p] = "loaded" /\ lock = NoProc
    /\ phase' = [phase EXCEPT ![p] = "serving"]
    /\ lock' = p
    /\ UNCHANGED <<stateVars, req, issued, faults>>

GiveUp(p) ==
    /\ phase[p] = "loaded" /\ lock # NoProc
    /\ phase' = [phase EXCEPT ![p] = "down"]
    /\ mem' = [mem EXCEPT ![p] = Empty]
    /\ UNCHANGED <<lock, disk, durable, req, issued, faults>>

\* Mutant: the handlers of an ended process run on.
CutMutant(P) == UNCHANGED req

\* Connections of the processes in P are cut, their handlers are gone.
Cut(P) ==
    req' = [r \in Requests |->
        IF req[r].proc \in P /\ req[r].stage \notin {"idle", "answered"}
        THEN Reply(Answer("dropped", "", 0)) ELSE req[r]]

\* The process ends: killed, or shut down with its five seconds of grace
\* over.  The lock goes with it.
Exit(p) ==
    /\ phase[p] # "down" /\ faults < MaxFaults
    /\ Takeover \/ lock # p \/ \A q \in Procs : phase[q] # "loaded"
    /\ phase' = [phase EXCEPT ![p] = "down"]
    /\ lock' = IF lock = p THEN NoProc ELSE lock
    /\ mem' = [mem EXCEPT ![p] = Empty]
    /\ Cut({p})
    /\ faults' = faults + 1
    /\ UNCHANGED <<disk, durable, issued>>

\* The machine loses power: a rename whose directory was not synced may or
\* may not have reached the disk.
PowerLoss ==
    /\ faults < MaxFaults
    /\ disk' \in durable /\ durable' = {disk'}
    /\ phase' = [p \in Procs |-> "down"]
    /\ lock' = NoProc
    /\ mem' = [p \in Procs |-> Empty]
    /\ Cut(Procs)
    /\ faults' = faults + 1
    /\ UNCHANGED issued

-----------------------------------------------------------------------------
Init ==
    /\ phase = [p \in Procs |-> "down"] /\ lock = NoProc
    /\ mem = [p \in Procs |-> Empty]
    /\ disk = Empty /\ durable = {Empty}
    /\ req = [r \in Requests |-> Idle]
    /\ issued = {} /\ faults = 0

\* What the witness does of its own accord.
Lifecycle == (\E p \in Procs : Load(p) \/ Serve(p) \/ GiveUp(p) \/ Exit(p)) \/ PowerLoss
Handling == \E r \in Requests :
    Cosign(r) \/ Rename(r) \/ SyncDir(r) \/ FlushFails(r) \/ Sign(r)

\* Any submitter at all: every request its wire format can carry.
Submission == \E r \in Requests, p \in Procs, o \in Origin \cup {Stranger},
                 signed \in BOOLEAN, t \in Tree, old \in Sizes, from \in Sizes :
    Receive(r, p, o, signed, t, old, from)

Next == Lifecycle \/ Handling \/ Submission \/ \E r \in Requests : HangUp(r)
Spec == Init /\ [][Next]_vars
=============================================================================
