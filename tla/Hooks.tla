------------------------------- MODULE Hooks -------------------------------
(***************************************************************************)
(* The Claude Code hook surface of internal/hooks: one `behalf-hook`       *)
(* process per hook event, and the pending-intent store those processes    *)
(* share (pending.go).  PreToolUse records an intent and no receipt; the   *)
(* event that closes the call claims the intent and spools its receipt     *)
(* under the intent's counter; SessionEnd and `behalf-hook recover` sweep  *)
(* what nothing closed and spool an orphan_intent for each.                *)
(*                                                                         *)
(* An intent is numbered in the order ULIDAt(capturedAt) mints its id.     *)
(* A bucket directory is named by its key.  Receipts keep the fields the   *)
(* properties read: kind, counter, intent and call.  Spooling a receipt is *)
(* one step: its file is the spool's (see Spool).  The causal ordinal, the *)
(* CAS blobs and the chain of authority ride along and steer nothing.      *)
(***************************************************************************)
EXTENDS Naturals, Sequences, FiniteSets, FiniteSetsExt

CONSTANTS
    Hosts,        \* hook processes that may exist at one time
    Sessions,     \* Claude Code sessions on one state directory
    Calls,        \* tool calls
    SessionOf,    \* [Calls -> Sessions]
    Input,        \* [Calls -> ...]: tool name and tool_input of a call
    WithId,       \* the calls whose payloads carry a tool_use_id
    NoCall,       \* the call of a receipt that closes none
    Casts         \* the settings to play: see Cast

ASSUME CallAssumption ==
    /\ SessionOf \in [Calls -> Sessions]
    /\ WithId \subseteq Calls
    /\ NoCall \notin Calls

(* One setting: may hook processes overlap, which calls are made, which of
   them the human is asked about and which are refused, and bounds on
   failures (a process killed, an append that errs), on runs of `behalf-hook
   recover` and on Stop, SubagentStart and SubagentStop events. *)
Cast == [overlap : BOOLEAN, calls : SUBSET Calls, asks : SUBSET Calls,
         refused : SUBSET Calls, faults : Nat, recovers : Nat, marks : Nat]

ASSUME CastAssumption == Casts \subseteq Cast

VARIABLES
    cast,      \* the setting of this behaviour
    tool,      \* tool[c]: where the client is with call c
    asked,     \* calls whose PermissionRequest was delivered
    over,      \* sessions whose SessionEnd was delivered
    marks,     \* marker events delivered
    recovers,  \* recover runs started
    counter,   \* the emitter counter file
    intents,   \* the Pending records, by intent number
    json,      \* json[k]: intents recorded in bucket k
    links,     \* links[k]: alias files in bucket k, by intent number
    dirs,      \* bucket directories that exist
    litter,    \* buckets holding a temp file of a killed process
    receipts,  \* what has been spooled
    job,       \* job[h]: the process h and its local variables
    gone,      \* counters whose holder failed before spooling a receipt
    faults     \* faults so far

client == <<tool, asked, over, marks, recovers>>
store == <<json, links, dirs, litter>>
vars == <<cast, client, counter, intents, store, receipts, job, gone, faults>>

(* pendingKey: the id decides when there is one, else tool and input. *)
(* Mutant: without the session. *)
ContentKeyMutant(c) == <<"input", Input[c]>>
ContentKey(c) == <<SessionOf[c], "input", Input[c]>>
IdKey(c) == <<SessionOf[c], "id", c>>
PendingKey(c, withId) == IF withId THEN IdKey(c) ELSE ContentKey(c)
Keys == {ContentKey(c) : c \in Calls} \cup {IdKey(c) : c \in Calls}

(* The keys Claim and Peek try in turn. *)
SearchKeysMutant(c, withId) == <<ContentKey(c)>>   \* mutant: id ignored
SearchKeys(c, withId) ==
    IF withId THEN <<IdKey(c), ContentKey(c)>> ELSE <<ContentKey(c)>>

NoJob == [at |-> "idle", ev |-> "none", call |-> NoCall, keys |-> <<>>,
          key |-> <<>>, look |-> {}, intent |-> 0, n |-> 0, who |-> {}, cut |-> 0,
          left |-> {}, bucket |-> <<>>, names |-> {}, taken |-> {}]

(* The sessions of this behaviour. *)
Played == {SessionOf[c] : c \in cast.calls}

Idle(h) == job[h].at = "idle"
Goes(h, at) == job' = [job EXCEPT ![h].at = at]

(* Claude Code starts a hook process when an event fires. *)
CanStart(h) == Idle(h) /\ (cast.overlap \/ \A g \in Hosts : Idle(g))
Start(h, j) == job' = [job EXCEPT ![h] = j]

DropMutant(k, js, ls) == IF js[k] = {} THEN dirs \ {k} ELSE dirs

(* os.Remove of a bucket succeeds only when nothing is left in it, the
   temp file of a Put under way included. *)
Drop(k, js, ls) ==
    LET temp == \E h \in Hosts : job[h].at = "rename" /\ job[h].bucket = k
    IN  IF js[k] = {} /\ ls[k] = {} /\ k \notin litter /\ ~temp
          THEN dirs \ {k} ELSE dirs

-----------------------------------------------------------------------------
(* Handle: which handler an event starts, with its first local values. *)

PreToolUse(h, c) ==
    /\ CanStart(h)
    /\ tool[c] = "ready"
    /\ c \in cast.calls
    /\ SessionOf[c] \notin over
    /\ tool' = [tool EXCEPT ![c] = "asking"]
    /\ intents' = Append(intents, [call |-> c, counter |-> 0])
    /\ Start(h, [NoJob EXCEPT !.at = "counter", !.ev = "pre", !.call = c,
                              !.intent = Len(intents) + 1,
                              !.bucket = PendingKey(c, c \in WithId)])
    /\ UNCHANGED <<cast, asked, over, marks, recovers, counter, store,
                   receipts, gone, faults>>

(* The hooks are installed after the call began: no PreToolUse is seen. *)
Unhooked(c) ==
    /\ tool[c] = "ready"
    /\ c \in cast.calls
    /\ SessionOf[c] \notin over
    /\ tool' = [tool EXCEPT ![c] = "running"]
    /\ UNCHANGED <<cast, asked, over, marks, recovers, counter, intents,
                   store, receipts, job, gone, faults>>

Search(c, ev, withId) ==
    [NoJob EXCEPT !.at = "follow", !.ev = ev, !.call = c,
                  !.keys = SearchKeys(c, withId)]

(* PostToolUse and PostToolUseFailure: completeToolCall. *)
PostToolUse(h, c) ==
    /\ CanStart(h)
    /\ tool[c] = "running"
    /\ c \notin cast.refused
    /\ tool' = [tool EXCEPT ![c] = "closed"]
    /\ Start(h, Search(c, "post", c \in WithId))
    /\ UNCHANGED <<cast, asked, over, marks, recovers, counter, intents,
                   store, receipts, gone, faults>>

PermissionDenied(h, c) ==
    /\ CanStart(h)
    /\ tool[c] = "running"
    /\ c \in cast.refused
    /\ tool' = [tool EXCEPT ![c] = "closed"]
    /\ Start(h, Search(c, "denied", c \in WithId))
    /\ UNCHANGED <<cast, asked, over, marks, recovers, counter, intents,
                   store, receipts, gone, faults>>

(* PermissionRequest carries no tool_use_id: only the content key. *)
PermissionRequest(h, c) ==
    /\ CanStart(h)
    /\ tool[c] = "running"
    /\ c \in cast.asks \ asked
    /\ SessionOf[c] \notin over
    /\ asked' = asked \cup {c}
    /\ Start(h, Search(c, "request", FALSE))
    /\ UNCHANGED <<cast, tool, over, marks, recovers, counter, intents,
                   store, receipts, gone, faults>>

(* SubagentStart, SubagentStop and Stop: a counter and one receipt. *)
Marker(h) ==
    /\ CanStart(h)
    /\ marks < cast.marks
    /\ marks' = marks + 1
    /\ Start(h, [NoJob EXCEPT !.at = "counter", !.ev = "marker"])
    /\ UNCHANGED <<cast, tool, asked, over, recovers, counter, intents,
                   store, receipts, gone, faults>>

SessionEnd(h, s) ==
    /\ CanStart(h)
    /\ s \in Played \ over
    /\ over' = over \cup {s}
    /\ Start(h, [NoJob EXCEPT !.at = "scan", !.ev = "end", !.who = {s},
                              !.cut = Len(intents)])
    /\ UNCHANGED <<cast, tool, asked, marks, recovers, counter, intents,
                   store, receipts, gone, faults>>

(* `behalf-hook recover --older-than`: the first `cut` intents are old. *)
Recover(h) ==
    /\ CanStart(h)
    /\ recovers < cast.recovers
    /\ recovers' = recovers + 1
    /\ \E cut \in 1..Len(intents), who \in {{s} : s \in Sessions} \cup {Sessions} :
          Start(h, [NoJob EXCEPT !.at = "scan", !.ev = "recover",
                                 !.who = who, !.cut = cut])
    /\ UNCHANGED <<cast, tool, asked, over, marks, counter, intents, store,
                   receipts, gone, faults>>

-----------------------------------------------------------------------------
(* NextCounter, under the counter's lock file. *)
NextCounter(h) ==
    /\ job[h].at = "counter"
    /\ counter' = counter + 1
    /\ IF job[h].ev = "pre"
         THEN /\ intents' = [intents EXCEPT ![job[h].intent].counter = counter + 1]
              /\ job' = [job EXCEPT ![h].n = counter + 1, ![h].at = "mkdir"]
         ELSE /\ job' = [job EXCEPT ![h].n = counter + 1, ![h].at = "emit"]
              /\ UNCHANGED intents
    /\ UNCHANGED <<cast, client, store, receipts, gone, faults>>

(* Put, in its order: bucket, alias, temp file, rename. *)
PutBucket(h) ==
    /\ job[h].at = "mkdir"
    /\ dirs' = dirs \cup {job[h].bucket}
    /\ Goes(h, IF job[h].call \in WithId THEN "alias" ELSE "temp")
    /\ UNCHANGED <<cast, client, counter, intents, json, links, litter,
                   receipts, gone, faults>>

(* Links with intent i added to, and with the links of, bucket k removed. *)
LinkedMutant(k, i) == links
Linked(k, i) == [links EXCEPT ![k] = @ \cup {i}]
UnlinkedMutant(k) == links
Unlinked(k) == [links EXCEPT ![k] = {}]

(* Records with that of intent i in bucket k removed, if it is there. *)
UnrecordedMutant(k, i) == json
Unrecorded(k, i) == [json EXCEPT ![k] = @ \ {i}]

PutAlias(h) ==
    LET alias == ContentKey(job[h].call)
    IN  /\ job[h].at = "alias"
        /\ dirs' = dirs \cup {alias}
        /\ links' = Linked(alias, job[h].intent)
        /\ Goes(h, "temp")
        /\ UNCHANGED <<cast, client, counter, intents, json, litter,
                       receipts, gone, faults>>

(* A PreToolUse hook ends, whatever came of it, and the tool runs. *)
PreEnds(h) ==
    /\ tool' = [tool EXCEPT ![job[h].call] = "running"]
    /\ job' = [job EXCEPT ![h] = NoJob]

PutTemp(h) ==
    /\ job[h].at = "temp"
    /\ IF job[h].bucket \in dirs
         THEN Goes(h, "rename") /\ UNCHANGED <<tool, gone>>
         ELSE PreEnds(h) /\ gone' = gone \cup {job[h].n}
    /\ UNCHANGED <<cast, asked, over, marks, recovers, counter, intents,
                   store, receipts, faults>>

PutRename(h) ==
    /\ job[h].at = "rename"
    /\ json' = [json EXCEPT ![job[h].bucket] = @ \cup {job[h].intent}]
    /\ PreEnds(h)
    /\ UNCHANGED <<cast, asked, over, marks, recovers, counter, intents,
                   links, dirs, litter, receipts, gone, faults>>

-----------------------------------------------------------------------------
(* followLinks: the buckets to look in are the key's own, 0 in `look`, then
   those its live pointers name, in order.  A pointer to a bucket without a
   record is removed, and the key's bucket with it if that leaves nothing. *)
Target(i) == IdKey(intents[i].call)
Bucket(j, x) == IF x = 0 THEN j.key ELSE Target(x)

FollowLinks(h) ==
    LET k == Head(job[h].keys)
        live == {i \in links[k] : json[Target(i)] # {}}
        kept == [links EXCEPT ![k] = live]
    IN  /\ job[h].at = "follow"
        /\ links' = kept
        /\ dirs' = Drop(k, json, kept)
        /\ job' = [job EXCEPT ![h].at = "list", ![h].keys = Tail(@),
                              ![h].key = k, ![h].look = {0} \cup live]
        /\ UNCHANGED <<cast, client, counter, intents, json, litter,
                       receipts, gone, faults>>

(* claimBucket and readBucket: list a bucket, and pick the oldest name.  When
   every bucket came up empty, mintPending or a permission receipt on its own. *)
List(h) ==
    LET j == job[h]
        x == Min(j.look)
        k == Bucket(j, x)
    IN  /\ j.at = "list"
        /\ job' = [job EXCEPT ![h] =
              IF j.look = {}
                THEN [j EXCEPT !.key = <<>>,
                        !.at = IF j.keys = <<>> THEN "counter" ELSE "follow"]
              ELSE IF json[k] = {} THEN [j EXCEPT !.look = @ \ {x}]
              ELSE [j EXCEPT !.at = "read", !.look = @ \ {x},
                             !.bucket = k, !.intent = Min(json[k])]]
        /\ UNCHANGED <<cast, client, counter, intents, store, receipts,
                       gone, faults>>

(* A record another process took meanwhile: on to the next bucket. *)
Read(h) ==
    LET j == job[h]
    IN  /\ j.at = "read"
        /\ job' = [job EXCEPT ![h] =
              IF j.intent \notin json[j.bucket]
              THEN [j EXCEPT !.at = "list", !.intent = 0, !.bucket = <<>>]
              ELSE IF j.ev = "request"
                THEN [NoJob EXCEPT !.at = "counter", !.ev = j.ev, !.call = j.call,
                                   !.intent = j.intent]
              ELSE [j EXCEPT !.at = "remove", !.key = <<>>, !.keys = <<>>, !.look = {}]]
        /\ UNCHANGED <<cast, client, counter, intents, store, receipts,
                       gone, faults>>

(* The remove that makes the claim; a record already gone is no error. *)
Take(h) ==
    LET j == job[h]
        rest == Unrecorded(j.bucket, j.intent)
    IN  /\ j.at = "remove"
        /\ json' = rest
        /\ dirs' = Drop(j.bucket, rest, links)
        /\ job' = [job EXCEPT ![h].at = "emit", ![h].bucket = <<>>,
                              ![h].n = intents[j.intent].counter]
        /\ UNCHANGED <<cast, client, counter, intents, links, litter,
                       receipts, gone, faults>>

-----------------------------------------------------------------------------
(* Sweep, bucket by bucket in the order of their hashes. *)
SweepScan(h) ==
    /\ job[h].at = "scan"
    /\ job' = [job EXCEPT ![h].at = "bucket", ![h].left = dirs]
    /\ UNCHANGED <<cast, client, counter, intents, store, receipts, gone, faults>>

SweepBucket(h) ==
    /\ job[h].at = "bucket"
    /\ IF job[h].left = {} THEN Goes(h, "orphans")
       ELSE \E k \in job[h].left :
              job' = [job EXCEPT ![h].at = "names", ![h].left = @ \ {k},
                                 ![h].bucket = k, ![h].names = json[k]]
    /\ UNCHANGED <<cast, client, counter, intents, store, receipts, gone, faults>>

MatchesMutant(j, i) == SessionOf[intents[i].call] \in j.who /\ i < j.cut
Matches(j, i) == SessionOf[intents[i].call] \in j.who /\ i <= j.cut

SweepRead(h) ==
    LET j == job[h]
        i == Min(j.names)
    IN  /\ j.at = "names"
        /\ j.names # {}
        /\ job' = [job EXCEPT ![h].names = @ \ {i},
              ![h].intent = i,
              ![h].at = IF i \in json[j.bucket] /\ Matches(j, i) THEN "take" ELSE "names"]
        /\ UNCHANGED <<cast, client, counter, intents, store, receipts,
                       gone, faults>>

SweepRemove(h) ==
    LET j == job[h]
    IN  /\ j.at = "take"
        /\ json' = Unrecorded(j.bucket, j.intent)
        /\ job' = [job EXCEPT ![h].at = "names", ![h].taken = @ \cup {j.intent}]
        /\ UNCHANGED <<cast, client, counter, intents, links, dirs, litter,
                       receipts, gone, faults>>

(* Every pointer file of the bucket goes, and the bucket if it is empty. *)
SweepLinks(h) ==
    LET k == job[h].bucket
    IN  /\ job[h].at = "names"
        /\ job[h].names = {}
        /\ links' = Unlinked(k)
        /\ dirs' = Drop(k, json, Unlinked(k))
        /\ Goes(h, "bucket")
        /\ UNCHANGED <<cast, client, counter, intents, json, litter,
                       receipts, gone, faults>>

RestMutant(j) == {}
Rest(j) == j.taken \ {Min(j.taken)}

(* Recover's loop: one orphan_intent for each intent swept, oldest first. *)
EmitOrphan(h) ==
    LET j == job[h]
        i == Min(j.taken)
    IN  /\ j.at = "orphans"
        /\ j.taken # {}
        /\ receipts' = receipts \cup {[kind |-> "orphan", counter |-> intents[i].counter,
                                       intent |-> i, call |-> intents[i].call]}
        /\ job' = [job EXCEPT ![h].taken = Rest(j)]
        /\ UNCHANGED <<cast, client, counter, intents, store, gone, faults>>

SweepEnds(h) ==
    /\ job[h].at = "orphans"
    /\ job[h].taken = {}
    /\ job' = [job EXCEPT ![h] = IF @.ev = "end"
                 THEN [NoJob EXCEPT !.at = "counter", !.ev = "end"] ELSE NoJob]
    /\ UNCHANGED <<cast, client, counter, intents, store, receipts, gone, faults>>

-----------------------------------------------------------------------------
Kind(j) ==
    CASE j.ev = "post" -> IF j.intent = 0 THEN "post_only" ELSE "tool_call"
      [] j.ev = "denied" -> "denial"
      [] j.ev = "request" -> "approval"
      [] OTHER -> "marker"

(* emit: sign, spool, and the process ends. *)
Emit(h) ==
    LET j == job[h]
    IN  /\ j.at = "emit"
        /\ receipts' = receipts \cup {[kind |-> Kind(j), counter |-> j.n,
                                       intent |-> j.intent, call |-> j.call]}
        /\ job' = [job EXCEPT ![h] = NoJob]
        /\ UNCHANGED <<cast, client, counter, intents, store, gone, faults>>

(* The counters a process has taken and not yet spooled or recorded. *)
Holds(j) == ({j.n} \ {0}) \cup {intents[i].counter : i \in j.taken}

(* A process is killed, by the hook timeout say, or its append fails: the
   error is swallowed, the client goes on. *)
Fail(h) ==
    LET j == job[h]
    IN  /\ ~Idle(h)
        /\ faults < cast.faults
        /\ faults' = faults + 1
        /\ gone' = gone \cup Holds(j)
        /\ litter' = IF j.at = "rename" THEN litter \cup {j.bucket} ELSE litter
        /\ tool' = IF j.ev = "pre" THEN [tool EXCEPT ![j.call] = "running"] ELSE tool
        /\ job' = [job EXCEPT ![h] = NoJob]
        /\ UNCHANGED <<cast, asked, over, marks, recovers, counter, intents,
                       json, links, dirs, receipts>>

-----------------------------------------------------------------------------
Init ==
    /\ cast \in Casts
    /\ tool = [c \in Calls |-> "ready"]
    /\ asked = {} /\ over = {} /\ marks = 0 /\ recovers = 0
    /\ counter = 0
    /\ intents = <<>>
    /\ json = [k \in Keys |-> {}] /\ links = [k \in Keys |-> {}]
    /\ dirs = {} /\ litter = {}
    /\ receipts = {}
    /\ job = [h \in Hosts |-> NoJob]
    /\ gone = {} /\ faults = 0

Event(h) ==
    \/ \E c \in Calls : \/ PreToolUse(h, c) \/ PostToolUse(h, c)
                        \/ PermissionRequest(h, c) \/ PermissionDenied(h, c)
    \/ \E s \in Sessions : SessionEnd(h, s)
    \/ Marker(h)
    \/ Recover(h)

Step(h) ==
    \/ NextCounter(h)
    \/ PutBucket(h) \/ PutAlias(h) \/ PutTemp(h) \/ PutRename(h)
    \/ FollowLinks(h) \/ List(h) \/ Read(h) \/ Take(h)
    \/ SweepScan(h) \/ SweepBucket(h) \/ SweepRead(h) \/ SweepRemove(h)
    \/ SweepLinks(h) \/ EmitOrphan(h) \/ SweepEnds(h)
    \/ Emit(h)

Next ==
    \/ \E c \in Calls : Unhooked(c)
    \/ \E h \in Hosts : Event(h) \/ Step(h) \/ Fail(h)

(* A process that is not killed runs to its end; Claude Code delivers the
   end of every session. *)
Fairness ==
    /\ \A h \in Hosts : WF_vars(Step(h))
    /\ \A s \in Sessions : WF_vars(\E h \in Hosts : SessionEnd(h, s))

Spec == Init /\ [][Next]_vars /\ Fairness
=============================================================================
