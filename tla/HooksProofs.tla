---------------------------- MODULE HooksProofs ----------------------------
(***************************************************************************)
(* What the receipts and counters of the hook surface hold to for any      *)
(* hosts, sessions, calls and inputs, hooks one at a time or overlapping,  *)
(* and any number of failures, prompts, sweeps and recover runs.           *)
(***************************************************************************)
EXTENDS HooksProps, WellFoundedInduction, TLAPS

-----------------------------------------------------------------------------
(* The inductive invariant, part by part.                                  *)

OwnKey(c) == PendingKey(c, c \in WithId)

Like(c, d) == ContentKey(c) = ContentKey(d)

(* An intent a process has put in the store: its number is final and its
   PreToolUse hook has ended. *)
Settled(i) ==
    /\ i \in Ids
    /\ intents[i].counter # 0
    /\ tool[intents[i].call] \in {"running", "closed"}

Searching == {"post", "denied", "request"}
Putting == {"mkdir", "alias", "temp", "rename"}
Ats == {"idle", "counter", "follow", "list", "read", "remove", "scan", "bucket",
        "names", "take", "orphans", "emit"} \cup Putting
Evs == {"none", "pre", "marker", "end", "recover"} \cup Searching

Jobs == [at : Ats, ev : Evs, call : Calls \cup {NoCall}, keys : Seq(Keys),
         key : Keys \cup {<<>>}, look : SUBSET Nat, intent : Nat, n : Nat,
         who : SUBSET Sessions, cut : Nat, left : SUBSET Keys,
         bucket : Keys \cup {<<>>}, names : SUBSET Nat, taken : SUBSET Nat]

Receipts == [kind : {"orphan", "post_only", "tool_call", "denial", "approval", "marker"},
             counter : Nat \ {0}, intent : Nat, call : Calls \cup {NoCall}]

(* The types of the variables. *)
Shape ==
    /\ cast \in Cast
    /\ tool \in [Calls -> {"ready", "asking", "running", "closed"}]
    /\ counter \in Nat
    /\ faults \in Nat
    /\ intents \in Seq([call : Calls, counter : 0..counter])
    /\ json \in [Keys -> SUBSET Ids]
    /\ links \in [Keys -> SUBSET Ids]
    /\ dirs \subseteq Keys
    /\ gone \subseteq 1..counter
    /\ receipts \subseteq Receipts
    /\ \A r \in receipts : r.counter \in 1..counter
    /\ job \in [Hosts -> Jobs]
    /\ \A h \in Hosts : job[h].n \in 0..counter

(* A call has one intent, a number is one intent's, and what lies in the
   store lies where its own event put it. *)
Stored ==
    /\ \A i, k \in Ids : intents[i].call = intents[k].call => i = k
    /\ \A i, k \in Ids : intents[i].counter = intents[k].counter
                         /\ intents[i].counter # 0 => i = k
    /\ \A i \in Ids : tool[intents[i].call] # "ready"
    /\ \A k \in Keys : \A i \in json[k] : Settled(i) /\ k = OwnKey(intents[i].call)
    /\ \A k \in Keys : \A i \in links[k] : k = ContentKey(intents[i].call)

(* A PreToolUse hook alone knows its intent, and puts it in its bucket. *)
PutOK(j) ==
    /\ j.ev = "pre" => /\ j.at \in {"counter"} \cup Putting
                       /\ j.call \in Calls /\ tool[j.call] = "asking"
                       /\ j.intent \in Ids /\ intents[j.intent].call = j.call
                       /\ intents[j.intent].counter = j.n
                       /\ j.n = 0 <=> j.at = "counter"
                       /\ j.bucket = OwnKey(j.call)
                       /\ j.names = {} /\ j.taken = {}
    /\ j.at \in Putting => j.ev = "pre"
    /\ j.at = "alias" => j.call \in WithId

(* Every other hook knows only intents that were in the store. *)
KnownOK(j) ==
    /\ j.ev # "pre" => /\ j.intent # 0 => Settled(j.intent)
                       /\ \A i \in j.names \cup j.taken : Settled(i)
    /\ j.n # 0 => j.at = "emit" \/ j.at \in Putting
    /\ j.taken # {} => j.at \in {"bucket", "names", "take", "orphans"}
    /\ j.at = "idle" => j.names = {} /\ j.intent = 0 /\ j.ev = "none"

(* A hook that closes or prompts a call looks in the buckets of its keys and
   in those their pointers name, and finds nothing but its like. *)
SearchOK(j) ==
    /\ j.at \in {"follow", "list", "read", "remove"} => j.ev \in Searching
    /\ j.at = "remove" => j.ev # "request"
    /\ j.ev \in Searching => j.call \in Calls
    /\ j.ev = "post" => tool[j.call] = "closed"
    /\ j.at = "follow" =>
           \/ j.keys = <<ContentKey(j.call)>>
           \/ j.call \in WithId /\ j.keys = <<IdKey(j.call), ContentKey(j.call)>>
    /\ j.at \in {"list", "read"} =>
           /\ \/ j.key = ContentKey(j.call) /\ j.keys = <<>>
              \/ /\ j.call \in WithId /\ j.key = IdKey(j.call)
                 /\ j.keys = <<ContentKey(j.call)>> /\ j.look \subseteq {0}
           /\ \A x \in j.look \ {0} : x \in Ids /\ Like(intents[x].call, j.call)
    /\ j.at \in {"follow", "list"} => j.intent = 0
    /\ j.at \in {"read", "remove"} => /\ j.intent # 0
                                      /\ j.bucket \in Keys
                                      /\ j.bucket = OwnKey(intents[j.intent].call)
    /\ j.ev \in Searching /\ j.intent # 0 => Like(intents[j.intent].call, j.call)

(* A sweep. *)
SweepOK(j) ==
    /\ j.at \in {"scan", "bucket", "names", "take", "orphans"} => j.ev \in {"end", "recover"}
    /\ j.at \in {"names", "take"} => j.bucket \in Keys
    /\ j.at = "take" => j.intent # 0 /\ j.intent \notin j.names
    /\ j.names # {} => j.at \in {"names", "take"}

(* The receipt to come: of the intent claimed, under its number, or of no
   intent or a prompt, under a number of its own. *)
TakesOwn(ev, intent) == ev \notin {"post", "denied"} \/ intent = 0
EmitOK(j) ==
    /\ j.at \in {"counter", "emit"} => j.ev \in Searching \cup {"pre", "marker", "end"}
    /\ j.at \in {"counter", "emit"} /\ j.ev \in {"marker", "end"} => j.intent = 0
    /\ j.at = "counter" /\ j.ev # "pre" => TakesOwn(j.ev, j.intent)
    /\ j.at = "emit" => /\ j.n # 0
                        /\ j.ev # "pre"
                        /\ TakesOwn(j.ev, j.intent) \/ j.n = intents[j.intent].counter

JobOK(j) == PutOK(j) /\ KnownOK(j) /\ SearchOK(j) /\ SweepOK(j) /\ EmitOK(j)

AtWork ==
    /\ \A h \in Hosts : JobOK(job[h])
    /\ \A g, h \in Hosts : job[g].ev = "pre" /\ job[h].ev = "pre"
                           /\ job[g].call = job[h].call => g = h

(* Numbers of their own: no intent has them, and no two events. *)
OwnReceipt(r) == r.kind = "approval" \/ r.intent = 0
OwnsNumber(j) == j.at = "emit" /\ TakesOwn(j.ev, j.intent)

Numbered ==
    /\ \A h \in Hosts : OwnsNumber(job[h]) =>
           /\ \A i \in Ids : intents[i].counter # job[h].n
           /\ \A r \in receipts : r.counter # job[h].n
           /\ \A g \in Hosts : OwnsNumber(job[g]) /\ job[g].n = job[h].n => g = h
    /\ \A r \in receipts :
           IF OwnReceipt(r) THEN \A i \in Ids : intents[i].counter # r.counter
           ELSE intents[r.intent].counter = r.counter
    /\ \A r \in receipts : r.intent # 0 => Settled(r.intent)
    /\ \A r, s \in receipts : OwnReceipt(r) /\ OwnReceipt(s) /\ r.counter = s.counter => r = s

(* Hooks one at a time: an intent is in the store, or in the hands of the
   one process at work, or closed. *)
Closed(i) == \E r \in receipts : ~OwnReceipt(r) /\ r.intent = i
Aloft(i) == ~Closed(i) /\ \A k \in Keys : i \notin json[k]

ClosedOnce ==
    \A r, s \in receipts :
        ~OwnReceipt(r) /\ ~OwnReceipt(s) /\ r.intent = s.intent => r = s

AloneOK(j) ==
    /\ j.at \in {"read", "remove", "take"} => j.intent \in json[j.bucket]
    /\ j.at \in {"names", "take"} => j.names \subseteq json[j.bucket]
    /\ \A i \in j.taken : Aloft(i)
    /\ j.at = "emit" /\ ~OwnsNumber(j) => Aloft(j.intent)
    /\ j.at \in Putting \ {"mkdir"} => j.bucket \in dirs

Alone ==
    ~cast.overlap =>
        /\ \A g, h \in Hosts : ~Idle(g) /\ ~Idle(h) => g = h
        /\ \A h \in Hosts : AloneOK(job[h])
        /\ \A k \in Keys : \A i \in json[k] : ~Closed(i)
        /\ ClosedOnce

(* Past its own bucket, a completion leaves nothing of its call behind. *)
Missing(c) ==
    \/ RacedForOne(c)
    \/ tool[c] = "closed" /\ \A k \in Keys : \A i \in json[k] : intents[i].call # c

Ahead(j) ==
    CASE j.at = "follow" -> j.keys[1] = OwnKey(j.call)
      [] j.at = "list" -> j.key = OwnKey(j.call) /\ 0 \in j.look
      [] j.at = "read" -> j.bucket = OwnKey(j.call)
      [] OTHER -> j.intent # 0

Searched ==
    /\ \A h \in Hosts : job[h].ev = "post" /\ ~Ahead(job[h]) => Missing(job[h].call)
    /\ \A r \in receipts : r.kind = "post_only" => r.call \in Calls /\ Missing(r.call)
    /\ \A r \in receipts : r.intent # 0 => r.call \in Calls /\ Like(intents[r.intent].call, r.call)

(* Every number taken is somewhere. *)
Has(j, n) == (n # 0 /\ j.n = n) \/ \E i \in j.taken : intents[i].counter = n

Held(n) ==
    \/ n \in gone
    \/ \E r \in receipts : r.counter = n
    \/ \E k \in Keys : \E i \in json[k] : intents[i].counter = n
    \/ \E h \in Hosts : Has(job[h], n)

AllHeld ==
    /\ \A n \in 1..counter : Held(n)
    /\ gone # {} => cast.overlap \/ faults > 0

IInv == Shape /\ Stored /\ AtWork /\ Numbered /\ Alone /\ Searched /\ AllHeld

-----------------------------------------------------------------------------
(* Keys, numbers and records of processes.                                 *)

\* The least of a set of numbers is one of them.
LEMMA MinIsMember ==
    ASSUME NEW S \in SUBSET Nat, S # {}
    PROVE  Min(S) \in S /\ \A x \in S : Min(S) <= x
<1> DEFINE R == {ss \in Nat \X Nat : ss[1] < ss[2]}
<1>1. IsWellFoundedOn(R, Nat)
  BY NatLessThanWellFounded DEF OpToRel
<1>2. PICK x \in S : \A y \in S : ~(<<y, x>> \in R)
  BY <1>1, WFMin
<1>3. ASSUME NEW y \in S PROVE x =< y
  <2>1. x \in Nat /\ y \in Nat
    OBVIOUS
  <2>2. ~(y < x)
    BY <1>2, <2>1
  <2>. QED BY <2>1, <2>2
<1>. QED BY <1>3 DEF Min

\* A content key tells sessions and inputs apart, an id key tells calls
\* apart, and no key is of both kinds.
LEMMA KeyFacts ==
    ASSUME NEW c \in Calls, NEW d \in Calls
    PROVE  /\ ContentKey(c) \in Keys /\ IdKey(c) \in Keys /\ OwnKey(c) \in Keys
           /\ ContentKey(c) # IdKey(d)
           /\ IdKey(c) = IdKey(d) => c = d
           /\ Like(c, d) => SessionOf[c] = SessionOf[d] /\ Input[c] = Input[d]
           /\ OwnKey(c) = IdKey(d) => c = d /\ c \in WithId
           /\ OwnKey(c) = ContentKey(d) => Like(c, d) /\ c \notin WithId
           /\ c \in WithId => OwnKey(c) = IdKey(c)
           /\ c \notin WithId => OwnKey(c) = ContentKey(c)
<1>1. ContentKey(c) # IdKey(d) /\ ContentKey(d) # IdKey(c)
  BY DEF ContentKey, IdKey
<1>2. IdKey(c) = IdKey(d) => c = d
  BY DEF IdKey
<1>3. Like(c, d) => SessionOf[c] = SessionOf[d] /\ Input[c] = Input[d]
  BY DEF Like, ContentKey
<1>4. ContentKey(c) \in Keys /\ IdKey(c) \in Keys
  BY DEF Keys
<1>. QED BY <1>1, <1>2, <1>3, <1>4 DEF OwnKey, PendingKey, Like

\* An idle process has nothing in hand.
LEMMA NoJobFacts ==
    /\ NoJob \in Jobs
    /\ NoJob.at = "idle" /\ NoJob.ev = "none" /\ NoJob.call = NoCall
    /\ NoJob.keys = <<>> /\ NoJob.key = <<>> /\ NoJob.look = {}
    /\ NoJob.intent = 0 /\ NoJob.n = 0 /\ NoJob.who = {} /\ NoJob.cut = 0
    /\ NoJob.left = {} /\ NoJob.bucket = <<>> /\ NoJob.names = {} /\ NoJob.taken = {}
  BY DEF NoJob, Jobs, Ats, Evs, Searching, Putting

\* An idle process is consistent with any state.
LEMMA NoJobOK == JobOK(NoJob)
  BY NoJobFacts DEF JobOK, PutOK, KnownOK, SearchOK, SweepOK, EmitOK, Searching, Putting

\* One process moves and the others stay where they are.
LEMMA Moved ==
    ASSUME Shape, NEW h \in Hosts, job' = [job EXCEPT ![h] = job'[h]], job'[h] \in Jobs
    PROVE  /\ job' \in [Hosts -> Jobs]
           /\ \A g \in Hosts \ {h} : job'[g] = job[g]
  BY DEF Shape

\* Hooks one at a time: beside a process at work or starting, none is.
LEMMA OthersIdle ==
    ASSUME Alone, NEW h \in Hosts, ~Idle(h) \/ CanStart(h)
    PROVE  cast.overlap \/ \A g \in Hosts \ {h} : Idle(g)
  BY DEF Alone, CanStart, Idle

\* What the processes that do not move know stays true.
Later(others) ==
    /\ counter <= counter'
    /\ \A i \in Ids : /\ i \in Ids' /\ intents'[i].call = intents[i].call
                      /\ Settled(i) => /\ Settled(i)'
                                       /\ intents'[i].counter = intents[i].counter
    /\ \A c \in Calls : tool[c] = "closed" => tool'[c] = "closed"
    /\ \A g \in others :
          /\ job'[g] = job[g]
          /\ job[g].ev = "pre" =>
                /\ tool'[job[g].call] = tool[job[g].call]
                /\ intents'[job[g].intent].counter = intents[job[g].intent].counter

\* A process that does not move stays consistent.
LEMMA OthersKeep ==
    ASSUME NEW others \in SUBSET Hosts, Shape, Later(others), NEW g \in others, JobOK(job[g])
    PROVE  JobOK(job[g])'
<1> DEFINE j == job[g]
<1>1. job'[g] = j /\ j \in Jobs
  BY DEF Later, Shape
<1>2. \A i \in Ids : /\ i \in Ids' /\ intents'[i].call = intents[i].call
                     /\ Settled(i) => Settled(i)' /\ intents'[i].counter = intents[i].counter
  BY DEF Later
<1>3. \A i : Settled(i) => i \in Ids
  BY DEF Settled
<1>4. PutOK(job[g])'
  BY <1>1, <1>2 DEF JobOK, PutOK, Later
<1>5. KnownOK(job[g])'
  BY <1>1, <1>2, <1>3 DEF JobOK, KnownOK
<1>6. SearchOK(job[g])'
  <2>1. j.ev = "post" => tool[j.call] = "closed" /\ tool'[j.call] = "closed"
    BY <1>1 DEF JobOK, SearchOK, Later, Searching
  <2>2. \A x \in j.look \ {0} : x \in Ids => x \in Ids' /\ intents'[x].call = intents[x].call
    BY <1>2
  <2>3. j.intent # 0 /\ j.ev \in Searching => /\ Settled(j.intent)
                                          /\ intents'[j.intent].call = intents[j.intent].call
    BY <1>2, <1>3 DEF JobOK, KnownOK, Searching
  <2>. QED BY <1>1, <2>1, <2>2, <2>3 DEF JobOK, SearchOK
<1>7. SweepOK(job[g])' /\ EmitOK(job[g])'
  <2>1. j.at = "emit" /\ ~TakesOwn(j.ev, j.intent) => Settled(j.intent)
    BY DEF JobOK, KnownOK, TakesOwn
  <2>. QED BY <1>1, <1>2, <1>3, <2>1 DEF JobOK, SweepOK, EmitOK
<1>. QED BY <1>4, <1>5, <1>6, <1>7 DEF JobOK

\* The processes stay consistent when the one that moves does, and it is not
\* a second PreToolUse hook of one call.
LEMMA AtWorkKeeps ==
    ASSUME NEW h \in Hosts, Shape, AtWork, Later(Hosts \ {h}), JobOK(job[h])',
           job'[h].ev = "pre" => \A g \in Hosts \ {h} :
               ~(job[g].ev = "pre" /\ job[g].call = job'[h].call)
    PROVE  AtWork'
<1>1. \A g \in Hosts : JobOK(job[g])'
  BY OthersKeep DEF AtWork
<1>2. \A g \in Hosts \ {h} : job'[g] = job[g]
  BY DEF Later
<1>3. ASSUME NEW f \in Hosts, NEW g \in Hosts, job'[f].ev = "pre", job'[g].ev = "pre",
             job'[f].call = job'[g].call
      PROVE  f = g
  BY <1>2, <1>3 DEF AtWork
<1>. QED BY <1>1, <1>3 DEF AtWork

\* What a completion missed for good reason stays so, while nothing of a
\* closed call enters the store.
LEMMA MissingKeeps ==
    ASSUME NEW others \in SUBSET Hosts, Shape, Stored, Later(others), cast' = cast,
           \A k \in Keys : \A i \in json'[k] : i \in json[k] \/ tool[intents[i].call] # "closed",
           \A k \in Keys : json'[k] \subseteq Ids,
           NEW c \in Calls, Missing(c)
    PROVE  Missing(c)'
<1>1. CASE RacedForOne(c)
  <2>1. PICK i \in Ids : intents[i].call \notin WithId \cup {c}
                         /\ ContentKey(intents[i].call) = ContentKey(c)
    BY <1>1 DEF RacedForOne
  <2>2. i \in Ids' /\ intents'[i].call = intents[i].call
    BY DEF Later
  <2>3. RacedForOne(c)'
    BY <1>1, <2>1, <2>2 DEF RacedForOne, ContentKey
  <2>. QED BY <2>3 DEF Missing
<1>2. CASE tool[c] = "closed" /\ \A k \in Keys : \A i \in json[k] : intents[i].call # c
  <2>1. tool'[c] = "closed"
    BY <1>2 DEF Later
  <2>2. \A k \in Keys : \A i \in json'[k] : intents'[i].call # c
    BY <1>2 DEF Later
  <2>. QED BY <2>1, <2>2 DEF Missing
<1>. QED BY <1>1, <1>2 DEF Missing

\* A move that leaves the calls, the numbers, the records and the receipts
\* alone keeps the invariant, when the process it leaves is consistent.
LEMMA QuietKeeps ==
    ASSUME IInv, NEW h \in Hosts,
           UNCHANGED <<cast, tool, counter, intents, json, receipts, gone, faults>>,
           job' = [job EXCEPT ![h] = job'[h]], job'[h] \in Jobs, JobOK(job'[h]),
           job'[h].n = job[h].n, job[h].taken \subseteq job'[h].taken,
           job'[h].at # "emit",
           job'[h].ev = "pre" => job[h].ev = "pre" /\ job'[h].call = job[h].call,
           job'[h].ev = "post" /\ ~Ahead(job'[h]) => Missing(job'[h].call),
           links' \in [Keys -> SUBSET Ids], dirs' \subseteq Keys,
           \A k \in Keys : \A i \in links'[k] : k = ContentKey(intents[i].call),
           cast.overlap \/ /\ \A g \in Hosts \ {h} : Idle(g)
                           /\ AloneOK(job[h])'
    PROVE  IInv'
<1>. USE DEF IInv
<1>1. job' \in [Hosts -> Jobs] /\ \A g \in Hosts \ {h} : job'[g] = job[g]
  BY Moved
<1>2. Shape'
  <2>1. \A g \in Hosts : job'[g].n \in 0..counter
    BY <1>1 DEF Shape
  <2>2. Ids' = Ids
    BY DEF Ids
  <2>. QED BY <1>1, <2>1, <2>2 DEF Shape
<1>3. Stored'
  BY DEF Stored, Settled, Ids
<1>4. Later(Hosts \ {h})
  BY <1>1 DEF Later, Settled, Ids, Shape
<1>5. AtWork'
  <2>1. JobOK(job[h])'
    BY DEF JobOK, PutOK, KnownOK, SearchOK, SweepOK, EmitOK, Settled, Ids
  <2>. QED BY <1>4, <2>1, AtWorkKeeps DEF AtWork
<1>6. Numbered'
  <2>1. \A g \in Hosts : OwnsNumber(job'[g]) => g # h /\ OwnsNumber(job[g]) /\ job'[g].n = job[g].n
    BY <1>1 DEF OwnsNumber
  <2>. QED BY <2>1 DEF Numbered, Settled, Ids
<1>7. Alone'
  <2>1. CASE cast.overlap
    BY <2>1 DEF Alone
  <2>2. CASE ~cast.overlap
    <3>1. \A g \in Hosts \ {h} : job'[g] = job[g] /\ Idle(g) /\ Idle(g)'
      BY <1>1, <2>2 DEF Idle
    <3>2. ASSUME NEW g \in Hosts \ {h} PROVE AloneOK(job[g])'
      BY <3>1 DEF AloneOK, AtWork, JobOK, KnownOK, Putting, Idle
    <3>3. \A g \in Hosts : AloneOK(job[g])'
      BY <2>2, <3>2
    <3>4. \A k \in Keys : \A i \in json'[k] : ~Closed(i)'
      BY <2>2 DEF Alone, Closed
    <3>5. ClosedOnce'
      BY <2>2 DEF Alone, ClosedOnce
    <3>. QED BY <3>1, <3>3, <3>4, <3>5 DEF Alone
  <2>. QED BY <2>1, <2>2
<1>8. Searched'
  <2>1. ASSUME NEW g \in Hosts
        PROVE  (job[g].ev = "post" /\ ~Ahead(job[g]) => Missing(job[g].call))'
    <3>1. CASE g = h
      BY <3>1 DEF Ahead, Missing, RacedForOne, Ids, ContentKey
    <3>2. CASE g # h
      BY <1>1, <3>2 DEF Searched, Ahead, Missing, RacedForOne, Ids, ContentKey
    <3>. QED BY <3>1, <3>2
  <2>2. \A r \in receipts' : r.kind = "post_only" => r.call \in Calls /\ Missing(r.call)'
    BY DEF Searched, Missing, RacedForOne, Ids, ContentKey
  <2>. QED BY <2>1, <2>2 DEF Searched
<1>9. AllHeld'
  <2>1. ASSUME NEW g \in Hosts, NEW n, Has(job[g], n) PROVE Has(job[g], n)'
    BY <1>1, <2>1 DEF Has
  <2>2. ASSUME NEW n \in 1..counter PROVE Held(n)'
    BY <2>1 DEF AllHeld, Held
  <2>. QED BY <2>2 DEF AllHeld
<1>. QED BY <1>2, <1>3, <1>5, <1>6, <1>7, <1>8, <1>9

-----------------------------------------------------------------------------
(* The steps that only move a process, one lemma each.                      *)

\* The elements of a sequence.
LEMMA SeqElements ==
    ASSUME NEW S, NEW s \in Seq(S)
    PROVE  Len(s) \in Nat /\ DOMAIN s = 1..Len(s) /\ \A i \in DOMAIN s : s[i] \in S
  OBVIOUS

\* An intent is numbered from 1, and has a call and a number.
LEMMA IntentFacts ==
    ASSUME Shape
    PROVE  /\ Ids \subseteq Nat \ {0}
           /\ \A i \in Ids : intents[i].call \in Calls /\ intents[i].counter \in 0..counter
<1>1. intents \in Seq([call : Calls, counter : 0..counter])
  BY DEF Shape
<1>2. DOMAIN intents = 1..Len(intents) /\ Len(intents) \in Nat
      /\ \A i \in DOMAIN intents : intents[i] \in [call : Calls, counter : 0..counter]
  BY <1>1, SeqElements
<1>. QED BY <1>2 DEF Ids

\* Listing a bucket finds a record of its like, or one bucket less to look in.
LEMMA ListStep == ASSUME IInv, NEW h \in Hosts, List(h) PROVE IInv'
<1> DEFINE j == job[h]
           k == job'[h]
           x == Min(j.look)
           b == Bucket(j, x)
<1>1. /\ j \in Jobs /\ JobOK(j) /\ j.at = "list" /\ j.ev \in Searching /\ j.call \in Calls
      /\ j.intent = 0 /\ j.n = 0 /\ j.taken = {} /\ j.names = {}
  BY DEF IInv, Shape, AtWork, List, JobOK, KnownOK, SearchOK, SweepOK, Putting
<1>2. /\ UNCHANGED <<cast, tool, counter, intents, json, receipts, gone, faults, links, dirs>>
      /\ job' = [job EXCEPT ![h] = k]
  BY DEF IInv, Shape, List, client, store
<1>3. cast.overlap \/ \A g \in Hosts \ {h} : Idle(g)
  BY <1>1, OthersIdle DEF IInv, Idle
<1>4. ContentKey(j.call) # IdKey(j.call) /\ ContentKey(j.call) \in Keys
      /\ (j.call \in WithId => OwnKey(j.call) = IdKey(j.call))
      /\ (j.call \notin WithId => OwnKey(j.call) = ContentKey(j.call))
  BY <1>1, KeyFacts
<1> DEFINE e == IF j.look = {}
                  THEN [j EXCEPT !.key = <<>>,
                          !.at = IF j.keys = <<>> THEN "counter" ELSE "follow"]
                ELSE IF json[b] = {} THEN [j EXCEPT !.look = @ \ {x}]
                ELSE [j EXCEPT !.at = "read", !.look = @ \ {x},
                               !.bucket = b, !.intent = Min(json[b])]
<1>0. k = e
  <2>1. job' = [job EXCEPT ![h] = e]
    BY DEF List
  <2>. HIDE DEF e
  <2>. QED BY <2>1 DEF IInv, Shape
<1>5. CASE j.look = {}
  <2>1. k = [j EXCEPT !.key = <<>>, !.at = IF j.keys = <<>> THEN "counter" ELSE "follow"]
    BY <1>0, <1>5
  <2>2. /\ k \in Jobs /\ k.at = (IF j.keys = <<>> THEN "counter" ELSE "follow")
        /\ k.ev = j.ev /\ k.call = j.call /\ k.keys = j.keys /\ k.intent = 0 /\ k.n = 0
        /\ k.names = {} /\ k.taken = {}
    BY <1>1, <2>1 DEF Jobs, Ats
  <2>3. JobOK(k)
    <3>1. j.keys = <<>> \/ j.keys = <<ContentKey(j.call)>>
      BY <1>1 DEF JobOK, SearchOK
    <3>. QED BY <1>1, <2>2, <3>1
         DEF JobOK, PutOK, KnownOK, SearchOK, SweepOK, EmitOK, Searching, Putting, TakesOwn
  <2>4. k.ev = "post" /\ ~Ahead(k) => Missing(k.call)
    <3>1. ~Ahead(j)
      BY <1>1, <1>5 DEF Ahead
    <3>. QED BY <1>1, <2>2, <3>1 DEF IInv, Searched
  <2>5. AloneOK(job[h])'
    BY <2>2 DEF AloneOK, Putting
  <2>. QED BY <1>1, <1>2, <1>3, <2>2, <2>3, <2>4, <2>5, QuietKeeps DEF IInv, Shape, Stored, Searching
<1>6. CASE j.look # {} /\ json[b] = {}
  <2>1. k = [j EXCEPT !.look = @ \ {x}]
    BY <1>0, <1>6
  <2>2. /\ k \in Jobs /\ k.at = "list" /\ k.look = j.look \ {x} /\ k.key = j.key
        /\ k.ev = j.ev /\ k.call = j.call /\ k.keys = j.keys /\ k.intent = 0 /\ k.n = 0
        /\ k.names = {} /\ k.taken = {}
    BY <1>1, <2>1 DEF Jobs, Ats
  <2>3. JobOK(k)
    BY <1>1, <2>2
    DEF JobOK, PutOK, KnownOK, SearchOK, SweepOK, EmitOK, Searching, Putting, TakesOwn
  <2>4. k.ev = "post" /\ ~Ahead(k) => Missing(k.call)
    <3>1. x \in Nat /\ x \in j.look /\ \A y \in j.look : x <= y
      BY <1>1, <1>6, MinIsMember DEF Jobs
    <3>2. CASE Ahead(j)
      <4>1. ASSUME x # 0 PROVE Ahead(k)
        BY <1>1, <2>2, <3>2, <4>1 DEF Ahead
      <4>2. ASSUME x = 0, j.ev = "post" PROVE Missing(j.call)
        <5>1. json[OwnKey(j.call)] = {}
          BY <1>1, <1>6, <3>2, <4>2 DEF Ahead, Bucket
        <5>2. tool[j.call] = "closed"
          BY <1>1, <4>2 DEF JobOK, SearchOK
        <5>. QED BY <5>1, <5>2 DEF Missing, IInv, Stored
      <4>. QED BY <2>2, <3>1, <4>1, <4>2
    <3>3. CASE ~Ahead(j)
      BY <1>1, <2>2, <3>3 DEF IInv, Searched
    <3>. QED BY <3>2, <3>3
  <2>5. AloneOK(job[h])'
    BY <2>2 DEF AloneOK, Putting
  <2>. QED BY <1>1, <1>2, <1>3, <2>2, <2>3, <2>4, <2>5, QuietKeeps DEF IInv, Shape, Stored, Searching
<1>7. CASE j.look # {} /\ json[b] # {}
  <2>. DEFINE i == Min(json[b])
  <2>1. k = [j EXCEPT !.at = "read", !.look = @ \ {x}, !.bucket = b, !.intent = i]
    BY <1>0, <1>7
  <2>2. x \in Nat /\ x \in j.look
    BY <1>1, <1>7, MinIsMember DEF Jobs
  <2>3. b \in Keys /\ (x # 0 => x \in Ids /\ Like(intents[x].call, j.call) /\ b = IdKey(intents[x].call))
                   /\ (x = 0 => b = j.key)
    <3>1. x # 0 => x \in Ids /\ Like(intents[x].call, j.call)
      BY <1>1, <2>2 DEF JobOK, SearchOK
    <3>2. x # 0 => intents[x].call \in Calls
      BY <3>1, IntentFacts DEF IInv
    <3>3. x # 0 => b = IdKey(intents[x].call) /\ b \in Keys
      BY <3>2, KeyFacts DEF Bucket, Target
    <3>4. x = 0 => b = j.key /\ b \in Keys
      BY <1>1, KeyFacts DEF Bucket, JobOK, SearchOK
    <3>. QED BY <3>1, <3>3, <3>4
  <2>4. i \in json[b] /\ i \in Nat /\ i # 0 /\ Settled(i) /\ b = OwnKey(intents[i].call)
        /\ intents[i].call \in Calls
    <3>1. json[b] \subseteq Ids /\ Ids \subseteq Nat \ {0}
      BY <2>3, IntentFacts DEF IInv, Shape
    <3>2. i \in json[b]
      BY <1>7, <3>1, MinIsMember
    <3>3. i \in Nat /\ i # 0 /\ intents[i].call \in Calls
      BY <3>1, <3>2, IntentFacts DEF IInv
    <3>. QED BY <2>3, <3>2, <3>3 DEF IInv, Stored
  <2>5. Like(intents[i].call, j.call)
    <3>1. CASE x = 0
      <4>1. b = ContentKey(j.call) \/ b = IdKey(j.call)
        BY <1>1, <2>3, <3>1 DEF JobOK, SearchOK
      <4>. QED BY <1>1, <2>4, <4>1, KeyFacts DEF Like
    <3>2. CASE x # 0
      <4>1. intents[x].call \in Calls
        BY <2>3, <3>2, IntentFacts DEF IInv
      <4>2. intents[i].call = intents[x].call
        BY <2>3, <2>4, <3>2, <4>1, KeyFacts
      <4>. QED BY <2>3, <3>2, <4>2
    <3>. QED BY <3>1, <3>2
  <2>6. /\ k \in Jobs /\ k.at = "read" /\ k.look = j.look \ {x} /\ k.key = j.key
        /\ k.ev = j.ev /\ k.call = j.call /\ k.keys = j.keys /\ k.intent = i /\ k.n = 0
        /\ k.names = {} /\ k.taken = {} /\ k.bucket = b
    <3>. HIDE DEF i, b, x, k, j
    <3>. QED BY <1>1, <2>1, <2>3, <2>4 DEF Jobs, Ats
  <2>7. JobOK(k)
    BY <1>1, <2>3, <2>4, <2>5, <2>6
    DEF JobOK, PutOK, KnownOK, SearchOK, SweepOK, EmitOK, Searching, Putting, TakesOwn
  <2>8. k.ev = "post" /\ ~Ahead(k) => Missing(k.call)
    <3>1. ASSUME Ahead(j) PROVE Ahead(k)
      <4>1. x = 0
        BY <1>1, <1>7, <3>1, MinIsMember DEF Ahead, Jobs
      <4>. QED BY <1>1, <2>3, <2>6, <3>1, <4>1 DEF Ahead
    <3>2. CASE ~Ahead(j)
      BY <1>1, <2>6, <3>2 DEF IInv, Searched
    <3>. QED BY <3>1, <3>2
  <2>9. AloneOK(job[h])'
    BY <1>2, <2>4, <2>6 DEF AloneOK, Putting
  <2>. QED BY <1>1, <1>2, <1>3, <2>6, <2>7, <2>8, <2>9, QuietKeeps DEF IInv, Shape, Stored, Searching
<1>. QED BY <1>5, <1>6, <1>7

\* Heads and tails of the lists of keys a search goes through.
LEMMA TupleFacts ==
    ASSUME NEW a, NEW b
    PROVE  /\ Head(<<a>>) = a /\ Tail(<<a>>) = <<>> /\ <<a>>[1] = a
           /\ Head(<<a, b>>) = a /\ Tail(<<a, b>>) = <<b>> /\ <<a, b>>[1] = a
           /\ \A S : <<>> \in Seq(S) /\ (b \in S => <<b>> \in Seq(S))
  OBVIOUS

\* A record read and still there is the one to close; one taken meanwhile is not.
LEMMA ReadStep == ASSUME IInv, NEW h \in Hosts, Read(h) PROVE IInv'
<1> DEFINE j == job[h]
           k == job'[h]
           e == IF j.intent \notin json[j.bucket]
                THEN [j EXCEPT !.at = "list", !.intent = 0, !.bucket = <<>>]
                ELSE IF j.ev = "request"
                THEN [NoJob EXCEPT !.at = "counter", !.ev = j.ev, !.call = j.call,
                                   !.intent = j.intent]
                ELSE [j EXCEPT !.at = "remove", !.key = <<>>, !.keys = <<>>, !.look = {}]
<1>1. /\ j \in Jobs /\ JobOK(j) /\ j.at = "read" /\ j.ev \in Searching /\ j.call \in Calls
      /\ j.n = 0 /\ j.taken = {} /\ j.names = {}
  BY DEF IInv, Shape, AtWork, Read, JobOK, KnownOK, SearchOK, SweepOK, Putting
<1>2. /\ UNCHANGED <<cast, tool, counter, intents, json, receipts, gone, faults, links, dirs>>
      /\ job' = [job EXCEPT ![h] = k]
  BY DEF IInv, Shape, Read, client, store
<1>3. cast.overlap \/ \A g \in Hosts \ {h} : Idle(g)
  BY <1>1, OthersIdle DEF IInv, Idle
<1>4. k = e
  <2>1. job' = [job EXCEPT ![h] = e]
    BY DEF Read
  <2>. HIDE DEF e
  <2>. QED BY <2>1 DEF IInv, Shape
<1>5. CASE j.intent \notin json[j.bucket]
  <2>1. /\ k \in Jobs /\ k.at = "list" /\ k.look = j.look /\ k.key = j.key
        /\ k.ev = j.ev /\ k.call = j.call /\ k.keys = j.keys /\ k.intent = 0 /\ k.n = 0
        /\ k.names = {} /\ k.taken = {}
    <3>1. k = [j EXCEPT !.at = "list", !.intent = 0, !.bucket = <<>>]
      BY <1>4, <1>5
    <3>. QED BY <1>1, <3>1 DEF Jobs, Ats
  <2>2. JobOK(k)
    BY <1>1, <2>1
    DEF JobOK, PutOK, KnownOK, SearchOK, SweepOK, EmitOK, Searching, Putting, TakesOwn
  <2>3. cast.overlap
    BY <1>1, <1>5 DEF IInv, Alone, AloneOK
  <2>4. k.ev = "post" => Missing(k.call)
    <3> DEFINE i == j.intent
               c == j.call
    <3>1. /\ i \in Ids /\ intents[i].call \in Calls /\ j.bucket = OwnKey(intents[i].call)
          /\ j.bucket \in Keys
      BY <1>1, IntentFacts DEF IInv, JobOK, KnownOK, SearchOK, Settled, Searching
    <3>2. CASE j.bucket # OwnKey(c) /\ j.ev = "post"
      BY <1>1, <2>1, <3>2 DEF IInv, Searched, Ahead
    <3>3. CASE j.bucket = OwnKey(c) /\ j.ev = "post" /\ intents[i].call = c
      <4>1. ASSUME NEW q \in Keys, NEW m \in json[q], intents[m].call = c PROVE FALSE
        BY <1>5, <3>1, <3>3, <4>1 DEF IInv, Stored, Settled
      <4>2. tool[c] = "closed"
        BY <1>1, <3>3 DEF JobOK, SearchOK
      <4>. QED BY <2>1, <4>1, <4>2 DEF Missing
    <3>4. CASE j.bucket = OwnKey(c) /\ j.ev = "post" /\ intents[i].call # c
      <4>1. c \notin WithId /\ intents[i].call \notin WithId /\ Like(intents[i].call, c)
        <5>1. PICK d \in Calls : d = intents[i].call
          BY <3>1
        <5>2. c \in Calls /\ d # c /\ OwnKey(d) = OwnKey(c)
          BY <1>1, <3>1, <3>4, <5>1
        <5>. HIDE DEF c, i
        <5>3. c \notin WithId
          BY <5>2, KeyFacts
        <5>4. OwnKey(d) = ContentKey(c)
          BY <5>2, <5>3, KeyFacts
        <5>5. Like(d, c) /\ d \notin WithId
          BY <5>2, <5>4, KeyFacts
        <5>. QED BY <5>1, <5>3, <5>5
      <4>2. RacedForOne(c)
        BY <2>3, <3>1, <3>4, <4>1 DEF RacedForOne, Like
      <4>. QED BY <2>1, <4>2 DEF Missing
    <3>. QED BY <2>1, <3>2, <3>3, <3>4
  <2>. QED BY <1>1, <1>2, <2>1, <2>2, <2>3, <2>4, QuietKeeps DEF IInv, Shape, Stored, Searching
<1>6. CASE j.intent \in json[j.bucket] /\ j.ev = "request"
  <2>1. /\ k \in Jobs /\ k.at = "counter" /\ k.ev = "request" /\ k.call = j.call
        /\ k.intent = j.intent /\ k.n = 0 /\ k.names = {} /\ k.taken = {}
    <3>1. k = [NoJob EXCEPT !.at = "counter", !.ev = j.ev, !.call = j.call,
                            !.intent = j.intent]
      BY <1>4, <1>6
    <3>2. PICK c, i, v : c = j.call /\ i = j.intent /\ v = j.ev
      OBVIOUS
    <3>3. c \in Calls /\ i \in Nat /\ v = "request"
      BY <1>1, <1>6, <3>2 DEF Jobs
    <3>. HIDE DEF j, k, e
    <3>4. k = [NoJob EXCEPT !.at = "counter", !.ev = v, !.call = c, !.intent = i]
      BY <3>1, <3>2
    <3>5. k \in Jobs
      <4>1. "counter" \in Ats /\ v \in Evs /\ NoJob \in Jobs
        BY <3>3, NoJobFacts DEF Ats, Evs, Searching
      <4>. QED BY <3>3, <3>4, <4>1 DEF Jobs
    <3>6. /\ k.at = "counter" /\ k.ev = v /\ k.call = c /\ k.intent = i
          /\ k.n = 0 /\ k.names = {} /\ k.taken = {}
      BY <3>4, NoJobFacts DEF Jobs
    <3>. QED BY <3>2, <3>3, <3>5, <3>6
  <2>2. JobOK(k)
    BY <1>1, <2>1
    DEF JobOK, PutOK, KnownOK, SearchOK, SweepOK, EmitOK, Searching, Putting, TakesOwn
  <2>3. AloneOK(job[h])'
    BY <2>1 DEF AloneOK, Putting
  <2>. QED BY <1>1, <1>2, <1>3, <2>1, <2>2, <2>3, QuietKeeps DEF IInv, Shape, Stored
<1>7. CASE j.intent \in json[j.bucket] /\ j.ev # "request"
  <2>1. /\ k \in Jobs /\ k.at = "remove" /\ k.ev = j.ev /\ k.call = j.call
        /\ k.intent = j.intent /\ k.n = 0 /\ k.names = {} /\ k.taken = {} /\ k.bucket = j.bucket
    <3>1. k = [j EXCEPT !.at = "remove", !.key = <<>>, !.keys = <<>>, !.look = {}]
      BY <1>4, <1>7
    <3>2. <<>> \in Seq(Keys)
      BY TupleFacts
    <3>3. PICK x \in Jobs : x = j
      BY <1>1
    <3>. HIDE DEF j, k, e
    <3>4. k = [x EXCEPT !.at = "remove", !.key = <<>>, !.keys = <<>>, !.look = {}]
      BY <3>1, <3>3
    <3>5. k \in Jobs
      BY <3>2, <3>4 DEF Jobs, Ats
    <3>6. /\ k.at = "remove" /\ k.ev = x.ev /\ k.call = x.call /\ k.intent = x.intent
          /\ k.n = x.n /\ k.names = x.names /\ k.taken = x.taken /\ k.bucket = x.bucket
      BY <3>4 DEF Jobs
    <3>. QED BY <1>1, <3>3, <3>5, <3>6
  <2>2. JobOK(k)
    BY <1>1, <1>7, <2>1
    DEF JobOK, PutOK, KnownOK, SearchOK, SweepOK, EmitOK, Searching, Putting, TakesOwn
  <2>3. AloneOK(job[h])'
    BY <1>2, <1>7, <2>1 DEF AloneOK, Putting
  <2>4. Ahead(k)
    BY <1>1, <2>1 DEF Ahead, JobOK, SearchOK
  <2>. QED BY <1>1, <1>2, <1>3, <2>1, <2>2, <2>3, <2>4, QuietKeeps
       DEF IInv, Shape, Stored, Searching
<1>. QED BY <1>5, <1>6, <1>7

\* followLinks keeps pointers and adds none.
LEMMA FollowLinksStep == ASSUME IInv, NEW h \in Hosts, FollowLinks(h) PROVE IInv'
<1> DEFINE j == job[h]
           k == job'[h]
           q == Head(j.keys)
           live == {i \in links[q] : json[Target(i)] # {}}
           e == [j EXCEPT !.at = "list", !.keys = Tail(@), !.key = q, !.look = {0} \cup live]
<1>1. /\ j \in Jobs /\ JobOK(j) /\ j.at = "follow" /\ j.ev \in Searching /\ j.call \in Calls
      /\ j.n = 0 /\ j.taken = {} /\ j.names = {} /\ j.intent = 0
  BY DEF IInv, Shape, AtWork, FollowLinks, JobOK, KnownOK, SearchOK, SweepOK, Putting
<1>2. /\ UNCHANGED <<cast, tool, counter, intents, json, receipts, gone, faults>>
      /\ job' = [job EXCEPT ![h] = k]
      /\ links' = [links EXCEPT ![q] = live]
      /\ dirs' \subseteq dirs
  BY DEF IInv, Shape, FollowLinks, client, Drop
<1>3. cast.overlap \/ \A g \in Hosts \ {h} : Idle(g)
  BY <1>1, OthersIdle DEF IInv, Idle
<1>4. k = e
  <2>1. job' = [job EXCEPT ![h] = e]
    BY DEF FollowLinks
  <2>. HIDE DEF e
  <2>. QED BY <2>1 DEF IInv, Shape
<1>5. /\ ContentKey(j.call) \in Keys /\ IdKey(j.call) \in Keys
      /\ ContentKey(j.call) # IdKey(j.call)
      /\ \/ /\ j.keys = <<ContentKey(j.call)>>
            /\ q = ContentKey(j.call) /\ Tail(j.keys) = <<>>
         \/ /\ j.call \in WithId /\ j.keys = <<IdKey(j.call), ContentKey(j.call)>>
            /\ q = IdKey(j.call) /\ Tail(j.keys) = <<ContentKey(j.call)>>
      /\ q = j.keys[1]
  <2>1. /\ ContentKey(j.call) \in Keys /\ IdKey(j.call) \in Keys
        /\ ContentKey(j.call) # IdKey(j.call)
    BY <1>1, KeyFacts
  <2>2. \/ j.keys = <<ContentKey(j.call)>>
        \/ j.call \in WithId /\ j.keys = <<IdKey(j.call), ContentKey(j.call)>>
    BY <1>1 DEF JobOK, SearchOK
  <2>3. CASE j.keys = <<ContentKey(j.call)>>
    BY <2>1, <2>3, TupleFacts
  <2>4. CASE j.call \in WithId /\ j.keys = <<IdKey(j.call), ContentKey(j.call)>>
    BY <2>1, <2>4, TupleFacts
  <2>. QED BY <2>2, <2>3, <2>4
<1>6. /\ q \in Keys /\ Tail(j.keys) \in Seq(Keys) /\ live \subseteq links[q] /\ live \subseteq Ids
      /\ Ids \subseteq Nat \ {0}
  <2>1. q \in Keys /\ Tail(j.keys) \in Seq(Keys)
    <3>1. <<>> \in Seq(Keys) /\ <<ContentKey(j.call)>> \in Seq(Keys)
      BY <1>5, TupleFacts
    <3>. QED BY <1>5, <3>1
  <2>2. links[q] \subseteq Ids
    BY <2>1 DEF IInv, Shape
  <2>. QED BY <2>1, <2>2, IntentFacts DEF IInv
<1>7. \A i \in live : q = ContentKey(intents[i].call) /\ intents[i].call \in Calls
  BY <1>6, IntentFacts DEF IInv, Stored
<1>8. q = IdKey(j.call) => live = {}
  BY <1>1, <1>7, KeyFacts
<1>. HIDE DEF live, q
<1>9. /\ k \in Jobs /\ k.at = "list" /\ k.look = {0} \cup live /\ k.key = q
      /\ k.ev = j.ev /\ k.call = j.call /\ k.keys = Tail(j.keys) /\ k.intent = 0 /\ k.n = 0
      /\ k.names = {} /\ k.taken = {}
  <2>1. {0} \cup live \subseteq Nat
    BY <1>6
  <2>2. k = [j EXCEPT !.at = "list", !.keys = Tail(@), !.key = q, !.look = {0} \cup live]
    BY <1>4
  <2>3. j \in Jobs /\ q \in Keys /\ Tail(j.keys) \in Seq(Keys)
    BY <1>1, <1>6
  <2>. HIDE DEF j, k
  <2>4. k \in Jobs /\ k.at = "list" /\ k.look = {0} \cup live /\ k.key = q
        /\ k.keys = Tail(j.keys)
    BY <2>1, <2>2, <2>3 DEF Jobs, Ats
  <2>5. /\ k.ev = j.ev /\ k.call = j.call /\ k.intent = j.intent /\ k.n = j.n
        /\ k.names = j.names /\ k.taken = j.taken
    BY <2>2, <2>3 DEF Jobs
  <2>. QED BY <1>1, <2>4, <2>5
<1>10. JobOK(k)
  <2>1. \A x \in k.look \ {0} : x \in Ids /\ Like(intents[x].call, j.call)
    BY <1>5, <1>6, <1>7, <1>8, <1>9 DEF Like
  <2>. QED BY <1>1, <1>5, <1>8, <1>9, <2>1
       DEF JobOK, PutOK, KnownOK, SearchOK, SweepOK, EmitOK, Searching, Putting, TakesOwn
<1>11. k.ev = "post" /\ ~Ahead(k) => Missing(k.call)
  <2>1. Ahead(j) => Ahead(k)
    BY <1>1, <1>5, <1>9 DEF Ahead
  <2>. QED BY <1>9, <2>1 DEF IInv, Searched
<1>12. AloneOK(job[h])'
  BY <1>9 DEF AloneOK, Putting
<1>13. links' \in [Keys -> SUBSET Ids]
       /\ \A b \in Keys : \A i \in links'[b] : b = ContentKey(intents[i].call)
  BY <1>2, <1>6, <1>7 DEF IInv, Shape, Stored
<1>. QED BY <1>1, <1>2, <1>3, <1>9, <1>10, <1>11, <1>12, <1>13, QuietKeeps DEF IInv, Shape, Searching

\* A hook that starts and knows of no intent yet, nor closes a call.
LEMMA StartKeeps ==
    ASSUME IInv, NEW h \in Hosts, CanStart(h),
           UNCHANGED <<cast, tool, counter, intents, json, receipts, gone, faults, links, dirs>>,
           job' = [job EXCEPT ![h] = job'[h]], job'[h] \in Jobs, JobOK(job'[h]),
           job'[h].at \in {"counter", "follow", "scan"},
           job'[h].ev \notin {"pre", "post"}
    PROVE  IInv'
<1>1. /\ job[h].n = 0 /\ job[h].taken = {}
  BY DEF CanStart, Idle, IInv, AtWork, JobOK, KnownOK, Putting
<1>2. /\ job'[h].n = 0 /\ job'[h].taken = {}
  BY DEF JobOK, KnownOK, Putting
<1>3. cast.overlap \/ \A g \in Hosts \ {h} : Idle(g)
  BY OthersIdle DEF IInv
<1>4. AloneOK(job[h])'
  BY <1>2 DEF AloneOK, Putting
<1>. QED BY <1>1, <1>2, <1>3, <1>4, QuietKeeps DEF IInv, Shape, Stored

\* A marker event starts with nothing in hand.
LEMMA MarkerStep == ASSUME IInv, NEW h \in Hosts, Marker(h) PROVE IInv'
<1> DEFINE k == job'[h]
<1>1. /\ UNCHANGED <<cast, tool, counter, intents, json, receipts, gone, faults, links, dirs>>
      /\ CanStart(h) /\ job' = [job EXCEPT ![h] = k]
      /\ k = [NoJob EXCEPT !.at = "counter", !.ev = "marker"]
  BY DEF IInv, Shape, Marker, Start, store
<1>. HIDE DEF k
<1>2. k \in Jobs /\ k.at = "counter" /\ k.ev = "marker"
      /\ k.intent = 0 /\ k.n = 0 /\ k.names = {} /\ k.taken = {}
  BY <1>1, NoJobFacts DEF Jobs, Ats, Evs
<1>3. JobOK(k)
  BY <1>2 DEF JobOK, PutOK, KnownOK, SearchOK, SweepOK, EmitOK, Searching, Putting, TakesOwn
<1>. QED BY <1>1, <1>2, <1>3, StartKeeps DEF k

\* A prompt searches the content key.
LEMMA PermissionRequestStep ==
    ASSUME IInv, NEW h \in Hosts, NEW c \in Calls, PermissionRequest(h, c) PROVE IInv'
<1> DEFINE k == job'[h]
<1>1. /\ UNCHANGED <<cast, tool, counter, intents, json, receipts, gone, faults, links, dirs>>
      /\ CanStart(h) /\ job' = [job EXCEPT ![h] = k]
      /\ k = [NoJob EXCEPT !.at = "follow", !.ev = "request", !.call = c,
                           !.keys = <<ContentKey(c)>>]
  BY DEF IInv, Shape, PermissionRequest, Start, Search, SearchKeys, store
<1>. HIDE DEF k
<1>2. <<ContentKey(c)>> \in Seq(Keys)
  BY KeyFacts, TupleFacts
<1>3. k \in Jobs /\ k.at = "follow" /\ k.ev = "request" /\ k.call = c
      /\ k.keys = <<ContentKey(c)>>
      /\ k.intent = 0 /\ k.n = 0 /\ k.names = {} /\ k.taken = {}
  BY <1>1, <1>2, NoJobFacts DEF Jobs, Ats, Evs, Searching
<1>4. JobOK(k)
  BY <1>3 DEF JobOK, PutOK, KnownOK, SearchOK, SweepOK, EmitOK, Searching, Putting, TakesOwn
<1>. QED BY <1>1, <1>3, <1>4, StartKeeps DEF k

\* The end of a session starts a sweep of its intents.
LEMMA SessionEndStep ==
    ASSUME IInv, NEW h \in Hosts, NEW s \in Sessions, SessionEnd(h, s) PROVE IInv'
<1> DEFINE k == job'[h]
<1>1. /\ UNCHANGED <<cast, tool, counter, intents, json, receipts, gone, faults, links, dirs>>
      /\ CanStart(h) /\ job' = [job EXCEPT ![h] = k]
      /\ k = [NoJob EXCEPT !.at = "scan", !.ev = "end", !.who = {s}, !.cut = Len(intents)]
  BY DEF IInv, Shape, SessionEnd, Start, store
<1>. HIDE DEF k
<1>2. Len(intents) \in Nat
  BY DEF IInv, Shape
<1>3. k \in Jobs /\ k.at = "scan" /\ k.ev = "end"
      /\ k.intent = 0 /\ k.n = 0 /\ k.names = {} /\ k.taken = {}
  BY <1>1, <1>2, NoJobFacts DEF Jobs, Ats, Evs
<1>4. JobOK(k)
  BY <1>3 DEF JobOK, PutOK, KnownOK, SearchOK, SweepOK, EmitOK, Searching, Putting, TakesOwn
<1>. QED BY <1>1, <1>3, <1>4, StartKeeps DEF k

\* `behalf-hook recover` starts a sweep of the old intents.
LEMMA RecoverStep == ASSUME IInv, NEW h \in Hosts, Recover(h) PROVE IInv'
<1> DEFINE k == job'[h]
<1>0. PICK cut \in 1..Len(intents), who \in {{s} : s \in Sessions} \cup {Sessions} :
          job' = [job EXCEPT ![h] = [NoJob EXCEPT !.at = "scan", !.ev = "recover",
                                                  !.who = who, !.cut = cut]]
  BY DEF Recover, Start
<1>1. /\ UNCHANGED <<cast, tool, counter, intents, json, receipts, gone, faults, links, dirs>>
      /\ CanStart(h) /\ job' = [job EXCEPT ![h] = k]
      /\ k = [NoJob EXCEPT !.at = "scan", !.ev = "recover", !.who = who, !.cut = cut]
  BY <1>0 DEF IInv, Shape, Recover, store
<1>. HIDE DEF k
<1>2. cut \in Nat /\ who \subseteq Sessions
  BY DEF IInv, Shape
<1>3. k \in Jobs /\ k.at = "scan" /\ k.ev = "recover"
      /\ k.intent = 0 /\ k.n = 0 /\ k.names = {} /\ k.taken = {}
  BY <1>1, <1>2, NoJobFacts DEF Jobs, Ats, Evs
<1>4. JobOK(k)
  BY <1>3 DEF JobOK, PutOK, KnownOK, SearchOK, SweepOK, EmitOK, Searching, Putting, TakesOwn
<1>. QED BY <1>1, <1>3, <1>4, StartKeeps DEF k

\* A sweep under way, and what it leaves as it is.
Sweeps == {"scan", "bucket", "names", "take", "orphans"}

\* What a sweep under way knows.
LEMMA SweepFacts ==
    ASSUME IInv, NEW h \in Hosts, job[h].at \in Sweeps
    PROVE  /\ job[h] \in Jobs /\ JobOK(job[h])
           /\ job[h].ev \in {"end", "recover"} /\ job[h].n = 0
           /\ cast.overlap \/ (~cast.overlap /\ (\A g \in Hosts \ {h} : Idle(g)) /\ AloneOK(job[h]))
<1>1. job[h] \in Jobs /\ JobOK(job[h])
  BY DEF IInv, Shape, AtWork
<1>2. job[h].ev \in {"end", "recover"} /\ job[h].n = 0
  BY <1>1 DEF JobOK, SweepOK, KnownOK, Sweeps, Putting
<1>3. cast.overlap \/ \A g \in Hosts \ {h} : Idle(g)
  BY OthersIdle DEF IInv, Idle, Sweeps
<1>. QED BY <1>1, <1>2, <1>3 DEF IInv, Alone

\* A move of a sweep that takes no record keeps the invariant.
LEMMA SweepKeeps ==
    ASSUME IInv, NEW h \in Hosts, job[h].at \in Sweeps,
           UNCHANGED <<cast, tool, counter, intents, json, receipts, gone, faults>>,
           job' = [job EXCEPT ![h] = job'[h]], job'[h] \in Jobs, job'[h].at \in Sweeps,
           job'[h].ev = job[h].ev, job'[h].n = 0, job'[h].taken = job[h].taken,
           job'[h].call = job[h].call,
           job'[h].intent # 0 => Settled(job'[h].intent),
           \A i \in job'[h].names : Settled(i),
           job'[h].at \in {"names", "take"} => job'[h].bucket \in Keys,
           job'[h].at = "take" => job'[h].intent # 0 /\ job'[h].intent \notin job'[h].names,
           job'[h].at \notin {"names", "take"} => job'[h].names = {},
           job'[h].taken # {} => job'[h].at # "scan",
           links' \in [Keys -> SUBSET Ids], dirs' \subseteq Keys,
           \A k \in Keys : \A i \in links'[k] : k = ContentKey(intents[i].call),
           ~cast.overlap => /\ job'[h].at \in {"names", "take"} =>
                                   job'[h].names \subseteq json[job'[h].bucket]
                            /\ job'[h].at = "take" => job'[h].intent \in json[job'[h].bucket]
    PROVE  IInv'
<1>1. JobOK(job'[h])
  BY SweepFacts
  DEF JobOK, PutOK, KnownOK, SearchOK, SweepOK, EmitOK, Searching, Putting, TakesOwn, Sweeps
<1>2. cast.overlap \/ /\ \A g \in Hosts \ {h} : Idle(g)
                      /\ AloneOK(job[h])'
  <2>1. CASE ~cast.overlap
    <3>1. \A i \in job'[h].taken : Aloft(i)'
      BY <2>1, SweepFacts DEF AloneOK, Aloft, Closed
    <3>. QED BY <2>1, <3>1, SweepFacts DEF AloneOK, Putting, Sweeps
  <2>. QED BY <2>1
<1>3. job[h].n = 0 /\ job[h].ev \in {"end", "recover"}
  BY SweepFacts
<1>. QED BY <1>1, <1>2, <1>3, QuietKeeps DEF Sweeps

\* The directory listing a sweep starts from.
LEMMA SweepScanStep == ASSUME IInv, NEW h \in Hosts, SweepScan(h) PROVE IInv'
<1> DEFINE j == job[h]
           k == job'[h]
<1>1. /\ UNCHANGED <<cast, tool, counter, intents, json, receipts, gone, faults, links, dirs>>
      /\ j.at = "scan" /\ job' = [job EXCEPT ![h] = k]
      /\ k = [j EXCEPT !.at = "bucket", !.left = dirs]
  BY DEF IInv, Shape, SweepScan, store, client
<1>2. /\ j \in Jobs /\ JobOK(j) /\ j.n = 0 /\ dirs \subseteq Keys
      /\ j.ev \in {"end", "recover"} /\ j.names = {}
  BY <1>1, SweepFacts DEF Sweeps, JobOK, SweepOK, IInv, Shape
<1>. HIDE DEF k, j
<1>3. /\ k \in Jobs /\ k.at = "bucket" /\ k.ev = j.ev /\ k.n = 0 /\ k.taken = j.taken
      /\ k.intent = j.intent /\ k.names = {} /\ k.call = j.call
  BY <1>1, <1>2 DEF Jobs, Ats
<1>4. k.intent # 0 => Settled(k.intent)
  BY <1>2, <1>3 DEF JobOK, KnownOK
<1>. QED BY <1>1, <1>2, <1>3, <1>4, SweepKeeps DEF Sweeps, j, k, IInv, Shape, Stored

\* The next bucket of a sweep, or the end of its listing.
LEMMA SweepBucketStep == ASSUME IInv, NEW h \in Hosts, SweepBucket(h) PROVE IInv'
<1> DEFINE j == job[h]
           k == job'[h]
<1>1. /\ UNCHANGED <<cast, tool, counter, intents, json, receipts, gone, faults, links, dirs>>
      /\ j.at = "bucket" /\ job' = [job EXCEPT ![h] = k]
  BY DEF IInv, Shape, SweepBucket, store, client, Goes
<1>2. /\ j \in Jobs /\ JobOK(j) /\ j.n = 0 /\ j.names = {} /\ j.left \subseteq Keys
      /\ j.ev \in {"end", "recover"}
  BY <1>1, SweepFacts DEF Sweeps, JobOK, SweepOK, Jobs
<1>3. j.intent # 0 => Settled(j.intent)
  BY <1>2 DEF JobOK, KnownOK
<1>4. CASE j.left = {}
  <2>1. k = [j EXCEPT !.at = "orphans"]
    BY <1>4 DEF SweepBucket, Goes, IInv, Shape
  <2>. HIDE DEF k, j
  <2>2. /\ k \in Jobs /\ k.at = "orphans" /\ k.ev = j.ev /\ k.n = 0 /\ k.taken = j.taken
        /\ k.intent = j.intent /\ k.names = {} /\ k.call = j.call
    BY <1>2, <2>1 DEF Jobs, Ats
  <2>. QED BY <1>1, <1>2, <1>3, <2>2, SweepKeeps DEF Sweeps, j, k, IInv, Shape, Stored
<1>5. CASE j.left # {}
  <2>0. PICK q \in j.left :
           job' = [job EXCEPT ![h].at = "names", ![h].left = @ \ {q},
                              ![h].bucket = q, ![h].names = json[q]]
    BY <1>5 DEF SweepBucket
  <2>1. k = [j EXCEPT !.at = "names", !.left = @ \ {q}, !.bucket = q, !.names = json[q]]
    BY <2>0 DEF IInv, Shape
  <2>2. q \in Keys /\ json[q] \subseteq Nat /\ \A i \in json[q] : Settled(i)
    BY <1>2, IntentFacts DEF IInv, Shape, Stored
  <2>. HIDE DEF k, j
  <2>3. /\ k \in Jobs /\ k.at = "names" /\ k.ev = j.ev /\ k.n = 0 /\ k.taken = j.taken
        /\ k.intent = j.intent /\ k.names = json[q] /\ k.bucket = q /\ k.call = j.call
    BY <1>2, <2>1, <2>2 DEF Jobs, Ats
  <2>. QED BY <1>1, <1>2, <1>3, <2>2, <2>3, SweepKeeps DEF Sweeps, j, k, IInv, Shape, Stored
<1>. QED BY <1>4, <1>5

\* The next name of a bucket, to be taken or passed over.
LEMMA SweepReadStep == ASSUME IInv, NEW h \in Hosts, SweepRead(h) PROVE IInv'
<1> DEFINE j == job[h]
           k == job'[h]
           i == Min(j.names)
           at == IF i \in json[j.bucket] /\ Matches(j, i) THEN "take" ELSE "names"
<1>1. /\ UNCHANGED <<cast, tool, counter, intents, json, receipts, gone, faults, links, dirs>>
      /\ j.at = "names" /\ j.names # {} /\ job' = [job EXCEPT ![h] = k]
      /\ k = [j EXCEPT !.names = @ \ {i}, !.intent = i, !.at = at]
  BY DEF IInv, Shape, SweepRead, store, client
<1>2. /\ j \in Jobs /\ JobOK(j) /\ j.n = 0 /\ j.bucket \in Keys
      /\ j.ev \in {"end", "recover"}
  BY <1>1, SweepFacts DEF Sweeps, JobOK, SweepOK
<1>3. \A x \in j.names : Settled(x)
  BY <1>2 DEF JobOK, KnownOK
<1>4. i \in j.names /\ i \in Nat /\ i # 0
  <2>1. i \in j.names /\ i \in Nat
    BY <1>1, <1>2, MinIsMember DEF Jobs
  <2>. QED BY <1>3, <2>1, IntentFacts DEF IInv, Settled
<1>5. ~cast.overlap => j.names \subseteq json[j.bucket]
  BY <1>1, SweepFacts DEF AloneOK, Sweeps
<1>6. at \in {"take", "names"} /\ (at = "take" => i \in json[j.bucket])
  OBVIOUS
<1>. HIDE DEF k, j, i, at
<1>7. /\ k \in Jobs /\ k.at = at /\ k.ev = j.ev /\ k.n = 0 /\ k.taken = j.taken
      /\ k.intent = i /\ k.names = j.names \ {i} /\ k.bucket = j.bucket /\ k.call = j.call
  BY <1>1, <1>2, <1>4, <1>6 DEF Jobs, Ats
<1>. QED BY <1>1, <1>2, <1>3, <1>4, <1>5, <1>6, <1>7, SweepKeeps
     DEF Sweeps, j, k, IInv, Shape, Stored

\* The pointers of a bucket swept go, and perhaps the bucket.
LEMMA SweepLinksStep == ASSUME IInv, NEW h \in Hosts, SweepLinks(h) PROVE IInv'
<1> DEFINE j == job[h]
           k == job'[h]
<1>1. /\ UNCHANGED <<cast, tool, counter, intents, json, receipts, gone, faults>>
      /\ j.at = "names" /\ j.names = {} /\ job' = [job EXCEPT ![h] = k]
      /\ k = [j EXCEPT !.at = "bucket"]
      /\ links' = [links EXCEPT ![j.bucket] = {}] /\ dirs' \subseteq dirs
  BY DEF IInv, Shape, SweepLinks, client, Unlinked, Drop, Goes
<1>2. /\ j \in Jobs /\ JobOK(j) /\ j.n = 0
      /\ j.ev \in {"end", "recover"}
  BY <1>1, SweepFacts DEF Sweeps
<1>3. j.intent # 0 => Settled(j.intent)
  BY <1>2 DEF JobOK, KnownOK
<1>4. /\ links' \in [Keys -> SUBSET Ids] /\ dirs' \subseteq Keys
      /\ \A q \in Keys : \A i \in links'[q] : q = ContentKey(intents[i].call)
  BY <1>1 DEF IInv, Shape, Stored
<1>. HIDE DEF k, j
<1>5. /\ k \in Jobs /\ k.at = "bucket" /\ k.ev = j.ev /\ k.n = 0 /\ k.taken = j.taken
      /\ k.intent = j.intent /\ k.names = {} /\ k.call = j.call
  BY <1>1, <1>2 DEF Jobs, Ats
<1>. QED BY <1>1, <1>2, <1>3, <1>4, <1>5, SweepKeeps DEF Sweeps, j, k

\* A sweep ends with every intent it took receipted.
LEMMA SweepEndsStep == ASSUME IInv, NEW h \in Hosts, SweepEnds(h) PROVE IInv'
<1> DEFINE j == job[h]
           k == job'[h]
<1>1. /\ UNCHANGED <<cast, tool, counter, intents, json, receipts, gone, faults, links, dirs>>
      /\ j.at = "orphans" /\ j.taken = {} /\ job' = [job EXCEPT ![h] = k]
      /\ k = IF j.ev = "end" THEN [NoJob EXCEPT !.at = "counter", !.ev = "end"] ELSE NoJob
  BY DEF IInv, Shape, SweepEnds, store, client
<1>2. /\ j.n = 0 /\ (cast.overlap \/ \A g \in Hosts \ {h} : Idle(g))
  BY <1>1, SweepFacts DEF Sweeps
<1>. HIDE DEF k, j
<1>3. /\ k \in Jobs /\ k.at \in {"counter", "idle"} /\ k.n = 0 /\ k.taken = {}
      /\ k.ev \in {"end", "none"} /\ JobOK(k)
  <2>1. CASE j.ev = "end"
    <3>1. /\ k \in Jobs /\ k.at = "counter" /\ k.n = 0 /\ k.taken = {} /\ k.ev = "end"
          /\ k.intent = 0 /\ k.names = {}
      BY <1>1, <2>1, NoJobFacts DEF Jobs, Ats, Evs
    <3>. QED BY <3>1
         DEF JobOK, PutOK, KnownOK, SearchOK, SweepOK, EmitOK, Searching, Putting, TakesOwn
  <2>2. CASE j.ev # "end"
    BY <1>1, <2>2, NoJobFacts, NoJobOK
  <2>. QED BY <2>1, <2>2
<1>4. AloneOK(job[h])'
  BY <1>3 DEF AloneOK, Putting, k
<1>. QED BY <1>1, <1>2, <1>3, <1>4, QuietKeeps DEF j, k, IInv, Shape, Stored

\* What a PreToolUse hook at its Put knows.
LEMMA PutFacts ==
    ASSUME IInv, NEW h \in Hosts, job[h].at \in Putting
    PROVE  /\ job[h] \in Jobs /\ JobOK(job[h]) /\ job[h].ev = "pre"
           /\ job[h].call \in Calls /\ job[h].bucket \in Keys
           /\ job[h].bucket = OwnKey(job[h].call)
           /\ job[h].n \in Nat \ {0}
           /\ job[h].intent \in Ids /\ intents[job[h].intent].call = job[h].call
           /\ intents[job[h].intent].counter = job[h].n
           /\ job[h].taken = {} /\ job[h].names = {}
           /\ tool[job[h].call] = "asking"
           /\ cast.overlap \/ (~cast.overlap /\ (\A g \in Hosts \ {h} : Idle(g)) /\ AloneOK(job[h]))
<1>1. job[h] \in Jobs /\ JobOK(job[h])
  BY DEF IInv, Shape, AtWork
<1>2. cast.overlap \/ \A g \in Hosts \ {h} : Idle(g)
  BY OthersIdle DEF IInv, Idle, Putting
<1>3. job[h].ev = "pre"
  BY <1>1 DEF JobOK, PutOK
<1>4. job[h].n # 0
  BY <1>1, <1>3 DEF JobOK, PutOK, Putting
<1>. QED BY <1>1, <1>2, <1>3, <1>4, KeyFacts DEF JobOK, PutOK, IInv, Alone, Jobs

\* The intent's bucket is made.
LEMMA PutBucketStep == ASSUME IInv, NEW h \in Hosts, PutBucket(h) PROVE IInv'
<1> DEFINE j == job[h]
           k == job'[h]
           at == IF j.call \in WithId THEN "alias" ELSE "temp"
<1>1. /\ UNCHANGED <<cast, tool, counter, intents, json, receipts, gone, faults, links>>
      /\ j.at = "mkdir" /\ job' = [job EXCEPT ![h] = k]
      /\ k = [j EXCEPT !.at = at] /\ dirs' = dirs \cup {j.bucket}
  BY DEF IInv, Shape, PutBucket, client, Goes
<1>2. j.at \in Putting /\ at \in Putting \ {"mkdir"} /\ (at = "alias" => j.call \in WithId)
  BY <1>1 DEF Putting
<1>3. j \in Jobs /\ JobOK(j) /\ j.ev = "pre" /\ j.bucket \in Keys /\ j.n # 0 /\ j.taken = {}
  BY <1>2, PutFacts
<1>. HIDE DEF k, j, at
<1>4. /\ k \in Jobs /\ k.at = at /\ k.ev = "pre" /\ k.n = j.n /\ k.taken = {}
      /\ k.intent = j.intent /\ k.names = j.names /\ k.bucket = j.bucket /\ k.call = j.call
  BY <1>1, <1>2, <1>3 DEF Jobs, Ats
<1>5. JobOK(k)
  BY <1>2, <1>3, <1>4
  DEF JobOK, PutOK, KnownOK, SearchOK, SweepOK, EmitOK, Searching, Putting, TakesOwn
<1>6. cast.overlap \/ ((\A g \in Hosts \ {h} : Idle(g)) /\ AloneOK(job[h])')
  <2>1. CASE ~cast.overlap
    BY <1>1, <1>2, <1>4, <2>1, PutFacts DEF AloneOK, Putting, j, k
  <2>. QED BY <2>1
<1>7. dirs' \subseteq Keys /\ k.at # "emit"
  BY <1>1, <1>2, <1>3, <1>4 DEF IInv, Shape, Putting
<1>. QED BY <1>1, <1>3, <1>4, <1>5, <1>6, <1>7, QuietKeeps DEF j, k, IInv, Shape, Stored

\* The pointer from the content key is made.
LEMMA PutAliasStep == ASSUME IInv, NEW h \in Hosts, PutAlias(h) PROVE IInv'
<1> DEFINE j == job[h]
           k == job'[h]
           alias == ContentKey(j.call)
<1>1. /\ UNCHANGED <<cast, tool, counter, intents, json, receipts, gone, faults>>
      /\ j.at = "alias" /\ job' = [job EXCEPT ![h] = k]
      /\ k = [j EXCEPT !.at = "temp"] /\ dirs' = dirs \cup {alias}
      /\ links' = [links EXCEPT ![alias] = @ \cup {j.intent}]
  BY DEF IInv, Shape, PutAlias, client, Goes, Linked
<1>2. j.at \in Putting
  BY <1>1 DEF Putting
<1>3. /\ j \in Jobs /\ JobOK(j) /\ j.ev = "pre" /\ alias \in Keys /\ j.n # 0
      /\ j.intent \in Ids /\ alias = ContentKey(intents[j.intent].call) /\ j.taken = {}
  BY <1>2, PutFacts, KeyFacts
<1>7. /\ dirs' \subseteq Keys /\ links' \in [Keys -> SUBSET Ids]
      /\ \A q \in Keys : \A i \in links'[q] : q = ContentKey(intents[i].call)
  BY <1>1, <1>3 DEF IInv, Shape, Stored
<1>. HIDE DEF k, j, alias
<1>4. /\ k \in Jobs /\ k.at = "temp" /\ k.ev = "pre" /\ k.n = j.n /\ k.taken = {}
      /\ k.intent = j.intent /\ k.names = j.names /\ k.bucket = j.bucket /\ k.call = j.call
  BY <1>1, <1>3 DEF Jobs, Ats, Putting
<1>5. JobOK(k)
  BY <1>1, <1>3, <1>4
  DEF JobOK, PutOK, KnownOK, SearchOK, SweepOK, EmitOK, Searching, Putting, TakesOwn
<1>6. cast.overlap \/ ((\A g \in Hosts \ {h} : Idle(g)) /\ AloneOK(job[h])')
  <2>1. CASE ~cast.overlap
    BY <1>1, <1>2, <1>4, <2>1, PutFacts DEF AloneOK, Putting, j, k
  <2>. QED BY <2>1
<1>. QED BY <1>1, <1>3, <1>4, <1>5, <1>6, <1>7, QuietKeeps DEF j, k

-----------------------------------------------------------------------------
(* What the other steps share.                                              *)

\* What is on disk, or swept and not yet receipted, has its final number.
LEMMA KnownFacts ==
    ASSUME IInv
    PROVE  /\ \A k \in Keys : \A i \in json[k] : Settled(i)
           /\ \A h \in Hosts : \A i \in job[h].taken : Settled(i)
           /\ \A r \in receipts : r.intent # 0 => Settled(r.intent)
           /\ \A i : Settled(i) => i \in Ids /\ intents[i].call \in Calls
<1>1. \A i : Settled(i) => i \in Ids /\ intents[i].call \in Calls
  BY IntentFacts DEF Settled, IInv
<1>2. \A h \in Hosts : \A i \in job[h].taken : Settled(i)
  BY DEF IInv, AtWork, JobOK, KnownOK, PutOK
<1>. QED BY <1>1, <1>2 DEF IInv, Stored, Numbered

\* A number held stays held, when what the process that moves gives up is
\* on disk, spooled or gone, and what leaves the disk is in its hands.
LEMMA HeldKeeps ==
    ASSUME IInv, NEW h \in Hosts, Later(Hosts \ {h}), NEW n \in Nat \ {0}, Held(n),
           gone \subseteq gone', receipts \subseteq receipts',
           \A k \in Keys : \A i \in json[k] :
               i \in json'[k] \/ (intents[i].counter = n => Has(job[h], n)'),
           Has(job[h], n) => Held(n)'
    PROVE  Held(n)'
<1>1. \A i \in Ids : Settled(i) => intents'[i].counter = intents[i].counter
  BY DEF Later
<1>2. CASE n \in gone \/ \E r \in receipts : r.counter = n
  BY <1>2 DEF Held
<1>3. ASSUME NEW k \in Keys, NEW i \in json[k], intents[i].counter = n
      PROVE  Held(n)'
  <2>1. intents'[i].counter = n
    BY <1>1, <1>3, KnownFacts
  <2>. QED BY <1>3, <2>1 DEF Held
<1>4. ASSUME NEW g \in Hosts \ {h}, Has(job[g], n)
      PROVE  Held(n)'
  <2>1. job'[g] = job[g]
    BY DEF Later
  <2>2. \A i \in job[g].taken : intents'[i].counter = intents[i].counter
    BY <1>1, KnownFacts
  <2>3. Has(job[g], n)'
    BY <1>4, <2>1, <2>2 DEF Has
  <2>. QED BY <2>3 DEF Held
<1>. QED BY <1>2, <1>3, <1>4 DEF Held

\* Numbers stay apart when no receipt is spooled, the process that moves has
\* none of its own to spool, and a number an intent gets is a new one.
LEMMA NumberedKeeps ==
    ASSUME IInv, NEW h \in Hosts, Later(Hosts \ {h}), receipts' = receipts,
           ~OwnsNumber(job'[h]),
           \A i \in Ids' : \/ intents'[i].counter = 0
                           \/ intents'[i].counter > counter
                           \/ i \in Ids /\ intents'[i].counter = intents[i].counter
    PROVE  Numbered'
<1>1. ASSUME NEW n \in 1..counter, \A i \in Ids : intents[i].counter # n, NEW i \in Ids'
      PROVE  intents'[i].counter # n
  <2>1. counter \in Nat /\ n # 0 /\ ~(n > counter)
    BY DEF IInv, Shape
  <2>. QED BY <1>1, <2>1
<1>2. ASSUME NEW g \in Hosts, OwnsNumber(job'[g])
      PROVE  /\ g # h /\ job'[g] = job[g] /\ OwnsNumber(job[g]) /\ job[g].n \in 1..counter
  <2>1. g # h
    BY <1>2
  <2>2. job'[g] = job[g]
    BY <2>1 DEF Later
  <2>3. OwnsNumber(job[g])
    BY <1>2, <2>2
  <2>4. job[g].n # 0 /\ job[g].n \in 0..counter /\ counter \in Nat
    BY <2>3 DEF OwnsNumber, IInv, AtWork, JobOK, EmitOK, Shape
  <2>. QED BY <2>1, <2>2, <2>3, <2>4
<1>3. ASSUME NEW g \in Hosts, OwnsNumber(job'[g])
      PROVE  /\ \A i \in Ids' : intents'[i].counter # job'[g].n
             /\ \A r \in receipts' : r.counter # job'[g].n
             /\ \A f \in Hosts : OwnsNumber(job'[f]) /\ job'[f].n = job'[g].n => f = g
  BY <1>1, <1>2, <1>3 DEF IInv, Numbered
<1>4. ASSUME NEW r \in receipts
      PROVE  /\ r.intent # 0 => Settled(r.intent)'
             /\ IF OwnReceipt(r) THEN \A i \in Ids' : intents'[i].counter # r.counter
                ELSE intents'[r.intent].counter = r.counter
  <2>1. r.counter \in 1..counter
    BY DEF IInv, Shape
  <2>2. r.intent # 0 => Settled(r.intent) /\ r.intent \in Ids
    BY KnownFacts
  <2>3. r.intent # 0 => Settled(r.intent)' /\ intents'[r.intent].counter = intents[r.intent].counter
    BY <2>2 DEF Later
  <2>4. CASE OwnReceipt(r)
    BY <1>1, <2>1, <2>3, <2>4 DEF IInv, Numbered
  <2>5. CASE ~OwnReceipt(r)
    BY <2>3, <2>5 DEF IInv, Numbered, OwnReceipt
  <2>. QED BY <2>4, <2>5
<1>. QED BY <1>3, <1>4 DEF IInv, Numbered, OwnsNumber, TakesOwn

\* Hooks one at a time: only the one that moves, and the store, can differ.
LEMMA AloneKeeps ==
    ASSUME IInv, NEW h \in Hosts, cast' = cast, Later(Hosts \ {h}),
           ~cast.overlap => /\ \A g \in Hosts \ {h} : Idle(g)
                            /\ AloneOK(job[h])'
                            /\ \A k \in Keys : \A i \in json'[k] : ~Closed(i)',
           receipts' = receipts \/ (~cast.overlap => ClosedOnce')
    PROVE  Alone'
<1>1. CASE cast.overlap
  BY <1>1 DEF Alone
<1>2. CASE ~cast.overlap
  <2>1. \A g \in Hosts \ {h} : job'[g] = job[g] /\ Idle(g) /\ Idle(g)'
    BY <1>2 DEF Idle, Later
  <2>2. ASSUME NEW g \in Hosts \ {h} PROVE AloneOK(job[g])'
    BY <2>1 DEF AloneOK, IInv, AtWork, JobOK, KnownOK, Putting, Idle
  <2>3. \A g \in Hosts : AloneOK(job[g])'
    BY <1>2, <2>2
  <2>4. ClosedOnce'
    BY <1>2 DEF IInv, Alone, ClosedOnce
  <2>. QED BY <1>2, <2>1, <2>3, <2>4 DEF Alone
<1>. QED BY <1>1, <1>2

\* What completions and receipts say stays true, when what enters the store is
\* of calls under way and the process that moves, and what it spools, keep to it.
LEMMA SearchedKeeps ==
    ASSUME IInv, NEW h \in Hosts, cast' = cast, Later(Hosts \ {h}),
           \A k \in Keys : \A i \in json'[k] : i \in json[k] \/ tool[intents[i].call] # "closed",
           \A k \in Keys : json'[k] \subseteq Ids,
           (job[h].ev = "post" /\ ~Ahead(job[h]) => Missing(job[h].call))',
           \A r \in receipts' \ receipts :
               /\ r.kind = "post_only" => r.call \in Calls /\ Missing(r.call)'
               /\ r.intent # 0 => r.call \in Calls /\ Like(intents'[r.intent].call, r.call)
    PROVE  Searched'
<1>1. ASSUME NEW g \in Hosts \ {h}
      PROVE  (job[g].ev = "post" /\ ~Ahead(job[g]) => Missing(job[g].call))'
  <2> DEFINE c == job[g].call
  <2>1. job'[g] = job[g]
    BY DEF Later
  <2>2. SUFFICES ASSUME job[g].ev = "post", ~Ahead(job[g])
                 PROVE  Missing(job[g].call)'
    BY <2>1 DEF Ahead
  <2>3. Missing(c) /\ c \in Calls
    BY <2>2 DEF IInv, Searched, AtWork, JobOK, SearchOK, Searching
  <2>4. ASSUME NEW d \in Calls, Missing(d) PROVE Missing(d)'
    BY <2>4, MissingKeeps DEF IInv
  <2>. QED BY <2>1, <2>3, <2>4 DEF Missing, RacedForOne, Ids
<1>2. ASSUME NEW r \in receipts
      PROVE  /\ r.kind = "post_only" => r.call \in Calls /\ Missing(r.call)'
             /\ r.intent # 0 => r.call \in Calls /\ Like(intents'[r.intent].call, r.call)
  <2>1. r.kind = "post_only" => r.call \in Calls /\ Missing(r.call)
    BY DEF IInv, Searched
  <2>2. r.kind = "post_only" => Missing(r.call)'
    BY <2>1, MissingKeeps DEF IInv
  <2>3. r.intent # 0 => r.call \in Calls /\ Like(intents[r.intent].call, r.call)
                        /\ intents'[r.intent].call = intents[r.intent].call
    BY KnownFacts DEF IInv, Searched, Later
  <2>. QED BY <2>1, <2>2, <2>3
<1>3. \A g \in Hosts : (job[g].ev = "post" /\ ~Ahead(job[g]) => Missing(job[g].call))'
  BY <1>1
<1>4. \A r \in receipts' :
          /\ r.kind = "post_only" => r.call \in Calls /\ Missing(r.call)'
          /\ r.intent # 0 => r.call \in Calls /\ Like(intents'[r.intent].call, r.call)
  BY <1>2
<1>. QED BY <1>3, <1>4 DEF Searched

-----------------------------------------------------------------------------
(* The steps that move the calls, the numbers, the records or the receipts. *)

\* A sequence with one more element.
LEMMA AppendFacts ==
    ASSUME NEW S, NEW s \in Seq(S), NEW e \in S
    PROVE  /\ Append(s, e) \in Seq(S)
           /\ DOMAIN Append(s, e) = DOMAIN s \cup {Len(s) + 1}
           /\ Len(s) + 1 \notin DOMAIN s
           /\ \A i \in DOMAIN s : Append(s, e)[i] = s[i]
           /\ Append(s, e)[Len(s) + 1] = e
  OBVIOUS

\* A new intent, of a call that had none, is nowhere yet.
LEMMA PreToolUseStep ==
    ASSUME IInv, NEW h \in Hosts, NEW c \in Calls, PreToolUse(h, c) PROVE IInv'
<1> DEFINE k == job'[h]
           m == Len(intents) + 1
<1>1. /\ UNCHANGED <<cast, counter, json, receipts, gone, faults, links, dirs>>
      /\ CanStart(h) /\ job' = [job EXCEPT ![h] = k]
      /\ tool[c] = "ready" /\ tool' = [tool EXCEPT ![c] = "asking"]
      /\ intents' = Append(intents, [call |-> c, counter |-> 0])
      /\ k = [NoJob EXCEPT !.at = "counter", !.ev = "pre", !.call = c,
                           !.intent = m, !.bucket = OwnKey(c)]
  BY DEF IInv, Shape, PreToolUse, Start, store, OwnKey
<1>2. counter \in Nat /\ tool \in [Calls -> {"ready", "asking", "running", "closed"}]
  BY DEF IInv, Shape
<1>0. intents \in Seq([call : Calls, counter : 0..counter])
      /\ [call |-> c, counter |-> 0] \in [call : Calls, counter : 0..counter]
  BY DEF IInv, Shape
<1>00. intents' \in Seq([call : Calls, counter : 0..counter])
  BY <1>1, <1>0, AppendFacts
<1>3. /\ Ids' = Ids \cup {m} /\ m \notin Ids /\ m \in Nat \ {0}
      /\ \A i \in Ids : intents'[i] = intents[i]
      /\ intents'[m].call = c /\ intents'[m].counter = 0
  <2>1. Len(intents) \in Nat
    BY <1>0, SeqElements
  <2>2. intents'[m] = [call |-> c, counter |-> 0]
    BY <1>1, <1>0, AppendFacts
  <2>. QED BY <1>1, <1>0, <2>1, <2>2, AppendFacts DEF Ids
<1>4. \A i \in Ids : intents[i].call # c /\ intents[i].call \in Calls
  BY <1>1, IntentFacts DEF IInv, Stored
<1>5. /\ job[h].n = 0 /\ job[h].taken = {} /\ job[h].ev = "none"
  BY <1>1 DEF CanStart, Idle, IInv, AtWork, JobOK, KnownOK, Putting
<1>6. cast.overlap \/ \A g \in Hosts \ {h} : Idle(g)
  BY <1>1, OthersIdle DEF IInv
<1>. HIDE DEF k, m
<1>7. /\ k \in Jobs /\ k.at = "counter" /\ k.ev = "pre" /\ k.call = c /\ k.intent = m
      /\ k.bucket = OwnKey(c) /\ k.n = 0 /\ k.names = {} /\ k.taken = {}
  BY <1>1, <1>3, NoJobFacts, KeyFacts DEF Jobs, Ats, Evs
<1>8. job' \in [Hosts -> Jobs] /\ \A g \in Hosts \ {h} : job'[g] = job[g]
  BY <1>1, <1>7, Moved DEF IInv, k
<1>9. \A i : Settled(i) => Settled(i)'
  BY <1>1, <1>2, <1>3, <1>4 DEF Settled
<1>10. Later(Hosts \ {h})
  <2>1. ASSUME NEW g \in Hosts \ {h}, job[g].ev = "pre"
        PROVE  /\ tool'[job[g].call] = tool[job[g].call]
               /\ intents'[job[g].intent].counter = intents[job[g].intent].counter
    <3>1. tool[job[g].call] = "asking" /\ job[g].call \in Calls /\ job[g].intent \in Ids
      BY <2>1 DEF IInv, AtWork, JobOK, PutOK
    <3>. QED BY <1>1, <1>2, <1>3, <3>1
  <2>2. counter <= counter' /\ \A d \in Calls : tool[d] = "closed" => tool'[d] = "closed"
    BY <1>1, <1>2
  <2>. QED BY <1>3, <1>8, <1>9, <2>1, <2>2 DEF Later
<1>11. Shape'
  <2>1. \A g \in Hosts : job'[g].n \in 0..counter
    BY <1>2, <1>7, <1>8 DEF IInv, Shape, k
  <2>2. tool' \in [Calls -> {"ready", "asking", "running", "closed"}]
    BY <1>1, <1>2
  <2>3. json' \in [Keys -> SUBSET Ids'] /\ links' \in [Keys -> SUBSET Ids']
    BY <1>1, <1>3 DEF IInv, Shape
  <2>. QED BY <1>1, <1>00, <1>8, <2>1, <2>2, <2>3 DEF IInv, Shape
<1>12. Stored'
  <2>1. /\ \A i, x \in Ids' : intents'[i].call = intents'[x].call => i = x
        /\ \A i, x \in Ids' : intents'[i].counter = intents'[x].counter
                              /\ intents'[i].counter # 0 => i = x
    BY <1>3, <1>4 DEF IInv, Stored
  <2>2. \A i \in Ids' : tool'[intents'[i].call] # "ready"
    <3>1. tool'[c] = "asking" /\ \A d \in Calls \ {c} : tool'[d] = tool[d]
      BY <1>1, <1>2
    <3>. QED BY <1>3, <1>4, <3>1 DEF IInv, Stored
  <2>3. \A q \in Keys : \A i \in json'[q] : Settled(i)' /\ q = OwnKey(intents'[i].call)
    <3>. TAKE x \in Keys
    <3>. TAKE i \in json'[x]
    <3>1. i \in json[x]
      BY <1>1
    <3>2. Settled(i) /\ i \in Ids
      BY <3>1, KnownFacts
    <3>3. x = OwnKey(intents[i].call)
      BY <3>1 DEF IInv, Stored
    <3>. QED BY <1>3, <1>9, <3>2, <3>3
  <2>4. \A q \in Keys : \A i \in links'[q] : q = ContentKey(intents'[i].call)
    BY <1>1, <1>3 DEF IInv, Stored, Shape
  <2>. QED BY <2>1, <2>2, <2>3, <2>4 DEF Stored
<1>13. AtWork'
  <2>1. tool'[c] = "asking" /\ m \in Ids' /\ intents'[m].call = c /\ intents'[m].counter = 0
    BY <1>1, <1>2, <1>3
  <2>2. JobOK(job[h])'
    BY <1>7, <2>1
    DEF JobOK, PutOK, KnownOK, SearchOK, SweepOK, EmitOK, Searching, Putting, TakesOwn, k
  <2>3. \A g \in Hosts \ {h} : ~(job[g].ev = "pre" /\ job[g].call = c)
    BY <1>1 DEF IInv, AtWork, JobOK, PutOK
  <2>. QED BY <1>7, <1>10, <2>2, <2>3, AtWorkKeeps DEF IInv, k
<1>14. Numbered'
  <2>1. \A i \in Ids' : \/ intents'[i].counter = 0
                        \/ i \in Ids /\ intents'[i].counter = intents[i].counter
    BY <1>3
  <2>. QED BY <1>1, <1>7, <1>10, <2>1, NumberedKeeps DEF OwnsNumber, k
<1>15. Alone'
  <2>1. AloneOK(job[h])'
    BY <1>7 DEF AloneOK, Putting, k
  <2>2. ~cast.overlap => \A q \in Keys : \A i \in json'[q] : ~Closed(i)'
    BY <1>1 DEF IInv, Alone, Closed
  <2>. QED BY <1>1, <1>6, <1>10, <2>1, <2>2, AloneKeeps
<1>16. Searched'
  BY <1>1, <1>7, <1>10, SearchedKeeps DEF k, IInv, Shape
<1>17. AllHeld'
  <2>1. ASSUME NEW n \in 1..counter PROVE Held(n)'
    <3>1. ~Has(job[h], n) /\ Held(n) /\ n \in Nat \ {0}
      BY <1>2, <1>5 DEF Has, IInv, AllHeld
    <3>. QED BY <1>1, <1>10, <3>1, HeldKeeps
  <2>. QED BY <1>1, <2>1 DEF IInv, AllHeld
<1>. QED BY <1>11, <1>12, <1>13, <1>14, <1>15, <1>16, <1>17 DEF IInv

\* The client moves on with a call: no intent, record or receipt changes, and
\* at most one process, idle before, starts to search for the call's intent.
LEMMA ClientKeeps ==
    ASSUME IInv, NEW others \in SUBSET Hosts, job' \in [Hosts -> Jobs], Later(others),
           UNCHANGED <<cast, counter, intents, json, links, dirs, receipts, gone, faults>>,
           tool' \in [Calls -> {"ready", "asking", "running", "closed"}],
           \A c \in Calls : tool[c] # "ready" => tool'[c] # "ready",
           \A g \in Hosts \ others :
               /\ job[g].taken = {} /\ job[g].n = 0
               /\ JobOK(job[g])' /\ AloneOK(job[g])'
               /\ job'[g].at = "follow" /\ job'[g].ev # "pre" /\ Ahead(job'[g])
               /\ job'[g].n = 0,
           ~cast.overlap => \/ others = Hosts
                            \/ /\ \A g \in others : Idle(g)
                               /\ \A f, g \in Hosts \ others : f = g
    PROVE  IInv'
<1>1. /\ \A g \in others : job'[g] = job[g] /\ JobOK(job[g])'
      /\ \A i : Settled(i) => Settled(i)' /\ i \in Ids
      /\ Ids' = Ids
  BY OthersKeep DEF Later, IInv, AtWork, Settled, Ids
<1>2. Shape'
  <2>1. \A g \in Hosts : job'[g].n \in 0..counter
    BY <1>1 DEF IInv, Shape
  <2>. QED BY <1>1, <2>1 DEF IInv, Shape
<1>3. Stored'
  <2>1. \A i \in Ids : tool'[intents[i].call] # "ready"
    BY IntentFacts DEF IInv, Stored
  <2>. QED BY <1>1, <2>1 DEF IInv, Stored
<1>4. AtWork'
  <2>1. \A g \in Hosts : JobOK(job[g])'
    BY <1>1
  <2>2. \A g \in Hosts : job'[g].ev = "pre" => job'[g] = job[g]
    BY <1>1
  <2>. QED BY <2>1, <2>2 DEF IInv, AtWork
<1>5. Numbered'
  <2>1. \A g \in Hosts : OwnsNumber(job'[g]) => job'[g] = job[g]
    BY <1>1 DEF OwnsNumber
  <2>. QED BY <1>1, <2>1 DEF IInv, Numbered
<1>6. Alone'
  <2>1. SUFFICES ASSUME ~cast.overlap PROVE Alone'
    BY DEF Alone
  <2>2. \A g \in others : AloneOK(job[g])'
    BY <1>1, <2>1 DEF IInv, Alone, AloneOK, Aloft, Closed, OwnsNumber
  <2>3. \A f, g \in Hosts : ~(job'[f].at = "idle") /\ ~(job'[g].at = "idle") => f = g
    BY <1>1, <2>1 DEF IInv, Alone, Idle
  <2>. QED BY <2>1, <2>2, <2>3 DEF IInv, Alone, Closed, ClosedOnce, Idle
<1>7. \A c \in Calls : Missing(c) => Missing(c)'
  BY <1>1, MissingKeeps DEF IInv, Shape
<1>8. Searched'
  <2>1. ASSUME NEW g \in Hosts
        PROVE  (job[g].ev = "post" /\ ~Ahead(job[g]) => Missing(job[g].call))'
    <3>1. CASE g \in others
      <4>1. SUFFICES ASSUME job[g].ev = "post", ~Ahead(job[g])
                     PROVE  Missing(job[g].call)'
        BY <1>1, <3>1 DEF Ahead
      <4>2. Missing(job[g].call) /\ job[g].call \in Calls
        BY <4>1 DEF IInv, Searched, AtWork, JobOK, SearchOK, Searching
      <4>. QED BY <1>1, <1>7, <3>1, <4>2 DEF Missing, RacedForOne, Ids
    <3>2. CASE g \notin others
      BY <3>2 DEF Ahead
    <3>. QED BY <3>1, <3>2
  <2>2. \A r \in receipts : r.kind = "post_only" => r.call \in Calls /\ Missing(r.call)'
    BY <1>7 DEF IInv, Searched
  <2>. QED BY <2>1, <2>2 DEF IInv, Searched
<1>9. AllHeld'
  <2>1. ASSUME NEW n \in 1..counter PROVE Held(n)'
    <3>1. Held(n) /\ n # 0
      BY DEF IInv, AllHeld, Shape
    <3>2. \A g \in Hosts : Has(job[g], n) => g \in others /\ Has(job'[g], n)
      BY <1>1, <3>1 DEF Has
    <3>3. \A g \in Hosts : Has(job[g], n) => Has(job[g], n)'
      BY <3>2 DEF Has
    <3>. QED BY <3>1, <3>3 DEF Held
  <2>. QED BY <2>1 DEF IInv, AllHeld
<1>. QED BY <1>2, <1>3, <1>4, <1>5, <1>6, <1>8, <1>9 DEF IInv

\* A call begins whose PreToolUse event no hook saw.
LEMMA UnhookedStep ==
    ASSUME IInv, NEW c \in Calls, Unhooked(c) PROVE IInv'
<1>1. /\ UNCHANGED <<cast, counter, intents, json, links, dirs, receipts, gone, faults, job>>
      /\ tool[c] = "ready" /\ tool' = [tool EXCEPT ![c] = "running"]
  BY DEF Unhooked, store
<1>2. /\ tool \in [Calls -> {"ready", "asking", "running", "closed"}]
      /\ counter \in Nat /\ job' \in [Hosts -> Jobs]
  BY <1>1 DEF IInv, Shape
<1>3. tool' \in [Calls -> {"ready", "asking", "running", "closed"}]
  BY <1>1, <1>2
<1>4. \A d \in Calls : /\ tool[d] # "ready" => tool'[d] = tool[d]
                       /\ tool[d] \in {"running", "closed"} => tool'[d] \in {"running", "closed"}
  BY <1>1, <1>2
<1>5. \A i : Settled(i) => Settled(i)'
  BY <1>1, <1>4, IntentFacts DEF IInv, Settled, Ids
<1>6. Later(Hosts)
  <2>1. ASSUME NEW g \in Hosts, job[g].ev = "pre"
        PROVE  tool'[job[g].call] = tool[job[g].call]
    BY <1>4, <2>1 DEF IInv, AtWork, JobOK, PutOK
  <2>. QED BY <1>1, <1>2, <1>4, <1>5, <2>1 DEF Later, Ids
<1>. QED BY <1>1, <1>2, <1>3, <1>4, <1>6, ClientKeeps

\* A completion or a refusal starts where its call's own bucket is ahead.
LEMMA SearchStarts ==
    ASSUME IInv, NEW h \in Hosts, NEW c \in Calls, NEW ev \in {"post", "denied"},
           CanStart(h), tool[c] = "running",
           tool' = [tool EXCEPT ![c] = "closed"],
           job' = [job EXCEPT ![h] = Search(c, ev, c \in WithId)],
           UNCHANGED <<cast, counter, intents, json, links, dirs, receipts, gone, faults>>
    PROVE  IInv'
<1> DEFINE k == job'[h]
<1>1. k = [NoJob EXCEPT !.at = "follow", !.ev = ev, !.call = c,
                        !.keys = SearchKeys(c, c \in WithId)]
  BY DEF IInv, Shape, Search
<1>2. /\ tool \in [Calls -> {"ready", "asking", "running", "closed"}]
      /\ counter \in Nat
  BY DEF IInv, Shape
<1>3. /\ tool' \in [Calls -> {"ready", "asking", "running", "closed"}]
      /\ tool'[c] = "closed" /\ \A d \in Calls \ {c} : tool'[d] = tool[d]
  BY <1>2
<1>4. \A d \in Calls : /\ tool[d] # "ready" => tool'[d] # "ready"
                       /\ tool[d] # "running" => tool'[d] = tool[d]
                       /\ tool[d] \in {"running", "closed"} => tool'[d] \in {"running", "closed"}
  BY <1>3
<1>5. \A i : Settled(i) => Settled(i)'
  BY <1>4, IntentFacts DEF IInv, Settled, Ids
<1>6. /\ job[h].n = 0 /\ job[h].taken = {} /\ job[h].ev = "none"
  BY DEF CanStart, Idle, IInv, AtWork, JobOK, KnownOK, Putting
<1>7. cast.overlap \/ \A g \in Hosts \ {h} : Idle(g)
  BY OthersIdle DEF IInv
<1>8. /\ SearchKeys(c, c \in WithId) \in Seq(Keys)
      /\ SearchKeys(c, c \in WithId)[1] = OwnKey(c)
      /\ \/ SearchKeys(c, c \in WithId) = <<ContentKey(c)>>
         \/ c \in WithId /\ SearchKeys(c, c \in WithId) = <<IdKey(c), ContentKey(c)>>
  BY KeyFacts DEF SearchKeys
<1>. HIDE DEF k
<1>9. /\ k \in Jobs /\ k.at = "follow" /\ k.ev = ev /\ k.call = c /\ k.intent = 0
      /\ k.keys = SearchKeys(c, c \in WithId) /\ k.n = 0 /\ k.names = {} /\ k.taken = {}
  BY <1>1, <1>8, NoJobFacts DEF Jobs, Ats, Evs, Searching
<1>10. job' \in [Hosts -> Jobs] /\ \A g \in Hosts \ {h} : job'[g] = job[g]
  BY <1>9, Moved DEF IInv, k, Shape
<1>11. Later(Hosts \ {h})
  <2>1. ASSUME NEW g \in Hosts \ {h}, job[g].ev = "pre"
        PROVE  tool'[job[g].call] = tool[job[g].call]
    BY <1>4, <2>1 DEF IInv, AtWork, JobOK, PutOK
  <2>. QED BY <1>2, <1>4, <1>5, <1>10, <2>1 DEF Later, Ids
<1>12. JobOK(job[h])'
  BY <1>3, <1>8, <1>9
  DEF JobOK, PutOK, KnownOK, SearchOK, SweepOK, EmitOK, Searching, Putting, TakesOwn, k
<1>13. AloneOK(job[h])' /\ Ahead(job'[h])
  BY <1>8, <1>9 DEF AloneOK, Putting, Ahead, k
<1>. QED
  <2> DEFINE others == Hosts \ {h}
  <2>1. others \in SUBSET Hosts /\ \A g \in Hosts \ others : g = h
    OBVIOUS
  <2>. HIDE DEF others
  <2>2. Later(others) /\ (cast.overlap \/ \A g \in others : Idle(g))
    BY <1>7, <1>11 DEF others
  <2>3. \A g \in Hosts \ others :
           /\ job[g].taken = {} /\ job[g].n = 0
           /\ JobOK(job[g])' /\ AloneOK(job[g])'
           /\ job'[g].at = "follow" /\ job'[g].ev # "pre" /\ Ahead(job'[g])
           /\ job'[g].n = 0
    BY <1>6, <1>9, <1>12, <1>13, <2>1 DEF k
  <2>. QED BY <1>3, <1>4, <1>10, <2>1, <2>2, <2>3, ClientKeeps

\* A completion starts.
LEMMA PostToolUseStep ==
    ASSUME IInv, NEW h \in Hosts, NEW c \in Calls, PostToolUse(h, c) PROVE IInv'
  BY SearchStarts DEF PostToolUse, Start, store

\* A refusal starts.
LEMMA PermissionDeniedStep ==
    ASSUME IInv, NEW h \in Hosts, NEW c \in Calls, PermissionDenied(h, c) PROVE IInv'
  BY SearchStarts DEF PermissionDenied, Start, store

\* A process that takes a counter holds none, and every number is below it.
LEMMA CounterFacts ==
    ASSUME IInv, NEW h \in Hosts, job[h].at = "counter"
    PROVE  /\ job[h] \in Jobs /\ JobOK(job[h]) /\ job[h].n = 0 /\ job[h].taken = {}
           /\ job[h].names = {}
           /\ cast.overlap \/ \A g \in Hosts \ {h} : Idle(g)
           /\ counter \in Nat
           /\ \A i \in Ids : intents[i].counter \in 0..counter /\ intents[i].call \in Calls
           /\ \A r \in receipts : r.counter \in 1..counter
           /\ \A g \in Hosts : job[g].n \in 0..counter
<1>1. job[h] \in Jobs /\ JobOK(job[h])
  BY DEF IInv, Shape, AtWork
<1>2. cast.overlap \/ \A g \in Hosts \ {h} : Idle(g)
  BY OthersIdle DEF IInv, Idle
<1>3. job[h].n = 0 /\ job[h].taken = {} /\ job[h].names = {}
  BY <1>1 DEF JobOK, PutOK, KnownOK, SweepOK, Putting
<1>4. \A i \in Ids : intents[i].counter \in 0..counter /\ intents[i].call \in Calls
  <2>1. intents \in Seq([call : Calls, counter : 0..counter])
    BY DEF IInv, Shape
  <2>2. \A i \in Ids : intents[i] \in [call : Calls, counter : 0..counter]
    BY <2>1, SeqElements DEF Ids
  <2>. QED BY <2>2
<1>. QED BY <1>1, <1>2, <1>3, <1>4 DEF IInv, Shape

\* The intent of a PreToolUse hook gets the next number.
LEMMA NumberIntentStep ==
    ASSUME IInv, NEW h \in Hosts, NextCounter(h), job[h].ev = "pre" PROVE IInv'
<1> DEFINE j == job[h]
           k == job'[h]
           m == j.intent
<1>1. /\ UNCHANGED <<cast, tool, json, receipts, gone, faults, links, dirs>>
      /\ j.at = "counter" /\ job' = [job EXCEPT ![h] = k]
      /\ counter' = counter + 1
      /\ intents' = [intents EXCEPT ![m].counter = counter + 1]
      /\ k = [j EXCEPT !.n = counter + 1, !.at = "mkdir"]
  BY DEF IInv, Shape, NextCounter, store, client
<1>2. /\ j \in Jobs /\ JobOK(j) /\ j.n = 0 /\ j.taken = {} /\ counter \in Nat
      /\ \A i \in Ids : intents[i].counter \in 0..counter /\ intents[i].call \in Calls
      /\ \A r \in receipts : r.counter \in 1..counter
      /\ \A g \in Hosts : job[g].n \in 0..counter
      /\ cast.overlap \/ \A g \in Hosts \ {h} : Idle(g)
  BY <1>1, CounterFacts
<1>3. /\ j.call \in Calls /\ tool[j.call] = "asking" /\ j.bucket = OwnKey(j.call)
      /\ m \in Ids /\ intents[m].call = j.call /\ intents[m].counter = 0 /\ j.names = {}
  BY <1>2 DEF JobOK, PutOK
<1>4. intents \in Seq([call : Calls, counter : 0..counter])
  BY DEF IInv, Shape
<1>5. /\ intents' \in Seq([call : Calls, counter : 0..counter'])
      /\ Ids' = Ids
      /\ \A i \in Ids \ {m} : intents'[i] = intents[i]
      /\ intents'[m].call = j.call /\ intents'[m].counter = counter + 1
  <2>1. /\ DOMAIN intents' = DOMAIN intents
        /\ intents'[m] = [intents[m] EXCEPT !.counter = counter + 1]
        /\ \A i \in Ids \ {m} : intents'[i] = intents[i]
    BY <1>1, <1>3 DEF Ids
  <2>2. \A i \in Ids : intents[i] \in [call : Calls, counter : 0..counter]
    BY <1>4, SeqElements DEF Ids
  <2>3. [intents[m] EXCEPT !.counter = counter + 1] \in [call : Calls, counter : 0..(counter + 1)]
    BY <1>2, <1>3, <2>2
  <2>4. \A i \in Ids : intents'[i] \in [call : Calls, counter : 0..(counter + 1)]
    BY <1>2, <2>1, <2>2, <2>3
  <2>5. DOMAIN intents = 1..Len(intents) /\ Len(intents) \in Nat
    BY <1>4, SeqElements
  <2>6. intents' \in Seq([call : Calls, counter : 0..(counter + 1)])
    <3> DEFINE R == [call : Calls, counter : 0..(counter + 1)]
               L == Len(intents)
    <3>. HIDE DEF R, L
    <3>1. intents' \in [1..L -> R]
      BY <1>1, <2>1, <2>4, <2>5 DEF Ids, R, L
    <3>2. L \in Nat
      BY <2>5 DEF L
    <3>3. intents' \in Seq(R)
      BY <3>1, <3>2
    <3>. QED BY <3>3 DEF R
  <2>7. intents[m] \in [call : Calls, counter : 0..counter]
    BY <1>3, <2>2
  <2>. QED BY <1>1, <1>3, <2>1, <2>6, <2>7 DEF Ids
<1>17. m = j.intent /\ j.ev = "pre"
  OBVIOUS
<1>. HIDE DEF k, j, m
<1>6. /\ k \in Jobs /\ k.at = "mkdir" /\ k.ev = "pre" /\ k.call = j.call /\ k.intent = m
      /\ k.bucket = j.bucket /\ k.n = counter + 1 /\ k.names = {} /\ k.taken = {}
  <2>1. j \in Jobs /\ counter + 1 \in Nat /\ "mkdir" \in Ats
    BY <1>2 DEF Ats, Putting
  <2>2. k = [j EXCEPT !.n = counter + 1, !.at = "mkdir"]
    BY <1>1
  <2>3. k \in Jobs /\ k.at = "mkdir" /\ k.n = counter + 1 /\ k.ev = j.ev /\ k.call = j.call
        /\ k.intent = j.intent /\ k.bucket = j.bucket /\ k.names = j.names /\ k.taken = j.taken
    BY <2>1, <2>2 DEF Jobs
  <2>4. j.ev = "pre"
    BY <1>17
  <2>. QED BY <1>2, <1>3, <1>17, <2>3, <2>4
<1>7. job' \in [Hosts -> Jobs] /\ \A g \in Hosts \ {h} : job'[g] = job[g]
  BY <1>1, <1>6, Moved DEF IInv, k
<1>8. ~Settled(m) /\ \A i : Settled(i) => i \in Ids \ {m} /\ Settled(i)'
  BY <1>1, <1>3, <1>5 DEF Settled
<1>9. Later(Hosts \ {h})
  <2>1. ASSUME NEW g \in Hosts \ {h}, job[g].ev = "pre"
        PROVE  intents'[job[g].intent].counter = intents[job[g].intent].counter
    <3>1. /\ job[g].call # j.call /\ job[g].intent \in Ids
          /\ intents[job[g].intent].call = job[g].call
      BY <2>1 DEF IInv, AtWork, JobOK, PutOK, j
    <3>. QED BY <1>3, <1>5, <3>1
  <2>2. \A i \in Ids : i \in Ids' /\ intents'[i].call = intents[i].call
    BY <1>3, <1>5
  <2>. QED BY <1>1, <1>2, <1>5, <1>7, <1>8, <2>1, <2>2 DEF Later
<1>10. Shape'
  <2>1. \A g \in Hosts : job'[g].n \in 0..(counter + 1)
    BY <1>2, <1>6, <1>7 DEF k
  <2>2. gone' \subseteq 1..counter'
    BY <1>1, <1>2 DEF IInv, Shape
  <2>3. \A r \in receipts' : r.counter \in 1..counter'
    BY <1>1, <1>2
  <2>. QED BY <1>1, <1>2, <1>5, <1>7, <2>1, <2>2, <2>3 DEF IInv, Shape
<1>11. Stored'
  <2>1. \A i \in Ids : intents'[i].call = intents[i].call
    BY <1>3, <1>5
  <2>2. /\ \A i, x \in Ids : intents'[i].call = intents'[x].call => i = x
        /\ \A i \in Ids : tool'[intents'[i].call] # "ready"
    BY <1>1, <2>1 DEF IInv, Stored
  <2>3. \A i, x \in Ids : intents'[i].counter = intents'[x].counter
                          /\ intents'[i].counter # 0 => i = x
    <3>1. \A i \in Ids \ {m} : intents'[i].counter # counter + 1
      BY <1>2, <1>5, SMTT(20)
    <3>. QED BY <1>5, <3>1 DEF IInv, Stored
  <2>4. \A q \in Keys : \A i \in json'[q] : Settled(i)' /\ q = OwnKey(intents'[i].call)
    BY <1>1, <1>8, <2>1, KnownFacts DEF IInv, Stored
  <2>5. \A q \in Keys : \A i \in links'[q] : q = ContentKey(intents'[i].call)
    BY <1>1, <2>1 DEF IInv, Stored, Shape
  <2>. QED BY <1>5, <2>2, <2>3, <2>4, <2>5 DEF Stored
<1>12. AtWork'
  <2>1. JobOK(job[h])'
    BY <1>1, <1>2, <1>3, <1>5, <1>6
    DEF JobOK, PutOK, KnownOK, SearchOK, SweepOK, EmitOK, Searching, Putting, TakesOwn, k
  <2>2. \A g \in Hosts \ {h} : ~(job[g].ev = "pre" /\ job[g].call = j.call)
    BY DEF IInv, AtWork, j
  <2>. QED BY <1>6, <1>9, <2>1, <2>2, AtWorkKeeps DEF IInv, k
<1>13. Numbered'
  <2>1. \A i \in Ids' : \/ intents'[i].counter > counter
                        \/ i \in Ids /\ intents'[i].counter = intents[i].counter
    BY <1>2, <1>5
  <2>. QED BY <1>1, <1>6, <1>9, <2>1, NumberedKeeps DEF OwnsNumber, k
<1>14. Alone'
  <2>1. AloneOK(job[h])'
    BY <1>6 DEF AloneOK, Putting, k
  <2>2. ~cast.overlap => \A q \in Keys : \A i \in json'[q] : ~Closed(i)'
    BY <1>1 DEF IInv, Alone, Closed
  <2>. QED BY <1>1, <1>2, <1>9, <2>1, <2>2, AloneKeeps
<1>15. Searched'
  BY <1>1, <1>6, <1>9, SearchedKeeps DEF k, IInv, Shape
<1>16. AllHeld'
  <2>1. ASSUME NEW n \in 1..counter PROVE Held(n)'
    <3>1. ~Has(job[h], n) /\ Held(n) /\ n \in Nat \ {0}
      BY <1>2 DEF Has, IInv, AllHeld, j
    <3>. QED BY <1>1, <1>9, <3>1, HeldKeeps
  <2>2. ASSUME NEW n, n = counter + 1 PROVE Held(n)'
    <3>1. Has(job[h], n)'
      BY <1>2, <1>6, <2>2 DEF Has, k
    <3>. QED BY <3>1 DEF Held
  <2>3. \A n \in 1..counter' : n \in 1..counter \/ n = counter + 1
    BY <1>1, <1>2
  <2>. QED BY <1>1, <2>1, <2>2, <2>3 DEF IInv, AllHeld
<1>. QED BY <1>10, <1>11, <1>12, <1>13, <1>14, <1>15, <1>16 DEF IInv

\* A receipt of no intent, or of a prompt, gets the next number.
LEMMA NumberReceiptStep ==
    ASSUME IInv, NEW h \in Hosts, NextCounter(h), job[h].ev # "pre" PROVE IInv'
<1> DEFINE j == job[h]
           k == job'[h]
<1>1. /\ UNCHANGED <<cast, tool, intents, json, receipts, gone, faults, links, dirs>>
      /\ j.at = "counter" /\ j.ev # "pre" /\ job' = [job EXCEPT ![h] = k]
      /\ counter' = counter + 1
      /\ k = [j EXCEPT !.n = counter + 1, !.at = "emit"]
  BY DEF IInv, Shape, NextCounter, store, client
<1>2. /\ j \in Jobs /\ JobOK(j) /\ j.n = 0 /\ j.taken = {} /\ j.names = {} /\ counter \in Nat
      /\ \A i \in Ids : intents[i].counter \in 0..counter /\ intents[i].call \in Calls
      /\ \A r \in receipts : r.counter \in 1..counter
      /\ \A g \in Hosts : job[g].n \in 0..counter
      /\ cast.overlap \/ \A g \in Hosts \ {h} : Idle(g)
  BY <1>1, CounterFacts
<1>. HIDE DEF k, j
<1>3. /\ k \in Jobs /\ k.at = "emit" /\ k.ev = j.ev /\ k.call = j.call /\ k.intent = j.intent
      /\ k.n = counter + 1 /\ k.names = {} /\ k.taken = {}
  <2>1. j \in Jobs /\ counter + 1 \in Nat /\ "emit" \in Ats
    BY <1>2 DEF Ats
  <2>. QED BY <1>1, <1>2, <2>1 DEF Jobs
<1>4. TakesOwn(j.ev, j.intent) /\ j.ev \in Searching \cup {"marker", "end"}
  BY <1>1, <1>2 DEF JobOK, EmitOK
<1>5. job' \in [Hosts -> Jobs] /\ \A g \in Hosts \ {h} : job'[g] = job[g]
  BY <1>1, <1>3, Moved DEF IInv, k
<1>6. Ids' = Ids /\ \A i : Settled(i) => i \in Ids /\ Settled(i)'
  BY <1>1 DEF Settled, Ids
<1>7. Later(Hosts \ {h})
  BY <1>1, <1>2, <1>5, <1>6 DEF Later
<1>8. Shape'
  <2>1. \A g \in Hosts : job'[g].n \in 0..(counter + 1)
    BY <1>2, <1>3, <1>5 DEF k
  <2>2. gone' \subseteq 1..counter' /\ \A r \in receipts' : r.counter \in 1..counter'
    BY <1>1, <1>2 DEF IInv, Shape
  <2>3. intents' \in Seq([call : Calls, counter : 0..counter'])
    <3> DEFINE R == [call : Calls, counter : 0..counter']
               Q == [call : Calls, counter : 0..counter]
               L == Len(intents)
    <3>1. intents \in Seq(Q)
      BY DEF IInv, Shape
    <3>2. Q \subseteq R
      BY <1>1, <1>2
    <3>. HIDE DEF Q, R, L
    <3>3. L \in Nat /\ intents \in [1..L -> Q]
      BY <3>1 DEF L
    <3>4. intents \in [1..L -> R]
      BY <3>2, <3>3
    <3>5. intents \in Seq(R)
      BY <3>3, <3>4
    <3>. QED BY <1>1, <3>5 DEF R
  <2>. QED BY <1>1, <1>2, <1>5, <1>6, <2>1, <2>2, <2>3 DEF IInv, Shape
<1>9. Stored'
  BY <1>1, <1>6 DEF IInv, Stored
<1>10. AtWork'
  <2>1. JobOK(job[h])'
    BY <1>1, <1>2, <1>3, <1>4, <1>6
    DEF JobOK, PutOK, KnownOK, SearchOK, SweepOK, EmitOK, Searching, Putting, TakesOwn, k
  <2>. QED BY <1>1, <1>3, <1>7, <2>1, AtWorkKeeps DEF IInv, k
<1>11. Numbered'
  <2>1. ASSUME NEW g \in Hosts, OwnsNumber(job'[g])
        PROVE  g # h => job'[g] = job[g] /\ OwnsNumber(job[g]) /\ job[g].n \in 0..counter
    <3>1. job[g].n \in 0..counter
      BY <1>2
    <3>2. CASE g # h
      <4>1. job'[g] = job[g]
        BY <1>5, <3>2
      <4>2. OwnsNumber(job[g])
        BY <2>1, <4>1
      <4>. QED BY <3>1, <4>1, <4>2
    <3>. QED BY <3>2
  <2>2. ASSUME NEW g \in Hosts, OwnsNumber(job'[g])
        PROVE  /\ \A i \in Ids' : intents'[i].counter # job'[g].n
               /\ \A r \in receipts' : r.counter # job'[g].n
               /\ \A f \in Hosts : OwnsNumber(job'[f]) /\ job'[f].n = job'[g].n => f = g
    <3>1. CASE g = h
      <4>1. job'[g].n = counter + 1
        BY <1>3, <3>1 DEF k
      <4>2. \A f \in Hosts \ {h} : job'[f].n # counter + 1
        BY <1>2, <1>5
      <4>3. \A i \in Ids : intents[i].counter # counter + 1
        BY <1>2
      <4>4. \A r \in receipts : r.counter # counter + 1
        BY <1>2
      <4>. QED BY <1>1, <1>6, <3>1, <4>1, <4>2, <4>3, <4>4
    <3>2. CASE g # h
      <4>1. job'[g] = job[g] /\ OwnsNumber(job[g]) /\ job[g].n # counter + 1
        BY <1>2, <1>5, <2>2, <3>2
      <4>2. job'[h].n = counter + 1
        BY <1>3 DEF k
      <4>3. \A f \in Hosts : OwnsNumber(job'[f]) /\ job'[f].n = job'[g].n => f = g
        BY <1>5, <4>1, <4>2 DEF IInv, Numbered
      <4>4. \A i \in Ids' : intents'[i].counter # job[g].n
        BY <1>1, <1>6, <4>1 DEF IInv, Numbered
      <4>5. \A r \in receipts : r.counter # job[g].n
        BY <4>1 DEF IInv, Numbered
      <4>6. \A r \in receipts' : r.counter # job[g].n
        BY <1>1, <4>1, <4>5
      <4>. QED BY <4>1, <4>3, <4>4, <4>6
    <3>. QED BY <3>1, <3>2
  <2>. QED BY <1>1, <1>6, <2>2 DEF IInv, Numbered, OwnsNumber, TakesOwn
<1>12. Alone'
  <2>1. AloneOK(job[h])'
    BY <1>3, <1>4 DEF AloneOK, Putting, OwnsNumber, k
  <2>2. ~cast.overlap => \A q \in Keys : \A i \in json'[q] : ~Closed(i)'
    BY <1>1 DEF IInv, Alone, Closed
  <2>. QED BY <1>1, <1>2, <1>7, <2>1, <2>2, AloneKeeps
<1>13. Searched'
  <2>1. (job[h].ev = "post" /\ ~Ahead(job[h]) => Missing(job[h].call))'
    <3>1. SUFFICES ASSUME j.ev = "post" PROVE Missing(job[h].call)'
      BY <1>3 DEF k
    <3>2. j.intent = 0
      BY <1>4, <3>1 DEF TakesOwn
    <3>3. Missing(j.call)
      BY <1>1, <3>1, <3>2 DEF Ahead, IInv, Searched, j
    <3>4. k.call = j.call
      BY <1>3
    <3>. QED BY <1>1, <3>3, <3>4 DEF Missing, RacedForOne, Ids, ContentKey, k
  <2>. QED BY <1>1, <1>7, <2>1, SearchedKeeps DEF IInv, Shape
<1>14. AllHeld'
  <2>1. ASSUME NEW n \in 1..counter PROVE Held(n)'
    <3>1. ~Has(job[h], n) /\ Held(n) /\ n \in Nat \ {0}
      BY <1>2 DEF Has, IInv, AllHeld, j
    <3>. QED BY <1>1, <1>7, <3>1, HeldKeeps
  <2>2. ASSUME NEW n, n = counter + 1 PROVE Held(n)'
    <3>1. Has(job[h], n)'
      BY <1>2, <1>3, <2>2 DEF Has, k
    <3>. QED BY <3>1 DEF Held
  <2>3. \A n \in 1..counter' : n \in 1..counter \/ n = counter + 1
    BY <1>1, <1>2
  <2>. QED BY <1>1, <2>1, <2>2, <2>3 DEF IInv, AllHeld
<1>. QED BY <1>8, <1>9, <1>10, <1>11, <1>12, <1>13, <1>14 DEF IInv

\* A PreToolUse hook ends and its tool runs: its intent is recorded, or its
\* number, if it has one, is gone.
LEMMA PreEndsKeeps ==
    ASSUME IInv, NEW h \in Hosts, job[h].ev = "pre", PreEnds(h),
           UNCHANGED <<cast, counter, intents, receipts, links, dirs>>,
           json' \in [Keys -> SUBSET Ids],
           \A q \in Keys : /\ json[q] \subseteq json'[q]
                           /\ \A i \in json'[q] \ json[q] : /\ q = job[h].bucket
                                                            /\ i = job[h].intent
                                                            /\ job[h].n # 0,
           gone \subseteq gone', gone' \subseteq gone \cup ({job[h].n} \ {0}),
           job[h].n # 0 => \/ job[h].n \in gone'
                           \/ job[h].intent \in json'[job[h].bucket],
           faults' \in Nat, faults <= faults',
           gone' # gone => cast.overlap \/ faults' > 0
    PROVE  IInv'
<1> DEFINE j == job[h]
           c == j.call
<1>0. PICK m : m = j.intent
  OBVIOUS
<1>1. /\ tool' = [tool EXCEPT ![c] = "running"] /\ job' = [job EXCEPT ![h] = NoJob]
      /\ job' \in [Hosts -> Jobs] /\ job'[h] = NoJob
      /\ \A g \in Hosts \ {h} : job'[g] = job[g]
  BY NoJobFacts DEF PreEnds, IInv, Shape
<1>2. /\ JobOK(j) /\ j.ev = "pre" /\ c \in Calls /\ tool[c] = "asking"
      /\ m \in Ids /\ intents[m].call = c /\ intents[m].counter = j.n
      /\ j.bucket = OwnKey(c) /\ j.taken = {}
      /\ j.n \in 0..counter
  <2>1. JobOK(j) /\ j.n \in 0..counter
    BY DEF IInv, AtWork, Shape
  <2>. QED BY <1>0, <2>1 DEF JobOK, PutOK
<1>3. /\ tool \in [Calls -> {"ready", "asking", "running", "closed"}]
      /\ counter \in Nat /\ faults \in Nat
  BY DEF IInv, Shape
<1>4. /\ tool' \in [Calls -> {"ready", "asking", "running", "closed"}]
      /\ tool'[c] = "running" /\ \A d \in Calls \ {c} : tool'[d] = tool[d]
  BY <1>1, <1>2, <1>3
<1>5. ~Settled(m) /\ j.at # "idle"
  BY <1>2 DEF Settled, JobOK, PutOK, Putting
<1>6. Ids' = Ids /\ \A i : Settled(i) => i \in Ids /\ Settled(i)'
  BY <1>2, <1>4, IntentFacts DEF Settled, Ids, IInv
<1>7. j.n # 0 => Settled(m)'
  BY <1>2, <1>4, <1>6 DEF Settled
<1>8. Later(Hosts \ {h})
  <2>1. ASSUME NEW g \in Hosts \ {h}, job[g].ev = "pre"
        PROVE  tool'[job[g].call] = tool[job[g].call]
    <3>1. job[g].call # c /\ job[g].call \in Calls
      BY <1>2, <2>1 DEF IInv, AtWork, JobOK, PutOK
    <3>. QED BY <1>4, <3>1
  <2>2. \A d \in Calls : tool[d] = "closed" => tool'[d] = "closed"
    BY <1>2, <1>4
  <2>. QED BY <1>1, <1>3, <1>6, <2>1, <2>2 DEF Later, Ids
<1>9. cast.overlap \/ \A g \in Hosts \ {h} : Idle(g)
  BY <1>5, OthersIdle DEF IInv, Idle
<1>. HIDE DEF j, c
<1>10. Shape'
  <2>1. \A g \in Hosts : job'[g].n \in 0..counter
    BY <1>1, <1>3, NoJobFacts DEF IInv, Shape
  <2>2. gone' \subseteq 1..counter
    BY <1>2, <1>3 DEF IInv, Shape, j
  <2>. QED BY <1>1, <1>4, <1>6, <2>1, <2>2 DEF IInv, Shape
<1>11. Stored'
  <2>1. \A i \in Ids : tool'[intents[i].call] # "ready"
    BY <1>2, <1>4, IntentFacts DEF IInv, Stored
  <2>2. ASSUME NEW q \in Keys, NEW i \in json'[q]
        PROVE  Settled(i)' /\ q = OwnKey(intents[i].call)
    <3>1. CASE i \in json[q]
      BY <1>6, <3>1 DEF IInv, Stored
    <3>2. CASE i \notin json[q]
      <4>1. q = j.bucket /\ i = m /\ j.n # 0
        BY <1>0, <3>2 DEF j
      <4>. QED BY <1>2, <1>7, <4>1
    <3>. QED BY <3>1, <3>2
  <2>. QED BY <1>6, <2>1, <2>2 DEF IInv, Stored
<1>12. AtWork'
  <2>1. JobOK(job[h])'
    BY <1>1, NoJobFacts
    DEF JobOK, PutOK, KnownOK, SearchOK, SweepOK, EmitOK, Searching, Putting
  <2>. QED BY <1>1, <1>8, <2>1, NoJobFacts, AtWorkKeeps DEF IInv
<1>13. Numbered'
  BY <1>1, <1>6, <1>8, NoJobFacts, NumberedKeeps DEF OwnsNumber
<1>14. Alone'
  <2>1. AloneOK(job[h])'
    BY <1>1, NoJobFacts DEF AloneOK, Putting
  <2>2. ASSUME ~cast.overlap, NEW q \in Keys, NEW i \in json'[q] PROVE ~Closed(i)'
    <3>1. CASE i \in json[q]
      BY <2>2, <3>1 DEF IInv, Alone, Closed
    <3>2. CASE i = m
      BY <1>2, <1>5, <3>2, IntentFacts DEF IInv, Numbered, Closed, OwnReceipt
    <3>. QED BY <1>0, <3>1, <3>2 DEF j
  <2>. QED BY <1>8, <1>9, <2>1, <2>2, AloneKeeps
<1>15. Searched'
  <2>1. \A q \in Keys : \A i \in json'[q] : i \in json[q] \/ tool[intents[i].call] # "closed"
    BY <1>0, <1>2 DEF j
  <2>. QED BY <1>1, <1>8, <2>1, NoJobFacts, SearchedKeeps
<1>16. AllHeld'
  <2>1. ASSUME NEW n \in 1..counter PROVE Held(n)'
    <3>1. Held(n) /\ n \in Nat \ {0}
      BY DEF IInv, AllHeld
    <3>2. CASE Has(job[h], n)
      <4>1. n = j.n /\ j.n # 0
        BY <1>2, <3>2 DEF Has, j
      <4>2. CASE j.n \in gone'
        BY <4>1, <4>2 DEF Held
      <4>3. CASE m \in json'[j.bucket]
        <5>1. j.bucket \in Keys
          BY <1>2, KeyFacts
        <5>. QED BY <1>2, <4>1, <4>3, <5>1 DEF Held
      <4>. QED BY <1>0, <4>1, <4>2, <4>3 DEF j
    <3>3. CASE ~Has(job[h], n)
      BY <1>8, <3>1, <3>3, HeldKeeps
    <3>. QED BY <3>2, <3>3
  <2>2. gone' # {} => cast.overlap \/ faults' > 0
    BY <1>3 DEF IInv, AllHeld
  <2>. QED BY <2>1, <2>2 DEF AllHeld
<1>. QED BY <1>10, <1>11, <1>12, <1>13, <1>14, <1>15, <1>16 DEF IInv

\* The temp file is written, or its bucket is gone and the intent with it.
LEMMA PutTempStep == ASSUME IInv, NEW h \in Hosts, PutTemp(h) PROVE IInv'
<1> DEFINE j == job[h]
           k == job'[h]
<1>1. /\ UNCHANGED <<cast, counter, intents, json, receipts, faults, links, dirs>>
      /\ j.at = "temp"
  BY DEF PutTemp, store
<1>2. j.at \in Putting
  BY <1>1 DEF Putting
<1>3. j \in Jobs /\ JobOK(j) /\ j.ev = "pre" /\ j.bucket \in Keys /\ j.n # 0 /\ j.taken = {}
  BY <1>2, PutFacts
<1>4. CASE j.bucket \in dirs
  <2>1. /\ UNCHANGED <<tool, gone>> /\ job' = [job EXCEPT ![h] = k]
        /\ k = [j EXCEPT !.at = "rename"]
    BY <1>4 DEF PutTemp, Goes, IInv, Shape
  <2>. HIDE DEF k, j
  <2>2. /\ k \in Jobs /\ k.at = "rename" /\ k.ev = "pre" /\ k.n = j.n /\ k.taken = {}
        /\ k.intent = j.intent /\ k.names = j.names /\ k.bucket = j.bucket /\ k.call = j.call
    BY <1>3, <2>1 DEF Jobs, Ats, Putting
  <2>3. JobOK(k)
    BY <1>1, <1>3, <2>2
    DEF JobOK, PutOK, KnownOK, SearchOK, SweepOK, EmitOK, Searching, Putting, TakesOwn
  <2>4. cast.overlap \/ ((\A g \in Hosts \ {h} : Idle(g)) /\ AloneOK(job[h])')
    <3>1. CASE ~cast.overlap
      BY <1>1, <1>2, <1>4, <2>2, <3>1, PutFacts DEF AloneOK, Putting, j, k
    <3>. QED BY <3>1
  <2>. QED BY <1>1, <1>3, <2>1, <2>2, <2>3, <2>4, QuietKeeps DEF j, k, IInv, Shape, Stored
<1>5. CASE j.bucket \notin dirs
  <2>1. PreEnds(h) /\ gone' = gone \cup {j.n}
    BY <1>5 DEF PutTemp
  <2>2. cast.overlap
    BY <1>1, <1>2, <1>5, PutFacts DEF AloneOK, Putting
  <2>. QED BY <1>1, <1>3, <2>1, <2>2, PreEndsKeeps DEF IInv, Shape
<1>. QED BY <1>4, <1>5

\* The rename records the intent in its bucket.
LEMMA PutRenameStep == ASSUME IInv, NEW h \in Hosts, PutRename(h) PROVE IInv'
<1> DEFINE j == job[h]
<1>1. /\ UNCHANGED <<cast, counter, intents, receipts, gone, faults, links, dirs>>
      /\ j.at = "rename" /\ PreEnds(h)
      /\ json' = [json EXCEPT ![j.bucket] = @ \cup {j.intent}]
  BY DEF PutRename
<1>2. j.at \in Putting
  BY <1>1 DEF Putting
<1>3. /\ j.ev = "pre" /\ j.bucket \in Keys /\ j.n # 0 /\ j.intent \in Ids
      /\ json \in [Keys -> SUBSET Ids]
  BY <1>2, PutFacts DEF IInv, Shape
<1>4. /\ json' \in [Keys -> SUBSET Ids] /\ json'[j.bucket] = json[j.bucket] \cup {j.intent}
      /\ \A q \in Keys \ {j.bucket} : json'[q] = json[q]
  BY <1>1, <1>3
<1>. QED BY <1>1, <1>3, <1>4, PreEndsKeeps DEF IInv, Shape

\* A record leaves the store into the hands of the process that removes it.
LEMMA RemoveKeeps ==
    ASSUME IInv, NEW h \in Hosts, NEW q \in Keys, NEW i \in Ids,
           UNCHANGED <<cast, tool, counter, intents, links, receipts, gone, faults>>,
           dirs' \subseteq dirs,
           json' = Unrecorded(q, i),
           job' = [job EXCEPT ![h] = job'[h]], job'[h] \in Jobs, JobOK(job'[h]),
           job'[h].n \in 0..counter, job'[h].ev # "pre",
           Settled(i) => Has(job'[h], intents[i].counter),
           \A n : Has(job[h], n) => Has(job'[h], n),
           ~OwnsNumber(job'[h]), job'[h].ev = "post" => Ahead(job'[h]),
           cast.overlap \/ ((\A g \in Hosts \ {h} : Idle(g)) /\ AloneOK(job[h])')
    PROVE  IInv'
<1>1. job' \in [Hosts -> Jobs] /\ \A g \in Hosts \ {h} : job'[g] = job[g]
  BY Moved DEF IInv
<1>2. /\ Ids' = Ids /\ (\A x : Settled(x) => x \in Ids /\ Settled(x)')
      /\ \A x : Settled(x)' => Settled(x)
  BY DEF Settled, Ids
<1>3. Later(Hosts \ {h})
  BY <1>1, <1>2 DEF Later, IInv, Shape
<1>4. /\ json' \in [Keys -> SUBSET Ids] /\ json'[q] = json[q] \ {i}
      /\ \A p \in Keys \ {q} : json'[p] = json[p]
  BY DEF IInv, Shape, Unrecorded
<1>5. \A p \in Keys : json'[p] \subseteq json[p]
  BY <1>4
<1>6. Shape'
  <2>1. \A g \in Hosts : job'[g].n \in 0..counter
    BY <1>1 DEF IInv, Shape
  <2>. QED BY <1>1, <1>2, <1>4, <2>1 DEF IInv, Shape
<1>7. Stored'
  BY <1>2, <1>5 DEF IInv, Stored
<1>8. AtWork'
  <2>1. JobOK(job[h])'
    BY <1>2 DEF JobOK, PutOK, KnownOK, SearchOK, SweepOK, EmitOK
  <2>. QED BY <1>3, <2>1, AtWorkKeeps DEF IInv
<1>9. Numbered'
  BY <1>2, <1>3, NumberedKeeps
<1>10. Alone'
  <2>1. ~cast.overlap => \A p \in Keys : \A x \in json'[p] : ~Closed(x)'
    BY <1>5 DEF IInv, Alone, Closed
  <2>. QED BY <1>3, <2>1, AloneKeeps
<1>11. Searched'
  <2>1. (job[h].ev = "post" /\ ~Ahead(job[h]) => Missing(job[h].call))'
    BY DEF Ahead
  <2>. QED BY <1>3, <1>4, <1>5, <2>1, SearchedKeeps
<1>12. AllHeld'
  <2>1. ASSUME NEW n \in 1..counter PROVE Held(n)'
    <3>1. Held(n) /\ n \in Nat \ {0}
      BY DEF IInv, AllHeld
    <3>2. \A m : Has(job'[h], m) => Has(job[h], m)'
      BY DEF Has
    <3>3. \A p \in Keys : \A x \in json[p] :
             x \in json'[p] \/ (intents[x].counter = n => Has(job[h], n)')
      BY <1>4, <3>2, KnownFacts
    <3>4. Has(job[h], n) => Held(n)'
      BY <3>2 DEF Held
    <3>. QED BY <1>3, <3>1, <3>3, <3>4, HeldKeeps
  <2>. QED BY <2>1 DEF IInv, AllHeld
<1>. QED BY <1>6, <1>7, <1>8, <1>9, <1>10, <1>11, <1>12 DEF IInv

\* An intent out of the store, hooks one at a time, is nowhere else in it.
LEMMA TakenIsAloft ==
    ASSUME IInv, ~cast.overlap, NEW q \in Keys, NEW i \in json[q],
           json' = Unrecorded(q, i), UNCHANGED <<intents, receipts>>
    PROVE  Aloft(i)'
<1>1. \A p \in Keys : i \in json[p] => p = q
  BY DEF IInv, Stored
<1>2. \A p \in Keys : i \notin json'[p]
  BY <1>1 DEF IInv, Shape, Unrecorded
<1>3. ~Closed(i)'
  BY DEF IInv, Alone, Closed
<1>. QED BY <1>2, <1>3 DEF Aloft

\* The claim of an intent, by the hook that closes its call.
LEMMA TakeStep == ASSUME IInv, NEW h \in Hosts, Take(h) PROVE IInv'
<1> DEFINE j == job[h]
           k == job'[h]
<1>1. /\ UNCHANGED <<cast, tool, counter, intents, links, receipts, gone, faults>>
      /\ j.at = "remove" /\ dirs' \subseteq dirs
      /\ job' = [job EXCEPT ![h] = k]
      /\ k = [j EXCEPT !.at = "emit", !.bucket = <<>>, !.n = intents[j.intent].counter]
      /\ json' = Unrecorded(j.bucket, j.intent)
  BY DEF IInv, Shape, Take, client, Drop
<1>2. /\ j \in Jobs /\ JobOK(j) /\ j.ev \in Searching /\ j.n = 0 /\ j.taken = {} /\ j.names = {}
      /\ j.bucket \in Keys /\ j.intent # 0 /\ Settled(j.intent) /\ j.call \in Calls
      /\ Like(intents[j.intent].call, j.call)
      /\ j.ev = "post" => tool[j.call] = "closed"
  <2>1. j \in Jobs /\ JobOK(j)
    BY DEF IInv, Shape, AtWork
  <2>. QED BY <1>1, <2>1 DEF JobOK, PutOK, KnownOK, SearchOK, SweepOK, Searching, Putting
<1>3. /\ j.intent \in Ids /\ intents[j.intent].counter \in 1..counter /\ counter \in Nat
  BY <1>2, IntentFacts DEF Settled, IInv, Shape
<1>4. cast.overlap \/ \A g \in Hosts \ {h} : Idle(g)
  BY <1>1, OthersIdle DEF IInv, Idle
<1>. HIDE DEF k, j
<1>5. /\ k \in Jobs /\ k.at = "emit" /\ k.ev = j.ev /\ k.call = j.call /\ k.intent = j.intent
      /\ k.n = intents[j.intent].counter /\ k.names = {} /\ k.taken = {}
  <2> DEFINE n == intents[j.intent].counter
  <2>1. n \in Nat /\ "emit" \in Ats /\ j \in Jobs
    BY <1>2, <1>3 DEF Ats
  <2>2. k = [j EXCEPT !.at = "emit", !.bucket = <<>>, !.n = n]
    BY <1>1
  <2>. HIDE DEF n
  <2>3. /\ k \in Jobs /\ k.at = "emit" /\ k.ev = j.ev /\ k.call = j.call /\ k.intent = j.intent
        /\ k.n = n /\ k.names = j.names /\ k.taken = j.taken
    BY <2>1, <2>2 DEF Jobs
  <2>. QED BY <1>2, <2>3 DEF n
<1>6. j.ev \in {"post", "denied"}
  BY <1>1, <1>2 DEF JobOK, SearchOK, Searching
<1>7. JobOK(k)
  BY <1>1, <1>2, <1>3, <1>5, <1>6
  DEF JobOK, PutOK, KnownOK, SearchOK, SweepOK, EmitOK, Searching, Putting, TakesOwn
<1>8. ~OwnsNumber(k) /\ Ahead(k) /\ Has(k, intents[j.intent].counter)
      /\ \A n : ~Has(j, n)
  BY <1>2, <1>3, <1>5, <1>6 DEF OwnsNumber, TakesOwn, Ahead, Has
<1>9. ASSUME ~cast.overlap PROVE AloneOK(job[h])'
  <2>1. j.intent \in json[j.bucket]
    BY <1>1, <1>9 DEF IInv, Alone, AloneOK, j
  <2>2. PICK i : i = j.intent
    OBVIOUS
  <2>3. Aloft(i)'
    BY <1>1, <1>2, <1>9, <2>1, <2>2, TakenIsAloft
  <2>4. \A x : x = i => Aloft(x)'
    BY <2>3
  <2>. QED BY <1>5, <2>2, <2>4 DEF AloneOK, Putting, Aloft, k
<1>10. cast.overlap \/ ((\A g \in Hosts \ {h} : Idle(g)) /\ AloneOK(job[h])')
  BY <1>4, <1>9
<1>11. k.n \in 0..counter /\ k.ev # "pre"
  BY <1>3, <1>5, <1>6
<1>. QED BY <1>1, <1>2, <1>3, <1>5, <1>7, <1>8, <1>10, <1>11, RemoveKeeps DEF j, k

\* The sweep removes a record it read, whoever else did meanwhile.
LEMMA SweepRemoveStep == ASSUME IInv, NEW h \in Hosts, SweepRemove(h) PROVE IInv'
<1> DEFINE j == job[h]
           k == job'[h]
<1>1. /\ UNCHANGED <<cast, tool, counter, intents, links, receipts, gone, faults, dirs>>
      /\ j.at = "take" /\ job' = [job EXCEPT ![h] = k]
      /\ k = [j EXCEPT !.at = "names", !.taken = @ \cup {j.intent}]
      /\ json' = Unrecorded(j.bucket, j.intent)
  BY DEF IInv, Shape, SweepRemove, client
<1>2. /\ j \in Jobs /\ JobOK(j) /\ j.n = 0 /\ j.bucket \in Keys /\ j.intent # 0
      /\ j.ev \in {"end", "recover"} /\ Settled(j.intent)
      /\ \A x \in j.names \cup j.taken : Settled(x)
      /\ cast.overlap \/ ((\A g \in Hosts \ {h} : Idle(g)) /\ AloneOK(j))
  <2>1. j \in Jobs /\ JobOK(j) /\ j.ev \in {"end", "recover"} /\ j.n = 0
    BY <1>1, SweepFacts DEF Sweeps
  <2>2. cast.overlap \/ ((\A g \in Hosts \ {h} : Idle(g)) /\ AloneOK(j))
    BY <1>1, SweepFacts DEF Sweeps
  <2>. QED BY <1>1, <2>1, <2>2 DEF JobOK, KnownOK, SweepOK
<1>3. j.intent \in Ids /\ j.intent \in Nat /\ counter \in Nat
  BY <1>2, IntentFacts DEF Settled, IInv, Shape
<1>. HIDE DEF k, j
<1>5. /\ k \in Jobs /\ k.at = "names" /\ k.ev = j.ev /\ k.call = j.call /\ k.intent = j.intent
      /\ k.n = 0 /\ k.names = j.names /\ k.taken = j.taken \cup {j.intent}
      /\ k.bucket = j.bucket
  BY <1>1, <1>2, <1>3 DEF Jobs, Ats
<1>7. JobOK(k)
  BY <1>1, <1>2, <1>5
  DEF JobOK, PutOK, KnownOK, SearchOK, SweepOK, EmitOK, Searching, Putting, TakesOwn
<1>8. ~OwnsNumber(k) /\ Has(k, intents[j.intent].counter)
      /\ \A n : Has(j, n) => Has(k, n)
  BY <1>2, <1>5 DEF OwnsNumber, Has
<1>9. ASSUME ~cast.overlap PROVE AloneOK(job[h])'
  <2>1. j.intent \in json[j.bucket] /\ AloneOK(j)
    BY <1>1, <1>2, <1>9 DEF AloneOK
  <2>2. PICK i : i = j.intent
    OBVIOUS
  <2>3. json' = Unrecorded(j.bucket, i)
    BY <1>1, <2>2
  <2>4. \A x : x = i => Aloft(x)'
    BY <1>1, <1>2, <1>9, <2>1, <2>2, <2>3, TakenIsAloft
  <2>5. /\ json'[j.bucket] = json[j.bucket] \ {i}
        /\ \A q \in Keys : json'[q] \subseteq json[q]
    BY <1>2, <2>3 DEF Unrecorded, IInv, Shape
  <2>6. \A x \in j.taken : Aloft(x)'
    BY <1>1, <2>1, <2>5 DEF AloneOK, Aloft, Closed
  <2>7. k.names \subseteq json'[k.bucket]
    <3>1. i \notin j.names
      BY <1>1, <1>2, <2>2 DEF JobOK, SweepOK
    <3>2. j.names \subseteq json[j.bucket]
      BY <1>1, <2>1 DEF AloneOK
    <3>. QED BY <1>5, <2>5, <3>1, <3>2
  <2>8. \A x \in k.taken : Aloft(x)'
    BY <1>5, <2>2, <2>4, <2>6
  <2>. QED BY <1>5, <2>7, <2>8 DEF AloneOK, Putting, Aloft, Closed, k
<1>10. cast.overlap \/ ((\A g \in Hosts \ {h} : Idle(g)) /\ AloneOK(job[h])')
  BY <1>2, <1>9
<1>11. k.n \in 0..counter /\ k.ev # "pre" /\ k.ev # "post"
  BY <1>2, <1>3, <1>5
<1>. QED BY <1>1, <1>2, <1>3, <1>5, <1>7, <1>8, <1>10, <1>11, RemoveKeeps DEF j, k

\* A receipt is spooled: of an intent nothing else can close, or under a
\* number of its own.
LEMMA SpoolKeeps ==
    ASSUME IInv, NEW h \in Hosts, NEW r \in Receipts,
           UNCHANGED <<cast, tool, counter, intents, json, links, dirs, gone, faults>>,
           receipts' = receipts \cup {r}, r.counter \in 1..counter,
           r.intent # 0 => /\ Settled(r.intent) /\ r.call \in Calls
                           /\ Like(intents[r.intent].call, r.call),
           r.kind = "post_only" => r.call \in Calls /\ Missing(r.call),
           OwnReceipt(r) => OwnsNumber(job[h]) /\ r.counter = job[h].n,
           ~OwnReceipt(r) => intents[r.intent].counter = r.counter,
           ~OwnReceipt(r) /\ ~cast.overlap => Aloft(r.intent),
           job' = [job EXCEPT ![h] = job'[h]], job'[h] \in Jobs, JobOK(job'[h]),
           job'[h].n \in 0..counter, job'[h].ev # "pre", job'[h].ev # "post",
           ~OwnsNumber(job'[h]),
           \A n : n # r.counter /\ Has(job[h], n) => Has(job'[h], n),
           cast.overlap \/ ((\A g \in Hosts \ {h} : Idle(g)) /\ AloneOK(job[h])')
    PROVE  IInv'
<1>1. job' \in [Hosts -> Jobs] /\ \A g \in Hosts \ {h} : job'[g] = job[g]
  BY Moved DEF IInv
<1>2. /\ Ids' = Ids /\ (\A x : Settled(x) => x \in Ids /\ Settled(x)')
      /\ \A x : Settled(x)' => Settled(x)
  BY DEF Settled, Ids
<1>3. Later(Hosts \ {h})
  BY <1>1, <1>2 DEF Later, IInv, Shape
<1>4. Shape'
  <2>1. \A g \in Hosts : job'[g].n \in 0..counter
    BY <1>1 DEF IInv, Shape
  <2>. QED BY <1>1, <1>2, <2>1 DEF IInv, Shape
<1>5. Stored'
  BY <1>2 DEF IInv, Stored
<1>6. AtWork'
  <2>1. JobOK(job[h])'
    BY <1>2 DEF JobOK, PutOK, KnownOK, SearchOK, SweepOK, EmitOK
  <2>. QED BY <1>3, <2>1, AtWorkKeeps DEF IInv
<1>7. Numbered'
  <2>1. ASSUME NEW g \in Hosts, OwnsNumber(job'[g])
        PROVE  g # h /\ job'[g] = job[g] /\ OwnsNumber(job[g]) /\ job[g].n # r.counter
    <3>1. g # h /\ job'[g] = job[g] /\ OwnsNumber(job[g])
      BY <1>1, <2>1
    <3>2. OwnReceipt(r) => job[g].n # r.counter
      BY <3>1 DEF IInv, Numbered
    <3>3. ~OwnReceipt(r) => job[g].n # r.counter
      BY <1>2, <3>1 DEF IInv, Numbered, OwnReceipt
    <3>. QED BY <3>1, <3>2, <3>3
  <2>2. ASSUME NEW g \in Hosts, OwnsNumber(job'[g])
        PROVE  /\ \A i \in Ids' : intents'[i].counter # job'[g].n
               /\ \A s \in receipts' : s.counter # job'[g].n
               /\ \A f \in Hosts : OwnsNumber(job'[f]) /\ job'[f].n = job'[g].n => f = g
    <3>1. \A s \in receipts : s.counter # job[g].n
      BY <2>1, <2>2 DEF IInv, Numbered
    <3>2. \A f \in Hosts : OwnsNumber(job'[f]) /\ job'[f].n = job'[g].n => f = g
      BY <2>1, <2>2 DEF IInv, Numbered
    <3>. QED BY <1>2, <2>1, <2>2, <3>1, <3>2 DEF IInv, Numbered
  <2>3. /\ r.intent # 0 => Settled(r.intent)'
        /\ IF OwnReceipt(r) THEN \A i \in Ids : intents[i].counter # r.counter
           ELSE intents[r.intent].counter = r.counter
    BY <1>2 DEF IInv, Numbered
  <2>4. \A s \in receipts :
           /\ s.intent # 0 => Settled(s.intent)'
           /\ IF OwnReceipt(s) THEN \A i \in Ids : intents[i].counter # s.counter
              ELSE intents[s.intent].counter = s.counter
    BY <1>2 DEF IInv, Numbered
  <2>5. \A s \in receipts : OwnReceipt(r) => s.counter # r.counter
    BY DEF IInv, Numbered
  <2>6. \A s, t \in receipts' : OwnReceipt(s) /\ OwnReceipt(t) /\ s.counter = t.counter => s = t
    BY <2>5 DEF IInv, Numbered
  <2>7. \A s \in receipts' :
           /\ s.intent # 0 => Settled(s.intent)'
           /\ IF OwnReceipt(s) THEN \A i \in Ids' : intents'[i].counter # s.counter
              ELSE intents'[s.intent].counter = s.counter
    BY <1>2, <2>3, <2>4
  <2>. QED BY <2>2, <2>6, <2>7 DEF Numbered, OwnsNumber, TakesOwn
<1>8. Alone'
  <2>1. ASSUME ~cast.overlap, NEW p \in Keys, NEW x \in json'[p] PROVE ~Closed(x)'
    <3>1. ~Closed(x) /\ ~Aloft(x)
      BY <2>1 DEF IInv, Alone, Aloft
    <3>2. OwnReceipt(r) \/ r.intent # x
      BY <2>1, <3>1
    <3>. QED BY <3>1, <3>2 DEF Closed
  <2>2. ~cast.overlap => ClosedOnce'
    <3>1. SUFFICES ASSUME ~cast.overlap PROVE ClosedOnce'
      OBVIOUS
    <3>2. ClosedOnce /\ (~OwnReceipt(r) => ~Closed(r.intent))
      BY <3>1 DEF IInv, Alone, Aloft
    <3>. QED BY <3>2 DEF ClosedOnce, Closed
  <2>. QED BY <1>3, <2>1, <2>2, AloneKeeps
<1>9. Searched'
  <2>1. Missing(r.call) => Missing(r.call)'
    BY <1>2 DEF Missing, RacedForOne, ContentKey
  <2>2. \A s \in receipts' \ receipts :
           /\ s.kind = "post_only" => s.call \in Calls /\ Missing(s.call)'
           /\ s.intent # 0 => s.call \in Calls /\ Like(intents'[s.intent].call, s.call)
    BY <2>1
  <2>3. \A k \in Keys : json'[k] \subseteq Ids
    BY DEF IInv, Shape
  <2>4. (job[h].ev = "post" /\ ~Ahead(job[h]) => Missing(job[h].call))'
    OBVIOUS
  <2>. QED BY <1>3, <2>2, <2>3, <2>4, SearchedKeeps
<1>10. AllHeld'
  <2>1. ASSUME NEW n \in 1..counter PROVE Held(n)'
    <3>1. Held(n) /\ n \in Nat \ {0}
      BY DEF IInv, AllHeld
    <3>2. \A m : Has(job'[h], m) => Has(job[h], m)'
      BY DEF Has
    <3>3. Has(job[h], n) => Held(n)'
      BY <3>2 DEF Held
    <3>. QED BY <1>3, <3>1, <3>3, HeldKeeps
  <2>. QED BY <2>1 DEF IInv, AllHeld
<1>. QED BY <1>4, <1>5, <1>6, <1>7, <1>8, <1>9, <1>10 DEF IInv

\* The orphan receipt of an intent swept.
LEMMA EmitOrphanStep == ASSUME IInv, NEW h \in Hosts, EmitOrphan(h) PROVE IInv'
<1> DEFINE j == job[h]
           k == job'[h]
           m == Min(j.taken)
<1>0. PICK i : i = m
  OBVIOUS
<1>1. /\ UNCHANGED <<cast, tool, counter, intents, json, links, dirs, gone, faults>>
      /\ j.at = "orphans" /\ j.taken # {} /\ job' = [job EXCEPT ![h] = k]
      /\ k = [j EXCEPT !.taken = @ \ {i}]
      /\ receipts' = receipts \cup {[kind |-> "orphan", counter |-> intents[i].counter,
                                     intent |-> i, call |-> intents[i].call]}
  BY <1>0 DEF IInv, Shape, EmitOrphan, client, store, Rest
<1>2. /\ j \in Jobs /\ JobOK(j) /\ j.n = 0 /\ j.ev \in {"end", "recover"}
      /\ \A x \in j.taken : Settled(x)
      /\ cast.overlap \/ ((\A g \in Hosts \ {h} : Idle(g)) /\ AloneOK(j))
  <2>1. j \in Jobs /\ JobOK(j) /\ j.ev \in {"end", "recover"} /\ j.n = 0
    BY <1>1, SweepFacts DEF Sweeps
  <2>2. cast.overlap \/ ((\A g \in Hosts \ {h} : Idle(g)) /\ AloneOK(j))
    BY <1>1, SweepFacts DEF Sweeps
  <2>. QED BY <1>1, <2>1, <2>2 DEF JobOK, KnownOK
<1>3. i \in j.taken
  BY <1>0, <1>1, <1>2, MinIsMember DEF Jobs
<1>. HIDE DEF m, j, k
<1>4. /\ Settled(i) /\ i \in Nat \ {0} /\ intents[i].counter \in 1..counter /\ counter \in Nat
      /\ intents[i].call \in Calls
  BY <1>2, <1>3, IntentFacts DEF IInv, Shape, Settled
<1>5. PICK r : r = [kind |-> "orphan", counter |-> intents[i].counter,
                    intent |-> i, call |-> intents[i].call]
  OBVIOUS
<1>6. /\ r \in Receipts /\ r.kind = "orphan" /\ r.counter = intents[i].counter /\ r.intent = i
      /\ r.call = intents[i].call /\ ~OwnReceipt(r) /\ r.counter \in 1..counter
  BY <1>4, <1>5 DEF Receipts, OwnReceipt
<1>7. /\ k \in Jobs /\ k.at = "orphans" /\ k.ev = j.ev /\ k.n = 0 /\ k.names = j.names
      /\ k.taken = j.taken \ {i} /\ k.intent = j.intent /\ k.call = j.call
  BY <1>1, <1>2 DEF Jobs
<1>8. JobOK(k) /\ ~OwnsNumber(k) /\ k.n \in 0..counter
  BY <1>1, <1>2, <1>4, <1>7
  DEF JobOK, PutOK, KnownOK, SearchOK, SweepOK, EmitOK, Searching, Putting, TakesOwn, OwnsNumber
<1>9. \A n : n # r.counter /\ Has(j, n) => Has(k, n)
  BY <1>2, <1>6, <1>7 DEF Has
<1>10. Like(intents[i].call, intents[i].call)
  BY DEF Like
<1>11. ~cast.overlap => Aloft(i) /\ AloneOK(job[h])'
  <2>1. SUFFICES ASSUME ~cast.overlap PROVE Aloft(i) /\ AloneOK(job[h])'
    OBVIOUS
  <2>2. \A x \in j.taken : Aloft(x)
    BY <1>2, <2>1 DEF AloneOK
  <2>3. \A x \in k.taken : Aloft(x)'
    BY <1>1, <1>5, <1>6, <1>7, <2>2 DEF Aloft, Closed
  <2>. QED BY <1>3, <1>7, <2>2, <2>3 DEF AloneOK, Putting, k
<1>12. cast.overlap \/ ((\A g \in Hosts \ {h} : Idle(g)) /\ AloneOK(job[h])')
  BY <1>2, <1>11
<1>13. receipts' = receipts \cup {r}
  BY <1>1, <1>5
<1>. QED BY <1>1, <1>2, <1>4, <1>6, <1>7, <1>8, <1>9, <1>10, <1>11, <1>12, <1>13, SpoolKeeps
     DEF j, k

\* The receipt of a completion, a refusal, a prompt or a marker.
LEMMA EmitStep == ASSUME IInv, NEW h \in Hosts, Emit(h) PROVE IInv'
<1> DEFINE j == job[h]
<1>0. PICK r : r = [kind |-> Kind(j), counter |-> j.n, intent |-> j.intent, call |-> j.call]
  OBVIOUS
<1>1. /\ UNCHANGED <<cast, tool, counter, intents, json, links, dirs, gone, faults>>
      /\ j.at = "emit" /\ job' = [job EXCEPT ![h] = NoJob] /\ job'[h] = NoJob
      /\ receipts' = receipts \cup {r}
  BY <1>0 DEF IInv, Shape, Emit, client, store
<1>2. /\ j \in Jobs /\ JobOK(j) /\ j.n \in 0..counter /\ counter \in Nat
  BY DEF IInv, Shape, AtWork
<1>3. /\ j.n \in 1..counter /\ j.taken = {} /\ j.ev \in Searching \cup {"marker", "end"}
      /\ j.intent # 0 => Settled(j.intent)
      /\ j.ev \in {"marker", "end"} => j.intent = 0
      /\ j.ev \in Searching => j.call \in Calls
      /\ j.ev \in Searching /\ j.intent # 0 => Like(intents[j.intent].call, j.call)
      /\ TakesOwn(j.ev, j.intent) \/ j.n = intents[j.intent].counter
  <2>1. j.n # 0 /\ j.ev # "pre" /\ (TakesOwn(j.ev, j.intent) \/ j.n = intents[j.intent].counter)
    BY <1>1, <1>2 DEF JobOK, EmitOK
  <2>2. j.ev \in Searching \cup {"pre", "marker", "end"}
        /\ (j.ev \in {"marker", "end"} => j.intent = 0)
    BY <1>1, <1>2 DEF JobOK, EmitOK
  <2>3. j.taken = {} /\ (j.intent # 0 => Settled(j.intent))
    BY <1>1, <1>2, <2>1 DEF JobOK, KnownOK
  <2>4. /\ j.ev \in Searching => j.call \in Calls
        /\ j.ev \in Searching /\ j.intent # 0 => Like(intents[j.intent].call, j.call)
    BY <1>2 DEF JobOK, SearchOK
  <2>. QED BY <1>2, <2>1, <2>2, <2>3, <2>4
<1>4. cast.overlap \/ ((\A g \in Hosts \ {h} : Idle(g)) /\ AloneOK(j))
  BY <1>1, OthersIdle DEF IInv, Idle, Alone
<1>. HIDE DEF j
<1>5. /\ Kind(j) \in {"post_only", "tool_call", "denial", "approval", "marker"}
      /\ Kind(j) = "post_only" => j.ev = "post" /\ j.intent = 0
      /\ Kind(j) = "approval" <=> j.ev = "request"
  BY <1>3 DEF Kind, Searching
<1>6. /\ r \in Receipts /\ r.kind = Kind(j) /\ r.counter = j.n
      /\ r.intent = j.intent /\ r.call = j.call
  BY <1>0, <1>2, <1>3, <1>5 DEF Receipts, Jobs
<1>7. OwnReceipt(r) <=> TakesOwn(j.ev, j.intent)
  BY <1>3, <1>5, <1>6 DEF OwnReceipt, TakesOwn, Searching
<1>8. Kind(j) = "post_only" => j.call \in Calls /\ Missing(j.call)
  BY <1>1, <1>3, <1>5 DEF IInv, Searched, Ahead, Searching, j
<1>9. ~OwnReceipt(r) /\ ~cast.overlap => Aloft(r.intent)
  BY <1>1, <1>4, <1>6, <1>7 DEF AloneOK, OwnsNumber
<1>10. AloneOK(job[h])'
  BY <1>1, NoJobFacts DEF AloneOK, Putting
<1>11. \A n : n # r.counter /\ Has(j, n) => Has(NoJob, n)
  BY <1>3, <1>6 DEF Has
<1>12. r.intent # 0 => j.ev \in Searching
  BY <1>3, <1>6
<1>13. OwnsNumber(j) <=> OwnReceipt(r)
  BY <1>1, <1>7 DEF OwnsNumber
<1>14. ~OwnsNumber(NoJob) /\ 0 \in 0..counter
  BY <1>2, NoJobFacts DEF OwnsNumber
<1>15. ~OwnReceipt(r) => intents[r.intent].counter = r.counter
  BY <1>3, <1>6, <1>7
<1>. QED BY <1>1, <1>3, <1>4, <1>6, <1>8, <1>9, <1>10, <1>11, <1>12, <1>13, <1>14, <1>15,
            NoJobFacts, NoJobOK, SpoolKeeps DEF j

\* A process is killed or its append fails: what it holds is gone.
LEMMA FailStep == ASSUME IInv, NEW h \in Hosts, Fail(h) PROVE IInv'
<1> DEFINE j == job[h]
<1>1. /\ UNCHANGED <<cast, counter, intents, json, links, dirs, receipts>>
      /\ faults' = faults + 1 /\ gone' = gone \cup Holds(j)
      /\ tool' = IF j.ev = "pre" THEN [tool EXCEPT ![j.call] = "running"] ELSE tool
      /\ job' = [job EXCEPT ![h] = NoJob] /\ ~Idle(h)
  BY DEF Fail
<1>2. /\ j \in Jobs /\ JobOK(j) /\ j.n \in 0..counter /\ counter \in Nat /\ faults \in Nat
  BY DEF IInv, Shape, AtWork
<1>3. CASE j.ev = "pre"
  <2>1. j.taken = {}
    BY <1>2, <1>3 DEF JobOK, PutOK
  <2>2. gone' = gone \cup ({j.n} \ {0})
    BY <1>1, <2>1 DEF Holds
  <2>3. PreEnds(h)
    BY <1>1, <1>3 DEF PreEnds
  <2>4. json' \in [Keys -> SUBSET Ids] /\ faults' \in Nat /\ faults <= faults' /\ faults' > 0
    BY <1>1, <1>2 DEF IInv, Shape
  <2>5. j.n # 0 => j.n \in gone'
    BY <2>2
  <2>. HIDE DEF j
  <2>6. gone \subseteq gone' /\ gone' \subseteq gone \cup ({j.n} \ {0})
    BY <2>2
  <2>. QED BY <1>1, <1>3, <2>3, <2>4, <2>5, <2>6, PreEndsKeeps DEF j
<1>4. CASE j.ev # "pre"
  <2>1. /\ tool' = tool /\ job' \in [Hosts -> Jobs] /\ job'[h] = NoJob
        /\ \A g \in Hosts \ {h} : job'[g] = job[g]
    BY <1>1, <1>4, NoJobFacts DEF IInv, Shape
  <2>2. /\ Ids' = Ids /\ (\A x : Settled(x) => x \in Ids /\ Settled(x)')
        /\ \A x : Settled(x)' => Settled(x)
    BY <1>1, <2>1 DEF Settled, Ids
  <2>3. Later(Hosts \ {h})
    BY <1>1, <1>2, <2>1, <2>2 DEF Later, IInv, Shape
  <2>4. \A n : Has(j, n) => n \in Holds(j)
    BY DEF Has, Holds
  <2>5. Holds(j) \subseteq 1..counter
    <3>1. \A x \in j.taken : intents[x].counter \in 1..counter
      BY <1>2, KnownFacts, IntentFacts DEF IInv, Settled
    <3>. QED BY <1>2, <3>1 DEF Holds
  <2>6. cast.overlap \/ \A g \in Hosts \ {h} : Idle(g)
    BY <1>1, OthersIdle DEF IInv
  <2>. HIDE DEF j
  <2>7. Shape'
    <3>1. \A g \in Hosts : job'[g].n \in 0..counter
      <4>1. counter \in Nat /\ \A g \in Hosts : job[g].n \in 0..counter
        BY DEF IInv, Shape
      <4>2. job'[h].n = 0
        BY <2>1, NoJobFacts
      <4>3. \A g \in Hosts \ {h} : job'[g].n \in 0..counter
        BY <2>1, <4>1
      <4>. QED BY <4>1, <4>2, <4>3
    <3>2. faults' \in Nat /\ gone \subseteq 1..counter
      BY <1>1, <1>2 DEF IInv, Shape
    <3>3. gone' \subseteq 1..counter
      BY <1>1, <2>5, <3>2
    <3>. QED BY <1>1, <2>1, <2>2, <3>1, <3>2, <3>3 DEF IInv, Shape
  <2>8. Stored'
    BY <1>1, <2>1, <2>2 DEF IInv, Stored
  <2>9. AtWork'
    <3>1. JobOK(job[h])'
      BY <2>1, NoJobFacts
      DEF JobOK, PutOK, KnownOK, SearchOK, SweepOK, EmitOK, Searching, Putting
    <3>. QED BY <2>1, <2>3, <3>1, NoJobFacts, AtWorkKeeps DEF IInv
  <2>10. Numbered'
    BY <1>1, <2>1, <2>2, <2>3, NoJobFacts, NumberedKeeps DEF OwnsNumber
  <2>11. Alone'
    <3>1. AloneOK(job[h])'
      BY <2>1, NoJobFacts DEF AloneOK, Putting
    <3>2. ~cast.overlap => \A q \in Keys : \A i \in json'[q] : ~Closed(i)'
      BY <1>1 DEF IInv, Alone, Closed
    <3>. QED BY <1>1, <2>3, <2>6, <3>1, <3>2, AloneKeeps
  <2>12. Searched'
    <3>1. \A k \in Keys : json'[k] \subseteq Ids
      BY <1>1 DEF IInv, Shape
    <3>. QED BY <1>1, <2>1, <2>3, <3>1, NoJobFacts, SearchedKeeps
  <2>13. AllHeld'
    <3>1. ASSUME NEW n \in 1..counter PROVE Held(n)'
      <4>1. Held(n) /\ n \in Nat \ {0}
        BY DEF IInv, AllHeld
      <4>2. Has(job[h], n) => Held(n)'
        BY <1>1, <2>4 DEF Held, j
      <4>. QED BY <1>1, <2>3, <4>1, <4>2, HeldKeeps
    <3>2. faults' > 0
      BY <1>1, <1>2
    <3>. QED BY <1>1, <3>1, <3>2 DEF AllHeld
  <2>. QED BY <2>7, <2>8, <2>9, <2>10, <2>11, <2>12, <2>13 DEF IInv
<1>. QED BY <1>3, <1>4

-----------------------------------------------------------------------------
(* The invariant holds always, and with it the promises.                    *)

\* Nothing is recorded, spooled or at work at first.
LEMMA InitHolds == Init => IInv
<1>. SUFFICES ASSUME Init PROVE IInv
  OBVIOUS
<1>1. /\ cast \in Cast /\ tool = [c \in Calls |-> "ready"] /\ counter = 0 /\ intents = <<>>
      /\ json = [k \in Keys |-> {}] /\ links = [k \in Keys |-> {}] /\ dirs = {}
      /\ receipts = {} /\ job = [h \in Hosts |-> NoJob] /\ gone = {} /\ faults = 0
  BY CastAssumption DEF Init
<1>2. Ids = {} /\ intents \in Seq([call : Calls, counter : 0..counter])
  BY <1>1 DEF Ids
<1>3. Shape
  BY <1>1, <1>2, NoJobFacts DEF Shape
<1>4. Stored
  BY <1>1, <1>2 DEF Stored
<1>5. AtWork
  BY <1>1, NoJobFacts, NoJobOK DEF AtWork
<1>6. Numbered
  BY <1>1, NoJobFacts DEF Numbered, OwnsNumber
<1>7. Alone
  BY <1>1, NoJobFacts DEF Alone, AloneOK, ClosedOnce, Idle, Putting
<1>8. Searched
  BY <1>1, NoJobFacts DEF Searched
<1>9. AllHeld
  BY <1>1 DEF AllHeld
<1>. QED BY <1>3, <1>4, <1>5, <1>6, <1>7, <1>8, <1>9 DEF IInv

\* Taking a counter, for an intent or for a receipt.
LEMMA NextCounterStep == ASSUME IInv, NEW h \in Hosts, NextCounter(h) PROVE IInv'
  BY NumberIntentStep, NumberReceiptStep

\* A step that changes nothing.
LEMMA StutterStep == ASSUME IInv, UNCHANGED vars PROVE IInv'
<1>1. UNCHANGED <<cast, tool, counter, intents, json, links, dirs, receipts, job, gone, faults>>
  BY DEF vars, client, store
<1>. QED BY <1>1
     DEF IInv, Shape, Stored, AtWork, Numbered, Alone, Searched, AllHeld, Settled, Ids, JobOK,
         PutOK, KnownOK, SearchOK, SweepOK, EmitOK, OwnsNumber, Closed, AloneOK, Aloft, Idle,
         ClosedOnce, Missing, RacedForOne, Held, Has

\* Whatever happens next, the invariant stays.
LEMMA NextKeeps == IInv /\ [Next]_vars => IInv'
<1>. SUFFICES ASSUME IInv, [Next]_vars PROVE IInv'
  OBVIOUS
<1>1. CASE UNCHANGED vars
  BY <1>1, StutterStep
<1>2. ASSUME NEW c \in Calls, Unhooked(c) PROVE IInv'
  BY <1>2, UnhookedStep
<1>3. ASSUME NEW h \in Hosts, Event(h) PROVE IInv'
  BY <1>3, PreToolUseStep, PostToolUseStep, PermissionRequestStep, PermissionDeniedStep,
     SessionEndStep, MarkerStep, RecoverStep DEF Event
<1>4. ASSUME NEW h \in Hosts, Step(h) PROVE IInv'
  BY <1>4, NextCounterStep, PutBucketStep, PutAliasStep, PutTempStep, PutRenameStep,
     FollowLinksStep, ListStep, ReadStep, TakeStep, SweepScanStep, SweepBucketStep,
     SweepReadStep, SweepRemoveStep, SweepLinksStep, EmitOrphanStep, SweepEndsStep, EmitStep
     DEF Step
<1>5. ASSUME NEW h \in Hosts, Fail(h) PROVE IInv'
  BY <1>5, FailStep
<1>. QED BY <1>1, <1>2, <1>3, <1>4, <1>5 DEF Next

(* The inductive invariant: what is recorded is numbered and in the bucket of
   its own key, what a process knows was in the store, and every number taken
   is somewhere. *)
THEOREM InvariantHolds == Spec => []IInv
<1>. QED BY InitHolds, NextKeeps, PTL DEF Spec

\* What is held is spooled, on disk, gone or in a process's hands.
LEMMA HeldIsAccounted == IInv => CountersAccounted
<1>. SUFFICES ASSUME IInv PROVE CountersAccounted
  OBVIOUS
<1>1. counter \in Nat /\ \A i \in Ids : intents[i].counter \in 0..counter
  BY IntentFacts DEF IInv, Shape
<1>2. ASSUME NEW n \in 1..counter
      PROVE  n \in Spooled \cup {intents[i].counter : i \in OnDisk} \cup gone
                    \cup UNION {Holds(job[h]) : h \in Hosts}
  <2>1. Held(n) /\ n # 0
    BY <1>1 DEF IInv, AllHeld
  <2>2. \A h \in Hosts : Has(job[h], n) => n \in Holds(job[h])
    BY <2>1 DEF Has, Holds
  <2>. QED BY <2>1, <2>2 DEF Held, Spooled, OnDisk
<1>3. Spooled \subseteq 1..counter /\ gone \subseteq 1..counter
  BY DEF Spooled, IInv, Shape
<1>4. {intents[i].counter : i \in OnDisk} \subseteq 1..counter
  BY <1>1, KnownFacts DEF OnDisk, Settled
<1>5. ASSUME NEW h \in Hosts PROVE Holds(job[h]) \subseteq 1..counter
  <2>1. \A i \in job[h].taken : intents[i].counter \in 1..counter
    BY <1>1, KnownFacts DEF Settled
  <2>2. job[h].n \in 0..counter
    BY DEF IInv, Shape
  <2>. QED BY <1>1, <2>1, <2>2 DEF Holds
<1>6. EveryCounterHeld
  <2>1. UNION {Holds(job[h]) : h \in Hosts} \subseteq 1..counter
    BY <1>5
  <2>2. 1..counter = Spooled \cup {intents[i].counter : i \in OnDisk} \cup gone
                     \cup UNION {Holds(job[h]) : h \in Hosts}
    BY <1>2, <1>3, <1>4, <2>1
  <2>. QED BY <2>2 DEF EveryCounterHeld, IInv, AllHeld
<1>7. SharedCounterIsOneIntent
  <2>1. SUFFICES ASSUME NEW r \in receipts, NEW s \in receipts, r # s, r.counter = s.counter
                 PROVE  cast.overlap /\ r.intent = s.intent /\ r.intent # 0
    BY DEF SharedCounterIsOneIntent
  <2>2. ~OwnReceipt(r) /\ ~OwnReceipt(s)
    BY <2>1, KnownFacts DEF IInv, Numbered, OwnReceipt
  <2>3. /\ intents[r.intent].counter = r.counter /\ r.intent \in Ids /\ r.intent # 0
        /\ intents[s.intent].counter = s.counter /\ s.intent \in Ids
    BY <2>2, KnownFacts DEF IInv, Numbered, OwnReceipt
  <2>4. r.counter # 0
    BY <1>1 DEF IInv, Shape
  <2>5. r.intent = s.intent
    BY <2>1, <2>3, <2>4 DEF IInv, Stored
  <2>. QED BY <2>1, <2>2, <2>3, <2>5 DEF IInv, Alone, ClosedOnce
<1>. QED BY <1>6, <1>7 DEF CountersAccounted

\* What receipts say of intents is read off the invariant.
LEMMA ClosedAreLike == IInv => IntentIsItsOwn
<1>. SUFFICES ASSUME IInv PROVE IntentIsItsOwn
  OBVIOUS
<1>1. ClosesItsLike
  <2>1. SUFFICES ASSUME NEW r \in receipts, r.intent # 0
                 PROVE  LET closed == intents[r.intent].call
                        IN  SessionOf[closed] = SessionOf[r.call] /\ Input[closed] = Input[r.call]
    BY DEF ClosesItsLike
  <2>2. /\ r.call \in Calls /\ Like(intents[r.intent].call, r.call)
        /\ intents[r.intent].call \in Calls
    BY <2>1, KnownFacts DEF IInv, Searched
  <2>. QED BY <2>2, KeyFacts
<1>2. PostOnlyMissedNothing
  BY DEF PostOnlyMissedNothing, OnDisk, IInv, Searched, Missing
<1>. QED BY <1>1, <1>2 DEF IntentIsItsOwn

(* No counter goes missing and none is given twice, whatever processes
   overlap, fail or sweep: each one taken is spooled, on disk, in the hands of
   a process or of one that failed (emit, claimBucket, Sweep, Recover). *)
THEOREM CountersAreAccounted == Spec => []CountersAccounted
<1>. QED BY InvariantHolds, HeldIsAccounted, PTL

(* A receipt closes an intent of its own session, tool and input, and says it
   found none only when its call's own intent is not in the store, races of
   calls that nothing tells apart aside (Claim, Peek, followLinks). *)
THEOREM IntentsAreTheirOwn == Spec => []IntentIsItsOwn
<1>. QED BY InvariantHolds, ClosedAreLike, PTL

-----------------------------------------------------------------------------
(***************************************************************************)
(* The store serves, hooks running one at a time.                          *)
(*                                                                         *)
(* A prompt carries no id, so it reaches the intent of a call with one     *)
(* only by a pointer of the content key's bucket.  A pointer is there      *)
(* before its record is (PutAlias), followLinks removes only pointers to   *)
(* buckets without a record, and only a sweep removes the rest.  The       *)
(* sweep of a session sees every bucket there is and removes what it finds *)
(* there of the session; after the last one that is everything.            *)
(***************************************************************************)

Unswept == over = {} /\ recovers = 0

\* the content key's bucket points to the intent
Pointed(i) ==
    intents[i].call \in WithId => i \in links[ContentKey(intents[i].call)]

\* a prompt still has before it the bucket its call's intent lies in
PromptOK(j) ==
    /\ j.ev = "pre" /\ j.at \in {"temp", "rename"} => Pointed(j.intent)
    /\ j.ev = "request" /\ j.at = "follow" => j.keys = <<ContentKey(j.call)>>
    /\ j.ev = "request" /\ j.at = "list" =>
          /\ j.key = ContentKey(j.call) /\ j.keys = <<>>
          /\ \A k \in Keys : \A i \in json[k] : intents[i].call = j.call =>
                (IF j.call \in WithId THEN i ELSE 0) \in j.look
    /\ j.ev = "request" /\ j.at = "counter" /\ j.intent = 0 =>
          \A k \in Keys : \A i \in json[k] : intents[i].call # j.call

Served ==
    /\ recovers \in Nat
    /\ ~cast.overlap /\ Unswept =>
          /\ \A k \in Keys : \A i \in json[k] : Pointed(i)
          /\ \A h \in Hosts : job[h].ev \notin {"end", "recover"} /\ PromptOK(job[h])

\* an idle process asks nothing
LEMMA IdleFacts ==
    ASSUME IInv, NEW g \in Hosts, Idle(g)
    PROVE  job[g].ev = "none" /\ job[g].at = "idle"
  BY DEF IInv, AtWork, JobOK, KnownOK, Idle

\* Hooks one at a time: the process that moves is the one at work.
LEMMA OneAtWork ==
    ASSUME IInv, ~cast.overlap, NEW h \in Hosts, Event(h) \/ Step(h) \/ Fail(h)
    PROVE  /\ \A g \in Hosts \ {h} : Idle(g) /\ job'[g] = job[g]
           /\ cast' = cast
           /\ Event(h) => Idle(h)
<1>1. Event(h) => CanStart(h)
  BY DEF Event, PreToolUse, PostToolUse, PermissionRequest, PermissionDenied, SessionEnd,
         Marker, Recover
<1>2. Step(h) \/ Fail(h) => ~Idle(h)
  BY DEF Step, Fail, Idle, NextCounter, PutBucket, PutAlias, PutTemp, PutRename, FollowLinks,
         List, Read, Take, SweepScan, SweepBucket, SweepRead, SweepRemove, SweepLinks,
         EmitOrphan, SweepEnds, Emit
<1>3. \A g \in Hosts \ {h} : Idle(g)
  BY <1>1, <1>2, OthersIdle DEF IInv
<1>4. \A g \in Hosts \ {h} : job'[g] = job[g]
  <2>1. Event(h) => \A g \in Hosts \ {h} : job'[g] = job[g]
    BY DEF Event, PreToolUse, PostToolUse, PermissionRequest, PermissionDenied, SessionEnd,
           Marker, Recover, Start, IInv, Shape
  <2>2. Step(h) => \A g \in Hosts \ {h} : job'[g] = job[g]
    BY DEF Step, NextCounter, PutBucket, PutAlias, PutTemp, PutRename, FollowLinks,
           List, Read, Take, SweepScan, SweepBucket, SweepRead, SweepRemove, SweepLinks,
           EmitOrphan, SweepEnds, Emit, Goes, PreEnds, IInv, Shape
  <2>3. Fail(h) => \A g \in Hosts \ {h} : job'[g] = job[g]
    BY DEF Fail, IInv, Shape
  <2>. QED BY <2>1, <2>2, <2>3
<1>5. cast' = cast
  BY DEF Event, PreToolUse, PostToolUse, PermissionRequest, PermissionDenied, SessionEnd,
         Marker, Recover, Step, Fail, NextCounter, PutBucket, PutAlias, PutTemp, PutRename,
         FollowLinks, List, Read, Take, SweepScan, SweepBucket, SweepRead, SweepRemove,
         SweepLinks, EmitOrphan, SweepEnds, Emit
<1>6. Event(h) => Idle(h)
  BY <1>1 DEF CanStart
<1>. QED BY <1>3, <1>4, <1>5, <1>6

\* What is in the store stays pointed to when no pointer to it goes.
LEMMA PointersKeep ==
    ASSUME IInv, Served, ~cast.overlap, Unswept,
           \A i \in Ids : intents'[i].call = intents[i].call,
           \A k \in Keys : links[k] \subseteq links'[k],
           \A k \in Keys : json'[k] \subseteq json[k]
    PROVE  \A k \in Keys : \A i \in json'[k] : Pointed(i)'
<1> TAKE k \in Keys
<1> TAKE i \in json'[k]
<1>1. i \in json[k] /\ i \in Ids /\ Pointed(i)
  BY DEF Served, IInv, Stored, Settled
<1>2. intents[i].call \in Calls /\ intents'[i].call = intents[i].call
  BY <1>1, IntentFacts DEF IInv
<1>3. ContentKey(intents[i].call) \in Keys
  BY <1>2, KeyFacts
<1>. QED BY <1>1, <1>2, <1>3 DEF Pointed, ContentKey

\* The process that moves answers for what it leaves.
LEMMA ServedKeeps ==
    ASSUME IInv, Served, ~cast.overlap, Unswept, NEW h \in Hosts,
           \A g \in Hosts \ {h} : Idle(g) /\ job'[g] = job[g],
           \A k \in Keys : \A i \in json'[k] : Pointed(i)',
           job'[h].ev \notin {"end", "recover"}, PromptOK(job[h])', recovers' \in Nat
    PROVE  Served'
<1>1. ASSUME NEW g \in Hosts \ {h} PROVE job'[g].ev \notin {"end", "recover"} /\ PromptOK(job[g])'
  <2>1. job'[g].ev = "none"
    BY IdleFacts
  <2>. QED BY <2>1 DEF PromptOK
<1>. QED BY <1>1 DEF Served

\* Of a move of h: hooks one at a time, no sweep begun before or by it.
Prompting(h) ==
    /\ IInv /\ Served /\ ~cast.overlap /\ Unswept /\ Unswept'
    /\ \A g \in Hosts \ {h} : Idle(g) /\ job'[g] = job[g]

\* What h does not answer for is kept when the records and the pointers are.
LEMMA ServedQuiet ==
    ASSUME NEW h \in Hosts, Prompting(h),
           \A i \in Ids : intents'[i].call = intents[i].call,
           \A k \in Keys : links[k] \subseteq links'[k],
           \A k \in Keys : json'[k] \subseteq json[k],
           job'[h].ev \notin {"end", "recover"}, PromptOK(job[h])'
    PROVE  Served'
<1>1. recovers' \in Nat
  BY DEF Prompting, Unswept
<1>2. \A k \in Keys : \A i \in json'[k] : Pointed(i)'
  BY PointersKeep DEF Prompting
<1>. QED BY <1>1, <1>2, ServedKeeps DEF Prompting

LEMMA ServedEvent ==
    ASSUME NEW h \in Hosts, Prompting(h), Event(h)
    PROVE  Served'
<1>1. job \in [Hosts -> Jobs] /\ links \in [Keys -> SUBSET Ids]
  BY DEF Prompting, IInv, Shape
<1>2. ASSUME NEW c \in Calls, PreToolUse(h, c) PROVE Served'
  <2>1. /\ UNCHANGED <<json, links>>
        /\ intents' = Append(intents, [call |-> c, counter |-> 0])
        /\ job'[h].ev = "pre" /\ job'[h].at = "counter"
    BY <1>1, <1>2, NoJobFacts DEF PreToolUse, store, Start, NoJob
  <2>2. \A i \in Ids : intents'[i].call = intents[i].call
    <3>1. intents \in Seq([call : Calls, counter : 0..counter])
      BY DEF Prompting, IInv, Shape
    <3>2. \A i \in DOMAIN intents : intents'[i] = intents[i]
      BY <2>1, <3>1
    <3>. QED BY <3>2 DEF Ids
  <2>3. PromptOK(job[h])'
    BY <2>1 DEF PromptOK
  <2>. QED BY <2>1, <2>2, <2>3, ServedQuiet
<1>3. ASSUME NEW c \in Calls, PostToolUse(h, c) \/ PermissionDenied(h, c) PROVE Served'
  <2>1. /\ UNCHANGED <<json, links, intents>>
        /\ job'[h].ev \in {"post", "denied"}
    <3>1. CASE PostToolUse(h, c)
      BY <1>1, <3>1 DEF PostToolUse, store, Start, Search, NoJob
    <3>2. CASE PermissionDenied(h, c)
      BY <1>1, <3>2 DEF PermissionDenied, store, Start, Search, NoJob
    <3>. QED BY <1>3, <3>1, <3>2
  <2>2. PromptOK(job[h])'
    BY <2>1 DEF PromptOK
  <2>. QED BY <2>1, <2>2, ServedQuiet
<1>4. ASSUME NEW c \in Calls, PermissionRequest(h, c) PROVE Served'
  <2>1. /\ UNCHANGED <<json, links, intents>>
        /\ job'[h].ev = "request" /\ job'[h].at = "follow" /\ job'[h].call = c
        /\ job'[h].keys = <<ContentKey(c)>>
    BY <1>1, <1>4 DEF PermissionRequest, store, Start, Search, NoJob, SearchKeys
  <2>2. PromptOK(job[h])'
    BY <2>1 DEF PromptOK, ContentKey
  <2>. QED BY <2>1, <2>2, ServedQuiet
<1>5. ASSUME Marker(h) PROVE Served'
  <2>1. /\ UNCHANGED <<json, links, intents>>
        /\ job'[h].ev = "marker"
    BY <1>1, <1>5 DEF Marker, store, Start, NoJob
  <2>2. PromptOK(job[h])'
    BY <2>1 DEF PromptOK
  <2>. QED BY <2>1, <2>2, ServedQuiet
<1>6. ASSUME NEW s \in Sessions, SessionEnd(h, s) PROVE Served'
  BY <1>6 DEF SessionEnd, Prompting, Unswept
<1>7. ASSUME Recover(h) PROVE Served'
  BY <1>7 DEF Recover, Prompting, Unswept
<1>. QED BY <1>2, <1>3, <1>4, <1>5, <1>6, <1>7 DEF Event

\* A failure, or the end of a hook.
LEMMA ServedEnds ==
    ASSUME NEW h \in Hosts, Prompting(h), UNCHANGED <<json, links, intents>>, job'[h] = NoJob
    PROVE  Served'
<1>1. job'[h].ev = "none"
  BY NoJobFacts
<1>2. PromptOK(job[h])'
  BY <1>1 DEF PromptOK
<1>. QED BY <1>1, <1>2, ServedQuiet

LEMMA ServedPut ==
    ASSUME NEW h \in Hosts, Prompting(h),
           NextCounter(h) \/ PutBucket(h) \/ PutAlias(h) \/ PutTemp(h) \/ PutRename(h)
    PROVE  Served'
<1> DEFINE j == job[h]
           k == job'[h]
<1>1. job \in [Hosts -> Jobs] /\ j \in Jobs /\ JobOK(j) /\ links \in [Keys -> SUBSET Ids]
      /\ json \in [Keys -> SUBSET Ids]
  BY DEF Prompting, IInv, Shape, AtWork
<1>2. j.ev \notin {"end", "recover"} /\ PromptOK(j)
  BY DEF Prompting, Served
<1>3. j.at \in Putting => /\ j.ev = "pre" /\ j.call \in Calls /\ j.intent \in Ids
                          /\ intents[j.intent].call = j.call /\ j.bucket = OwnKey(j.call)
  BY <1>1 DEF JobOK, PutOK
<1>4. CASE NextCounter(h)
  <2>1. UNCHANGED <<json, links>> /\ k.ev = j.ev /\ k.at \in {"mkdir", "emit"}
        /\ \A i \in Ids : intents'[i].call = intents[i].call
    <3>1. CASE j.ev = "pre"
      <4>1. /\ UNCHANGED <<json, links>>
            /\ job' = [job EXCEPT ![h].n = counter + 1, ![h].at = "mkdir"]
            /\ intents' = [intents EXCEPT ![j.intent].counter = counter + 1]
        BY <1>4, <3>1 DEF NextCounter, store
      <4>2. \A i \in Ids : intents'[i].call = intents[i].call
        <5>1. intents \in Seq([call : Calls, counter : 0..counter])
          BY DEF Prompting, IInv, Shape
        <5>. QED BY <4>1, <5>1 DEF Ids
      <4>. QED BY <1>1, <4>1, <4>2 DEF Jobs
    <3>2. CASE j.ev # "pre"
      <4>1. /\ UNCHANGED <<json, links, intents>>
            /\ job' = [job EXCEPT ![h].n = counter + 1, ![h].at = "emit"]
        BY <1>4, <3>2 DEF NextCounter, store
      <4>. QED BY <1>1, <4>1 DEF Jobs
    <3>. QED BY <3>1, <3>2
  <2>3. PromptOK(job[h])'
    BY <2>1 DEF PromptOK
  <2>. QED BY <1>2, <2>1, <2>3, ServedQuiet
<1>5. CASE PutBucket(h)
  <2>1. /\ UNCHANGED <<json, links, intents>> /\ k.ev = "pre" /\ k.intent = j.intent
        /\ k.at \in {"alias", "temp"}
        /\ j.call \in WithId => k.at = "alias"
    BY <1>1, <1>3, <1>5 DEF PutBucket, Goes, Putting
  <2>2. k.at = "temp" => Pointed(job[h].intent)'
    BY <1>3, <1>5, <2>1 DEF Pointed, PutBucket, Putting
  <2>3. PromptOK(job[h])'
    BY <2>1, <2>2 DEF PromptOK
  <2>. QED BY <2>1, <2>3, ServedQuiet
<1>6. CASE PutAlias(h)
  <2>1. /\ UNCHANGED <<json, intents>> /\ k.ev = "pre" /\ k.intent = j.intent
        /\ links' = [links EXCEPT ![ContentKey(j.call)] = @ \cup {j.intent}]
    BY <1>1, <1>3, <1>6 DEF PutAlias, Goes, Putting, Linked
  <2>2. ContentKey(j.call) \in Keys
    BY <1>3, <1>6, KeyFacts DEF PutAlias, Putting
  <2>3. Pointed(job[h].intent)'
    BY <1>1, <1>3, <1>6, <2>1, <2>2 DEF Pointed, PutAlias, Putting, ContentKey
  <2>4. PromptOK(job[h])'
    BY <2>1, <2>3 DEF PromptOK
  <2>. QED BY <1>1, <2>1, <2>2, <2>4, ServedQuiet
<1>7. CASE PutTemp(h)
  <2>1. UNCHANGED <<json, links, intents>>
    BY <1>7 DEF PutTemp, store
  <2>2. CASE k = NoJob
    BY <2>1, <2>2, ServedEnds
  <2>3. CASE k # NoJob
    <3>0. j.at = "temp" /\ job' = [job EXCEPT ![h].at = "rename"]
      BY <1>1, <1>7, <2>3 DEF PutTemp, PreEnds, Goes
    <3>1. k.ev = "pre" /\ k.intent = j.intent /\ Pointed(j.intent)
      BY <1>1, <1>2, <1>3, <3>0 DEF PromptOK, Putting
    <3>2. PromptOK(job[h])'
      BY <2>1, <3>1 DEF PromptOK, Pointed, ContentKey
    <3>. QED BY <2>1, <3>1, <3>2, ServedQuiet
  <2>. QED BY <2>2, <2>3
<1>8. CASE PutRename(h)
  <2>1. /\ UNCHANGED <<links, intents>> /\ k = NoJob /\ Pointed(j.intent)
        /\ json' = [json EXCEPT ![j.bucket] = @ \cup {j.intent}]
    BY <1>1, <1>2, <1>3, <1>8 DEF PutRename, PreEnds, PromptOK, Putting
  <2>2. \A q \in Keys : \A i \in json'[q] : Pointed(i)'
    <3> TAKE q \in Keys
    <3> TAKE i \in json'[q]
    <3>1. i \in json[q] \/ i = j.intent
      BY <1>1, <2>1
    <3>2. Pointed(i)
      BY <2>1, <3>1 DEF Prompting, Served
    <3>. QED BY <2>1, <3>2 DEF Pointed, ContentKey
  <2>3. k.ev = "none"
    BY <2>1, NoJobFacts
  <2>4. PromptOK(job[h])' /\ recovers' \in Nat
    BY <2>3 DEF PromptOK, Prompting, Unswept
  <2>. QED BY <2>2, <2>3, <2>4, ServedKeeps DEF Prompting
<1>. QED BY <1>4, <1>5, <1>6, <1>7, <1>8

\* followLinks keeps the pointers to what is there, and a prompt that follows
\* them has its call's bucket before it.
LEMMA ServedFollow ==
    ASSUME NEW h \in Hosts, Prompting(h), FollowLinks(h)
    PROVE  Served'
<1> DEFINE j == job[h]
           c == job[h].call
           q == Head(job[h].keys)
           live == {i \in links[q] : json[Target(i)] # {}}
<1>1. /\ job \in [Hosts -> Jobs] /\ links \in [Keys -> SUBSET Ids] /\ json \in [Keys -> SUBSET Ids]
      /\ JobOK(j) /\ j.ev \notin {"end", "recover"} /\ PromptOK(j) /\ j \in Jobs
  BY DEF Prompting, IInv, Shape, AtWork, Served
<1>2. /\ j.at = "follow" /\ links' = [links EXCEPT ![q] = live] /\ UNCHANGED <<json, intents>>
      /\ job' = [job EXCEPT ![h].at = "list", ![h].keys = Tail(@),
                            ![h].key = q, ![h].look = {0} \cup live]
  BY DEF FollowLinks
<1>3. /\ job'[h].ev = j.ev /\ job'[h].at = "list" /\ job'[h].call = c
      /\ job'[h].keys = Tail(j.keys) /\ job'[h].key = q /\ job'[h].look = {0} \cup live
  BY <1>1, <1>2 DEF Jobs
<1>4. \A k \in Keys : \A i \in json[k] :
         /\ i \in Ids /\ k = OwnKey(intents[i].call) /\ intents[i].call \in Calls
         /\ intents[i].call \in WithId => i \in links'[ContentKey(intents[i].call)]
  <2> TAKE k \in Keys
  <2> TAKE i \in json[k]
  <2>1. i \in Ids /\ k = OwnKey(intents[i].call) /\ Pointed(i)
    BY DEF Prompting, Served, IInv, Stored, Settled
  <2>2. intents[i].call \in Calls
    BY <2>1, IntentFacts DEF Prompting, IInv
  <2>3. CASE intents[i].call \in WithId
    <3>1. i \in links[ContentKey(intents[i].call)] /\ ContentKey(intents[i].call) \in Keys
      BY <2>1, <2>2, <2>3, KeyFacts DEF Pointed
    <3>2. Target(i) = k /\ json[Target(i)] # {}
      BY <2>1, <2>2, <2>3, KeyFacts DEF Target
    <3>3. i \in links'[ContentKey(intents[i].call)]
      BY <1>1, <1>2, <3>1, <3>2
    <3>. QED BY <2>1, <2>2, <3>3
  <2>. QED BY <2>1, <2>2, <2>3
<1>5. \A k \in Keys : \A i \in json'[k] : Pointed(i)'
  BY <1>2, <1>4 DEF Pointed, ContentKey
<1>6. PromptOK(job[h])'
  <2>1. CASE j.ev # "request"
    BY <1>3, <2>1 DEF PromptOK
  <2>2. CASE j.ev = "request"
    <3>1. c \in Calls /\ j.keys = <<ContentKey(c)>>
      BY <1>1, <1>2, <2>2 DEF PromptOK, JobOK, SearchOK, Searching
    <3>2. q = ContentKey(c) /\ Tail(j.keys) = <<>> /\ q \in Keys
      BY <3>1, KeyFacts
    <3>3. ASSUME NEW k \in Keys, NEW i \in json[k], intents[i].call = c
          PROVE  (IF c \in WithId THEN i ELSE 0) \in {0} \cup live
      <4>1. c \in WithId => i \in links'[q]
        BY <1>4, <3>2, <3>3
      <4>. QED BY <1>1, <1>2, <3>2, <4>1
    <3>. HIDE DEF live, q, c
    <3>. QED BY <1>2, <1>3, <2>2, <3>1, <3>2, <3>3 DEF PromptOK, ContentKey, j, c
  <2>. QED BY <2>1, <2>2
<1>7. recovers' \in Nat
  BY DEF Prompting, Unswept
<1>. QED BY <1>1, <1>3, <1>5, <1>6, <1>7, ServedKeeps DEF Prompting

\* Listing a bucket: it is passed over only when it is empty, and then it is
\* not the one the call's intent lies in.
LEMMA ServedList ==
    ASSUME NEW h \in Hosts, Prompting(h), List(h)
    PROVE  Served'
<1> DEFINE j == job[h]
           x == Min(j.look)
<1>1. /\ job \in [Hosts -> Jobs] /\ JobOK(j) /\ j.ev \notin {"end", "recover"} /\ PromptOK(j)
      /\ j \in Jobs
  BY DEF Prompting, IInv, Shape, AtWork, Served
<1>2. j.at = "list" /\ UNCHANGED <<json, links, intents>>
  BY DEF List, store
<1>3. \/ /\ j.look = {}
         /\ job'[h] = [j EXCEPT !.key = <<>>,
                                !.at = IF j.keys = <<>> THEN "counter" ELSE "follow"]
      \/ j.look # {} /\ json[Bucket(j, x)] = {} /\ job'[h] = [j EXCEPT !.look = @ \ {x}]
      \/ job'[h].at = "read" /\ job'[h].ev = j.ev
  BY <1>1 DEF List, Jobs
<1>4. job'[h].ev = j.ev
  BY <1>1, <1>3 DEF Jobs
<1>5. CASE j.ev # "request"
  <2>1. j.ev # "pre"
    BY <1>1, <1>2 DEF JobOK, PutOK, Putting
  <2>2. PromptOK(job[h])'
    BY <1>4, <1>5, <2>1 DEF PromptOK
  <2>. QED BY <1>1, <1>2, <1>4, <2>2, ServedQuiet
<1>6. CASE j.ev = "request"
  <2>1. /\ j.key = ContentKey(j.call) /\ j.keys = <<>> /\ j.call \in Calls
        /\ \A k \in Keys : \A i \in json[k] : intents[i].call = j.call =>
              (IF j.call \in WithId THEN i ELSE 0) \in j.look
    BY <1>1, <1>2, <1>6 DEF PromptOK, JobOK, SearchOK, Searching
  <2>2. CASE j.look = {} /\ job'[h].at = "counter"
    <3>1. \A k \in Keys : \A i \in json[k] : intents[i].call # j.call
      BY <2>1, <2>2
    <3>2. job'[h].call = j.call
      BY <1>1, <1>3, <2>2 DEF Jobs
    <3>3. PromptOK(job[h])'
      BY <1>2, <1>4, <1>6, <2>2, <3>1, <3>2 DEF PromptOK
    <3>. QED BY <1>1, <1>2, <1>4, <3>3, ServedQuiet
  <2>3. CASE j.look # {} /\ json[Bucket(j, x)] = {} /\ job'[h] = [j EXCEPT !.look = @ \ {x}]
    <3>1. ASSUME NEW k \in Keys, NEW i \in json[k], intents[i].call = j.call
          PROVE  (IF j.call \in WithId THEN i ELSE 0) \in j.look \ {x}
      <4>1. k = OwnKey(j.call) /\ i # 0
        BY <3>1, IntentFacts DEF Prompting, IInv, Stored, Settled
      <4>2. Bucket(j, IF j.call \in WithId THEN i ELSE 0) = k
        BY <2>1, <3>1, <4>1, KeyFacts DEF Bucket, Target
      <4>. QED BY <2>1, <2>3, <3>1, <4>2
    <3>2. /\ job'[h].look = j.look \ {x} /\ job'[h].call = j.call /\ job'[h].at = "list"
          /\ job'[h].key = j.key /\ job'[h].keys = j.keys
      BY <1>1, <1>2, <2>3 DEF Jobs
    <3>. HIDE DEF x
    <3>3. PromptOK(job[h])'
      BY <1>2, <1>4, <1>6, <2>1, <3>1, <3>2 DEF PromptOK, ContentKey
    <3>. QED BY <1>1, <1>2, <1>4, <3>3, ServedQuiet
  <2>4. CASE job'[h].at = "read"
    <3>1. PromptOK(job[h])'
      BY <1>4, <1>6, <2>4 DEF PromptOK
    <3>. QED BY <1>1, <1>2, <1>4, <3>1, ServedQuiet
  <2>5. j.look = {} => job'[h].at = "counter" \/ job'[h].at = "read"
    BY <1>1, <1>3, <2>1 DEF Jobs
  <2>. QED BY <1>3, <2>2, <2>3, <2>4, <2>5
<1>. QED BY <1>5, <1>6

\* What a prompt reads is there, so it goes on with an intent.
LEMMA ServedRead ==
    ASSUME NEW h \in Hosts, Prompting(h), Read(h) \/ Take(h) \/ Emit(h) \/ Fail(h)
    PROVE  Served'
<1> DEFINE j == job[h]
<1>1. /\ job \in [Hosts -> Jobs] /\ JobOK(j) /\ j.ev \notin {"end", "recover"} /\ j \in Jobs
      /\ AloneOK(j)
  BY DEF Prompting, IInv, Shape, AtWork, Served, Alone
<1>2. CASE Read(h)
  <2>1. /\ j.at = "read" /\ UNCHANGED <<json, links, intents>> /\ j.ev # "pre"
        /\ j.intent \in json[j.bucket] /\ j.intent # 0
    BY <1>1, <1>2 DEF Read, store, AloneOK, JobOK, PutOK, SearchOK, Putting
  <2>2. /\ job'[h].ev = j.ev
        /\ j.ev = "request" => job'[h].intent = j.intent /\ job'[h].at = "counter"
    BY <1>1, <1>2, <2>1 DEF Read, NoJob, Jobs
  <2>3. PromptOK(job[h])'
    BY <2>1, <2>2 DEF PromptOK
  <2>. QED BY <1>1, <2>1, <2>2, <2>3, ServedQuiet
<1>3. CASE Take(h)
  <2>1. /\ UNCHANGED <<links, intents>> /\ job'[h].at = "emit" /\ job'[h].ev = j.ev
        /\ \A k \in Keys : json'[k] \subseteq json[k]
    BY <1>1, <1>3 DEF Take, Unrecorded, Jobs, Prompting, IInv, Shape
  <2>2. PromptOK(job[h])'
    BY <2>1 DEF PromptOK
  <2>. QED BY <1>1, <2>1, <2>2, ServedQuiet
<1>4. CASE Emit(h)
  BY <1>1, <1>4, ServedEnds DEF Emit, store
<1>5. CASE Fail(h)
  BY <1>1, <1>5, ServedEnds DEF Fail
<1>. QED BY <1>2, <1>3, <1>4, <1>5

LEMMA ServedStep == IInv /\ Served /\ [Next]_vars => Served'
<1>. SUFFICES ASSUME IInv, Served, [Next]_vars PROVE Served'
  OBVIOUS
<1>1. recovers' \in Nat /\ (Unswept' => Unswept) /\ cast' = cast
  <2>1. ASSUME NEW h \in Hosts, Event(h)
        PROVE  cast' = cast /\ (UNCHANGED <<recovers, over>>
                                \/ (UNCHANGED recovers /\ over' # {})
                                \/ (recovers' = recovers + 1 /\ UNCHANGED over))
    BY <2>1 DEF Event, PreToolUse, PostToolUse, PermissionRequest, PermissionDenied, Marker,
                Recover, SessionEnd
  <2>2. ASSUME NEW h \in Hosts, Step(h) \/ Fail(h) PROVE UNCHANGED <<cast, recovers, over>>
    BY <2>2 DEF Step, Fail, NextCounter, PutBucket, PutAlias, PutTemp, PutRename, PreEnds,
                FollowLinks, List, Read, Take, SweepScan, SweepBucket, SweepRead, SweepRemove,
                SweepLinks, EmitOrphan, SweepEnds, Emit, client
  <2>3. recovers \in Nat
    BY DEF Served
  <2>4. cast' = cast /\ (UNCHANGED <<recovers, over>>
                         \/ (UNCHANGED recovers /\ over' # {})
                         \/ (recovers' = recovers + 1 /\ UNCHANGED over))
    BY <2>1, <2>2 DEF Next, Unhooked, vars, client
  <2>. QED BY <2>3, <2>4 DEF Unswept
<1>2. CASE cast.overlap \/ ~Unswept'
  BY <1>1, <1>2 DEF Served
<1>3. CASE ~cast.overlap /\ Unswept'
  <2>1. CASE UNCHANGED vars
    BY <2>1 DEF vars, client, store, Served, Unswept, Pointed, PromptOK, ContentKey
  <2>2. ASSUME NEW c \in Calls, Unhooked(c) PROVE Served'
    BY <2>2 DEF Unhooked, store, Served, Unswept, Pointed, PromptOK, ContentKey
  <2>3. ASSUME NEW h \in Hosts, Event(h) \/ Step(h) \/ Fail(h) PROVE Served'
    <3>1. Prompting(h)
      BY <1>1, <1>3, <2>3, OneAtWork DEF Prompting
    <3>2. job[h].ev \notin {"end", "recover"} /\ JobOK(job[h])
      BY <3>1 DEF Prompting, Served, IInv, AtWork
    <3>3. ~(SweepScan(h) \/ SweepBucket(h) \/ SweepRead(h) \/ SweepRemove(h) \/ SweepLinks(h)
            \/ EmitOrphan(h) \/ SweepEnds(h))
      BY <3>2 DEF SweepScan, SweepBucket, SweepRead, SweepRemove, SweepLinks, EmitOrphan,
                  SweepEnds, JobOK, SweepOK
    <3>. QED BY <2>3, <3>1, <3>3, ServedEvent, ServedPut, ServedFollow, ServedList, ServedRead
             DEF Step
  <2>. QED BY <2>1, <2>2, <2>3 DEF Next
<1>. QED BY <1>2, <1>3

-----------------------------------------------------------------------------
(* What the last sweep leaves. *)

\* the end of a session, sweeping, will still come to record i of bucket k
Sees(j, k, i) ==
    /\ j.ev = "end" /\ SessionOf[intents[i].call] \in j.who /\ i <= j.cut
    /\ \/ j.at = "scan"
       \/ j.at \in {"bucket", "names", "take"} /\ k \in j.left
       \/ j.at \in {"names", "take"} /\ k = j.bucket /\ i \in j.names
       \/ j.at = "take" /\ k = j.bucket /\ i = j.intent

\* it will still try to remove bucket k
Visits(j, k) ==
    /\ j.ev = "end"
    /\ \/ j.at = "scan"
       \/ j.at \in {"bucket", "names", "take"} /\ k \in j.left
       \/ j.at \in {"names", "take"} /\ k = j.bucket

\* what lies in the store lies in a bucket
Housed == \A k \in Keys : json[k] \cup links[k] # {} => k \in dirs

Emptied ==
    ~cast.overlap /\ faults = 0 =>
        /\ litter = {}
        /\ \A c \in Calls : tool[c] # "ready" => c \in cast.calls
        /\ Housed
        /\ \A h \in Hosts : /\ job[h].ev = "pre" => SessionOf[job[h].call] \notin over
                            /\ job[h].at \in {"names", "take"} => job[h].bucket \notin job[h].left
        /\ \A k \in Keys : \A i \in json[k] :
               SessionOf[intents[i].call] \in over => \E h \in Hosts : Sees(job[h], k, i)
        /\ over = Played => \A k \in dirs : \E h \in Hosts : Visits(job[h], k)

\* Of a move of h: hooks one at a time, none of which failed.
Sweeping(h) ==
    /\ IInv /\ IInv' /\ Emptied /\ ~cast.overlap /\ faults = 0 /\ cast' = cast
    /\ \A g \in Hosts \ {h} : Idle(g) /\ job'[g] = job[g]

\* What h answers for, before and after its move.
EmptiedFor(j) ==
    /\ litter = {}
    /\ \A c \in Calls : tool[c] # "ready" => c \in cast.calls
    /\ Housed
    /\ j.ev = "pre" => SessionOf[j.call] \notin over
    /\ j.at \in {"names", "take"} => j.bucket \notin j.left
    /\ \A k \in Keys : \A i \in json[k] : SessionOf[intents[i].call] \in over => Sees(j, k, i)
    /\ over = Played => \A k \in dirs : Visits(j, k)

LEMMA EmptiedIs ==
    ASSUME NEW h \in Hosts, Sweeping(h)
    PROVE  EmptiedFor(job[h])
<1>1. \A g \in Hosts \ {h} : job[g].ev = "none"
  BY IdleFacts DEF Sweeping
<1>2. \A g \in Hosts \ {h} : \A k, i : ~Sees(job[g], k, i) /\ ~Visits(job[g], k)
  BY <1>1 DEF Sees, Visits
<1>. QED BY <1>2 DEF Sweeping, Emptied, EmptiedFor

LEMMA EmptiedKeeps ==
    ASSUME NEW h \in Hosts, Sweeping(h), EmptiedFor(job[h])'
    PROVE  Emptied'
<1>1. \A g \in Hosts \ {h} : job'[g].ev = "none" /\ job'[g].at = "idle"
  BY IdleFacts DEF Sweeping
<1>. QED BY <1>1 DEF Emptied, EmptiedFor

\* A process that is not in the middle of a sweep, adds nothing to the store
\* and leaves the sessions alone.
LEMMA EmptiedQuiet ==
    ASSUME NEW h \in Hosts, Sweeping(h),
           job[h].ev # "end" \/ job[h].at \notin {"scan", "bucket", "names", "take"},
           UNCHANGED <<over, litter>>,
           \A i \in Ids : intents'[i].call = intents[i].call,
           \A k \in Keys : json'[k] \subseteq json[k],
           dirs' \subseteq dirs, Housed',
           \A c \in Calls : tool'[c] # "ready" => c \in cast.calls,
           job'[h].ev = "pre" => SessionOf[job'[h].call] \notin over,
           job'[h].at \in {"names", "take"} => job'[h].bucket \notin job'[h].left
    PROVE  Emptied'
<1>1. EmptiedFor(job[h])
  BY EmptiedIs
<1>2. \A k, i : ~Sees(job[h], k, i) /\ ~Visits(job[h], k)
  BY DEF Sees, Visits
<1>3. ASSUME NEW k \in Keys, NEW i \in json'[k] PROVE SessionOf[intents'[i].call] \notin over
  <2>1. i \in json[k] /\ i \in Ids
    BY DEF Sweeping, IInv, Stored, Settled
  <2>. QED BY <1>1, <1>2, <2>1 DEF EmptiedFor
<1>4. over = Played => dirs' = {}
  BY <1>1, <1>2 DEF EmptiedFor
<1>5. Played' = Played
  BY DEF Sweeping, Played
<1>6. EmptiedFor(job[h])'
  BY <1>1, <1>3, <1>4, <1>5 DEF EmptiedFor, Sweeping
<1>. QED BY <1>6, EmptiedKeeps

\* A bucket is removed only when nothing is in it.
LEMMA DropFacts ==
    ASSUME NEW k, NEW js, NEW ls
    PROVE  /\ Drop(k, js, ls) \subseteq dirs
           /\ \A q \in dirs : q \in Drop(k, js, ls) \/ (q = k /\ js[k] = {} /\ ls[k] = {})
  BY DEF Drop

\* The calls in hand are this behaviour's, and their sessions still go on.
LEMMA Playing ==
    ASSUME NEW h \in Hosts, Sweeping(h)
    PROVE  /\ \A k \in Keys : \A i \in json[k] :
                 i \in Ids /\ k = OwnKey(intents[i].call) /\ SessionOf[intents[i].call] \in Played
           /\ job[h].ev = "pre" => /\ over # Played
                                   /\ SessionOf[job[h].call] \notin over
<1>1. \A c \in Calls : tool[c] # "ready" => c \in cast.calls
  BY EmptiedIs DEF EmptiedFor
<1>2. \A k \in Keys : \A i \in json[k] :
         i \in Ids /\ k = OwnKey(intents[i].call) /\ SessionOf[intents[i].call] \in Played
  <2> TAKE k \in Keys
  <2> TAKE i \in json[k]
  <2>1. i \in Ids /\ k = OwnKey(intents[i].call)
    BY DEF Sweeping, IInv, Stored, Settled
  <2>2. intents[i].call \in Calls /\ tool[intents[i].call] # "ready"
    BY <2>1, IntentFacts DEF Sweeping, IInv, Stored
  <2>. QED BY <1>1, <2>1, <2>2 DEF Played
<1>3. ASSUME job[h].ev = "pre" PROVE SessionOf[job[h].call] \in Played
  <2>1. job[h].call \in Calls /\ tool[job[h].call] = "asking"
    BY <1>3 DEF Sweeping, IInv, AtWork, JobOK, PutOK
  <2>. QED BY <1>1, <2>1 DEF Played
<1>4. job[h].ev = "pre" => SessionOf[job[h].call] \notin over
  BY EmptiedIs DEF EmptiedFor
<1>. QED BY <1>2, <1>3, <1>4

LEMMA EmptiedEvent ==
    ASSUME NEW h \in Hosts, Sweeping(h), Event(h)
    PROVE  Emptied'
<1>1. job \in [Hosts -> Jobs] /\ tool \in [Calls -> {"ready", "asking", "running", "closed"}]
  BY DEF Sweeping, IInv, Shape
<1>2. job[h].ev = "none" /\ job[h].at = "idle" /\ EmptiedFor(job[h])
  BY OneAtWork, IdleFacts, EmptiedIs DEF Sweeping
<1>3. ASSUME NEW c \in Calls, PreToolUse(h, c) PROVE Emptied'
  <2>1. /\ UNCHANGED <<over, json, links, dirs, litter>>
        /\ intents' = Append(intents, [call |-> c, counter |-> 0])
        /\ tool' = [tool EXCEPT ![c] = "asking"] /\ c \in cast.calls
        /\ job'[h].ev = "pre" /\ job'[h].at = "counter" /\ job'[h].call = c
        /\ SessionOf[c] \notin over
    BY <1>1, <1>3 DEF PreToolUse, store, Start, NoJob
  <2>2. \A i \in Ids : intents'[i].call = intents[i].call
    <3>1. intents \in Seq([call : Calls, counter : 0..counter])
      BY DEF Sweeping, IInv, Shape
    <3>2. \A i \in DOMAIN intents : intents'[i] = intents[i]
      BY <2>1, <3>1
    <3>. QED BY <3>2 DEF Ids
  <2>3. Housed' /\ \A d \in Calls : tool'[d] # "ready" => d \in cast.calls
    BY <1>1, <1>2, <2>1 DEF EmptiedFor, Housed
  <2>. QED BY <1>2, <2>1, <2>2, <2>3, EmptiedQuiet
<1>4. ASSUME NEW c \in Calls, PostToolUse(h, c) \/ PermissionDenied(h, c) \/ PermissionRequest(h, c)
      PROVE  Emptied'
  <2>1. /\ UNCHANGED <<over, json, links, dirs, litter, intents>>
        /\ (tool' = tool \/ tool' = [tool EXCEPT ![c] = "closed"])
        /\ tool[c] = "running"
        /\ job'[h].ev \in {"post", "denied", "request"} /\ job'[h].at = "follow"
    <3>1. CASE PostToolUse(h, c)
      BY <1>1, <3>1 DEF PostToolUse, store, Start, Search, NoJob
    <3>2. CASE PermissionDenied(h, c)
      BY <1>1, <3>2 DEF PermissionDenied, store, Start, Search, NoJob
    <3>3. CASE PermissionRequest(h, c)
      BY <1>1, <3>3 DEF PermissionRequest, store, Start, Search, NoJob
    <3>. QED BY <1>4, <3>1, <3>2, <3>3
  <2>2. Housed' /\ \A d \in Calls : tool'[d] # "ready" => d \in cast.calls
    BY <1>1, <1>2, <2>1 DEF EmptiedFor, Housed
  <2>. QED BY <1>2, <2>1, <2>2, EmptiedQuiet
<1>5. CASE Marker(h) \/ Recover(h)
  <2>1. /\ UNCHANGED <<over, json, links, dirs, litter, intents, tool>>
        /\ job'[h].ev \in {"marker", "recover"} /\ job'[h].at \in {"counter", "scan"}
    <3>1. CASE Marker(h)
      BY <1>1, <3>1 DEF Marker, store, Start, NoJob
    <3>2. CASE Recover(h)
      <4>1. PICK cut, who : job' = [job EXCEPT ![h] =
               [NoJob EXCEPT !.at = "scan", !.ev = "recover", !.who = who, !.cut = cut]]
        BY <3>2 DEF Recover, Start
      <4>2. job'[h].ev = "recover" /\ job'[h].at = "scan"
        BY <1>1, <4>1 DEF NoJob
      <4>. QED BY <3>2, <4>2 DEF Recover, store
    <3>. QED BY <1>5, <3>1, <3>2
  <2>2. Housed' /\ \A d \in Calls : tool'[d] # "ready" => d \in cast.calls
    BY <1>2, <2>1 DEF EmptiedFor, Housed
  <2>. QED BY <1>2, <2>1, <2>2, EmptiedQuiet
<1>6. ASSUME NEW s \in Sessions, SessionEnd(h, s) PROVE Emptied'
  <2>1. /\ UNCHANGED <<json, links, dirs, litter, intents, tool>> /\ over' = over \cup {s}
        /\ job'[h].ev = "end" /\ job'[h].at = "scan" /\ job'[h].who = {s}
        /\ job'[h].cut = Len(intents)
    BY <1>1, <1>6 DEF SessionEnd, store, Start, NoJob
  <2>2. ASSUME NEW k \in Keys, NEW i \in json'[k], SessionOf[intents'[i].call] \in over'
        PROVE  Sees(job[h], k, i)'
    <3>1. i \in json[k] /\ i \in Ids
      BY <2>1, Playing
    <3>2. SessionOf[intents[i].call] \notin over
      BY <1>2, <3>1 DEF EmptiedFor, Sees
    <3>3. i <= Len(intents)
      BY <3>1 DEF Ids, Sweeping, IInv, Shape
    <3>. QED BY <2>1, <2>2, <3>2, <3>3 DEF Sees
  <2>3. \A k : Visits(job[h], k)'
    BY <2>1 DEF Visits
  <2>4. EmptiedFor(job[h])'
    BY <1>2, <2>1, <2>2, <2>3 DEF EmptiedFor, Housed, Sweeping
  <2>. QED BY <2>4, EmptiedKeeps
<1>. QED BY <1>3, <1>4, <1>5, <1>6 DEF Event

\* What comes to lie in the store is of a session that goes on.
LEMMA EmptiedPut ==
    ASSUME NEW h \in Hosts, Sweeping(h), PutBucket(h) \/ PutAlias(h) \/ PutRename(h)
    PROVE  Emptied'
<1> DEFINE j == job[h]
<1>1. /\ job \in [Hosts -> Jobs] /\ links \in [Keys -> SUBSET Ids] /\ json \in [Keys -> SUBSET Ids]
      /\ tool \in [Calls -> {"ready", "asking", "running", "closed"}]
      /\ j \in Jobs /\ j.ev = "pre" /\ j.call \in Calls /\ tool[j.call] = "asking"
      /\ intents[j.intent].call = j.call
  BY DEF Sweeping, IInv, Shape, AtWork, JobOK, PutOK, PutBucket, PutAlias, PutRename, Putting
<1>2. EmptiedFor(j) /\ over # Played /\ SessionOf[j.call] \notin over
  BY <1>1, EmptiedIs, Playing
<1>3. \A k, i : ~Sees(j, k, i)
  BY <1>1 DEF Sees
<1>4. over' = over /\ litter' = litter /\ intents' = intents /\ Played' = Played
  BY DEF PutBucket, PutAlias, PutRename, PreEnds, Sweeping, Played, client
<1>5. \A k \in Keys : \A i \in json'[k] : SessionOf[intents'[i].call] \notin over'
  <2>1. \A k \in Keys : \A i \in json'[k] : i \in json[k] \/ i = j.intent
    BY <1>1 DEF PutBucket, PutAlias, PutRename
  <2>. QED BY <1>1, <1>2, <1>3, <1>4, <2>1 DEF EmptiedFor
<1>6. \A c \in Calls : tool'[c] # "ready" => c \in cast.calls
  <2>1. tool' = tool \/ tool' = [tool EXCEPT ![j.call] = "running"]
    BY DEF PutBucket, PutAlias, PutRename, PreEnds, client
  <2>. QED BY <1>1, <1>2, <2>1 DEF EmptiedFor
<1>7. Housed'
  <2>1. CASE PutBucket(h)
    BY <1>2, <2>1 DEF PutBucket, EmptiedFor, Housed
  <2>2. CASE PutAlias(h)
    BY <1>1, <1>2, <2>2 DEF PutAlias, EmptiedFor, Housed, Linked
  <2>3. CASE PutRename(h)
    <3>1. j.bucket \in dirs
      BY <2>3 DEF Sweeping, IInv, Alone, AloneOK, PutRename, Putting
    <3>. QED BY <1>1, <1>2, <2>3, <3>1 DEF PutRename, EmptiedFor, Housed
  <2>. QED BY <2>1, <2>2, <2>3
<1>8. job'[h].ev \in {"pre", "none"} /\ job'[h].at \notin {"names", "take"}
      /\ (job'[h].ev = "pre" => job'[h].call = j.call)
  <2>1. CASE PutRename(h)
    BY <1>1, <2>1, NoJobFacts DEF PutRename, PreEnds
  <2>2. CASE PutBucket(h) \/ PutAlias(h)
    <3>1. PICK at \in {"alias", "temp"} : job' = [job EXCEPT ![h].at = at]
      BY <2>2 DEF PutBucket, PutAlias, Goes
    <3>2. job'[h] = [j EXCEPT !.at = at]
      BY <1>1, <3>1
    <3>3. job'[h].at = at /\ job'[h].ev = j.ev /\ job'[h].call = j.call
      BY <1>1, <3>2 DEF Jobs
    <3>. QED BY <1>1, <3>3
  <2>. QED BY <2>1, <2>2
<1>9. EmptiedFor(job[h])'
  BY <1>2, <1>4, <1>5, <1>6, <1>7, <1>8 DEF EmptiedFor, Sweeping
<1>. QED BY <1>9, EmptiedKeeps

\* The steps of a process at work that leave the store as it is.
LEMMA EmptiedIdleStore ==
    ASSUME NEW h \in Hosts, Sweeping(h),
           \/ NextCounter(h) \/ PutTemp(h) \/ List(h) \/ Read(h)
           \/ EmitOrphan(h) \/ SweepEnds(h) \/ Emit(h)
    PROVE  Emptied'
<1> DEFINE j == job[h]
           n == job'[h]
<1>1. /\ job \in [Hosts -> Jobs] /\ j \in Jobs
      /\ intents \in Seq([call : Calls, counter : 0..counter])
      /\ tool \in [Calls -> {"ready", "asking", "running", "closed"}]
  BY DEF Sweeping, IInv, Shape
<1>2. EmptiedFor(j) /\ (j.ev = "pre" => SessionOf[j.call] \notin over)
  BY EmptiedIs, Playing
<1>3. UNCHANGED <<over, json, links, dirs, litter>>
  <2>1. CASE NextCounter(h) \/ List(h) \/ Read(h) \/ Emit(h)
    BY <2>1 DEF NextCounter, List, Read, Emit, store, client
  <2>2. CASE PutTemp(h) \/ EmitOrphan(h) \/ SweepEnds(h)
    BY <2>2 DEF PutTemp, EmitOrphan, SweepEnds, store, client
  <2>. QED BY <2>1, <2>2
<1>4. j.at \notin {"scan", "bucket", "names", "take"}
  BY DEF NextCounter, PutTemp, List, Read, Emit, EmitOrphan, SweepEnds
<1>5. \A i \in Ids : intents'[i].call = intents[i].call
  <2>1. CASE NextCounter(h)
    <3>1. intents' = intents \/ intents' = [intents EXCEPT ![j.intent].counter = counter + 1]
      BY <2>1 DEF NextCounter
    <3>2. \A i \in DOMAIN intents : intents[i] \in [call : Calls, counter : 0..counter]
      BY <1>1, SeqElements
    <3>. QED BY <3>1, <3>2 DEF Ids
  <2>2. CASE ~NextCounter(h)
    BY <2>2 DEF PutTemp, List, Read, Emit, EmitOrphan, SweepEnds
  <2>. QED BY <2>1, <2>2
<1>6. \A c \in Calls : tool'[c] # "ready" => c \in cast.calls
  <2>1. CASE PutTemp(h)
    <3>1. j.call \in Calls /\ tool[j.call] = "asking"
      BY <2>1, PutFacts DEF Sweeping, PutTemp, Putting
    <3>2. tool' = tool \/ tool' = [tool EXCEPT ![j.call] = "running"]
      BY <2>1 DEF PutTemp, PreEnds
    <3>. QED BY <1>1, <1>2, <3>1, <3>2 DEF EmptiedFor
  <2>2. CASE ~PutTemp(h)
    <3>1. tool' = tool
      BY <2>2 DEF NextCounter, List, Read, Emit, EmitOrphan, SweepEnds, client
    <3>. QED BY <1>2, <3>1 DEF EmptiedFor
  <2>. QED BY <2>1, <2>2
<1>7. n.at \notin {"names", "take"} /\ (n.ev = "pre" => j.ev = "pre" /\ n.call = j.call)
  <2>1. CASE NextCounter(h)
    <3>1. n = [j EXCEPT !.n = counter + 1, !.at = "mkdir"]
          \/ n = [j EXCEPT !.n = counter + 1, !.at = "emit"]
      BY <1>1, <2>1 DEF NextCounter
    <3>. QED BY <1>1, <3>1 DEF Jobs
  <2>2. CASE PutTemp(h)
    <3>1. n = [j EXCEPT !.at = "rename"] \/ n = NoJob
      BY <1>1, <2>2 DEF PutTemp, PreEnds, Goes
    <3>. QED BY <1>1, <3>1, NoJobFacts DEF Jobs
  <2>3. CASE List(h) \/ Read(h)
    <3>1. j.ev \in Searching
      BY <2>3 DEF Sweeping, IInv, AtWork, JobOK, SearchOK, List, Read
    <3>2. n.at \notin {"names", "take"} /\ n.ev = j.ev
      <4>1. CASE List(h)
        <5>1. n = IF j.look = {}
                    THEN [j EXCEPT !.key = <<>>,
                            !.at = IF j.keys = <<>> THEN "counter" ELSE "follow"]
                  ELSE IF json[Bucket(j, Min(j.look))] = {}
                    THEN [j EXCEPT !.look = @ \ {Min(j.look)}]
                  ELSE [j EXCEPT !.at = "read", !.look = @ \ {Min(j.look)},
                                 !.bucket = Bucket(j, Min(j.look)),
                                 !.intent = Min(json[Bucket(j, Min(j.look))])]
          BY <1>1, <4>1 DEF List
        <5>2. j.at = "list"
          BY <4>1 DEF List
        <5>. QED BY <1>1, <5>1, <5>2 DEF Jobs
      <4>2. CASE Read(h)
        <5>1. n = IF j.intent \notin json[j.bucket]
                    THEN [j EXCEPT !.at = "list", !.intent = 0, !.bucket = <<>>]
                  ELSE IF j.ev = "request"
                    THEN [NoJob EXCEPT !.at = "counter", !.ev = j.ev, !.call = j.call,
                                       !.intent = j.intent]
                  ELSE [j EXCEPT !.at = "remove", !.key = <<>>, !.keys = <<>>, !.look = {}]
          BY <1>1, <4>2 DEF Read
        <5>. QED BY <1>1, <5>1, NoJobFacts DEF Jobs
      <4>. QED BY <2>3, <4>1, <4>2
    <3>. QED BY <3>1, <3>2 DEF Searching
  <2>4. CASE EmitOrphan(h)
    <3>1. n = [j EXCEPT !.taken = Rest(j)] /\ j.at = "orphans"
      BY <1>1, <2>4 DEF EmitOrphan
    <3>. QED BY <1>1, <3>1 DEF Jobs
  <2>5. CASE SweepEnds(h)
    <3>1. n = IF j.ev = "end" THEN [NoJob EXCEPT !.at = "counter", !.ev = "end"] ELSE NoJob
      BY <1>1, <2>5 DEF SweepEnds
    <3>. QED BY <3>1, NoJobFacts DEF Jobs
  <2>6. CASE Emit(h)
    BY <1>1, <2>6, NoJobFacts DEF Emit
  <2>. QED BY <2>1, <2>2, <2>3, <2>4, <2>5, <2>6
<1>8. Housed'
  BY <1>2, <1>3 DEF EmptiedFor, Housed
<1>9. n.ev = "pre" => SessionOf[n.call] \notin over
  BY <1>2, <1>7
<1>. QED BY <1>3, <1>4, <1>5, <1>6, <1>7, <1>8, <1>9, EmptiedQuiet

\* A claim, and the pointers found dead before it.
LEMMA EmptiedClaim ==
    ASSUME NEW h \in Hosts, Sweeping(h), FollowLinks(h) \/ Take(h)
    PROVE  Emptied'
<1> DEFINE j == job[h]
           n == job'[h]
<1>1. /\ job \in [Hosts -> Jobs] /\ j \in Jobs
      /\ links \in [Keys -> SUBSET Ids] /\ json \in [Keys -> SUBSET Ids]
  BY DEF Sweeping, IInv, Shape
<1>2. EmptiedFor(j)
  BY EmptiedIs
<1>3. UNCHANGED <<over, litter, intents, tool>> /\ j.at \in {"follow", "remove"}
  BY DEF FollowLinks, Take, client
<1>4. j.ev \in Searching
  BY <1>3 DEF Sweeping, IInv, AtWork, JobOK, SearchOK
<1>5. n.ev = j.ev /\ n.at \in {"list", "emit"}
  <2>1. CASE FollowLinks(h)
    <3>1. PICK look : job' = [job EXCEPT ![h].at = "list", ![h].keys = Tail(@),
                              ![h].key = Head(j.keys), ![h].look = look]
      BY <2>1 DEF FollowLinks
    <3>2. n = [j EXCEPT !.at = "list", !.keys = Tail(@), !.key = Head(j.keys), !.look = look]
      BY <1>1, <3>1
    <3>. QED BY <1>1, <3>2 DEF Jobs
  <2>2. CASE Take(h)
    <3>1. n = [j EXCEPT !.at = "emit", !.bucket = <<>>, !.n = intents[j.intent].counter]
      BY <1>1, <2>2 DEF Take
    <3>. QED BY <1>1, <3>1 DEF Jobs
  <2>. QED BY <2>1, <2>2
<1>6. /\ \A k \in Keys : json'[k] \subseteq json[k] /\ links'[k] \subseteq links[k]
      /\ \E k, js, ls : /\ dirs' = Drop(k, js, ls)
                        /\ k \in Keys => js[k] = json'[k] /\ ls[k] = links'[k]
  <2>1. CASE FollowLinks(h)
    <3> DEFINE k == Head(j.keys)
               live == {i \in links[k] : json[Target(i)] # {}}
               ls == [links EXCEPT ![k] = live]
    <3>1. live \subseteq links[k]
      OBVIOUS
    <3>2. links' = ls /\ dirs' = Drop(k, json, ls) /\ json' = json
      BY <2>1 DEF FollowLinks
    <3>. HIDE DEF k, live
    <3>3. \A q \in Keys : links'[q] \subseteq links[q]
      BY <1>1, <3>1, <3>2
    <3>. QED BY <3>2, <3>3
  <2>2. CASE Take(h)
    <3> DEFINE k == j.bucket
               js == [json EXCEPT ![k] = @ \ {j.intent}]
    <3>1. json' = js /\ links' = links /\ dirs' = Drop(k, js, links)
      BY <2>2 DEF Take, Unrecorded
    <3>. HIDE DEF k
    <3>2. \A q \in Keys : json'[q] \subseteq json[q]
      BY <1>1, <3>1
    <3>. QED BY <3>1, <3>2
  <2>. QED BY <1>3, <2>1, <2>2 DEF FollowLinks, Take
<1>7. dirs' \subseteq dirs /\ Housed'
  <2>1. PICK k, js, ls : /\ dirs' = Drop(k, js, ls)
                         /\ k \in Keys => js[k] = json'[k] /\ ls[k] = links'[k]
    BY <1>6
  <2>2. dirs' \subseteq dirs /\ \A q \in dirs : q \in dirs' \/ (q = k /\ js[k] = {} /\ ls[k] = {})
    BY <2>1, DropFacts
  <2>. QED BY <1>2, <1>6, <2>1, <2>2 DEF EmptiedFor, Housed
<1>8. \A c \in Calls : tool'[c] # "ready" => c \in cast.calls
  BY <1>2, <1>3 DEF EmptiedFor
<1>. QED BY <1>3, <1>4, <1>5, <1>6, <1>7, <1>8, EmptiedQuiet DEF Searching

\* A sweep that leaves no record or bucket of its own behind it unseen.
LEMMA EmptiedSweep ==
    ASSUME NEW h \in Hosts, Sweeping(h), job[h].ev # "pre", job'[h].ev # "pre",
           UNCHANGED <<over, litter, intents, tool>>,
           \A k \in Keys : json'[k] \subseteq json[k],
           Housed', dirs' \subseteq dirs,
           job'[h].at \in {"names", "take"} => job'[h].bucket \notin job'[h].left,
           \A k \in Keys : \A i \in json'[k] : Sees(job[h], k, i) => Sees(job[h], k, i)',
           over = Played => \A k \in dirs' : Visits(job[h], k) => Visits(job[h], k)'
    PROVE  Emptied'
<1>1. EmptiedFor(job[h])
  BY EmptiedIs
<1>2. Played' = Played
  BY DEF Sweeping, Played
<1>3. \A k \in Keys : \A i \in json'[k] : SessionOf[intents'[i].call] \in over' =>
        Sees(job[h], k, i)'
  BY <1>1 DEF EmptiedFor
<1>4. over' = Played' => \A k \in dirs' : Visits(job[h], k)'
  BY <1>1, <1>2 DEF EmptiedFor
<1>5. EmptiedFor(job[h])'
  BY <1>1, <1>3, <1>4 DEF EmptiedFor, Sweeping
<1>. QED BY <1>5, EmptiedKeeps

\* The listing a sweep starts from has every bucket with something in it.
LEMMA EmptiedScan ==
    ASSUME NEW h \in Hosts, Sweeping(h), SweepScan(h)
    PROVE  Emptied'
<1> DEFINE j == job[h]
           n == job'[h]
<1>1. /\ job \in [Hosts -> Jobs] /\ j \in Jobs /\ EmptiedFor(j)
      /\ j.ev \in {"end", "recover"} /\ j.at = "scan"
  BY EmptiedIs, SweepFacts DEF Sweeping, IInv, Shape, SweepScan, Sweeps
<1>2. UNCHANGED <<over, litter, intents, tool, json, links, dirs>>
  BY DEF SweepScan, store, client
<1>3. n = [j EXCEPT !.at = "bucket", !.left = dirs]
  BY <1>1 DEF SweepScan
<1>4. /\ n.ev = j.ev /\ n.who = j.who /\ n.cut = j.cut /\ n.at = "bucket" /\ n.left = dirs
  BY <1>1, <1>3 DEF Jobs
<1>. HIDE DEF n
<1>5. Housed' /\ \A k \in Keys : \A i \in json[k] : k \in dirs
  BY <1>1, <1>2 DEF EmptiedFor, Housed
<1>6. \A k \in Keys : \A i \in json'[k] : Sees(job[h], k, i) => Sees(job[h], k, i)'
  BY <1>2, <1>4, <1>5 DEF Sees, n
<1>7. \A k \in dirs' : Visits(job[h], k) => Visits(job[h], k)'
  BY <1>2, <1>4 DEF Visits, n
<1>. QED BY <1>1, <1>2, <1>4, <1>5, <1>6, <1>7, EmptiedSweep DEF n

\* A bucket of the listing is opened, or none is left to open.
LEMMA EmptiedBucket ==
    ASSUME NEW h \in Hosts, Sweeping(h), SweepBucket(h)
    PROVE  Emptied'
<1> DEFINE j == job[h]
           n == job'[h]
<1>1. /\ job \in [Hosts -> Jobs] /\ j \in Jobs /\ EmptiedFor(j)
      /\ j.ev \in {"end", "recover"} /\ j.at = "bucket"
  BY EmptiedIs, SweepFacts DEF Sweeping, IInv, Shape, SweepBucket, Sweeps
<1>2. UNCHANGED <<over, litter, intents, tool, json, links, dirs>> /\ Housed'
  BY <1>1 DEF SweepBucket, store, client, EmptiedFor, Housed
<1>3. CASE j.left = {}
  <2>1. n = [j EXCEPT !.at = "orphans"]
    BY <1>1, <1>3 DEF SweepBucket, Goes
  <2>2. n.ev = j.ev /\ n.at = "orphans"
    BY <1>1, <2>1 DEF Jobs
  <2>3. \A k, i : ~Sees(job[h], k, i) /\ ~Visits(job[h], k)
    BY <1>1, <1>3 DEF Sees, Visits
  <2>. QED BY <1>1, <1>2, <2>2, <2>3, EmptiedSweep
<1>4. CASE j.left # {}
  <2>1. PICK q \in j.left :
           job' = [job EXCEPT ![h].at = "names", ![h].left = @ \ {q},
                              ![h].bucket = q, ![h].names = json[q]]
    BY <1>4 DEF SweepBucket
  <2>2. n = [j EXCEPT !.at = "names", !.left = @ \ {q}, !.bucket = q, !.names = json[q]]
    BY <1>1, <2>1
  <2>3. /\ n.ev = j.ev /\ n.who = j.who /\ n.cut = j.cut /\ n.at = "names"
        /\ n.left = j.left \ {q} /\ n.bucket = q /\ n.names = json[q]
    BY <1>1, <2>2 DEF Jobs
  <2>. HIDE DEF n
  <2>4. \A k \in Keys : \A i \in json'[k] : Sees(job[h], k, i) => Sees(job[h], k, i)'
    BY <1>1, <1>2, <2>3 DEF Sees, n
  <2>5. \A k \in dirs' : Visits(job[h], k) => Visits(job[h], k)'
    BY <1>1, <1>2, <2>3 DEF Visits, n
  <2>. QED BY <1>1, <1>2, <2>3, <2>4, <2>5, EmptiedSweep DEF n
<1>. QED BY <1>3, <1>4

\* A record of an ended session is never passed over.
LEMMA EmptiedRead ==
    ASSUME NEW h \in Hosts, Sweeping(h), SweepRead(h)
    PROVE  Emptied'
<1> DEFINE j == job[h]
           n == job'[h]
           i0 == Min(j.names)
           at == IF i0 \in json[j.bucket] /\ Matches(j, i0) THEN "take" ELSE "names"
<1>1. /\ job \in [Hosts -> Jobs] /\ j \in Jobs /\ EmptiedFor(j)
      /\ j.ev \in {"end", "recover"} /\ j.at = "names"
  BY EmptiedIs, SweepFacts DEF Sweeping, IInv, Shape, SweepRead, Sweeps
<1>2. UNCHANGED <<over, litter, intents, tool, json, links, dirs>> /\ Housed'
  BY <1>1 DEF SweepRead, store, client, EmptiedFor, Housed
<1>3. n = [j EXCEPT !.names = @ \ {i0}, !.intent = i0, !.at = at]
  BY <1>1 DEF SweepRead
<1>4. /\ n.ev = j.ev /\ n.who = j.who /\ n.cut = j.cut /\ n.left = j.left
      /\ n.bucket = j.bucket /\ n.names = j.names \ {i0} /\ n.intent = i0 /\ n.at = at
  BY <1>1, <1>3 DEF Jobs
<1>5. at \in {"take", "names"} /\ (i0 \in json[j.bucket] /\ Matches(j, i0) => at = "take")
  OBVIOUS
<1>. HIDE DEF n, i0, at
<1>6. ASSUME NEW k \in Keys, NEW i \in json'[k], Sees(job[h], k, i) PROVE Sees(job[h], k, i)'
  <2>1. SessionOf[intents[i].call] \in j.who /\ i <= j.cut /\ j.ev = "end" /\ i \in json[k]
    BY <1>2, <1>6 DEF Sees
  <2>2. CASE k \in j.left
    BY <1>2, <1>4, <1>5, <2>1, <2>2 DEF Sees, n
  <2>3. CASE k = j.bucket /\ i \in j.names /\ i # i0
    BY <1>2, <1>4, <1>5, <2>1, <2>3 DEF Sees, n
  <2>4. CASE k = j.bucket /\ i = i0
    <3>1. at = "take"
      BY <1>5, <2>1, <2>4 DEF Matches
    <3>. QED BY <1>2, <1>4, <2>1, <2>4, <3>1 DEF Sees, n
  <2>. QED BY <1>1, <1>6, <2>2, <2>3, <2>4 DEF Sees
<1>7. \A k \in dirs' : Visits(job[h], k) => Visits(job[h], k)'
  BY <1>1, <1>2, <1>4, <1>5 DEF Visits, n
<1>8. n.at \in {"names", "take"} => n.bucket \notin n.left
  BY <1>1, <1>4 DEF EmptiedFor
<1>. QED BY <1>1, <1>2, <1>4, <1>6, <1>7, <1>8, EmptiedSweep DEF n

\* A record taken leaves the store.
LEMMA EmptiedRemove ==
    ASSUME NEW h \in Hosts, Sweeping(h), SweepRemove(h)
    PROVE  Emptied'
<1> DEFINE j == job[h]
           n == job'[h]
<1>1. /\ job \in [Hosts -> Jobs] /\ j \in Jobs /\ EmptiedFor(j)
      /\ j.ev \in {"end", "recover"} /\ j.at = "take" /\ json \in [Keys -> SUBSET Ids]
  BY EmptiedIs, SweepFacts DEF Sweeping, IInv, Shape, SweepRemove, Sweeps
<1>2. /\ UNCHANGED <<over, litter, intents, tool, links, dirs>>
      /\ json' = [json EXCEPT ![j.bucket] = @ \ {j.intent}]
  BY DEF SweepRemove, client, Unrecorded
<1>3. n = [j EXCEPT !.at = "names", !.taken = @ \cup {j.intent}]
  BY <1>1 DEF SweepRemove
<1>4. /\ n.ev = j.ev /\ n.who = j.who /\ n.cut = j.cut /\ n.left = j.left
      /\ n.bucket = j.bucket /\ n.names = j.names /\ n.at = "names"
  BY <1>1, <1>3 DEF Jobs
<1>. HIDE DEF n
<1>5. \A k \in Keys : json'[k] \subseteq json[k] /\ (k = j.bucket => j.intent \notin json'[k])
  BY <1>1, <1>2
<1>6. Housed'
  BY <1>1, <1>2, <1>5 DEF EmptiedFor, Housed
<1>7. \A k \in Keys : \A i \in json'[k] : Sees(job[h], k, i) => Sees(job[h], k, i)'
  BY <1>1, <1>2, <1>4, <1>5 DEF Sees, n
<1>8. \A k \in dirs' : Visits(job[h], k) => Visits(job[h], k)'
  BY <1>1, <1>2, <1>4 DEF Visits, n
<1>9. n.at \in {"names", "take"} => n.bucket \notin n.left
  BY <1>1, <1>4 DEF EmptiedFor
<1>. QED BY <1>1, <1>2, <1>4, <1>5, <1>6, <1>7, <1>8, <1>9, EmptiedSweep DEF n

\* A bucket swept through is gone when every session is over.
LEMMA EmptiedLinks ==
    ASSUME NEW h \in Hosts, Sweeping(h), SweepLinks(h)
    PROVE  Emptied'
<1> DEFINE j == job[h]
           n == job'[h]
           q == job[h].bucket
           ls == [links EXCEPT ![q] = {}]
<1>1. /\ job \in [Hosts -> Jobs] /\ j \in Jobs /\ EmptiedFor(j) /\ j.names = {} /\ q \in Keys
      /\ j.ev \in {"end", "recover"} /\ j.at = "names" /\ links \in [Keys -> SUBSET Ids]
  BY EmptiedIs, SweepFacts
  DEF Sweeping, IInv, Shape, SweepLinks, Sweeps, JobOK, SweepOK
<1>2. /\ UNCHANGED <<over, litter, intents, tool, json>>
      /\ links' = ls /\ dirs' = Drop(q, json, ls)
  BY DEF SweepLinks, client, Unlinked
<1>3. n = [j EXCEPT !.at = "bucket"]
  BY <1>1 DEF SweepLinks, Goes
<1>4. /\ n.ev = j.ev /\ n.who = j.who /\ n.cut = j.cut /\ n.left = j.left /\ n.at = "bucket"
  BY <1>1, <1>3 DEF Jobs
<1>. HIDE DEF n
<1>5. /\ ls[q] = {} /\ \A k \in Keys : links'[k] \subseteq links[k]
  BY <1>1, <1>2
<1>. HIDE DEF ls
<1>6. dirs' \subseteq dirs /\ \A k \in dirs : k \in dirs' \/ (k = q /\ json[q] = {} /\ ls[q] = {})
  BY <1>2, DropFacts
<1>7. Housed'
  BY <1>1, <1>2, <1>5, <1>6 DEF EmptiedFor, Housed
<1>8. \A i : ~Sees(j, q, i)
  BY <1>1 DEF Sees, EmptiedFor
<1>9. \A k \in Keys : \A i \in json'[k] : Sees(job[h], k, i) => Sees(job[h], k, i)'
  BY <1>1, <1>2, <1>4, <1>8 DEF Sees, n
<1>10. ASSUME over = Played PROVE q \notin dirs'
  <2>1. json[q] = {}
    BY <1>1, <1>8, <1>10, Playing DEF EmptiedFor
  <2>2. \A g \in Hosts : job[g].at # "rename"
    BY <1>1 DEF Sweeping, Idle
  <2>. QED BY <1>1, <1>2, <1>5, <2>1, <2>2 DEF Drop, EmptiedFor
<1>11. over = Played => \A k \in dirs' : Visits(job[h], k) => Visits(job[h], k)'
  BY <1>1, <1>4, <1>10 DEF Visits, n
<1>. QED BY <1>1, <1>2, <1>4, <1>6, <1>7, <1>9, <1>11, EmptiedSweep DEF n

LEMMA EmptiedStep == IInv /\ IInv' /\ Emptied /\ [Next]_vars => Emptied'
<1>. SUFFICES ASSUME IInv, IInv', Emptied, [Next]_vars PROVE Emptied'
  OBVIOUS
<1>1. cast' = cast /\ faults \in Nat /\ (faults' = faults \/ faults' = faults + 1)
  <2>1. ASSUME NEW h \in Hosts, Event(h) PROVE cast' = cast /\ faults' = faults
    BY <2>1 DEF Event, PreToolUse, PostToolUse, PermissionRequest, PermissionDenied, Marker,
                Recover, SessionEnd
  <2>2. ASSUME NEW h \in Hosts, Step(h) PROVE cast' = cast /\ faults' = faults
    BY <2>2 DEF Step, NextCounter, PutBucket, PutAlias, PutTemp, PutRename, PreEnds,
                FollowLinks, List, Read, Take, SweepScan, SweepBucket, SweepRead, SweepRemove,
                SweepLinks, EmitOrphan, SweepEnds, Emit
  <2>3. ASSUME NEW h \in Hosts, Fail(h) PROVE cast' = cast /\ faults' = faults + 1
    BY <2>3 DEF Fail
  <2>. QED BY <2>1, <2>2, <2>3 DEF Next, Unhooked, vars, IInv, Shape
<1>2. CASE cast.overlap \/ faults' # 0
  BY <1>1, <1>2 DEF Emptied
<1>3. CASE ~cast.overlap /\ faults' = 0
  <2>0. faults = 0
    BY <1>1, <1>3
  <2>1. CASE UNCHANGED vars
    BY <2>1 DEF vars, client, store, Emptied, Housed, Sees, Visits, Played
  <2>2. ASSUME NEW c \in Calls, Unhooked(c) PROVE Emptied'
    <3>1. \A d \in Calls : tool'[d] # "ready" => d \in cast.calls
      BY <1>3, <2>0, <2>2 DEF Unhooked, Emptied, IInv, Shape
    <3>. QED BY <1>3, <2>0, <2>2, <3>1 DEF Unhooked, Emptied, store, Housed, Sees, Visits, Played
  <2>3. ASSUME NEW h \in Hosts, Event(h) \/ Step(h) \/ Fail(h) PROVE Emptied'
    <3>1. Sweeping(h)
      BY <1>1, <1>3, <2>0, <2>3, OneAtWork DEF Sweeping
    <3>2. ~Fail(h)
      BY <1>3, <2>0 DEF Fail
    <3>. QED
      BY <2>3, <3>1, <3>2, EmptiedEvent, EmptiedPut, EmptiedIdleStore, EmptiedClaim,
         EmptiedScan, EmptiedBucket, EmptiedRead, EmptiedRemove, EmptiedLinks
      DEF Step
  <2>. QED BY <2>1, <2>2, <2>3 DEF Next
<1>. QED BY <1>2, <1>3

LEMMA StoreStarts == Init => Served /\ Emptied
<1>. SUFFICES ASSUME Init PROVE Served /\ Emptied
  OBVIOUS
<1>1. \A h \in Hosts : job[h] = NoJob
  BY DEF Init
<1>2. Served
  BY <1>1, NoJobFacts DEF Init, Served, PromptOK
<1>3. Emptied
  BY <1>1, NoJobFacts DEF Init, Emptied, Housed
<1>. QED BY <1>2, <1>3

LEMMA StoreIs == IInv /\ Served /\ Emptied => StoreServes
<1>. SUFFICES ASSUME IInv, Served, Emptied PROVE StoreServes
  OBVIOUS
<1>1. ApprovalAnchorsUnswept
  <2>. SUFFICES ASSUME over = {}, recovers = 0, ~cast.overlap, NEW h \in Hosts,
                       job[h].ev = "request", job[h].at = "counter", job[h].intent = 0,
                       NEW i \in OnDisk
                PROVE  intents[i].call # job[h].call
    BY DEF ApprovalAnchorsUnswept, ApprovalAnchors
  <2>1. PICK k \in Keys : i \in json[k]
    BY DEF OnDisk
  <2>2. PromptOK(job[h])
    BY DEF Served, Unswept
  <2>. QED BY <2>1, <2>2 DEF PromptOK
<1>2. StoreEmpties
  <2>. SUFFICES ASSUME ~cast.overlap, faults = 0, over = Played, \A h \in Hosts : Idle(h)
                PROVE  dirs = {}
    BY DEF StoreEmpties
  <2>1. \A h \in Hosts : job[h].ev = "none"
    BY IdleFacts
  <2>2. \A k \in dirs : \E h \in Hosts : Visits(job[h], k)
    BY DEF Emptied
  <2>. QED BY <2>1, <2>2 DEF Visits
<1>. QED BY <1>1, <1>2 DEF StoreServes

(* Hooks running one at a time, a permission prompt anchors to the intent  *)
(* its call has in the store, until the first sweep (handlePermission),    *)
(* and after the end of the last session, no hook having failed, the store *)
(* is empty (Sweep).                                                       *)
THEOREM StoreIsServed == Spec => []StoreServes
<1>1. Init => Served /\ Emptied
  BY StoreStarts
<1>2. IInv /\ IInv' /\ Served /\ Emptied /\ [Next]_vars => (Served /\ Emptied)'
  BY ServedStep, EmptiedStep
<1>3. Spec => []IInv
  BY InvariantHolds
<1>4. IInv /\ Served /\ Emptied => StoreServes
  BY StoreIs
<1>. QED BY <1>1, <1>2, <1>3, <1>4, PTL DEF Spec
=============================================================================
