----------------------------- MODULE HooksProps -----------------------------
(* What the hook surface promises about intents, counters and receipts.     *)
EXTENDS Hooks

Ids == DOMAIN intents
OnDisk == UNION {json[k] : k \in Keys}
Spooled == {r.counter : r \in receipts}

-----------------------------------------------------------------------------
(* Every variable stays in its type; a record is only ever in the bucket
   its own event computed (pendingKey). *)
TypeOK ==
    /\ cast \in Casts
    /\ tool \in [Calls -> {"ready", "asking", "running", "closed"}]
    /\ asked \subseteq Calls /\ over \subseteq Sessions
    /\ marks \in 0..cast.marks /\ recovers \in 0..cast.recovers
    /\ counter \in Nat /\ faults \in 0..cast.faults
    /\ intents \in Seq([call : Calls, counter : 0..counter])
    /\ \A k \in Keys : json[k] \cup links[k] \subseteq Ids
    /\ \A i \in OnDisk : i \in json[PendingKey(intents[i].call, intents[i].call \in WithId)]
    /\ dirs \cup litter \subseteq Keys
    /\ {k \in Keys : json[k] \cup links[k] # {}} \subseteq dirs
    /\ gone \subseteq 1..counter /\ Spooled \subseteq 1..counter

-----------------------------------------------------------------------------
(* No counter goes missing (Q48's gap detector): each one taken is in a
   spooled receipt, on disk in a pending intent, in the hands of a running
   process, or was in the hands of one that failed.  A failure needs a
   cause: a killed process or an error, or, when hooks overlap, a bucket
   removed under a Put (claimBucket, followLinks and Sweep remove empty
   buckets). *)
EveryCounterHeld ==
    /\ 1..counter = Spooled \cup {intents[i].counter : i \in OnDisk} \cup gone
                    \cup UNION {Holds(job[h]) : h \in Hosts}
    /\ gone # {} => cast.overlap \/ faults > 0

(* One crossing, one counter (emitOrphan, handlePermission): two receipts
   share a counter only when overlapping hooks took the same intent, and
   then both name that intent, so a reader can tell. *)
SharedCounterIsOneIntent ==
    \A r, s \in receipts :
        r # s /\ r.counter = s.counter =>
            cast.overlap /\ r.intent = s.intent /\ r.intent # 0

(* Each counter stands for one event of one intent, and none goes missing:
   what the receipts of an emitter are counted by. *)
CountersAccounted == EveryCounterHeld /\ SharedCounterIsOneIntent

(* A receipt closes an intent of the same session, tool and input as its
   own call: the fallback to the content key and the pointers it follows
   never cross into another session's intents. *)
ClosesItsLike ==
    \A r \in receipts :
        r.intent # 0 =>
            LET closed == intents[r.intent].call
            IN  SessionOf[closed] = SessionOf[r.call] /\ Input[closed] = Input[r.call]

(* Calls without an id that the content key cannot tell apart: when their
   hooks overlap, two processes may list one oldest record, and the one that
   finds it taken moves on to the next bucket (claimBucket). *)
RacedForOne(c) ==
    /\ cast.overlap
    /\ c \notin WithId
    /\ \E i \in Ids : /\ intents[i].call \notin WithId \cup {c}
                     /\ ContentKey(intents[i].call) = ContentKey(c)

(* KindExtPostOnly says that no intent was found.  It is never stamped
   while the call's own intent lies in the store, both keys having been
   tried, save in a race of calls that nothing tells apart. *)
PostOnlyMissedNothing ==
    \A r \in receipts :
        r.kind = "post_only" /\ (\E i \in OnDisk : intents[i].call = r.call)
            => RacedForOne(r.call)

(* What a receipt says of its intent is true: it names one of its like, and
   says that there was none only when its event could find none. *)
IntentIsItsOwn == ClosesItsLike /\ PostOnlyMissedNothing

(* The sweep at session end "makes the store go back to nothing": when the
   hooks ran one at a time and none failed, the last session's end leaves
   no bucket, record or pointer behind. *)
StoreEmpties ==
    ~cast.overlap /\ faults = 0 /\ over = Played /\ (\A h \in Hosts : Idle(h))
        => dirs = {}

(* A PermissionRequest whose call has an intent in the store anchors to it
   (handlePermission: "Anchor to the intent the tool call actually
   recorded"), hooks running one at a time. *)
ApprovalAnchors ==
    ~cast.overlap => \A h \in Hosts :
        job[h].ev = "request" /\ job[h].at = "counter" /\ job[h].intent = 0
            => \A i \in OnDisk : intents[i].call # job[h].call

(* The same, until the first sweep of the store. *)
ApprovalAnchorsUnswept == over = {} /\ recovers = 0 => ApprovalAnchors

(* Hooks running one at a time, the store serves what is recorded in it until
   the first sweep, and the last sweep leaves nothing of it. *)
StoreServes == ApprovalAnchorsUnswept /\ StoreEmpties

(* No intent stays in the store once its session has ended: hooks running
   one at a time and none failing, each gets its one receipt, from the event
   that closed the call or from the sweep. *)
EveryIntentCloses ==
    \A c \in Calls :
        (~cast.overlap /\ cast.faults = 0 /\ \E i \in OnDisk : intents[i].call = c)
            ~> (\E i \in Ids : intents[i].call = c /\ intents[i].counter \in Spooled)
=============================================================================
