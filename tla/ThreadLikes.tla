----------------------------- MODULE ThreadLikes -----------------------------
(***************************************************************************)
(* The likes of one published thread and what follows from them: the       *)
(* aggregated notification of the owner and the count kept in Redis        *)
(* (src/src/threads/thread-reaction.service.ts, thread-events.listener.ts, *)
(* thread-ranking.service.ts, src/src/notifications,                       *)
(* src/src/post-activity/post-events.listener.ts).                         *)
(*                                                                         *)
(* like and unlike are one transaction each, serialised by the row of the  *)
(* user.  A worker delivers one event at a time to all its listeners,      *)
(* which interleave; the event is acknowledged when all succeeded, and     *)
(* delivered again otherwise (module Outbox).  The aggregation is a        *)
(* SERIALIZABLE transaction: it reads (AggregateRead), and commits         *)
(* (AggregateCommit) unless what it read was changed in between.           *)
(***************************************************************************)
EXTENDS Naturals, FiniteSets, Sequences

CONSTANTS Users,        \* users who like the thread; the owner is not one of them
          Workers,      \* deliveries in progress at the same time
          None,         \* no event
          Loads,        \* bound: [ops, listeners] that occur in one behaviour
          KeptKeys,     \* eventKeys.slice(-100)
          MaxTries,     \* attempts of the aggregation, 3 in the code
          MaxEvents, MaxNotes, MaxFaults    \* bounds

ASSUME LikesAssumption ==
    /\ IsFiniteSet(Users) /\ None \notin Nat
    /\ KeptKeys \in Nat \ {0} /\ MaxTries \in Nat \ {0}
    /\ MaxEvents \in Nat /\ MaxNotes \in Nat /\ MaxFaults \in Nat

VARIABLES likes,          \* rows of thread_likes
          likeCount,      \* threads.like_count
          removed,        \* the thread is soft-deleted
          blockedLikers,  \* users with a block between them and the owner
          event,          \* outbox: event id -> [kind, user, state]
          note,           \* the owner's like notifications: id -> row
          cached,         \* the field likes of thread:{id}:stats
          lateWrites,     \* fire-and-forget writes of the stats not carried out yet
          job,            \* worker -> the delivery it runs
          rebuild,        \* the count a rebuild of the ranking has read, None outside
          counted,        \* history: notification -> the events counted into it
          likeFaults,     \* faults that happened
          load

table == <<likes, likeCount, removed, blockedLikers>>
projections == <<note, cached, counted>>
likesVars == <<table, event, projections, lateWrites, job, rebuild, likeFaults, load>>

Events == 1..MaxEvents
Notes == 1..MaxNotes
Listeners == {"notify", "cache"}

NoLike == [kind |-> "none", user |-> None, state |-> "none"]
NoNote == [status |-> "none", read |-> FALSE, total |-> 0, keys |-> <<>>]
NoJob == [event |-> None, notify |-> "done", cache |-> "done",
          snap |-> None, stale |-> FALSE, tries |-> 0, seen |-> 0]

Last(s, n) == IF Len(s) <= n THEN s ELSE SubSeq(s, Len(s) - n + 1, Len(s))

Has(s, e) == \E i \in 1..Len(s) : s[i] = e
Pushed(e) == event[e].state # "none"
Rows(notes) == {n \in Notes : notes[n].status = "live"}

LikesInit ==
    /\ likes = {} /\ likeCount = 0
    /\ removed = FALSE /\ blockedLikers = {}
    /\ event = [e \in Events |-> NoLike]
    /\ note = [n \in Notes |-> NoNote]
    /\ cached = None
    /\ job = [w \in Workers |-> NoJob]
    /\ rebuild = None
    /\ counted = [n \in Notes |-> <<>>]
    /\ likeFaults = 0
    /\ load \in Loads
    /\ lateWrites = {"publish"} \intersect load.ops

Occurs(op) == op \in load.ops
LikeFault == likeFaults < MaxFaults /\ likeFaults' = likeFaults + 1

----------------------------------------------------------------------------
(* thread-reaction.service.ts                                              *)

EnqueueLike(kind, u) ==
    \E e \in Events : /\ ~Pushed(e) /\ \A d \in Events : d < e => Pushed(d)
                      /\ event' = [event EXCEPT ![e] = [kind |-> kind, user |-> u, state |-> "pending"]]

Like(u) ==
    /\ Occurs("like") /\ ~removed /\ u \notin blockedLikers
    /\ u \notin likes
    /\ likes' = likes \union {u} /\ likeCount' = likeCount + 1
    /\ EnqueueLike("liked", u)
    /\ UNCHANGED <<removed, blockedLikers, projections, lateWrites, job, rebuild, likeFaults, load>>

Unlike(u) ==
    /\ Occurs("unlike") /\ ~removed
    /\ u \in likes
    /\ likes' = likes \ {u} /\ likeCount' = likeCount - 1
    /\ EnqueueLike("unliked", u)
    /\ UNCHANGED <<removed, blockedLikers, projections, lateWrites, job, rebuild, likeFaults, load>>

BlockLiker(u) ==
    /\ Occurs("block")
    /\ blockedLikers' \in {blockedLikers \union {u}, blockedLikers \ {u}}
    /\ UNCHANGED <<likes, likeCount, removed, event, projections, lateWrites, job, rebuild, likeFaults, load>>

\* ThreadsService.remove: unread notifications become read, the stats are dropped later.
RemoveThread ==
    /\ Occurs("remove") /\ ~removed
    /\ removed' = TRUE
    /\ note' = [n \in Notes |-> [note[n] EXCEPT !.read = @ \/ note[n].status = "live"]]
    /\ lateWrites' = lateWrites \union {"remove"}
    /\ UNCHANGED <<likes, likeCount, blockedLikers, event, cached, counted, job, rebuild, likeFaults, load>>

\* The writes to Redis after the transactions of publish and remove, which nobody awaits
LateWrite(write) ==
    /\ write \in lateWrites
    /\ lateWrites' = lateWrites \ {write}
    /\ cached' = IF write = "publish" THEN 0 ELSE None
    /\ UNCHANGED <<table, event, note, counted, job, rebuild, likeFaults, load>>

----------------------------------------------------------------------------
(* notifications.service.ts, by the owner                                  *)

Reading(rows) ==
    /\ Occurs("read") /\ note' = rows
    /\ UNCHANGED <<table, event, cached, counted, lateWrites, job, rebuild, likeFaults, load>>

MarkAllAsRead == Reading([n \in Notes |-> [note[n] EXCEPT !.read = @ \/ note[n].status = "live"]])
MarkUnread(n) == note[n].read /\ ~removed /\ Reading([note EXCEPT ![n].read = FALSE])
\* remove, and the cleanup of read notifications after 90 days
RemoveNote(n) == /\ Occurs("delete") /\ n \in Rows(note) /\ note' = [note EXCEPT ![n] = [NoNote EXCEPT !.status = "deleted"]]
                 /\ UNCHANGED <<table, event, cached, counted, lateWrites, job, rebuild, likeFaults, load>>

----------------------------------------------------------------------------
(* Delivery of one event                                                   *)

Addressed(e) == load.listeners \intersect (IF event[e].kind = "liked" THEN Listeners ELSE {"cache"})
Stage(l, e) == IF l \in Addressed(e) THEN "start" ELSE "done"

\* A second worker takes an event only when the lease of the first has run out.
ClaimLike(w, e) ==
    /\ job[w] = NoJob /\ event[e].state = "pending"
    /\ IF \E x \in Workers : job[x].event = e THEN LikeFault ELSE UNCHANGED likeFaults
    /\ job' = [job EXCEPT ![w] = [NoJob EXCEPT !.event = e, !.notify = Stage("notify", e),
                                  !.cache = Stage("cache", e)]]
    /\ UNCHANGED <<table, event, projections, lateWrites, rebuild, load>>

At(w, listener, stage) == job[w].event # None /\ job[w][listener] = stage
Author(w) == event[job[w].event].user

\* The block sets and NotificationEligibilityService, read before the transaction
CheckEligible(w) ==
    /\ At(w, "notify", "start")
    /\ job' = [job EXCEPT ![w].notify = IF removed \/ Author(w) \in blockedLikers THEN "done" ELSE "eligible"]
    /\ UNCHANGED <<table, event, projections, lateWrites, rebuild, likeFaults, load>>

AggregateRead(w) ==
    /\ At(w, "notify", "eligible")
    /\ job' = [job EXCEPT ![w].notify = "read", ![w].snap = note, ![w].stale = FALSE]
    /\ UNCHANGED <<table, event, projections, lateWrites, rebuild, likeFaults, load>>

Processed(notes, e) == \E n \in Rows(notes) : Has(notes[n].keys, e)

Unread(notes) == {n \in Rows(notes) : ~notes[n].read}
Unused == {n \in Notes : note[n].status = "none" /\ \A m \in Notes : m < n => note[m].status # "none"}

Aggregated(row, e) == [row EXCEPT !.total = @ + 1, !.keys = Last(Append(@, e), KeptKeys)]
NewRow(e) == [status |-> "live", read |-> FALSE, total |-> 1, keys |-> <<e>>]

\* Mutant: READ COMMITTED, which detects nothing.
BugConflict(w, n) == FALSE

\* Mutant: after the last attempt the listener gives up without throwing.
BugAfterConflict(w) == IF job[w].tries + 1 < MaxTries THEN "eligible" ELSE "done"

AfterConflict(w) == IF job[w].tries + 1 < MaxTries THEN "eligible" ELSE "failed"

\* SQLSTATE 40001: another aggregation committed, or the row to update is not the one that was read.
Conflict(w, n) == job[w].stale \/ job[w].snap[n] # note[n]

Write(w, n, row) ==
    LET e == job[w].event IN
    IF Conflict(w, n)
    THEN /\ job' = [job EXCEPT ![w].tries = @ + 1, ![w].snap = None, ![w].stale = FALSE,
                               ![w].notify = AfterConflict(w)]
         /\ UNCHANGED <<note, counted>>
    ELSE /\ note' = [note EXCEPT ![n] = row]
         /\ counted' = [counted EXCEPT ![n] = Append(@, e)]
         /\ job' = [x \in Workers |-> IF x = w THEN [job[w] EXCEPT !.notify = "done", !.snap = None, !.stale = FALSE]
                                      ELSE [job[x] EXCEPT !.stale = @ \/ job[x].notify = "read"]]

AggregateCommit(w) ==
    LET e == job[w].event
        snap == job[w].snap
    IN  /\ At(w, "notify", "read")
        /\ \/ /\ Processed(snap, e)
              /\ job' = [job EXCEPT ![w].notify = "done", ![w].snap = None, ![w].stale = FALSE]
              /\ UNCHANGED <<note, counted>>
           \/ /\ ~Processed(snap, e)
              /\ \E n \in Unread(snap) : Write(w, n, Aggregated(snap[n], e))
           \/ /\ ~Processed(snap, e) /\ Unread(snap) = {}
              /\ \E n \in Unused : Write(w, n, NewRow(e))
        /\ UNCHANGED <<table, event, cached, lateWrites, rebuild, likeFaults, load>>

\* PostEventsListener.handleThreadLiked and handleThreadUnliked
CacheRead(w) ==
    /\ At(w, "cache", "start")
    /\ job' = [job EXCEPT ![w].cache = "read", ![w].seen = likeCount]
    /\ UNCHANGED <<table, event, projections, lateWrites, rebuild, likeFaults, load>>

CacheWrite(w) ==
    /\ At(w, "cache", "read")
    /\ cached' = job[w].seen
    /\ job' = [job EXCEPT ![w].cache = "done", ![w].seen = 0]
    /\ UNCHANGED <<table, event, note, counted, lateWrites, rebuild, likeFaults, load>>

\* A listener throws.
Throw(w, l) ==
    /\ Occurs("fault") /\ LikeFault
    /\ job[w].event # None /\ job[w][l] \notin {"done", "failed"}
    /\ job' = [job EXCEPT ![w][l] = "failed"]
    /\ UNCHANGED <<table, event, projections, lateWrites, rebuild, load>>

\* All listeners have settled.  The acknowledgement may be lost, with the process or the connection.
Settle(w) ==
    LET e == job[w].event IN
    /\ e # None /\ \A l \in Listeners : job[w][l] \in {"done", "failed"}
    /\ job' = [job EXCEPT ![w] = NoJob]
    /\ \/ /\ \A l \in Listeners : job[w][l] = "done"
          /\ event' = [event EXCEPT ![e].state = "acked"] /\ UNCHANGED likeFaults
       \/ (\E l \in Listeners : job[w][l] = "failed") /\ UNCHANGED <<event, likeFaults>>
       \/ Occurs("fault") /\ LikeFault /\ UNCHANGED event
    /\ UNCHANGED <<table, projections, lateWrites, rebuild, load>>

\* ThreadRankingService.rebuild, every ten minutes; restoreThread of the moderation reads and writes alike.
RebuildRead ==
    /\ Occurs("rebuild") /\ rebuild = None /\ ~removed
    /\ rebuild' = likeCount
    /\ UNCHANGED <<table, event, projections, lateWrites, job, likeFaults, load>>

\* Mutant: the rebuild keeps a count that is already there.
BugRebuilt(value) == IF cached = None THEN value ELSE cached

Rebuilt(value) == value

RebuildWrite ==
    /\ rebuild # None
    /\ cached' = Rebuilt(rebuild) /\ rebuild' = None
    /\ UNCHANGED <<table, event, note, counted, lateWrites, job, likeFaults, load>>

Deliver(w) == \/ \E e \in Events : ClaimLike(w, e)
              \/ CheckEligible(w) \/ AggregateRead(w) \/ AggregateCommit(w)
              \/ CacheRead(w) \/ CacheWrite(w) \/ Settle(w)

LikesNext ==
    \/ \E u \in Users : Like(u) \/ Unlike(u) \/ BlockLiker(u)
    \/ RemoveThread
    \/ \E write \in {"publish", "remove"} : LateWrite(write)
    \/ MarkAllAsRead \/ \E n \in Notes : MarkUnread(n) \/ RemoveNote(n)
    \/ \E w \in Workers : Deliver(w) \/ \E l \in Listeners : Throw(w, l)
    \/ RebuildRead \/ RebuildWrite

\* Workers keep working, the rebuild is a cron job, the late writes are on their way.
LikesFairness ==
    /\ \A w \in Workers : WF_likesVars(Deliver(w))
    /\ \A write \in {"publish", "remove"} : WF_likesVars(LateWrite(write))
    /\ WF_likesVars(RebuildRead) /\ WF_likesVars(RebuildWrite)

LikesSpec == LikesInit /\ [][LikesNext]_likesVars /\ LikesFairness

----------------------------------------------------------------------------
(* Properties                                                              *)

ListenerStages == {"start", "eligible", "read", "done", "failed"}

\* A notification remembers at most the last KeptKeys events (slice(-100)), likeCount is the number of
\* thread_likes rows although like, unlike and their retries are counted one by one.
LikesTypeOK ==
    /\ likes \subseteq Users /\ blockedLikers \subseteq Users /\ likeCount = Cardinality(likes)
    /\ \A e \in Events : event[e] = NoLike \/ event[e] \in [kind : {"liked", "unliked"}, user : Users, state : {"pending", "acked"}]
    /\ \A n \in Notes : /\ note[n].status \in {"none", "live", "deleted"}
                        /\ Len(note[n].keys) <= KeptKeys
                        /\ \A i \in DOMAIN note[n].keys : note[n].keys[i] \in Events
    /\ \A w \in Workers : job[w].event \in Events \union {None} /\ {job[w].notify, job[w].cache} \subseteq ListenerStages
    /\ cached = None \/ cached \in 0..Cardinality(Users)

\* No count is lost when two likes are aggregated at the same time: the total of a notification is the number
\* of times an aggregation counted into it (notification-delivery.service.ts aggregateLikeForUser).
TotalsMatch == \A n \in Rows(note) : note[n].total = Len(counted[n])

\* An acknowledged like has reached the owner, unless a block or the removal of the thread excluded him
\* (outbox.dispatcher.ts acknowledges after every listener; aggregateLikeForUser throws after its last try).
AckedMeansCounted ==
    \A e \in Events :
        event[e].state = "acked" /\ event[e].kind = "liked" /\ "notify" \in load.listeners =>
            \/ \E n \in Notes : Has(counted[n], e)
            \/ removed \/ Occurs("block")

\* Once likes have stopped, the count in Redis becomes the one of the database and stays, whatever stale
\* values were written: by deliveries out of order, by the late 0 of the publication, or not at all
\* (thread-ranking.service.ts rebuilds it every ten minutes).
CacheConverges == <>[](Occurs("rebuild") => removed \/ cached = likeCount)
=============================================================================
