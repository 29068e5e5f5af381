---------------------------- MODULE MediaLifecycle ----------------------------
(***************************************************************************)
(* One media record from its upload to its deletion, with its objects in   *)
(* the store, its job in the queue and the contents that refer to it       *)
(* (src/src/media, prisma/migrations/20260905210000...).                   *)
(*                                                                         *)
(* The handler of a confirmation, the image workers, the recovery and the  *)
(* daily cleanup interleave between any two calls to the database, the     *)
(* store or the queue.  Time is counted in days; a request, a transaction  *)
(* or an attempt of a worker is short against a day.                       *)
(***************************************************************************)
EXTENDS Naturals, FiniteSets

CONSTANTS Handlers,    \* confirmations in progress at the same time
          Workers,     \* processors of the image queue
          Contents,    \* posts and drafts whose words can hold the URL of the media
          None,
          Loads,       \* bound: what occurs in one behaviour
          Attempts,    \* attempts of a job, 2 in the code
          GraceDays,   \* ORPHAN_GRACE_DAYS
          MaxDays, MaxFaults    \* bounds

ASSUME MediaAssumption ==
    /\ Attempts \in Nat \ {0} /\ GraceDays \in Nat \ {0}
    /\ MaxDays \in Nat /\ MaxFaults \in Nat /\ None \notin Nat \union Workers

VARIABLES row,      \* the row of media: [status, claimed, keyed, aged, marker]; keyed: it has a stagingKey
          store,    \* [staging, master]; master stands for the variants too
          refs,     \* contents with a row in post_media or draft_media
          edit,     \* content -> the transaction that changes its references
          confirm,  \* handler -> where its confirmation stands
          job,      \* the BullMQ job of this media
          worker,   \* worker -> [pc, last, legacy]: on its last attempt, on a row without stagingKey
          recovery, \* where the recovery stands, or the job state it read
          cleanup,  \* where the daily cleanup stands
          ran,      \* today's cleanup is over
          day,
          held,     \* history: the last day on which a content referred to the media
          overtaken,\* history: an upload landed after the row had left PROCESSING
          faults, load

people == <<refs, edit, confirm>>
jobs == <<job, worker>>
tasks == <<recovery, cleanup, ran>>
history == <<held, overtaken>>
vars == <<row, store, people, jobs, tasks, day, history, faults, load>>

Days == 0..MaxDays
NoJob == [state |-> "none", tries |-> 0, stalled |-> FALSE, owner |-> None]
Off == [pc |-> "idle", last |-> FALSE, legacy |-> FALSE]

Init ==
    /\ row = [status |-> "UPLOADING", claimed |-> FALSE, keyed |-> TRUE, aged |-> FALSE, marker |-> None]
    /\ store = [staging |-> "none", master |-> FALSE]
    /\ refs = {} /\ edit = [p \in Contents |-> "idle"]
    /\ confirm = [h \in Handlers |-> "idle"]
    /\ job = NoJob /\ worker = [w \in Workers |-> Off]
    /\ recovery = "idle" /\ cleanup = "idle" /\ ran = FALSE
    /\ day = 0 /\ held = None /\ overtaken = FALSE
    /\ faults = 0 /\ load \in Loads

Occurs(op) == op \in load
Fault(kind) == Occurs(kind) /\ faults < MaxFaults /\ faults' = faults + 1
NoFault == UNCHANGED faults

Status(s) == row.status = s
Gone == Status("gone")
Processing == Status("PROCESSING") /\ ~row.claimed
Finished == row.status \in {"COMPLETED", "FAILED"}

\* removeStagingObject: the object, then the key; a failure leaves the rest for the daily cleanup.
RemoveStaging(r, s) ==
    \/ /\ NoFault
       /\ store' = [s EXCEPT !.staging = "none"] /\ row' = [r EXCEPT !.keyed = FALSE]
    \/ /\ Fault("store")
       /\ store' \in {s, [s EXCEPT !.staging = "none"]} /\ row' = r

----------------------------------------------------------------------------
(* media.service.ts: the upload and its confirmation                       *)

\* The client uses its signed URL, to stagingKey ?? key; "corrupt" does not decode, "bad" has another
\* size or type.
Put(content) ==
    /\ Occurs(content) /\ Status("UPLOADING") /\ ~row.claimed
    /\ store' = IF row.keyed THEN [store EXCEPT !.staging = content] ELSE [store EXCEPT !.master = TRUE]
    /\ UNCHANGED <<row, people, jobs, tasks, day, history, faults, load>>

At(h, pc) == confirm[h] = pc /\ UNCHANGED <<refs, edit, worker, tasks, day, history, load>>
Go(h, pc) == confirm' = [confirm EXCEPT ![h] = pc]

\* The row, then the metadata of the object
ConfirmRead(h) ==
    /\ At(h, "idle") /\ Occurs("confirm")
    /\ Status("UPLOADING") /\ ~row.claimed
    /\ IF row.keyed THEN store.staging # "none" ELSE store.master
    /\ Go(h, IF row.keyed /\ store.staging = "bad" THEN "refuse" ELSE "claim")
    /\ UNCHANGED <<row, store, job, faults>>

ConfirmRefuse(h) ==
    /\ At(h, "refuse")
    /\ row' = IF Status("UPLOADING") /\ ~row.claimed THEN [row EXCEPT !.status = "FAILED"] ELSE row
    /\ Go(h, "discard")
    /\ UNCHANGED <<store, job, faults>>

ConfirmDiscard(h) ==
    /\ At(h, "discard")
    /\ IF Gone THEN UNCHANGED <<row, store, faults>> ELSE RemoveStaging(row, store)
    /\ Go(h, "idle")
    /\ UNCHANGED job

\* The conditional update; whoever loses it answers with the current state.
ConfirmClaim(h) ==
    /\ At(h, "claim")
    /\ IF Status("UPLOADING") /\ ~row.claimed
       THEN row' = [row EXCEPT !.status = "PROCESSING", !.aged = FALSE] /\ Go(h, "enqueue")
       ELSE UNCHANGED row /\ Go(h, "idle")
    /\ UNCHANGED <<store, job, faults>>

\* queue.add with jobId = mediaId does nothing while a job with this id is kept.
Added(j) == IF j.state = "none" THEN [NoJob EXCEPT !.state = "waiting"] ELSE j

\* The queue answers, fails before or after adding the job, or the process dies.
ConfirmEnqueue(h) ==
    /\ At(h, "enqueue")
    /\ \/ NoFault /\ job' = Added(job) /\ Go(h, "idle")
       \/ Fault("queue") /\ job' \in {job, Added(job)} /\ Go(h, "revert")
       \/ Fault("crash") /\ UNCHANGED job /\ Go(h, "idle")
    /\ UNCHANGED <<row, store>>

\* Mutant: the way back forgets its condition.
BugRevertible == ~Gone

\* where: { id, status: 'PROCESSING' }
Revertible == Status("PROCESSING")

ConfirmRevert(h) ==
    /\ At(h, "revert")
    /\ row' = IF Revertible THEN [row EXCEPT !.status = "UPLOADING", !.aged = FALSE] ELSE row
    /\ Go(h, "idle")
    /\ UNCHANGED <<store, job, faults>>

----------------------------------------------------------------------------
(* image.processor.ts, media-processing.service.ts; BullMQ                 *)

In(w, pc) == worker[w].pc = pc /\ UNCHANGED <<people, tasks, day, held, load>>
Step(w, pc) == worker' = [worker EXCEPT ![w].pc = pc]

\* The row is read first: anything but an unclaimed PROCESSING ends the job.
StartJob(w) ==
    /\ In(w, "idle") /\ job.state = "waiting"
    /\ job' = [job EXCEPT !.state = "active", !.owner = w]
    /\ worker' = [worker EXCEPT ![w] = [pc |-> IF Processing THEN "download" ELSE "succeed",
                                        last |-> job.tries + 1 >= Attempts, legacy |-> ~row.keyed]]
    /\ UNCHANGED <<row, store, overtaken, faults>>

Download(w) ==
    /\ In(w, "download")
    /\ \/ NoFault /\ Step(w, IF IF worker[w].legacy THEN store.master ELSE store.staging \in {"good", "bad"}
                          THEN "upload" ELSE "failing")
       \/ Fault("store") /\ Step(w, "failing")
    /\ UNCHANGED <<row, store, job, overtaken>>

Upload(w) ==
    /\ In(w, "upload")
    /\ store' = [store EXCEPT !.master = TRUE]
    /\ overtaken' = (overtaken \/ ~Processing)
    /\ \/ NoFault /\ Step(w, "complete")
       \/ Fault("store") /\ Step(w, "failing")
    /\ UNCHANGED <<row, job>>

Completed(r) == [r EXCEPT !.status = "COMPLETED", !.aged = FALSE, !.marker = day]

\* completeMediaWithPreviews: a conditional update; who loses it leaves everything as it is.
Complete(w) ==
    /\ In(w, "complete")
    /\ IF Processing
       THEN row' = Completed(row) /\ Step(w, IF worker[w].legacy THEN "succeed" ELSE "clean")
       ELSE UNCHANGED row /\ Step(w, "succeed")
    /\ UNCHANGED <<store, job, overtaken, faults>>

Clean(w) ==
    /\ In(w, "clean")
    /\ IF Gone THEN UNCHANGED <<row, store, faults>> ELSE RemoveStaging(row, store)
    /\ Step(w, IF Status("FAILED") THEN "fail" ELSE "succeed")
    /\ UNCHANGED <<job, overtaken>>

\* The last attempt marks the row as failed before BullMQ learns of the failure.
Failing(w) ==
    /\ In(w, "failing")
    /\ IF worker[w].last /\ Processing
       THEN row' = [row EXCEPT !.status = "FAILED", !.aged = FALSE] /\ Step(w, "clean")
       ELSE UNCHANGED row /\ Step(w, "fail")
    /\ UNCHANGED <<store, job, overtaken, faults>>

\* The outcome counts only while the worker still holds the lock of the job.
EndJob(w) ==
    /\ \/ /\ In(w, "succeed")
          /\ job' = IF job.owner = w THEN [job EXCEPT !.state = "completed", !.owner = None] ELSE job
       \/ /\ In(w, "fail")
          /\ job' = IF job.owner = w
                    THEN [job EXCEPT !.state = IF worker[w].last THEN "failed" ELSE "waiting",
                                     !.tries = @ + 1, !.owner = None]
                    ELSE job
    /\ worker' = [worker EXCEPT ![w] = Off]
    /\ UNCHANGED <<row, store, overtaken, faults>>

\* The lock of an active job expires, its worker dead or only slow: it runs once more, then fails.
Stall ==
    /\ job.state = "active" /\ Fault("stall")
    /\ job' = [job EXCEPT !.state = IF job.stalled THEN "failed" ELSE "waiting", !.stalled = TRUE, !.owner = None]
    /\ worker' \in {worker, [worker EXCEPT ![job.owner] = Off]}
    /\ UNCHANGED <<row, store, people, tasks, day, history, load>>

\* Redis loses the job.
Lose == /\ job.state \in {"waiting", "completed"} /\ Fault("lose") /\ job' = NoJob
        /\ UNCHANGED <<row, store, people, worker, tasks, day, history, load>>

----------------------------------------------------------------------------
(* media-processing-recovery.service.ts                                    *)

\* PROCESSING_STALE_MS pass.
Grow == /\ Status("PROCESSING") /\ ~row.aged
        /\ \A h \in Handlers : confirm[h] = "idle"
        /\ row' = [row EXCEPT !.aged = TRUE]
        /\ UNCHANGED <<store, people, jobs, tasks, day, history, faults, load>>

Recovering == UNCHANGED <<people, worker, cleanup, ran, day, history, load>>

RecoverRead ==
    /\ recovery = "idle" /\ Status("PROCESSING") /\ row.aged
    /\ job.state \notin {"waiting", "active"}
    /\ recovery' = job.state
    /\ Recovering /\ UNCHANGED <<row, store, job, faults>>

RecoverFailed ==
    /\ recovery = "failed" /\ recovery' = "idle"
    /\ IF Processing THEN RemoveStaging([row EXCEPT !.status = "FAILED", !.aged = FALSE], store)
                     ELSE UNCHANGED <<row, store, faults>>
    /\ Recovering /\ UNCHANGED job

\* Mutant: the completed job is left in the queue.
BugForgotten(j) == j

\* job.remove()
Forgotten(j) == IF j.state = "completed" THEN NoJob ELSE j

RecoverAdd ==
    /\ recovery \in {"none", "completed"} /\ recovery' = "idle"
    /\ job' = Added(IF recovery = "completed" THEN Forgotten(job) ELSE job)
    /\ row' = IF Status("PROCESSING") THEN [row EXCEPT !.aged = FALSE] ELSE row
    /\ Recovering /\ UNCHANGED <<store, faults>>

----------------------------------------------------------------------------
(* media-reference.service.ts and the triggers of media                    *)

Editing(p, pc) == /\ edit[p] = pc
                  /\ UNCHANGED <<store, confirm, jobs, tasks, day, overtaken, faults, load>>
Leave(p, pc) == edit' = [edit EXCEPT ![p] = pc]

\* resolveCompletedMarkdownMedia
Resolve(p) ==
    /\ Occurs("edit") /\ Editing(p, "idle")
    /\ Status("COMPLETED") /\ ~row.claimed
    /\ Leave(p, "insert")
    /\ UNCHANGED <<row, refs, held>>

\* Mutant: the trigger lets a claimed row be referred to.
BugAttachable == ~Gone

\* guard_media_attachment, under the lock of the row
Attachable == ~Gone /\ ~row.claimed

\* The insertion and reconcileMediaIds, which sees it
Attach(p) ==
    /\ Editing(p, "insert") /\ Leave(p, "idle")
    /\ IF Attachable THEN refs' = refs \union {p} /\ row' = [row EXCEPT !.marker = None]
                     ELSE UNCHANGED <<refs, row>>
    /\ UNCHANGED held

\* The content drops the media; reconcileMediaIds looks for other references without a lock.
DetachRead(p) ==
    /\ Occurs("edit") /\ Editing(p, "idle") /\ p \in refs
    /\ Leave(p, IF refs = {p} THEN "orphan" ELSE "shared")
    /\ UNCHANGED <<row, refs, held>>

DetachCommit(p) ==
    /\ edit[p] \in {"orphan", "shared"} /\ Editing(p, edit[p]) /\ Leave(p, "idle")
    /\ refs' = refs \ {p} /\ held' = day
    /\ row' = [row EXCEPT !.marker = IF edit[p] = "orphan" THEN day ELSE None]

\* A draft or a thread is deleted with its rows: no reconciliation.
Cascade(p) ==
    /\ Occurs("cascade") /\ Editing(p, "idle") /\ p \in refs
    /\ refs' = refs \ {p} /\ held' = day
    /\ UNCHANGED <<row, edit>>

----------------------------------------------------------------------------
(* cleanupOrphanMedia: once a day                                          *)

Cleaning(pc, next) == /\ cleanup = pc /\ cleanup' = next
                      /\ UNCHANGED <<people, jobs, recovery, day, history, load>>

SweepStaging ==
    /\ ~ran /\ Occurs("clean") /\ Cleaning("idle", "unmarkable") /\ UNCHANGED ran
    /\ IF Finished /\ row.keyed THEN RemoveStaging(row, store)
                                ELSE UNCHANGED <<row, store, faults>>

\* Mutant: posts are left out of referenceWhere.
BugFalselyMarked == FALSE

\* referenceWhere, and a marker
FalselyMarked == Status("COMPLETED") /\ row.marker # None /\ refs # {}

\* reconcileAllMarkers: two loops of a read and a write
FindMarked ==
    /\ Cleaning("unmarkable", IF FalselyMarked THEN "unmark" ELSE "markable")
    /\ UNCHANGED <<row, store, ran, faults>>

Unmark == /\ Cleaning("unmark", "unmarkable")
          /\ row' = [row EXCEPT !.marker = None]
          /\ UNCHANGED <<store, ran, faults>>

FindUnmarked ==
    /\ Cleaning("markable", IF Status("COMPLETED") /\ row.marker = None /\ refs = {} THEN "mark" ELSE "claim")
    /\ UNCHANGED <<row, store, ran, faults>>

Mark == /\ Cleaning("mark", "markable")
        /\ row' = IF row.marker = None THEN [row EXCEPT !.marker = day] ELSE row
        /\ UNCHANGED <<store, ran, faults>>

\* UPLOADING_STALE_HOURS is one day.
Expired ==
    \/ row.claimed
    \/ Status("UPLOADING") /\ day >= 1
    \/ Status("FAILED") /\ day >= GraceDays
    \/ Status("COMPLETED") /\ row.marker # None /\ row.marker + GraceDays <= day

\* claimUnreferenced: eligibility and references once more, under the lock of the row
Claim ==
    LET victim == ~Gone /\ Expired /\ refs = {}
    IN  /\ Cleaning("claim", IF victim THEN "delete" ELSE "idle")
        /\ row' = IF victim THEN [row EXCEPT !.claimed = TRUE] ELSE row
        /\ ran' = ~victim
        /\ UNCHANGED <<store, faults>>

\* Mutant: the row goes although an object is still there.
BugDeletable(s) == TRUE

\* failedKeys is empty.
Deletable(s) == s.staging = "none" /\ ~s.master

DeleteObjects ==
    \E s \in {store, [store EXCEPT !.staging = "none"], [staging |-> "none", master |-> FALSE]} :
        /\ Cleaning("delete", IF Deletable(s) THEN "drop" ELSE "idle")
        /\ store' = s
        /\ IF s.master \/ s.staging # "none" THEN Fault("store") ELSE NoFault
        /\ ran' = ~Deletable(s)
        /\ UNCHANGED row

DropRow == /\ Cleaning("drop", "idle")
           /\ row' = [row EXCEPT !.status = "gone"]
           /\ ran' = TRUE
           /\ UNCHANGED <<store, faults>>

\* A day passes when nothing short is in progress and the cleanup has run; kept jobs expire.
Day == /\ day < MaxDays /\ day' = day + 1
       /\ ran /\ ran' = FALSE
       /\ recovery = "idle"
       /\ \A h \in Handlers : confirm[h] = "idle"
       /\ \A p \in Contents : edit[p] = "idle"
       /\ \A w \in Workers : worker[w] = Off
       /\ job' \in {job, IF job.state = "completed" THEN NoJob ELSE job}
       /\ UNCHANGED <<row, store, people, worker, recovery, cleanup, history, faults, load>>

Next ==
    \/ \E content \in {"good", "corrupt", "bad"} : Put(content)
    \/ \E h \in Handlers : \/ ConfirmRead(h) \/ ConfirmRefuse(h) \/ ConfirmDiscard(h) \/ ConfirmClaim(h)
                           \/ ConfirmEnqueue(h) \/ ConfirmRevert(h)
    \/ \E w \in Workers : StartJob(w) \/ Download(w) \/ Upload(w) \/ Complete(w) \/ Clean(w) \/ Failing(w) \/ EndJob(w)
    \/ Stall \/ Lose \/ Grow \/ RecoverRead \/ RecoverFailed \/ RecoverAdd
    \/ \E p \in Contents : Resolve(p) \/ Attach(p) \/ DetachRead(p) \/ DetachCommit(p) \/ Cascade(p)
    \/ SweepStaging \/ FindMarked \/ Unmark \/ FindUnmarked \/ Mark \/ Claim \/ DeleteObjects \/ DropRow \/ Day

\* Handlers and workers take their steps, a waiting job is taken, the recovery comes every 10 minutes.
Fairness ==
    /\ \A h \in Handlers : WF_vars(ConfirmRefuse(h) \/ ConfirmDiscard(h) \/ ConfirmClaim(h)
                                   \/ ConfirmEnqueue(h) \/ ConfirmRevert(h))
    /\ \A w \in Workers : WF_vars(StartJob(w) \/ Download(w) \/ Upload(w) \/ Complete(w) \/ Clean(w)
                                  \/ Failing(w) \/ EndJob(w))
    /\ WF_vars(Grow) /\ WF_vars(RecoverRead \/ RecoverFailed \/ RecoverAdd)

Spec == Init /\ [][Next]_vars /\ Fairness

----------------------------------------------------------------------------
(* Properties                                                              *)

\* The shapes; processingStartedAt counts only in PROCESSING, so the recovery never takes a media that left
\* it, and only a completed media has a marker (media-processing.service.ts, media-reference.service.ts).
TypeOK ==
    /\ row \in [status : {"UPLOADING", "PROCESSING", "COMPLETED", "FAILED", "gone"}, claimed : BOOLEAN,
                keyed : BOOLEAN, aged : BOOLEAN, marker : Days \union {None}]
    /\ store \in [staging : {"none", "good", "bad", "corrupt"}, master : BOOLEAN]
    /\ refs \subseteq Contents
    /\ job \in [state : {"none", "waiting", "active", "completed", "failed"}, tries : 0..Attempts,
                stalled : BOOLEAN, owner : Workers \union {None}]
    /\ row.aged => Status("PROCESSING")
    /\ row.marker # None => row.status \in {"COMPLETED", "gone"}

\* Whatever a content refers to can be shown: the row is there, COMPLETED and unclaimed, and the master
\* object is stored, through every race of an edit, a reclamation and a second worker
\* (media-reference.service.ts claimUnreferenced, guard_media_attachment, media-processing.service.ts).
Servable == refs # {} => Status("COMPLETED") /\ ~row.claimed /\ store.master

\* A completed media is reclaimed only when no content has referred to it for the days of grace, up to the
\* one day the reconciliation may lag behind a race of two edits (media.service.ts cleanupOrphanMedia).
ClaimGrace ==
    [][Status("COMPLETED") /\ ~row.claimed /\ row'.claimed /\ held # None => held + GraceDays <= day + 1]_vars

\* What is finished stays finished: no late worker, no confirmation taking back its step and no recovery
\* moves a COMPLETED or FAILED media to another status but deletion (media.service.ts confirmUpload:
\* "若消费者已完成则不得倒退状态").
FinishedStays ==
    [][Finished => row'.status \in {row.status, "gone"} /\ (row'.status = "gone" => row.claimed)]_vars

\* When the row goes, every object uploaded while it was being processed is gone: a failed deletion keeps
\* the row (media.service.ts cleanupOrphanMedia).
RowOutlivesMaster == Gone /\ store.master => overtaken

\* A media does not stay in PROCESSING: a lost, stalled, failed or already completed job, a crash and an
\* unanswered enqueue are all recovered from (media-processing-recovery.service.ts).
Settles == Status("PROCESSING") ~> ~Status("PROCESSING")
=============================================================================
