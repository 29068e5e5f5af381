---------------------------- MODULE MediaProofs ----------------------------
(***************************************************************************)
(* Proofs about MediaLifecycle, for any confirmations, workers, contents,  *)
(* loads, days of grace and bounds.                                        *)
(*                                                                         *)
(* Most steps are quiet: they may move a media that is not finished to     *)
(* another status, but touch neither its references nor a claim.  What     *)
(* the other steps do to the invariant is proved action by action.         *)
(***************************************************************************)
EXTENDS MediaLifecycle, TLAPS

(***************************************************************************)
(* The invariant                                                           *)
(***************************************************************************)
Row == [status : {"UPLOADING", "PROCESSING", "COMPLETED", "FAILED", "gone"}, claimed : BOOLEAN,
        keyed : BOOLEAN, aged : BOOLEAN, marker : Days \union {None}]
Objects == [staging : {"none", "good", "bad", "corrupt"}, master : BOOLEAN]
Job == [state : {"none", "waiting", "active", "completed", "failed"}, tries : 0..Attempts,
        stalled : BOOLEAN, owner : Workers \union {None}]
Run == [pc : {"idle", "download", "upload", "complete", "clean", "failing", "succeed", "fail"},
        last : BOOLEAN, legacy : BOOLEAN]

\* The shapes of what TypeOK leaves open.
TasksOK ==
    /\ edit \in [Contents -> {"idle", "insert", "orphan", "shared"}]
    /\ confirm \in [Handlers -> {"idle", "refuse", "discard", "claim", "enqueue", "revert"}]
    /\ worker \in [Workers -> Run]
    /\ recovery \in {"idle", "none", "completed", "failed"}
    /\ cleanup \in {"idle", "unmarkable", "unmark", "markable", "mark", "claim", "delete", "drop"}
    /\ ran \in BOOLEAN /\ (ran => cleanup = "idle")
    /\ day \in Days /\ held \in Days \union {None} /\ overtaken \in BOOLEAN

\* A job that can still run has an attempt left, and its owner knows whether this is the last one.
AttemptsCounted ==
    /\ job.state \in {"waiting", "active"} => job.tries < Attempts
    /\ \A w \in Workers : job.owner = w =>
          /\ job.state = "active" /\ worker[w].pc # "idle"
          /\ worker[w].last <=> job.tries + 1 >= Attempts

\* What is claimed for deletion is neither referred to nor being processed; only what is claimed is deleted.
ClaimedAlone ==
    /\ row.claimed => refs = {} /\ ~Status("PROCESSING")
    /\ cleanup \in {"delete", "drop"} \/ Gone => row.claimed

\* Who found the media completed still finds it so, or finds it deleted; what is being taken out is in use.
StillCompleted ==
    /\ \A p \in Contents : edit[p] = "insert" => row.status \in {"COMPLETED", "gone"}
    /\ \A p \in Contents : edit[p] \in {"orphan", "shared"} => p \in refs
    /\ cleanup = "mark" => Status("COMPLETED")

\* The master is there from the upload of a worker to the claim of the cleanup.
MasterStays ==
    /\ \A w \in Workers : worker[w].pc = "complete" => store.master \/ row.claimed
    /\ Status("COMPLETED") => store.master \/ row.claimed

\* Once the objects are deleted, a master can only come back by an upload that was overtaken.
MasterGone == cleanup = "drop" \/ Gone => (store.master => overtaken)

\* A marker on a media in use is of today, or of yesterday and today's cleanup has not looked yet.
FreshMarker ==
    row.marker # None /\ refs # {} =>
        \/ row.marker = day
        \/ row.marker + 1 = day /\ ~ran /\ cleanup \in {"idle", "unmarkable", "unmark"}

\* The marker of a media not in use is at most one day older than its last use.
MarkerLags ==
    /\ row.marker # None => row.marker <= day
    /\ held # None => held <= day
    /\ row.marker # None /\ held # None /\ refs = {} => held <= row.marker + 1

IInv == /\ TypeOK /\ TasksOK /\ AttemptsCounted
        /\ Servable /\ ClaimedAlone /\ StillCompleted /\ MasterStays /\ MasterGone
        /\ FreshMarker /\ MarkerLags

-----------------------------------------------------------------------------
(* The job and the workers *)

JobOK == /\ job \in Job /\ worker \in [Workers -> Run] /\ AttemptsCounted

\* The job keeps its shape and its attempts stay counted.
LEMMA JobStep == JobOK /\ [Next]_vars => JobOK'
<1> SUFFICES ASSUME JobOK, [Next]_vars
             PROVE  JobOK'
  OBVIOUS
<1> USE MediaAssumption
<1>1. CASE UNCHANGED jobs
  BY <1>1 DEF jobs, JobOK, AttemptsCounted
<1>2. ASSUME \/ \E content \in {"good", "corrupt", "bad"} : Put(content)
             \/ \E h \in Handlers : ConfirmRead(h) \/ ConfirmRefuse(h) \/ ConfirmDiscard(h) \/ ConfirmClaim(h)
                                    \/ ConfirmRevert(h)
             \/ Grow \/ RecoverRead \/ RecoverFailed
             \/ \E p \in Contents : Resolve(p) \/ Attach(p) \/ DetachRead(p) \/ DetachCommit(p) \/ Cascade(p)
             \/ SweepStaging \/ FindMarked \/ Unmark \/ FindUnmarked \/ Mark \/ Claim \/ DeleteObjects \/ DropRow
      PROVE  UNCHANGED jobs
  BY <1>2 DEF Put, ConfirmRead, ConfirmRefuse, ConfirmDiscard, ConfirmClaim, ConfirmRevert, At, Grow, RecoverRead,
              RecoverFailed, Recovering, Resolve, Attach, DetachRead, DetachCommit, Cascade, Editing, SweepStaging,
              FindMarked, Unmark, FindUnmarked, Mark, Claim, DeleteObjects, DropRow, Cleaning, jobs
<1>3. ASSUME NEW w \in Workers, NEW pc \in {"upload", "failing", "complete", "succeed", "clean", "fail"},
             worker[w].pc # "idle", Step(w, pc), job' = job
      PROVE  JobOK'
  <2>1. worker[w] \in Run /\ [worker[w] EXCEPT !.pc = pc] \in Run
    BY <1>3 DEF JobOK, Run
  <2>2. /\ worker' \in [Workers -> Run]
        /\ \A x \in Workers : worker'[x].last = worker[x].last /\ (worker[x].pc # "idle" => worker'[x].pc # "idle")
    BY <1>3, <2>1 DEF Step, JobOK, Run
  <2> QED
    BY <1>3, <2>2 DEF JobOK, AttemptsCounted
<1>4. ASSUME NEW w \in Workers, Download(w) \/ Upload(w) \/ Complete(w) \/ Clean(w) \/ Failing(w)
      PROVE  JobOK'
  <2>1. CASE Download(w)
    BY <1>3, <2>1 DEF Download, In
  <2>2. CASE Upload(w)
    BY <1>3, <2>2 DEF Upload, In
  <2>3. CASE Complete(w)
    BY <1>3, <2>3 DEF Complete, In
  <2>4. CASE Clean(w)
    BY <1>3, <2>4 DEF Clean, In
  <2>5. CASE Failing(w)
    BY <1>3, <2>5 DEF Failing, In
  <2> QED
    BY <1>4, <2>1, <2>2, <2>3, <2>4, <2>5
<1>5. ASSUME NEW w \in Workers, StartJob(w)
      PROVE  JobOK'
  <2> DEFINE pc == IF Processing THEN "download" ELSE "succeed"
             last == job.tries + 1 >= Attempts
             legacy == ~row.keyed
             run == [pc |-> pc, last |-> last, legacy |-> legacy]
  <2>0. pc \in {"download", "succeed"} /\ last \in BOOLEAN /\ legacy \in BOOLEAN
    OBVIOUS
  <2>l. last <=> job.tries + 1 >= Attempts
    OBVIOUS
  <2>2. /\ worker' = [worker EXCEPT ![w] = run] /\ job' = [job EXCEPT !.state = "active", !.owner = w]
        /\ job.state = "waiting" /\ job \in Job
    BY <1>5 DEF StartJob, JobOK
  <2>3. job' \in Job /\ job'.state = "active" /\ job'.owner = w /\ job'.tries = job.tries
    BY <2>2 DEF Job
  <2> HIDE DEF pc, last, legacy
  <2>1. run \in Run /\ run.pc # "idle" /\ run.last = last
    BY <2>0 DEF Run
  <2> HIDE DEF run
  <2>4. worker' \in [Workers -> Run] /\ worker'[w] = run
    BY <2>1, <2>2 DEF JobOK
  <2> QED
    BY <2>1, <2>2, <2>3, <2>4, <2>l DEF JobOK, AttemptsCounted
<1>6. ASSUME NEW w \in Workers, EndJob(w)
      PROVE  JobOK'
  <2>1. Off \in Run /\ job \in Job /\ worker' = [worker EXCEPT ![w] = Off]
    BY <1>6 DEF EndJob, Off, Run, JobOK
  <2>2. worker' \in [Workers -> Run] /\ \A x \in Workers \ {w} : worker'[x] = worker[x]
    BY <2>1 DEF JobOK
  <2>3. CASE job.owner # w
    <3>1. job' = job
      BY <1>6, <2>3 DEF EndJob
    <3> QED
      BY <2>1, <2>2, <2>3, <3>1 DEF JobOK, AttemptsCounted
  <2>4. CASE job.owner = w
    <3>1. /\ job.state = "active" /\ job.tries < Attempts /\ job.tries \in Nat
          /\ worker[w].last <=> job.tries + 1 >= Attempts
      BY <2>1, <2>4 DEF JobOK, AttemptsCounted, Job
    <3>2. /\ job' \in Job /\ job'.owner = None
          /\ job'.state \in {"waiting", "active"} => job'.tries < Attempts
      <4>1. CASE job' = [job EXCEPT !.state = "completed", !.owner = None]
        BY <2>1, <4>1 DEF Job
      <4>2. CASE job' = [job EXCEPT !.state = IF worker[w].last THEN "failed" ELSE "waiting",
                                    !.tries = @ + 1, !.owner = None]
        <5>1. job.tries + 1 \in 0 .. Attempts
          BY <3>1
        <5>2. /\ job'.state = (IF worker[w].last THEN "failed" ELSE "waiting")
              /\ job'.tries = job.tries + 1 /\ job'.owner = None /\ job' \in Job
          BY <2>1, <4>2, <5>1 DEF Job
        <5> QED
          BY <3>1, <5>2
      <4> QED
        BY <1>6, <2>4, <4>1, <4>2 DEF EndJob
    <3>3. \A x \in Workers : job'.owner # x
      BY <3>2
    <3> QED
      BY <2>2, <3>2, <3>3 DEF JobOK, AttemptsCounted
  <2> QED
    BY <2>3, <2>4
<1>7. ASSUME job.state = "active", NEW state \in {"waiting", "failed"},
             job' = [job EXCEPT !.state = state, !.stalled = TRUE, !.owner = None],
             worker' \in {worker, [worker EXCEPT ![job.owner] = Off]}
      PROVE  JobOK'
  <2>1. Off \in Run /\ job \in Job /\ job.tries < Attempts
    BY <1>7 DEF Off, Run, JobOK, AttemptsCounted
  <2>2. job' \in Job /\ job'.owner = None /\ job'.tries = job.tries
    BY <1>7, <2>1 DEF Job
  <2>3. worker' \in [Workers -> Run]
    BY <1>7, <2>1 DEF JobOK
  <2> QED
    BY <2>1, <2>2, <2>3 DEF JobOK, AttemptsCounted
<1>8. CASE Stall
  <2> DEFINE state == IF job.stalled THEN "failed" ELSE "waiting"
  <2>1. state \in {"waiting", "failed"}
    OBVIOUS
  <2>2. /\ job.state = "active" /\ job' = [job EXCEPT !.state = state, !.stalled = TRUE, !.owner = None]
        /\ worker' \in {worker, [worker EXCEPT ![job.owner] = Off]}
    BY <1>8 DEF Stall
  <2> HIDE DEF state
  <2> QED
    BY <1>7, <2>1, <2>2
<1>9. NoJob \in Job /\ NoJob.owner = None /\ NoJob.tries = 0
  BY DEF NoJob, Job
<1>10. ASSUME NEW j \in Job, j.owner = None, j.state \in {"waiting", "active"} => j.tries < Attempts, job' = j, worker' = worker
       PROVE  JobOK'
  BY <1>10 DEF JobOK, AttemptsCounted
<1>11. ASSUME NEW j \in Job, j = job \/ j = NoJob, job' = Added(j), worker' = worker
       PROVE  JobOK'
  <2>1. CASE j.state = "none"
    <3>1. Added(j) = [NoJob EXCEPT !.state = "waiting"]
      BY <2>1 DEF Added
    <3>2. Added(j) \in Job /\ Added(j).owner = None /\ Added(j).tries = 0
      BY <1>9, <3>1 DEF NoJob, Job
    <3> QED
      BY <1>10, <1>11, <3>2
  <2>2. CASE j.state # "none"
    <3>1. job' = job
      BY <1>11, <2>2 DEF Added, NoJob
    <3> QED
      BY <1>1, <1>11, <3>1 DEF jobs
  <2> QED
    BY <2>1, <2>2
<1>12. ASSUME NEW h \in Handlers, ConfirmEnqueue(h)
       PROVE  JobOK'
  <2>1. worker' = worker /\ (job' = job \/ job' = Added(job)) /\ job \in Job
    BY <1>12 DEF ConfirmEnqueue, At, JobOK
  <2> QED
    BY <1>1, <1>11, <2>1 DEF jobs
<1>13. CASE RecoverAdd
  <2>1. /\ worker' = worker /\ job \in Job
        /\ \/ job' = Added(job)
           \/ job' = Added(NoJob)
    BY <1>13 DEF RecoverAdd, Recovering, Forgotten, JobOK
  <2> QED
    BY <1>9, <1>11, <2>1
<1>14. CASE Lose
  BY <1>9, <1>10, <1>14 DEF Lose
<1>15. CASE Day
  <2>1. worker' = worker /\ (job' = job \/ job' = NoJob)
    BY <1>15 DEF Day
  <2> QED
    BY <1>1, <1>9, <1>10, <2>1 DEF jobs
<1>16. CASE UNCHANGED vars
  BY <1>1, <1>16 DEF vars
<1> QED
  BY <1>1, <1>2, <1>4, <1>5, <1>6, <1>8, <1>12, <1>13, <1>14, <1>15, <1>16 DEF Next

-----------------------------------------------------------------------------
(* The row and the objects *)

Shape ==
    /\ row \in Row /\ store \in Objects
    /\ row.aged => Status("PROCESSING")
    /\ row.marker # None => row.status \in {"COMPLETED", "gone"}

PlacesOK ==
    /\ refs \subseteq Contents
    /\ edit \in [Contents -> {"idle", "insert", "orphan", "shared"}]
    /\ confirm \in [Handlers -> {"idle", "refuse", "discard", "claim", "enqueue", "revert"}]
    /\ recovery \in {"idle", "none", "completed", "failed"}
    /\ cleanup \in {"idle", "unmarkable", "unmark", "markable", "mark", "claim", "delete", "drop"}
    /\ ran \in BOOLEAN /\ (ran => cleanup = "idle")
    /\ day \in Days /\ held \in Days \union {None} /\ overtaken \in BOOLEAN

MediaInv == /\ Servable /\ ClaimedAlone /\ StillCompleted /\ MasterStays /\ MasterGone
            /\ FreshMarker /\ MarkerLags

\* The types of the specification are these parts.
LEMMA Parts == TypeOK /\ TasksOK /\ AttemptsCounted <=> Shape /\ JobOK /\ PlacesOK
BY DEF TypeOK, TasksOK, Shape, JobOK, PlacesOK, Row, Objects, Job

\* The removal of the staging object changes nothing that a content or a reclamation looks at.
LEMMA StagingRemoved ==
    ASSUME NEW r \in Row, NEW s \in Objects, RemoveStaging(r, s)
    PROVE  /\ row' \in Row /\ row'.status = r.status /\ row'.claimed = r.claimed
           /\ row'.aged = r.aged /\ row'.marker = r.marker
           /\ store' \in Objects /\ store'.master = s.master
BY DEF RemoveStaging, Row, Objects

\* A step that leaves references, claims and marks alone; only what is not finished moves on.
Quiet ==
    /\ Shape'
    /\ row'.claimed = row.claimed /\ row'.marker = row.marker
    /\ \/ row'.status = row.status
       \/ /\ row.status \in {"UPLOADING", "PROCESSING"}
          /\ row'.status \in {"UPLOADING", "PROCESSING", "FAILED"}
          /\ row'.status = "PROCESSING" => ~row.claimed
    /\ store'.master # store.master => store'.master /\ ~row.claimed /\ Status("UPLOADING")
    /\ UNCHANGED <<refs, edit, cleanup, ran, day, history>>
    /\ \A w \in Workers : worker'[w].pc = "complete" => worker[w].pc = "complete"

\* The confirmations.
LEMMA ConfirmQuiet ==
    ASSUME Shape, NEW h \in Handlers,
           \/ ConfirmRead(h) \/ ConfirmRefuse(h) \/ ConfirmDiscard(h)
           \/ ConfirmClaim(h) \/ ConfirmEnqueue(h) \/ ConfirmRevert(h)
    PROVE  Quiet
<1>0. UNCHANGED <<refs, edit, worker, cleanup, ran, day, history>>
  BY DEF ConfirmRead, ConfirmRefuse, ConfirmDiscard, ConfirmClaim, ConfirmEnqueue, ConfirmRevert, At, tasks
<1>1. CASE UNCHANGED <<row, store>>
  BY <1>0, <1>1 DEF Quiet, Shape, Status
<1>2. ASSUME NEW s \in {"UPLOADING", "PROCESSING", "FAILED"}, Status("UPLOADING") \/ Status("PROCESSING"),
             \/ row' = [row EXCEPT !.status = s] /\ ~row.aged
             \/ row' = [row EXCEPT !.status = s, !.aged = FALSE],
             s = "PROCESSING" => ~row.claimed, store' = store
      PROVE  Quiet
  <2>1. /\ row' \in Row /\ row'.status = s /\ row'.claimed = row.claimed /\ row'.marker = row.marker
        /\ ~row'.aged /\ row.marker = None
    BY <1>2 DEF Shape, Row, Status
  <2> QED
    BY <1>0, <1>2, <2>1 DEF Quiet, Shape, Status
<1>3. CASE ConfirmDiscard(h)
  <2>1. CASE Gone
    BY <1>1, <1>3, <2>1 DEF ConfirmDiscard
  <2>2. CASE ~Gone
    <3>1. RemoveStaging(row, store)
      BY <1>3, <2>2 DEF ConfirmDiscard
    <3> QED
      BY <1>0, <3>1, StagingRemoved DEF Shape, Quiet, Status
  <2> QED
    BY <2>1, <2>2
<1>4. CASE ConfirmRead(h) \/ ConfirmEnqueue(h)
  BY <1>1, <1>4 DEF ConfirmRead, ConfirmEnqueue
<1>5. CASE ConfirmRefuse(h)
  <2>1. CASE Status("UPLOADING") /\ ~row.claimed
    <3>1. row' = [row EXCEPT !.status = "FAILED"] /\ store' = store /\ ~row.aged
      BY <1>5, <2>1 DEF ConfirmRefuse, Shape, Status
    <3> QED
      BY <1>2, <2>1, <3>1
  <2>2. CASE ~(Status("UPLOADING") /\ ~row.claimed)
    BY <1>1, <1>5, <2>2 DEF ConfirmRefuse
  <2> QED
    BY <2>1, <2>2
<1>6. CASE ConfirmClaim(h)
  <2>1. CASE Status("UPLOADING") /\ ~row.claimed
    <3>1. row' = [row EXCEPT !.status = "PROCESSING", !.aged = FALSE] /\ store' = store
      BY <1>6, <2>1 DEF ConfirmClaim
    <3> QED
      BY <1>2, <2>1, <3>1
  <2>2. CASE ~(Status("UPLOADING") /\ ~row.claimed)
    BY <1>1, <1>6, <2>2 DEF ConfirmClaim
  <2> QED
    BY <2>1, <2>2
<1>7. CASE ConfirmRevert(h)
  <2>1. CASE Revertible
    <3>1. row' = [row EXCEPT !.status = "UPLOADING", !.aged = FALSE] /\ store' = store
      BY <1>7, <2>1 DEF ConfirmRevert
    <3> QED
      BY <1>2, <2>1, <3>1 DEF Revertible
  <2>2. CASE ~Revertible
    BY <1>1, <1>7, <2>2 DEF ConfirmRevert
  <2> QED
    BY <2>1, <2>2
<1> QED
  BY <1>3, <1>4, <1>5, <1>6, <1>7

\* The client, the queue and the recovery.
LEMMA RestQuiet ==
    ASSUME Shape, JobOK,
           \/ \E content \in {"good", "corrupt", "bad"} : Put(content)
           \/ Stall \/ Lose \/ Grow \/ RecoverRead \/ RecoverFailed \/ RecoverAdd
           \/ UNCHANGED vars
    PROVE  Quiet
<1>1. ASSUME UNCHANGED <<refs, edit, cleanup, ran, day, history>>, UNCHANGED <<row, store>>,
             \A w \in Workers : worker'[w].pc = "complete" => worker[w].pc = "complete"
      PROVE  Quiet
  BY <1>1 DEF Quiet, Shape, Status
<1>2. ASSUME NEW content \in {"good", "corrupt", "bad"}, Put(content)
      PROVE  Quiet
  <2>1. /\ Status("UPLOADING") /\ ~row.claimed /\ row' = row
        /\ store' = [store EXCEPT !.staging = content] \/ store' = [store EXCEPT !.master = TRUE]
        /\ UNCHANGED <<refs, edit, cleanup, ran, day, history, worker>>
    BY <1>2 DEF Put, people, jobs, tasks
  <2>2. store' \in Objects /\ (store'.master # store.master => store'.master)
    BY <2>1 DEF Shape, Objects
  <2> QED
    BY <2>1, <2>2 DEF Quiet, Shape, Status
<1>3. CASE Stall
  <2>1. \A w \in Workers : worker'[w].pc = "complete" => worker[w].pc = "complete"
    BY <1>3 DEF Stall, Off, JobOK
  <2> QED
    BY <1>1, <1>3, <2>1 DEF Stall, people, tasks
<1>4. CASE Lose \/ RecoverRead \/ UNCHANGED vars
  BY <1>1, <1>4 DEF Lose, RecoverRead, Recovering, vars, people, tasks, jobs
<1>5. ASSUME NEW aged \in BOOLEAN, Status("PROCESSING"), row' = [row EXCEPT !.aged = aged], store' = store,
             UNCHANGED <<refs, edit, cleanup, ran, day, history, worker>>
      PROVE  Quiet
  <2>1. row' \in Row /\ row'.status = row.status /\ row'.claimed = row.claimed /\ row'.marker = row.marker
    BY <1>5 DEF Shape, Row
  <2> QED
    BY <1>5, <2>1 DEF Quiet, Shape, Status
<1>6. CASE Grow
  BY <1>5, <1>6 DEF Grow, people, jobs, tasks
<1>7. CASE RecoverAdd
  <2>1. CASE Status("PROCESSING")
    BY <1>5, <1>7, <2>1 DEF RecoverAdd, Recovering, people
  <2>2. CASE ~Status("PROCESSING")
    BY <1>1, <1>7, <2>2 DEF RecoverAdd, Recovering, people
  <2> QED
    BY <2>1, <2>2
<1>8. CASE RecoverFailed
  <2> DEFINE r == [row EXCEPT !.status = "FAILED", !.aged = FALSE]
  <2>1. CASE Processing
    <3>1. /\ r \in Row /\ r.status = "FAILED" /\ r.claimed = row.claimed /\ r.marker = row.marker /\ ~r.aged
          /\ row.status = "PROCESSING" /\ row.marker = None
      BY <2>1 DEF Processing, Status, Shape, Row
    <3>2. RemoveStaging(r, store) /\ UNCHANGED <<refs, edit, cleanup, ran, day, history, worker>>
      BY <1>8, <2>1 DEF RecoverFailed, Recovering, people
    <3> HIDE DEF r
    <3>3. /\ row' \in Row /\ row'.status = "FAILED" /\ row'.claimed = row.claimed /\ row'.marker = None
          /\ ~row'.aged /\ store' \in Objects /\ store'.master = store.master
      BY <3>1, <3>2, StagingRemoved DEF Shape
    <3> QED
      BY <3>1, <3>2, <3>3 DEF Quiet, Shape, Status
  <2>2. CASE ~Processing
    BY <1>1, <1>8, <2>2 DEF RecoverFailed, Recovering, people
  <2> QED
    BY <2>1, <2>2
<1> QED
  BY <1>2, <1>3, <1>4, <1>6, <1>7, <1>8

\* Most steps of a worker: all but the upload of the master and the completion.
LEMMA WorkerQuiet ==
    ASSUME Shape, JobOK, NEW w \in Workers,
           StartJob(w) \/ Download(w) \/ Clean(w) \/ Failing(w) \/ EndJob(w)
    PROVE  Quiet
<1>0. UNCHANGED <<refs, edit, cleanup, ran, day, history>>
  BY DEF StartJob, Download, Clean, Failing, EndJob, In, people, tasks, history
<1>1. \A x \in Workers : worker'[x].pc = "complete" => worker[x].pc = "complete"
  <2>1. \A pc \in {"upload", "failing", "succeed", "fail", "clean"} : Step(w, pc) =>
           \A x \in Workers : worker'[x].pc = "complete" => worker[x].pc = "complete"
    BY DEF Step, JobOK, Run
  <2>2. CASE StartJob(w)
    <3> DEFINE run == [pc |-> IF Processing THEN "download" ELSE "succeed",
                       last |-> job.tries + 1 >= Attempts, legacy |-> ~row.keyed]
    <3>1. worker' = [worker EXCEPT ![w] = run]
      BY <2>2 DEF StartJob
    <3>2. run.pc = (IF Processing THEN "download" ELSE "succeed")
      OBVIOUS
    <3> HIDE DEF run
    <3>3. run.pc # "complete"
      BY <3>2
    <3> QED
      BY <3>1, <3>3 DEF JobOK
  <2>3. CASE EndJob(w)
    BY <2>3 DEF EndJob, Off, JobOK
  <2>4. CASE Download(w) \/ Clean(w) \/ Failing(w)
    BY <2>1, <2>4 DEF Download, Clean, Failing
  <2> QED
    BY <2>2, <2>3, <2>4
<1>2. CASE UNCHANGED <<row, store>>
  BY <1>0, <1>1, <1>2 DEF Quiet, Shape, Status
<1>3. CASE Clean(w)
  <2>1. CASE Gone
    BY <1>2, <1>3, <2>1 DEF Clean
  <2>2. CASE ~Gone
    <3>1. RemoveStaging(row, store)
      BY <1>3, <2>2 DEF Clean
    <3> QED
      BY <1>0, <1>1, <3>1, StagingRemoved DEF Shape, Quiet, Status
  <2> QED
    BY <2>1, <2>2
<1>4. CASE Failing(w)
  <2>1. CASE worker[w].last /\ Processing
    <3>1. row' = [row EXCEPT !.status = "FAILED", !.aged = FALSE] /\ store' = store
      BY <1>4, <2>1 DEF Failing
    <3>2. /\ row' \in Row /\ row'.status = "FAILED" /\ row'.claimed = row.claimed /\ row'.marker = row.marker
          /\ ~row'.aged /\ row.marker = None /\ row.status = "PROCESSING"
      BY <2>1, <3>1 DEF Shape, Row, Processing, Status
    <3> QED
      BY <1>0, <1>1, <3>1, <3>2 DEF Quiet, Shape, Status
  <2>2. CASE ~(worker[w].last /\ Processing)
    BY <1>2, <1>4, <2>2 DEF Failing
  <2> QED
    BY <2>1, <2>2
<1> QED
  BY <1>2, <1>3, <1>4 DEF StartJob, Download, EndJob

-----------------------------------------------------------------------------
(* The media in use: step by step *)

\* Days are numbers, and no marker is none of them.
LEMMA DayFacts == PlacesOK => /\ day \in Nat /\ (held # None => held \in Nat) /\ None \notin Nat
BY MediaAssumption DEF PlacesOK, Days

\* A marker is a day.
LEMMA MarkerFacts == Shape => (row.marker # None => row.marker \in Nat)
BY MediaAssumption DEF Shape, Row, Days

\* A quiet step keeps what holds of a media in use.
LEMMA QuietKeeps ==
    ASSUME Shape, PlacesOK, MediaInv, Quiet
    PROVE  MediaInv'
<1> USE DEF Quiet, history, Status, Gone
<1>0. refs' = refs /\ edit' = edit /\ cleanup' = cleanup /\ ran' = ran /\ day' = day /\ held' = held
      /\ overtaken' = overtaken /\ row'.claimed = row.claimed /\ row'.marker = row.marker
  OBVIOUS
<1>1. row.status \in {"COMPLETED", "FAILED", "gone"} => row'.status = row.status
  OBVIOUS
<1>2. row'.status \in {"COMPLETED", "gone"} => row'.status = row.status
  OBVIOUS
<1>3. row.status # "UPLOADING" \/ row.claimed => store'.master = store.master
  OBVIOUS
<1>m. row \in Row /\ store \in Objects /\ store' \in Objects
  BY DEF Shape
<1> HIDE DEF Quiet
<1>4. Servable'
  BY <1>0, <1>1, <1>3 DEF MediaInv, Servable
<1>5. ClaimedAlone' /\ StillCompleted'
  <2>1. row.claimed /\ row'.status = "PROCESSING" => row.status = "PROCESSING"
    BY DEF Quiet
  <2> QED
    BY <1>0, <1>1, <1>2, <2>1 DEF MediaInv, ClaimedAlone, StillCompleted
<1>6. MasterStays'
  <2>1. store.master => store'.master
    BY <1>m DEF Quiet, Objects
  <2> QED
    BY <1>0, <1>2, <2>1 DEF MediaInv, MasterStays, Quiet
<1>7. MasterGone'
  <2>1. cleanup = "drop" \/ row.status = "gone" => row.claimed
    BY DEF MediaInv, ClaimedAlone
  <2> QED
    BY <1>0, <1>2, <1>3, <2>1 DEF MediaInv, MasterGone
<1>8. FreshMarker' /\ MarkerLags'
  BY <1>0 DEF MediaInv, FreshMarker, MarkerLags
<1> QED
  BY <1>4, <1>5, <1>6, <1>7, <1>8 DEF MediaInv

\* The upload of the master: it is overtaken when the row is no longer being processed.
LEMMA UploadKeeps ==
    ASSUME Shape, PlacesOK, JobOK, MediaInv, NEW w \in Workers, Upload(w)
    PROVE  Shape' /\ MediaInv'
<1>0. /\ row' = row /\ refs' = refs /\ edit' = edit /\ cleanup' = cleanup /\ ran' = ran /\ day' = day
      /\ held' = held /\ overtaken' = (overtaken \/ ~Processing)
      /\ store' = [store EXCEPT !.master = TRUE]
  BY DEF Upload, In, people, tasks
<1>1. store' \in Objects /\ store'.master
  BY <1>0 DEF Shape, Objects
<1>2. cleanup = "drop" \/ Gone => overtaken'
  BY <1>0 DEF MediaInv, ClaimedAlone, Processing, Status, Gone
<1> QED
  BY <1>0, <1>1, <1>2 DEF Shape, MediaInv, Servable, ClaimedAlone, StillCompleted, MasterStays, MasterGone,
                          FreshMarker, MarkerLags, Status, Gone

\* The completion: the master has been uploaded by the same worker.
LEMMA CompleteKeeps ==
    ASSUME Shape, PlacesOK, JobOK, MediaInv, NEW w \in Workers, Complete(w)
    PROVE  Shape' /\ MediaInv'
<1>0. /\ refs' = refs /\ edit' = edit /\ cleanup' = cleanup /\ ran' = ran /\ day' = day
      /\ held' = held /\ overtaken' = overtaken /\ store' = store /\ worker[w].pc = "complete"
  BY DEF Complete, In, people, tasks
<1>1. \A x \in Workers : worker'[x].pc = "complete" => worker[x].pc = "complete"
  BY DEF Complete, Step, JobOK, Run
<1>2. CASE ~Processing
  <2>1. row' = row
    BY <1>2 DEF Complete
  <2> QED
    BY <1>0, <1>1, <2>1 DEF Shape, MediaInv, Servable, ClaimedAlone, StillCompleted, MasterStays, MasterGone,
                            FreshMarker, MarkerLags, Status, Gone
<1>3. CASE Processing
  <2>1. row' = [row EXCEPT !.status = "COMPLETED", !.aged = FALSE, !.marker = day]
    BY <1>3 DEF Complete, Completed
  <2>2. /\ row' \in Row /\ row'.status = "COMPLETED" /\ ~row'.aged /\ row'.marker = day /\ row'.claimed = row.claimed
    BY <2>1 DEF Shape, Row, PlacesOK
  <2>3. row.status = "PROCESSING" /\ ~row.claimed /\ store.master /\ refs = {}
    BY <1>0, <1>3 DEF Processing, Status, MediaInv, MasterStays, Servable
  <2>4. Shape'
    BY <1>0, <2>2 DEF Shape, Status
  <2>5. Servable' /\ ClaimedAlone' /\ StillCompleted'
    BY <1>0, <2>2, <2>3 DEF MediaInv, Servable, ClaimedAlone, StillCompleted, Status, Gone
  <2>6. MasterStays' /\ MasterGone'
    BY <1>0, <1>1, <2>2, <2>3 DEF MediaInv, MasterStays, MasterGone, ClaimedAlone, Status, Gone
  <2>7. FreshMarker' /\ MarkerLags'
    BY <1>0, <2>2, <2>3, DayFacts DEF MediaInv, FreshMarker, MarkerLags
  <2> QED
    BY <2>4, <2>5, <2>6, <2>7 DEF MediaInv
<1> QED
  BY <1>2, <1>3

\* The edits of the contents that refer to the media.
LEMMA EditKeeps ==
    ASSUME Shape, PlacesOK, MediaInv, NEW p \in Contents,
           Resolve(p) \/ Attach(p) \/ DetachRead(p) \/ DetachCommit(p) \/ Cascade(p)
    PROVE  Shape' /\ MediaInv'
<1> USE DEF Status, Gone, Leave
<1>0. /\ store' = store /\ cleanup' = cleanup /\ ran' = ran /\ day' = day /\ overtaken' = overtaken /\ worker' = worker
      /\ edit \in [Contents -> {"idle", "insert", "orphan", "shared"}]
  BY DEF Resolve, Attach, DetachRead, DetachCommit, Cascade, Editing, tasks, jobs, PlacesOK
<1>1. CASE Resolve(p)
  <2>1. /\ row' = row /\ refs' = refs /\ held' = held /\ edit' = [edit EXCEPT ![p] = "insert"]
        /\ row.status = "COMPLETED"
    BY <1>1 DEF Resolve
  <2> QED
    BY <1>0, <2>1 DEF Shape, MediaInv, Servable, ClaimedAlone, StillCompleted, MasterStays, MasterGone,
                      FreshMarker, MarkerLags
<1>2. CASE DetachRead(p)
  <2>1. /\ row' = row /\ refs' = refs /\ held' = held /\ p \in refs
        /\ edit' = [edit EXCEPT ![p] = IF refs = {p} THEN "orphan" ELSE "shared"]
    BY <1>2 DEF DetachRead
  <2> QED
    BY <1>0, <2>1 DEF Shape, MediaInv, Servable, ClaimedAlone, StillCompleted, MasterStays, MasterGone,
                      FreshMarker, MarkerLags
<1>3. CASE Cascade(p)
  <2>1. /\ row' = row /\ refs' = refs \ {p} /\ held' = day /\ edit' = edit /\ p \in refs /\ edit[p] = "idle"
    BY <1>3 DEF Cascade, Editing
  <2>2. Servable' /\ ClaimedAlone' /\ StillCompleted' /\ MasterStays' /\ MasterGone' /\ Shape'
    BY <1>0, <2>1 DEF Shape, MediaInv, Servable, ClaimedAlone, StillCompleted, MasterStays, MasterGone
  <2>3. row.marker # None => row.marker = day \/ row.marker + 1 = day
    BY <2>1 DEF MediaInv, FreshMarker
  <2>4. FreshMarker'
    BY <1>0, <2>1 DEF MediaInv, FreshMarker
  <2>5. MarkerLags'
    BY <1>0, <2>1, <2>3, DayFacts, MarkerFacts DEF MediaInv, MarkerLags
  <2> QED
    BY <2>2, <2>4, <2>5 DEF MediaInv
<1>4. CASE DetachCommit(p)
  <2> DEFINE marker == IF edit[p] = "orphan" THEN day ELSE None
  <2>1. /\ refs' = refs \ {p} /\ held' = day /\ edit' = [edit EXCEPT ![p] = "idle"]
        /\ edit[p] \in {"orphan", "shared"} /\ row' = [row EXCEPT !.marker = marker]
    BY <1>4 DEF DetachCommit
  <2>2. marker \in Days \union {None} /\ (marker # None => marker = day)
    BY DEF PlacesOK
  <2>3. row.status = "COMPLETED" /\ ~row.claimed /\ store.master
    BY <2>1 DEF MediaInv, StillCompleted, Servable
  <2> HIDE DEF marker
  <2>4. /\ row' \in Row /\ row'.marker = marker /\ row'.status = row.status /\ row'.claimed = row.claimed
        /\ row'.aged = row.aged
    BY <2>1, <2>2 DEF Shape, Row
  <2>5. Shape'
    BY <1>0, <2>3, <2>4 DEF Shape
  <2>6. Servable' /\ ClaimedAlone' /\ StillCompleted' /\ MasterStays' /\ MasterGone'
    BY <1>0, <2>1, <2>3, <2>4 DEF MediaInv, Servable, ClaimedAlone, StillCompleted, MasterStays, MasterGone
  <2>7. FreshMarker' /\ MarkerLags'
    BY <1>0, <2>1, <2>2, <2>4, DayFacts DEF MediaInv, FreshMarker, MarkerLags
  <2> QED
    BY <2>5, <2>6, <2>7 DEF MediaInv
<1>5. CASE Attach(p)
  <2>1. held' = held /\ edit[p] = "insert" /\ edit' = [edit EXCEPT ![p] = "idle"]
    BY <1>5 DEF Attach, Editing
  <2>2. CASE ~Attachable
    <3>1. row' = row /\ refs' = refs
      BY <1>5, <2>2 DEF Attach
    <3> QED
      BY <1>0, <2>1, <3>1 DEF Shape, MediaInv, Servable, ClaimedAlone, StillCompleted, MasterStays, MasterGone,
                              FreshMarker, MarkerLags
  <2>3. CASE Attachable
    <3>1. refs' = refs \union {p} /\ row' = [row EXCEPT !.marker = None]
      BY <1>5, <2>3 DEF Attach
    <3>2. row.status = "COMPLETED" /\ ~row.claimed /\ store.master
      BY <2>1, <2>3 DEF Attachable, MediaInv, StillCompleted, MasterStays
    <3>3. /\ row' \in Row /\ row'.marker = None /\ row'.status = row.status /\ row'.claimed = row.claimed
          /\ row'.aged = row.aged
      BY <3>1 DEF Shape, Row
    <3>4. Shape'
      BY <1>0, <3>2, <3>3 DEF Shape
    <3>5. Servable' /\ ClaimedAlone' /\ StillCompleted' /\ MasterStays' /\ MasterGone'
      BY <1>0, <2>1, <3>1, <3>2, <3>3 DEF MediaInv, Servable, ClaimedAlone, StillCompleted, MasterStays, MasterGone
    <3>6. FreshMarker' /\ MarkerLags'
      BY <1>0, <2>1, <3>3 DEF MediaInv, FreshMarker, MarkerLags
    <3> QED
      BY <3>4, <3>5, <3>6 DEF MediaInv
  <2> QED
    BY <2>2, <2>3
<1> QED
  BY <1>1, <1>2, <1>3, <1>4, <1>5

\* The reconciliation of the daily cleanup: it looks for false and for missing markers.
LEMMA MarkersKeep ==
    ASSUME Shape, PlacesOK, MediaInv, SweepStaging \/ FindMarked \/ Unmark \/ FindUnmarked \/ Mark
    PROVE  Shape' /\ MediaInv'
<1> USE DEF Status, Gone
<1>0. /\ refs' = refs /\ edit' = edit /\ day' = day /\ held' = held /\ overtaken' = overtaken /\ worker' = worker
      /\ ran' = ran /\ (ran => cleanup = "idle")
  BY DEF SweepStaging, FindMarked, Unmark, FindUnmarked, Mark, Cleaning, people, jobs, history, PlacesOK
<1>1. ASSUME row'.status = row.status, row'.claimed = row.claimed, row'.aged = row.aged,
             row' \in Row, store' \in Objects, store'.master = store.master,
             cleanup \notin {"delete", "drop"}, cleanup' \notin {"delete", "drop"},
             cleanup' = "mark" => row.status = "COMPLETED",
             row'.marker # None => row.status = "COMPLETED" \/ row'.marker = row.marker
      PROVE  Shape' /\ Servable' /\ ClaimedAlone' /\ StillCompleted' /\ MasterStays' /\ MasterGone'
  BY <1>0, <1>1 DEF Shape, MediaInv, Servable, ClaimedAlone, StillCompleted, MasterStays, MasterGone
<1>2. CASE SweepStaging
  <2>1. cleanup = "idle" /\ cleanup' = "unmarkable"
    BY <1>2 DEF SweepStaging, Cleaning
  <2>2. /\ row' \in Row /\ row'.status = row.status /\ row'.claimed = row.claimed
        /\ row'.aged = row.aged /\ row'.marker = row.marker
        /\ store' \in Objects /\ store'.master = store.master
    <3>1. CASE Finished /\ row.keyed
      BY <1>2, <3>1, StagingRemoved DEF SweepStaging, Shape
    <3>2. CASE ~(Finished /\ row.keyed)
      BY <1>2, <3>2 DEF SweepStaging, Shape
    <3> QED
      BY <3>1, <3>2
  <2>3. FreshMarker' /\ MarkerLags'
    BY <1>0, <2>1, <2>2 DEF MediaInv, FreshMarker, MarkerLags
  <2> QED
    BY <1>1, <2>1, <2>2, <2>3 DEF MediaInv
<1>3. CASE FindMarked
  <2>1. /\ row' = row /\ store' = store /\ cleanup = "unmarkable"
        /\ cleanup' = IF FalselyMarked THEN "unmark" ELSE "markable"
    BY <1>3 DEF FindMarked, Cleaning
  <2>2. row.marker # None /\ refs # {} => FalselyMarked
    BY DEF FalselyMarked, MediaInv, Servable
  <2>3. FreshMarker' /\ MarkerLags'
    BY <1>0, <2>1, <2>2 DEF MediaInv, FreshMarker, MarkerLags
  <2> QED
    BY <1>1, <2>1, <2>3 DEF MediaInv, Shape
<1>4. CASE Unmark
  <2>1. row' = [row EXCEPT !.marker = None] /\ store' = store /\ cleanup = "unmark" /\ cleanup' = "unmarkable"
    BY <1>4 DEF Unmark, Cleaning
  <2>2. /\ row' \in Row /\ row'.status = row.status /\ row'.claimed = row.claimed
        /\ row'.aged = row.aged /\ row'.marker = None
    BY <2>1 DEF Shape, Row
  <2>3. FreshMarker' /\ MarkerLags'
    BY <1>0, <2>2 DEF MediaInv, FreshMarker, MarkerLags
  <2> QED
    BY <1>1, <2>1, <2>2, <2>3 DEF MediaInv, Shape
<1>5. CASE FindUnmarked
  <2>1. /\ row' = row /\ store' = store /\ cleanup = "markable"
        /\ cleanup' = IF row.status = "COMPLETED" /\ row.marker = None /\ refs = {} THEN "mark" ELSE "claim"
    BY <1>5 DEF FindUnmarked, Cleaning
  <2>2. FreshMarker' /\ MarkerLags'
    BY <1>0, <2>1 DEF MediaInv, FreshMarker, MarkerLags
  <2> QED
    BY <1>1, <2>1, <2>2 DEF MediaInv, Shape
<1>6. CASE Mark
  <2>1. /\ row' = (IF row.marker = None THEN [row EXCEPT !.marker = day] ELSE row)
        /\ store' = store /\ cleanup = "mark" /\ cleanup' = "markable"
    BY <1>6 DEF Mark, Cleaning
  <2>2. /\ row' \in Row /\ row'.status = row.status /\ row'.claimed = row.claimed
        /\ row'.aged = row.aged /\ row'.marker = IF row.marker = None THEN day ELSE row.marker
    BY <2>1 DEF Shape, Row, PlacesOK
  <2>3. row.status = "COMPLETED"
    BY <2>1 DEF MediaInv, StillCompleted
  <2>4. FreshMarker' /\ MarkerLags'
    BY <1>0, <2>1, <2>2, DayFacts, MarkerFacts DEF MediaInv, FreshMarker, MarkerLags
  <2> QED
    BY <1>1, <2>1, <2>2, <2>3, <2>4 DEF MediaInv, Shape
<1> QED
  BY <1>2, <1>3, <1>4, <1>5, <1>6

\* The reclamation and the passing of a day.
LEMMA ClaimKeeps ==
    ASSUME Shape, PlacesOK, MediaInv, Claim \/ DeleteObjects \/ DropRow \/ Day
    PROVE  Shape' /\ MediaInv'
<1> USE DEF Status, Gone
<1>0. refs' = refs /\ held' = held /\ overtaken' = overtaken /\ worker' = worker /\ edit' = edit
  BY DEF Claim, DeleteObjects, DropRow, Day, Cleaning, people, jobs, history
<1>1. CASE Claim
  <2> DEFINE victim == ~Gone /\ Expired /\ refs = {}
  <2>1. /\ cleanup = "claim" /\ cleanup' = (IF victim THEN "delete" ELSE "idle")
        /\ row' = (IF victim THEN [row EXCEPT !.claimed = TRUE] ELSE row)
        /\ store' = store /\ day' = day
    BY <1>1 DEF Claim, Cleaning
  <2>2. /\ row' \in Row /\ row'.status = row.status /\ row'.marker = row.marker
        /\ row'.aged = row.aged /\ row'.claimed = (row.claimed \/ victim)
    BY <2>1 DEF Shape, Row
  <2>3. victim => refs = {} /\ row.status # "PROCESSING"
    BY DEF Expired, MediaInv, ClaimedAlone
  <2> HIDE DEF victim
  <2>4. Shape' /\ Servable' /\ ClaimedAlone' /\ StillCompleted' /\ MasterStays' /\ MasterGone'
    BY <1>0, <2>1, <2>2, <2>3 DEF Shape, MediaInv, Servable, ClaimedAlone, StillCompleted, MasterStays, MasterGone
  <2>5. FreshMarker' /\ MarkerLags'
    BY <1>0, <2>1, <2>2 DEF MediaInv, FreshMarker, MarkerLags
  <2> QED
    BY <2>4, <2>5 DEF MediaInv
<1>2. CASE DeleteObjects
  <2>1. /\ cleanup = "delete" /\ row' = row /\ day' = day /\ store' \in Objects
        /\ cleanup' = (IF Deletable(store') THEN "drop" ELSE "idle")
    <3>1. PICK s \in {store, [store EXCEPT !.staging = "none"], [staging |-> "none", master |-> FALSE]} :
             /\ Cleaning("delete", IF Deletable(s) THEN "drop" ELSE "idle")
             /\ store' = s /\ row' = row
      BY <1>2 DEF DeleteObjects
    <3>2. s \in Objects
      <4>1. store \in Objects /\ [staging |-> "none", master |-> FALSE] \in Objects
        BY DEF Shape, Objects
      <4>2. [store EXCEPT !.staging = "none"] \in Objects
        BY <4>1 DEF Objects
      <4> QED
        BY <4>1, <4>2
    <3>3. cleanup = "delete" /\ day' = day /\ cleanup' = (IF Deletable(s) THEN "drop" ELSE "idle")
      BY <3>1 DEF Cleaning
    <3> QED
      BY <3>1, <3>2, <3>3
  <2>2. row.claimed /\ refs = {} /\ (cleanup' = "drop" => ~store'.master)
    BY <2>1 DEF Deletable, MediaInv, ClaimedAlone
  <2>3. row.status = "gone" => (store'.master => overtaken)
    <3>1. store'.master => store.master
      BY <1>2 DEF DeleteObjects, Cleaning, Shape, Objects
    <3> QED
      BY <3>1 DEF MediaInv, MasterGone
  <2>4. Shape' /\ Servable' /\ ClaimedAlone' /\ StillCompleted' /\ MasterStays' /\ MasterGone'
    BY <1>0, <2>1, <2>2, <2>3 DEF Shape, MediaInv, Servable, ClaimedAlone, StillCompleted, MasterStays, MasterGone
  <2>5. FreshMarker' /\ MarkerLags'
    BY <1>0, <2>1, <2>2 DEF MediaInv, FreshMarker, MarkerLags
  <2> QED
    BY <2>4, <2>5 DEF MediaInv
<1>3. CASE DropRow
  <2>1. /\ cleanup = "drop" /\ cleanup' = "idle" /\ row' = [row EXCEPT !.status = "gone"]
        /\ store' = store /\ day' = day
    BY <1>3 DEF DropRow, Cleaning
  <2>2. row.claimed /\ refs = {} /\ (store.master => overtaken)
    BY <2>1 DEF MediaInv, ClaimedAlone, MasterGone
  <2>3. /\ row' \in Row /\ row'.status = "gone" /\ row'.marker = row.marker
        /\ row'.aged = row.aged /\ row'.claimed = row.claimed
    BY <2>1 DEF Shape, Row
  <2>4. Servable' /\ ClaimedAlone' /\ StillCompleted' /\ MasterStays' /\ MasterGone'
    BY <1>0, <2>1, <2>2, <2>3 DEF MediaInv, Servable, ClaimedAlone, StillCompleted, MasterStays, MasterGone
  <2>5. FreshMarker' /\ MarkerLags'
    BY <1>0, <2>1, <2>2, <2>3 DEF MediaInv, FreshMarker, MarkerLags
  <2>6. Shape'
    <3>1. ~row.aged
      BY <2>2 DEF Shape, MediaInv, ClaimedAlone
    <3> QED
      BY <2>1, <2>3, <3>1 DEF Shape
  <2> QED
    BY <2>4, <2>5, <2>6 DEF MediaInv
<1>4. CASE Day
  <2>1. /\ row' = row /\ store' = store /\ cleanup' = cleanup /\ day' = day + 1 /\ ran /\ ~ran' /\ cleanup = "idle"
    BY <1>4 DEF Day, PlacesOK
  <2>2. Shape' /\ Servable' /\ ClaimedAlone' /\ StillCompleted' /\ MasterStays' /\ MasterGone'
    BY <1>0, <2>1 DEF Shape, MediaInv, Servable, ClaimedAlone, StillCompleted, MasterStays, MasterGone
  <2>3. FreshMarker' /\ MarkerLags'
    BY <1>0, <2>1, DayFacts, MarkerFacts DEF MediaInv, FreshMarker, MarkerLags
  <2> QED
    BY <2>2, <2>3 DEF MediaInv
<1> QED
  BY <1>1, <1>2, <1>3, <1>4

-----------------------------------------------------------------------------
(* Every step *)

\* A step is quiet or one of those treated above.
LEMMA Kinds ==
    ASSUME Shape, JobOK, [Next]_vars
    PROVE  \/ Quiet
           \/ \E w \in Workers : Upload(w) \/ Complete(w)
           \/ \E p \in Contents : Resolve(p) \/ Attach(p) \/ DetachRead(p) \/ DetachCommit(p) \/ Cascade(p)
           \/ SweepStaging \/ FindMarked \/ Unmark \/ FindUnmarked \/ Mark
           \/ Claim \/ DeleteObjects \/ DropRow \/ Day
BY ConfirmQuiet, RestQuiet, WorkerQuiet DEF Next

\* The places of the handlers, of the recovery and of the cleanup, and the days.
LEMMA PlacesStep == Shape /\ JobOK /\ PlacesOK /\ [Next]_vars => PlacesOK'
<1> SUFFICES ASSUME Shape, JobOK, PlacesOK, [Next]_vars
             PROVE  PlacesOK'
  OBVIOUS
<1> USE DEF PlacesOK
<1>1. CASE UNCHANGED <<people, tasks, day, held, overtaken>>
  BY <1>1 DEF people, tasks
<1>2. ASSUME \/ \E content \in {"good", "corrupt", "bad"} : Put(content)
             \/ \E w \in Workers : \/ StartJob(w) \/ Download(w) \/ Complete(w) \/ Clean(w) \/ Failing(w) \/ EndJob(w)
             \/ Stall \/ Lose \/ Grow \/ UNCHANGED vars
      PROVE  UNCHANGED <<people, tasks, day, held, overtaken>>
  BY <1>2 DEF Put, StartJob, Download, Complete, Clean, Failing, EndJob, In, Stall, Lose, Grow, vars, history
<1>3. ASSUME NEW w \in Workers, Upload(w)
      PROVE  PlacesOK'
  <2>1. UNCHANGED <<people, tasks, day, held>> /\ overtaken' \in BOOLEAN
    BY <1>3 DEF Upload, In
  <2> QED
    BY <2>1 DEF people, tasks
<1>4. ASSUME NEW h \in Handlers,
             \/ ConfirmRead(h) \/ ConfirmRefuse(h) \/ ConfirmDiscard(h)
             \/ ConfirmClaim(h) \/ ConfirmEnqueue(h) \/ ConfirmRevert(h)
      PROVE  PlacesOK'
  <2>1. UNCHANGED <<refs, edit, tasks, day, held, overtaken>>
    BY <1>4 DEF ConfirmRead, ConfirmRefuse, ConfirmDiscard, ConfirmClaim, ConfirmEnqueue, ConfirmRevert, At, history
  <2>2. \E pc \in {"idle", "refuse", "discard", "claim", "enqueue", "revert"} : Go(h, pc)
    BY <1>4 DEF ConfirmRead, ConfirmRefuse, ConfirmDiscard, ConfirmClaim, ConfirmEnqueue, ConfirmRevert
  <2> QED
    BY <2>1, <2>2 DEF Go, tasks
<1>5. CASE RecoverRead \/ RecoverFailed \/ RecoverAdd
  <2>1. UNCHANGED <<people, cleanup, ran, day, held, overtaken>>
    BY <1>5 DEF RecoverRead, RecoverFailed, RecoverAdd, Recovering, history
  <2>2. recovery' \in {"idle", "none", "completed", "failed"}
    BY <1>5 DEF RecoverRead, RecoverFailed, RecoverAdd, JobOK, Job
  <2> QED
    BY <2>1, <2>2 DEF people
<1>6. ASSUME NEW p \in Contents, Resolve(p) \/ Attach(p) \/ DetachRead(p) \/ DetachCommit(p) \/ Cascade(p)
      PROVE  PlacesOK'
  <2>1. UNCHANGED <<confirm, tasks, day, overtaken>>
    BY <1>6 DEF Resolve, Attach, DetachRead, DetachCommit, Cascade, Editing
  <2>2. /\ refs' \subseteq Contents /\ (held' = held \/ held' = day)
        /\ edit' = edit \/ \E pc \in {"idle", "insert", "orphan", "shared"} : Leave(p, pc)
    BY <1>6 DEF Resolve, Attach, DetachRead, DetachCommit, Cascade
  <2> QED
    BY <2>1, <2>2 DEF tasks, Leave
<1>7. CASE SweepStaging \/ FindMarked \/ Unmark \/ FindUnmarked \/ Mark
  <2>1. UNCHANGED <<people, recovery, day, held, overtaken>> /\ ran' = ran /\ ~ran
    BY <1>7 DEF SweepStaging, FindMarked, Unmark, FindUnmarked, Mark, Cleaning, history
  <2>2. cleanup' \in {"unmarkable", "unmark", "markable", "mark", "claim"}
    BY <1>7 DEF SweepStaging, FindMarked, Unmark, FindUnmarked, Mark, Cleaning
  <2> QED
    BY <2>1, <2>2 DEF people
<1>8. CASE Claim \/ DeleteObjects \/ DropRow
  <2>1. UNCHANGED <<people, recovery, day, held, overtaken>>
    BY <1>8 DEF Claim, DeleteObjects, DropRow, Cleaning, history
  <2>2. cleanup' \in {"idle", "delete", "drop"} /\ ran' \in BOOLEAN /\ (ran' => cleanup' = "idle")
    BY <1>8 DEF Claim, DeleteObjects, DropRow, Cleaning
  <2> QED
    BY <2>1, <2>2 DEF people
<1>9. CASE Day
  <2>1. UNCHANGED <<people, recovery, cleanup, held, overtaken>> /\ ~ran' /\ day' = day + 1 /\ day < MaxDays
    BY <1>9 DEF Day, history
  <2>2. ran' = FALSE
    BY <1>9 DEF Day
  <2>3. day' \in Days
    <3>1. MaxDays \in Nat /\ day \in 0..MaxDays
      BY MediaAssumption DEF Days
    <3> QED
      BY <2>1, <3>1 DEF Days
  <2> QED
    BY <2>1, <2>2, <2>3 DEF people
<1> QED
  BY <1>1, <1>2, <1>3, <1>4, <1>5, <1>6, <1>7, <1>8, <1>9 DEF Next

\* The invariant holds at first.
LEMMA InitIInv == Init => IInv
<1> SUFFICES ASSUME Init
             PROVE  IInv
  OBVIOUS
<1>1. Shape
  BY DEF Init, Shape, Row, Objects
<1>2. NoJob \in Job /\ Off \in Run /\ NoJob.state = "none" /\ NoJob.owner = None
  BY MediaAssumption DEF NoJob, Off, Job, Run
<1>3. JobOK
  BY <1>2, MediaAssumption DEF Init, JobOK, AttemptsCounted
<1>4. PlacesOK
  <2>1. /\ refs = {} /\ edit = [p \in Contents |-> "idle"] /\ confirm = [h \in Handlers |-> "idle"]
        /\ recovery = "idle" /\ cleanup = "idle" /\ ran = FALSE /\ held = None /\ overtaken = FALSE
    BY DEF Init
  <2>2. day = 0
    BY DEF Init
  <2>3. 0 \in Days
    BY MediaAssumption DEF Days
  <2> QED
    BY <2>1, <2>2, <2>3 DEF PlacesOK
<1>5. /\ row.status = "UPLOADING" /\ ~row.claimed /\ row.marker = None /\ refs = {} /\ cleanup = "idle"
      /\ held = None /\ \A p \in Contents : edit[p] = "idle"
  BY DEF Init
<1>6. \A w \in Workers : worker[w].pc # "complete"
  BY DEF Init, Off
<1>7. MediaInv
  BY <1>5, <1>6 DEF MediaInv, Servable, ClaimedAlone, StillCompleted, MasterStays, MasterGone,
                    FreshMarker, MarkerLags, Status, Gone
<1> QED
  BY <1>1, <1>3, <1>4, <1>7, Parts DEF IInv, MediaInv

\* Every step keeps it.
LEMMA NextIInv == IInv /\ [Next]_vars => IInv'
<1> SUFFICES ASSUME IInv, [Next]_vars
             PROVE  IInv'
  OBVIOUS
<1>1. Shape /\ JobOK /\ PlacesOK /\ MediaInv
  BY Parts DEF IInv, MediaInv
<1>2. Shape' /\ MediaInv'
  <2>1. CASE Quiet
    BY <1>1, <2>1, QuietKeeps DEF Quiet
  <2> QED
    BY <1>1, <2>1, Kinds, UploadKeeps, CompleteKeeps, EditKeeps, MarkersKeep, ClaimKeeps
<1>3. JobOK' /\ PlacesOK'
  BY <1>1, JobStep, PlacesStep
<1>4. (TypeOK /\ TasksOK /\ AttemptsCounted)'
  BY <1>2, <1>3 DEF TypeOK, TasksOK, Shape, JobOK, PlacesOK, Row, Objects, Job
<1> QED
  BY <1>2, <1>4 DEF IInv, MediaInv

\* The inductive invariant holds in every state that is reached.
THEOREM Invariance == Spec => []IInv
BY InitIInv, NextIInv, PTL DEF Spec

\* The shapes: a job never has more attempts than it may, only a media that is being processed can
\* be found stale, and only one that was completed carries a marker.
THEOREM TypeCorrect == Spec => []TypeOK
<1>1. IInv => TypeOK
  BY DEF IInv
<1> QED
  BY Invariance, <1>1, PTL

\* Whatever a content refers to can be shown, for any number of contents, workers and
\* confirmations, any number of faults and any days of grace.
THEOREM ServableAlways == Spec => []Servable
<1>1. IInv => Servable
  BY DEF IInv
<1> QED
  BY Invariance, <1>1, PTL

\* When the row goes, every object uploaded while it was being processed is gone.
THEOREM RowOutlivesMasterAlways == Spec => []RowOutlivesMaster
<1>1. IInv => RowOutlivesMaster
  BY DEF IInv, MasterGone, RowOutlivesMaster
<1> QED
  BY Invariance, <1>1, PTL

\* A finished media only ever changes its status to be deleted, and is claimed before.
THEOREM FinishedStaysAlways == Spec => FinishedStays
<1>1. ASSUME IInv, [Next]_vars, Finished
      PROVE  row'.status \in {row.status, "gone"} /\ (row'.status = "gone" => row.claimed)
  <2>1. Shape /\ JobOK /\ PlacesOK /\ MediaInv /\ row.status \in {"COMPLETED", "FAILED"}
    BY <1>1, Parts DEF IInv, MediaInv, Finished
  <2>2. CASE Quiet
    BY <2>1, <2>2 DEF Quiet
  <2>3. CASE \/ \E w \in Workers : Upload(w) \/ Complete(w)
             \/ \E p \in Contents : Resolve(p) \/ DetachRead(p) \/ Cascade(p)
             \/ FindMarked \/ FindUnmarked \/ DeleteObjects \/ Day
    <3>1. row' = row
      BY <2>1, <2>3 DEF Upload, Complete, Processing, Status, Resolve, DetachRead, Cascade, FindMarked, FindUnmarked,
                        DeleteObjects, Day
    <3> QED
      BY <2>1, <3>1
  <2>4. CASE \/ \E p \in Contents : Attach(p) \/ DetachCommit(p)
             \/ Unmark \/ Mark \/ Claim
    <3>1. row'.status = row.status
      <4>1. row \in Row
        BY <2>1 DEF Shape
      <4> QED
        BY <2>4, <4>1 DEF Attach, DetachCommit, Unmark, Mark, Claim, Row
    <3> QED
      BY <2>1, <3>1
  <2>5. CASE SweepStaging
    <3>1. row'.status = row.status
      BY <2>1, <2>5, StagingRemoved DEF SweepStaging, Shape
    <3> QED
      BY <2>1, <3>1
  <2>6. CASE DropRow
    <3>1. row.claimed /\ row' = [row EXCEPT !.status = "gone"] /\ row \in Row
      BY <2>1, <2>6 DEF DropRow, Cleaning, MediaInv, ClaimedAlone, Shape
    <3> QED
      BY <3>1 DEF Row
  <2> QED
    BY <1>1, <2>1, <2>2, <2>3, <2>4, <2>5, <2>6, Kinds
<1> QED
  BY Invariance, <1>1, PTL DEF Spec, FinishedStays

\* A completed media is only reclaimed when it has been out of use for the days of grace, less the
\* one day that its marker may lag behind.
THEOREM ClaimGraceAlways == Spec => ClaimGrace
<1>1. ASSUME IInv, [Next]_vars, Status("COMPLETED"), ~row.claimed, row'.claimed, held # None
      PROVE  held + GraceDays <= day + 1
  <2>1. Shape /\ JobOK /\ PlacesOK /\ MediaInv /\ row \in Row
    BY <1>1, Parts DEF IInv, MediaInv, Shape
  <2>2. ~Quiet
    BY <1>1 DEF Quiet
  <2>3. ~(\E w \in Workers : Upload(w) \/ Complete(w)) /\ ~(FindMarked \/ FindUnmarked \/ DeleteObjects \/ Day)
    BY <1>1 DEF Upload, Complete, Processing, Status, FindMarked, FindUnmarked, DeleteObjects, Day
  <2>4. ~\E p \in Contents : Resolve(p) \/ Attach(p) \/ DetachRead(p) \/ DetachCommit(p) \/ Cascade(p)
    BY <1>1, <2>1 DEF Resolve, Attach, DetachRead, DetachCommit, Cascade, Row
  <2>5. ~(Unmark \/ Mark \/ DropRow)
    BY <1>1, <2>1 DEF Unmark, Mark, DropRow, Row
  <2>6. ~SweepStaging
    BY <1>1, <2>1, StagingRemoved DEF SweepStaging, Shape
  <2>7. Claim
    BY <1>1, <2>1, <2>2, <2>3, <2>4, <2>5, <2>6, Kinds
  <2>8. refs = {} /\ row.marker # None /\ row.marker + GraceDays <= day
    BY <1>1, <2>7 DEF Claim, Expired, Status
  <2>9. held <= row.marker + 1
    BY <1>1, <2>1, <2>8 DEF MediaInv, MarkerLags
  <2> QED
    BY <1>1, <2>1, <2>8, <2>9, DayFacts, MarkerFacts, MediaAssumption
<1> QED
  BY Invariance, <1>1, PTL DEF Spec, ClaimGrace
=============================================================================
