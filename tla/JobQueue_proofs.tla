--------------------------- MODULE JobQueue_proofs ---------------------------
(***************************************************************************)
(* Proofs about JobQueue: what holds for any jobs, batches, bounds and     *)
(* ceilings, of which the runs check small instances.                      *)
(***************************************************************************)
EXTENDS JobQueue, TLAPS, FiniteSetTheorems

-----------------------------------------------------------------------------
(* The lifecycle tables.                                                   *)

(* A legal action leads where a row of the table says.                     *)
LEMMA JobMove ==
    ASSUME NEW s, NEW a, Legal(JOB_LIFECYCLE, s, a)
    PROVE  Row(a, s, nextState(JOB_LIFECYCLE, s, a)) \in JOB_TRANSITIONS
<1>1. Moves(JOB_LIFECYCLE, s, a) # {}
  BY DEF Legal
<1>2. PICK t \in Moves(JOB_LIFECYCLE, s, a) :
          t = (CHOOSE u \in Moves(JOB_LIFECYCLE, s, a) : TRUE)
  BY <1>1
<1>3. /\ t \in JOB_TRANSITIONS
      /\ t.from = s /\ t.action = a
      /\ t.to = nextState(JOB_LIFECYCLE, s, a)
  BY <1>2 DEF Moves, nextState, JOB_LIFECYCLE
<1>4. t = Row(t.action, t.from, t.to)
  BY <1>3 DEF JOB_TRANSITIONS, Row
<1> QED
  BY <1>3, <1>4

(* Every row of the table is legal.                                        *)
LEMMA JobLegal ==
    ASSUME NEW s, NEW a, NEW to, Row(a, s, to) \in JOB_TRANSITIONS
    PROVE  Legal(JOB_LIFECYCLE, s, a)
BY DEF Legal, Moves, JOB_LIFECYCLE, Row

LEMMA BatchMove ==
    ASSUME NEW s, NEW a, Legal(BATCH_LIFECYCLE, s, a)
    PROVE  Row(a, s, nextState(BATCH_LIFECYCLE, s, a)) \in BATCH_TRANSITIONS
<1>1. Moves(BATCH_LIFECYCLE, s, a) # {}
  BY DEF Legal
<1>2. PICK t \in Moves(BATCH_LIFECYCLE, s, a) :
          t = (CHOOSE u \in Moves(BATCH_LIFECYCLE, s, a) : TRUE)
  BY <1>1
<1>3. /\ t \in BATCH_TRANSITIONS
      /\ t.from = s /\ t.action = a
      /\ t.to = nextState(BATCH_LIFECYCLE, s, a)
  BY <1>2 DEF Moves, nextState, BATCH_LIFECYCLE
<1>4. t = Row(t.action, t.from, t.to)
  BY <1>3 DEF BATCH_TRANSITIONS, Row
<1> QED
  BY <1>3, <1>4

(* Where an action on a job may lead, and from where it is taken.          *)
LEMMA JobMoves ==
    ASSUME NEW s, NEW a, Legal(JOB_LIFECYCLE, s, a), NEW to,
           to = nextState(JOB_LIFECYCLE, s, a)
    PROVE  /\ to \in JobStatuses
           /\ a = "start" => s = "queued" /\ to = "running"
           /\ a # "start" => to # "running"
           /\ a = "pause" => s = "running" /\ to = "pausing"
           /\ a = "cancel" => to \in {"cancelled", "cancelling"}
           /\ a = "cancel" /\ s \in {"running", "pausing"} => to = "cancelling"
           /\ a \in {"resume", "retry"} =>
                 /\ to = "queued"
                 /\ s \in {"paused", "interrupted", "failed"}
           /\ a = "interrupt" => to = "interrupted"
<1>1. Row(a, s, to) \in JOB_TRANSITIONS
  BY JobMove
<1> QED
  BY <1>1 DEF JOB_TRANSITIONS, Row, JobStatuses

(* A batch never returns to its draft.                                     *)
LEMMA BatchMoves ==
    ASSUME NEW s, NEW a, Legal(BATCH_LIFECYCLE, s, a)
    PROVE  nextState(BATCH_LIFECYCLE, s, a) \in BatchStatuses \ {"draft"}
<1>1. Row(a, s, nextState(BATCH_LIFECYCLE, s, a)) \in BATCH_TRANSITIONS
  BY BatchMove
<1> QED
  BY <1>1 DEF BATCH_TRANSITIONS, Row, BatchStatuses

-----------------------------------------------------------------------------
(* Documents.                                                              *)

(* A status change makes a document of a document.                         *)
LEMMA withStatusType ==
    ASSUME NEW doc \in JobDocument, NEW to \in JobStatuses
    PROVE  withStatus(doc, to) \in JobDocument
<1> DEFINE started == doc.startedAt \/ to = "running"
           failed == to = "failed" \/ (doc.status # "failed" /\ doc.failure)
<1>1. /\ isTerminalJobStatus(to) \in BOOLEAN
      /\ started \in BOOLEAN
      /\ failed \in BOOLEAN
  BY DEF isTerminalJobStatus
<1>2. withStatus(doc, to) =
        [status |-> to, startedAt |-> started, completedAt |-> isTerminalJobStatus(to),
         failure |-> failed, result |-> doc.result]
  BY DEF withStatus
<1>3. doc.result \in BOOLEAN
  BY DEF JobDocument
<1> HIDE DEF started, failed
<1> QED
  BY <1>1, <1>2, <1>3 DEF JobDocument

LEMMA AppliedType ==
    ASSUME NEW doc \in JobDocument, NEW a
    PROVE  Applied(doc, a) \in JobDocument
<1>1. CASE Legal(JOB_LIFECYCLE, doc.status, a)
  <2>1. nextState(JOB_LIFECYCLE, doc.status, a) \in JobStatuses
    BY <1>1, JobMoves
  <2> QED
    BY <1>1, <2>1, withStatusType DEF Applied
<1>2. CASE ~ Legal(JOB_LIFECYCLE, doc.status, a)
  BY <1>2 DEF Applied
<1> QED
  BY <1>1, <1>2

-----------------------------------------------------------------------------
(* Type correctness.                                                       *)

LEMMA BatchAppliedType ==
    ASSUME batches \in [Batch -> BatchStatuses], NEW b \in Batch, NEW a
    PROVE  BatchApplied(b, a) \in [Batch -> BatchStatuses]
<1>1. CASE Legal(BATCH_LIFECYCLE, batches[b], a)
  <2>1. nextState(BATCH_LIFECYCLE, batches[b], a) \in BatchStatuses
    BY <1>1, BatchMoves
  <2> QED
    BY <1>1, <2>1 DEF BatchApplied
<1>2. CASE ~ Legal(BATCH_LIFECYCLE, batches[b], a)
  BY <1>2 DEF BatchApplied
<1> QED
  BY <1>1, <1>2

(* grantWorkers answers a natural number.                                  *)
LEMMA grantWorkersType ==
    ASSUME TypeOK, NEW j \in Job
    PROVE  /\ grantWorkers(Requested[j]) \in Int
           /\ grantWorkers(Requested[j]) <= MaxWorkers - workersInUse \/
              grantWorkers(Requested[j]) = 0
BY QueueConstants DEF TypeOK, grantWorkers, Least

LEMMA InitType == Init => TypeOK
<1> SUFFICES ASSUME Init PROVE TypeOK
  OBVIOUS
<1>1. NewDocument \in JobDocument
  BY DEF JobDocument, NewDocument, JobStatuses
<1>2. "draft" \in BatchStatuses /\ "none" \in Stages
  BY DEF BatchStatuses, Stages
<1>3. jobs \in [Job -> JobDocument] /\ batches \in [Batch -> BatchStatuses]
  BY <1>1, <1>2 DEF Init
<1>4. pc \in [Job -> Stages]
  BY <1>2 DEF Init
<1>5. /\ controls \in [Job -> {"none", "pause", "cancel"}]
      /\ grants \in [Job -> Nat]
      /\ workersInUse \in Int
      /\ fill \in {"idle", "listing", "choosing"}
  BY DEF Init
<1>6. /\ fills \in 0..MaxFills
      /\ asks \in 0..MaxAsks
      /\ crashes \in 0..MaxCrashes
      /\ failures \in 0..MaxFailures
  BY QueueConstants DEF Init
<1>7. /\ inFlight \subseteq Job /\ unstartable \subseteq Job /\ page \subseteq Job
      /\ tasks \subseteq Task
      /\ up \in BOOLEAN /\ pumped \in BOOLEAN /\ lost \subseteq Job
  BY DEF Init
<1> QED
  BY <1>3, <1>4, <1>5, <1>6, <1>7 DEF TypeOK

(* A failing write is counted.                                             *)
LEMMA WriteFailsType ==
    ASSUME TypeOK, WriteFails
    PROVE  failures' \in 0..MaxFailures
BY QueueConstants DEF TypeOK, WriteFails

(* A step of an attempt disturbs the document and the attempt's place.     *)
LEMMA AttemptStepType ==
    ASSUME TypeOK, NEW j \in Job, NEW from, NEW to \in Stages, NEW doc \in JobDocument,
           AttemptStep(j, from, to, doc), UNCHANGED <<asks, crashes>>,
           failures' \in 0..MaxFailures, lost' \subseteq Job
    PROVE  TypeOK'
BY DEF TypeOK, AttemptStep, budget, filling

LEMMA AttemptGoesType ==
    ASSUME TypeOK, NEW j \in Job, NEW from, NEW to \in Stages, NEW doc \in JobDocument,
           AttemptGoes(j, from, to, doc)
    PROVE  TypeOK'
<1>1. /\ AttemptStep(j, from, to, doc)
      /\ UNCHANGED <<asks, crashes>>
      /\ failures' \in 0..MaxFailures /\ lost' \subseteq Job
  BY DEF AttemptGoes, bounds, TypeOK
<1> QED
  BY <1>1, AttemptStepType

LEMMA RunStepType ==
    ASSUME TypeOK, NEW j \in Job, RunStep(j)
    PROVE  TypeOK'
<1> USE DEF Stages
<1>0. jobs[j] \in JobDocument
  BY DEF TypeOK
<1>1. ASSUME NEW from, NEW a, NEW to \in Stages, AttemptApplies(j, from, a, to)
      PROVE  TypeOK'
  <2>1. Applied(jobs[j], a) \in JobDocument
    BY <1>0, AppliedType
  <2> DEFINE next == IF Legal(JOB_LIFECYCLE, jobs[j].status, a) THEN to ELSE "err"
  <2>2. next \in Stages
    OBVIOUS
  <2>3. AttemptGoes(j, from, next, Applied(jobs[j], a))
    BY <1>1 DEF AttemptApplies
  <2> QED
    BY <2>1, <2>2, <2>3, AttemptGoesType
<1>2. CASE RunStart(j)
  BY <1>1, <1>2 DEF RunStart
<1>3. CASE RunPrepare(j)
  BY <1>0, <1>3, AttemptGoesType DEF RunPrepare
<1>4. CASE RunEnds(j)
  <2>1. PICK to \in {"attaching", "fail"} \cup (IF StopRequested(j) THEN {"settle_stop"} ELSE {}) :
            AttemptGoes(j, "playing", to, jobs[j])
    BY <1>4 DEF RunEnds
  <2>2. to \in Stages
    OBVIOUS
  <2> QED
    BY <1>0, <2>1, <2>2, AttemptGoesType
<1>5. CASE RunAttach(j)
  <2>1. [jobs[j] EXCEPT !.result = @ \/ j \notin Adaptive] \in JobDocument
    BY <1>0 DEF JobDocument
  <2> QED
    BY <1>0, <1>5, <2>1, AttemptGoesType DEF RunAttach
<1>6. CASE RunSettleRead(j)
  <2>1. PICK from \in {"settle_end", "settle_stop"} :
            LET action == SettleActionFor(jobs[j].status)
                otherwise == IF from = "settle_end" THEN "complete" ELSE "fail"
            IN  AttemptGoes(j, from, IF action = "none" THEN otherwise ELSE action, jobs[j])
    BY <1>6 DEF RunSettleRead
  <2> DEFINE next == IF SettleActionFor(jobs[j].status) = "none"
                     THEN (IF from = "settle_end" THEN "complete" ELSE "fail")
                     ELSE SettleActionFor(jobs[j].status)
  <2>2. next \in Stages
    BY DEF SettleActionFor
  <2>3. AttemptGoes(j, from, next, jobs[j])
    BY <2>1
  <2> QED
    BY <1>0, <2>2, <2>3, AttemptGoesType
<1>7. CASE RunSettle(j)
  BY <1>1, <1>7 DEF RunSettle
<1> QED
  BY <1>2, <1>3, <1>4, <1>5, <1>6, <1>7 DEF RunStep

(* The document a failing write may leave is a document.                   *)
LEMMA WrittenType ==
    ASSUME TypeOK, NEW j \in Job
    PROVE  Written(j) \in JobDocument
<1>1. jobs[j] \in JobDocument
  BY DEF TypeOK
<1>2. [jobs[j] EXCEPT !.result = TRUE] \in JobDocument
  BY <1>1 DEF JobDocument
<1>3. \A a : Applied(jobs[j], a) \in JobDocument
  BY <1>1, AppliedType
<1> QED
  BY <1>1, <1>2, <1>3 DEF Written

LEMMA ThrowsType ==
    ASSUME TypeOK, NEW j \in Job, AttemptThrows(j)
    PROVE  TypeOK'
<1>1. PICK doc \in {jobs[j], Written(j)} : AttemptStep(j, pc[j], "threw", doc)
  BY DEF AttemptThrows
<1>2. doc \in JobDocument
  BY WrittenType DEF TypeOK
<1>3. failures' \in 0..MaxFailures
  BY WriteFailsType DEF AttemptThrows
<1>4. lost' \subseteq Job /\ UNCHANGED <<asks, crashes>>
  BY DEF AttemptThrows, TypeOK
<1>5. "threw" \in Stages
  BY DEF Stages
<1> QED
  BY <1>1, <1>2, <1>3, <1>4, <1>5, AttemptStepType

LEMMA FillType ==
    ASSUME TypeOK, Fill
    PROVE  TypeOK'
<1> USE DEF catalog, budget, bounds
<1>1. CASE FillStart
  BY <1>1, QueueConstants DEF FillStart, TypeOK
<1>2. CASE FillList
  <2>1. FirstRows(Queued) \subseteq Job
    BY DEF FirstRows, Queued
  <2> QED
    BY <1>2, <2>1 DEF FillList, TypeOK
<1>3. ASSUME NEW j \in Job, FillSkip(j)
      PROVE  TypeOK'
  BY <1>3 DEF FillSkip, TypeOK
<1>4. ASSUME NEW j \in Job, FillLaunch(j)
      PROVE  TypeOK'
  <2> DEFINE g == grantWorkers(Requested[j])
  <2>1. g \in Int /\ g > 0
    BY <1>4, grantWorkersType DEF FillLaunch
  <2>2. grants' = [grants EXCEPT ![j] = g] /\ workersInUse' = workersInUse + g
    BY <1>4 DEF FillLaunch
  <2> HIDE DEF g
  <2>3. grants' \in [Job -> Nat] /\ workersInUse' \in Int
    BY <2>1, <2>2 DEF TypeOK
  <2>4. pc' \in [Job -> Stages] /\ controls' \in [Job -> {"none", "pause", "cancel"}]
    BY <1>4 DEF FillLaunch, TypeOK, Stages
  <2>5. inFlight' \subseteq Job /\ page' \subseteq Job /\ fill' \in {"idle", "listing", "choosing"}
    BY <1>4 DEF FillLaunch, TypeOK
  <2>6. UNCHANGED <<jobs, batches, up, unstartable, fills, tasks, bounds, pumped, lost>>
    BY <1>4 DEF FillLaunch
  <2> QED
    BY <2>3, <2>4, <2>5, <2>6 DEF TypeOK
<1>5. CASE FillDone
  BY <1>5 DEF FillDone, TypeOK
<1> QED
  BY <1>1, <1>2, <1>3, <1>4, <1>5 DEF Fill

LEMMA ScheduleType ==
    ASSUME TypeOK, Schedule \/ NoSchedule
    PROVE  fills' \in 0..MaxFills /\ pumped' \in BOOLEAN
<1>1. fills \in 0..MaxFills /\ MaxFills \in Nat /\ pumped \in BOOLEAN
  BY QueueConstants DEF TypeOK
<1>2. CASE Schedule
  <2>1. fills' \in 0..MaxFills
    BY <1>1, <1>2 DEF Schedule
  <2>2. pumped' = TRUE
    BY <1>2 DEF Schedule
  <2> QED
    BY <2>1, <2>2
<1>3. CASE NoSchedule
  BY <1>1, <1>3 DEF NoSchedule
<1> QED
  BY <1>2, <1>3

LEMMA AttemptSettlesType ==
    ASSUME TypeOK, NEW j \in Job, AttemptSettles(j)
    PROVE  TypeOK'
<1> DEFINE of == IF pc[j] = "threw" THEN "rejected" ELSE "attempt"
           t == [batch |-> BatchOf[j], stage |-> "read", finished |-> FALSE, of |-> of]
<1>1. tasks' \subseteq Task
  <2>1. t \in Task
    BY QueueConstants DEF Task
  <2>2. tasks' = tasks \cup {t}
    BY DEF AttemptSettles
  <2> HIDE DEF t
  <2> QED
    BY <2>1, <2>2 DEF TypeOK
<1>2. grants' \in [Job -> Nat] /\ workersInUse' \in Int
  BY DEF TypeOK, AttemptSettles
<1>3. pc' \in [Job -> Stages] /\ controls' \in [Job -> {"none", "pause", "cancel"}]
  BY DEF TypeOK, AttemptSettles, Stages
<1>4. inFlight' \subseteq Job /\ unstartable' \subseteq Job
  BY DEF TypeOK, AttemptSettles
<1> QED
  BY <1>1, <1>2, <1>3, <1>4 DEF TypeOK, AttemptSettles, catalog, filling, bounds, NoSchedule

(* All that a process held goes down with it.                              *)
LEMMA DownType ==
    ASSUME TypeOK, Down, jobs' \in [Job -> JobDocument], batches' \in [Batch -> BatchStatuses],
           asks' \in 0..MaxAsks, crashes' \in 0..MaxCrashes, failures' \in 0..MaxFailures
    PROVE  TypeOK'
<1>1. fills' \in 0..MaxFills
  BY QueueConstants DEF Down
<1>2. /\ pc' \in [Job -> Stages]
      /\ controls' \in [Job -> {"none", "pause", "cancel"}]
      /\ grants' \in [Job -> Nat] /\ workersInUse' \in Int
  BY DEF Down, Stages
<1>3. /\ inFlight' \subseteq Job /\ unstartable' \subseteq Job /\ page' \subseteq Job
      /\ tasks' \subseteq Task /\ fill' \in {"idle", "listing", "choosing"}
      /\ up' \in BOOLEAN /\ pumped' \in BOOLEAN /\ lost' \subseteq Job
  BY DEF Down
<1> QED
  BY <1>1, <1>2, <1>3 DEF TypeOK

(* What a step of a reconciliation leaves as it was, unless the process    *)
(* ends with it.                                                           *)
Kept == UNCHANGED <<up, inFlight, controls, grants, workersInUse, unstartable, fill, page,
                    pc, lost>>

(* The tasks after a step of one of them.                                  *)
TaskGone(t) == tasks' = tasks \ {t} /\ t.of # "rejected"
TaskMoved(t) ==
    \E stage \in {"start", "complete"}, finished \in BOOLEAN :
        tasks' = (tasks \ {t}) \cup {[t EXCEPT !.stage = stage, !.finished = finished]}

Reconciles(t) ==
    ReconcileRead(t) \/ ReconcileStart(t) \/ ReconcileComplete(t) \/ ReconcileThrows(t)

(* A step of a reconciliation moves its batch at most, and either ends the *)
(* process, or its own task, or takes that task further.                   *)
LEMMA ReconcileStep ==
    ASSUME TypeOK, NEW t \in tasks, Reconciles(t)
    PROVE  /\ UNCHANGED <<jobs, asks, crashes>> /\ failures' \in 0..MaxFailures
           /\ (UNCHANGED batches \/ \E a : batches' = BatchApplied(t.batch, a))
           /\ \/ Down
              \/ /\ Kept
                 /\ (TaskGone(t) \/ TaskMoved(t))
                 /\ fills' \in 0..MaxFills /\ pumped' \in BOOLEAN
<1>0. /\ t.finished \in BOOLEAN /\ Finished(t.batch) \in BOOLEAN
      /\ fills \in 0..MaxFills /\ pumped \in BOOLEAN /\ failures \in 0..MaxFailures
  BY DEF TypeOK, Task, Finished
<1>1. ASSUME NEW stage \in {"start", "complete"}, NEW finished \in BOOLEAN,
             ReconcileGoes(t, stage, finished)
      PROVE  /\ Kept /\ TaskMoved(t)
             /\ fills' \in 0..MaxFills /\ pumped' \in BOOLEAN
  BY <1>0, <1>1 DEF ReconcileGoes, Kept, TaskMoved, budget, filling
<1>2. ASSUME ReconcileReturns(t)
      PROVE  \/ Down
             \/ /\ Kept /\ TaskGone(t)
                /\ fills' \in 0..MaxFills /\ pumped' \in BOOLEAN
  <2>1. CASE Down
    BY <2>1
  <2>2. CASE t.of # "rejected" /\ Schedule
    BY <1>2, <2>2, ScheduleType DEF ReconcileReturns, Kept, TaskGone, budget, filling, Down
  <2> QED
    BY <1>2, <2>1, <2>2 DEF ReconcileReturns
<1>3. CASE ReconcileRead(t)
  BY <1>0, <1>1, <1>2, <1>3 DEF ReconcileRead, catalog, bounds
<1>4. CASE ReconcileStart(t)
  BY <1>0, <1>1, <1>2, <1>4 DEF ReconcileStart, bounds
<1>5. CASE ReconcileComplete(t)
  BY <1>0, <1>2, <1>5 DEF ReconcileComplete, bounds
<1>6. CASE ReconcileThrows(t)
  <2>1. /\ UNCHANGED <<jobs, asks, crashes, batches>>
        /\ failures' \in 0..MaxFailures
    BY <1>6, WriteFailsType DEF ReconcileThrows, catalog
  <2>2. CASE Down
    BY <2>1, <2>2
  <2>3. CASE t.of = "request" /\ tasks' = tasks \ {t} /\
             UNCHANGED <<up, budget, unstartable, filling, fills, pc, pumped, lost>>
    BY <1>0, <2>1, <2>3 DEF Kept, TaskGone, budget, filling
  <2> QED
    BY <1>6, <2>2, <2>3 DEF ReconcileThrows
<1> QED
  BY <1>3, <1>4, <1>5, <1>6 DEF Reconciles

LEMMA ReconcileType ==
    ASSUME TypeOK, NEW t \in tasks, Reconciles(t)
    PROVE  TypeOK'
<1>0. t \in Task /\ t.batch \in Batch
  BY DEF TypeOK, Task
<1>1. /\ UNCHANGED <<jobs, asks, crashes>> /\ failures' \in 0..MaxFailures
      /\ (UNCHANGED batches \/ \E a : batches' = BatchApplied(t.batch, a))
  BY ReconcileStep
<1>2. batches' \in [Batch -> BatchStatuses]
  BY <1>0, <1>1, BatchAppliedType DEF TypeOK
<1>3. /\ jobs' \in [Job -> JobDocument]
      /\ asks' \in 0..MaxAsks /\ crashes' \in 0..MaxCrashes
  BY <1>1 DEF TypeOK
<1>4. CASE Down
  BY <1>1, <1>2, <1>3, <1>4, DownType
<1>5. CASE /\ Kept /\ (TaskGone(t) \/ TaskMoved(t))
           /\ fills' \in 0..MaxFills /\ pumped' \in BOOLEAN
  <2>1. tasks' \subseteq Task
    <3>1. ASSUME NEW stage \in {"start", "complete"}, NEW finished \in BOOLEAN
          PROVE  [t EXCEPT !.stage = stage, !.finished = finished] \in Task
      BY <1>0 DEF Task
    <3>2. tasks \subseteq Task
      BY DEF TypeOK
    <3>3. CASE TaskGone(t)
      BY <3>2, <3>3 DEF TaskGone
    <3>4. CASE TaskMoved(t)
      <4>1. PICK stage \in {"start", "complete"}, finished \in BOOLEAN :
                tasks' = (tasks \ {t}) \cup {[t EXCEPT !.stage = stage, !.finished = finished]}
        BY <3>4 DEF TaskMoved
      <4>2. [t EXCEPT !.stage = stage, !.finished = finished] \in Task
        BY <3>1
      <4> QED
        BY <3>2, <4>1, <4>2
    <3> QED
      BY <1>5, <3>3, <3>4
  <2> QED
    BY <1>1, <1>2, <1>3, <1>5, <2>1 DEF TypeOK, Kept
<1> QED
  BY <1>4, <1>5, ReconcileStep

LEMMA OperateType ==
    ASSUME TypeOK, Operate
    PROVE  TypeOK'
<1> USE DEF catalog, budget, filling
<1>0. Asking => asks' \in 0..MaxAsks
  BY QueueConstants DEF TypeOK, Asking
<1>1. ASSUME NEW b \in Batch, StartBatch(b)
      PROVE  TypeOK'
  <2>1. [batch |-> b, stage |-> "read", finished |-> FALSE, of |-> "request"] \in Task
    BY DEF Task
  <2>2. tasks' \subseteq Task
    BY <1>1, <2>1 DEF StartBatch, TypeOK
  <2>3. batches' \in [Batch -> BatchStatuses]
    BY <1>1, BatchAppliedType DEF StartBatch, TypeOK
  <2>4. asks' \in 0..MaxAsks
    BY <1>0, <1>1 DEF StartBatch
  <2> QED
    BY <1>1, <2>2, <2>3, <2>4 DEF StartBatch, TypeOK
<1>2. ASSUME NEW j \in Job, NEW a \in {"pause", "cancel"}, Ask(j, a) \/ AskUnlogged(j, a)
      PROVE  TypeOK'
  <2>1. jobs' \in [Job -> JobDocument]
    BY <1>2, AppliedType DEF Ask, AskUnlogged, TypeOK
  <2>2. controls' \in [Job -> {"none", "pause", "cancel"}]
    BY <1>2 DEF Ask, AskUnlogged, TypeOK, Request
  <2>3. asks' \in 0..MaxAsks
    BY <1>0, <1>2 DEF Ask, AskUnlogged
  <2>4. failures' \in 0..MaxFailures
    BY <1>2, WriteFailsType DEF Ask, AskUnlogged, TypeOK
  <2>5. pumped' \in BOOLEAN
    BY <1>2 DEF Ask, AskUnlogged, Unscheduled
  <2>6. UNCHANGED <<batches, up, inFlight, grants, workersInUse, unstartable, fill, page,
                    fills, pc, tasks, crashes, lost>>
    BY <1>2 DEF Ask, AskUnlogged
  <2> QED
    BY <2>1, <2>2, <2>3, <2>4, <2>5, <2>6 DEF TypeOK
<1>3. ASSUME NEW j \in Job, NEW a, Requeue(j, a) \/ RequeueUnlogged(j, a)
      PROVE  TypeOK'
  <2>1. jobs' \in [Job -> JobDocument]
    BY <1>3, AppliedType DEF Requeue, RequeueUnlogged, TypeOK
  <2>2. fills' \in 0..MaxFills /\ pumped' \in BOOLEAN
    <3>1. CASE Schedule
      BY <3>1, ScheduleType
    <3>2. CASE fills' = fills /\ pumped' = (pumped /\ j \notin unstartable)
      BY <3>2 DEF TypeOK
    <3>3. CASE fills' = fills /\ pumped' = FALSE
      BY <3>3 DEF TypeOK
    <3> QED
      BY <1>3, <3>1, <3>2, <3>3 DEF Requeue, RequeueUnlogged
  <2>3. asks' \in 0..MaxAsks
    BY <1>0, <1>3 DEF Requeue, RequeueUnlogged
  <2>4. unstartable' \subseteq Job
    BY <1>3 DEF Requeue, RequeueUnlogged, TypeOK
  <2>5. failures' \in 0..MaxFailures
    BY <1>3, WriteFailsType DEF Requeue, RequeueUnlogged, TypeOK
  <2>6. UNCHANGED <<batches, up, inFlight, controls, grants, workersInUse, fill, page,
                    pc, tasks, crashes, lost>>
    BY <1>3 DEF Requeue, RequeueUnlogged
  <2> QED
    BY <2>1, <2>2, <2>3, <2>4, <2>5, <2>6 DEF TypeOK
<1> QED
  BY <1>1, <1>2, <1>3 DEF Operate, Pause, Cancel, Resume, Retry

LEMMA CrashType ==
    ASSUME TypeOK, Crash \/ Recover
    PROVE  TypeOK'
<1>1. CASE Crash
  <2>1. crashes' \in 0..MaxCrashes
    BY <1>1, QueueConstants DEF Crash, TypeOK
  <2> QED
    BY <1>1, <2>1, DownType DEF Crash, catalog, TypeOK
<1>2. CASE Recover
  <2>1. jobs' \in [Job -> JobDocument]
    BY <1>2, AppliedType DEF Recover, TypeOK
  <2> QED
    BY <1>2, <2>1 DEF Recover, TypeOK, budget, filling, bounds
<1> QED
  BY <1>1, <1>2

(* Every reachable state is well typed: documents stay documents, grants   *)
(* stay natural numbers, and only known jobs are launched or listed.       *)
THEOREM TypeCorrect == Spec => []TypeOK
<1>1. Init => TypeOK
  BY InitType
<1>2. TypeOK /\ [Next]_vars => TypeOK'
  <2> SUFFICES ASSUME TypeOK, [Next]_vars PROVE TypeOK'
    OBVIOUS
  <2>1. CASE Fill
    BY <2>1, FillType
  <2>2. ASSUME NEW j \in Job, RunStep(j) PROVE TypeOK'
    BY <2>2, RunStepType
  <2>3. ASSUME NEW j \in Job, AttemptSettles(j) \/ AttemptThrows(j) PROVE TypeOK'
    BY <2>3, AttemptSettlesType, ThrowsType
  <2>4. ASSUME NEW t \in tasks, Reconciles(t) PROVE TypeOK'
    BY <2>4, ReconcileType
  <2>5. CASE Operate
    BY <2>5, OperateType
  <2>6. CASE Crash \/ Recover
    BY <2>6, CrashType
  <2>7. CASE UNCHANGED vars
    BY <2>7 DEF vars, TypeOK
  <2> QED
    BY <2>1, <2>2, <2>3, <2>4, <2>5, <2>6, <2>7 DEF Next, Reconcile, Reconciles
<1> QED
  BY <1>1, <1>2, PTL DEF Spec

-----------------------------------------------------------------------------
(* The budget.                                                             *)

BudgetInv == IsFiniteSet(inFlight) /\ WithinBudget

(* Steps that leave the attempts and the ledger alone.                     *)
LEMMA BudgetFrame ==
    ASSUME BudgetInv, UNCHANGED <<inFlight, workersInUse>>
    PROVE  BudgetInv'
BY DEF BudgetInv, WithinBudget

LEMMA BudgetStep ==
    ASSUME TypeOK, BudgetInv, [Next]_vars
    PROVE  BudgetInv'
<1>1. ASSUME NEW j \in Job, FillLaunch(j)
      PROVE  BudgetInv'
  <2> DEFINE g == grantWorkers(Requested[j])
  <2>1. g \in Int /\ g > 0
    BY <1>1, grantWorkersType DEF FillLaunch
  <2>2. g <= MaxWorkers - workersInUse
    BY <2>1, grantWorkersType
  <2>3. HasRoom
    BY <2>1 DEF grantWorkers
  <2>4. workersInUse' = workersInUse + g /\ inFlight' = inFlight \cup {j} /\ j \notin inFlight
    BY <1>1 DEF FillLaunch, Startable
  <2> HIDE DEF g
  <2>5. workersInUse' <= MaxWorkers
    BY <2>1, <2>2, <2>4, QueueConstants DEF TypeOK
  <2>6. /\ IsFiniteSet(inFlight')
        /\ Cardinality(inFlight') = Cardinality(inFlight) + 1
    BY <2>4, FS_AddElement DEF BudgetInv
  <2>7. Cardinality(inFlight) \in Nat /\ Cardinality(inFlight) < MaxConcurrentJobs
    BY <2>3, FS_CardinalityType DEF BudgetInv, HasRoom
  <2> QED
    BY <2>5, <2>6, <2>7, QueueConstants DEF BudgetInv, WithinBudget
<1>2. ASSUME NEW j \in Job, AttemptSettles(j)
      PROVE  BudgetInv'
  <2>1. workersInUse' = workersInUse - grants[j] /\ inFlight' = inFlight \ {j}
    BY <1>2 DEF AttemptSettles
  <2>2. workersInUse' <= MaxWorkers
    BY <2>1, QueueConstants DEF BudgetInv, WithinBudget, TypeOK
  <2>3. IsFiniteSet(inFlight') /\ Cardinality(inFlight') <= Cardinality(inFlight)
    BY <2>1, FS_Subset DEF BudgetInv
  <2>4. Cardinality(inFlight) \in Nat /\ Cardinality(inFlight') \in Nat
    BY <2>3, FS_CardinalityType DEF BudgetInv
  <2> QED
    BY <2>2, <2>3, <2>4, QueueConstants DEF BudgetInv, WithinBudget
<1>3. CASE Down
  BY <1>3, QueueConstants, FS_EmptySet DEF Down, BudgetInv, WithinBudget
<1>4. CASE FillStart \/ FillList \/ FillDone \/ \E j \in Job : FillSkip(j)
  BY <1>4, BudgetFrame DEF FillStart, FillList, FillDone, FillSkip, budget
<1>5. ASSUME NEW j \in Job, RunStep(j) \/ AttemptThrows(j)
      PROVE  BudgetInv'
  BY <1>5, BudgetFrame DEF AttemptThrows, AttemptGoes, RunStep, RunStart, RunPrepare, RunEnds, RunAttach, RunSettleRead,
     RunSettle, AttemptApplies, AttemptStep, budget
<1>6. ASSUME NEW t \in tasks, Reconciles(t)
      PROVE  BudgetInv'
  BY <1>3, <1>6, ReconcileStep, BudgetFrame DEF Kept
<1>7. CASE Operate
  BY <1>7, BudgetFrame DEF Operate, StartBatch, Pause, Cancel, Ask, AskUnlogged, Resume, Retry,
     Requeue, RequeueUnlogged, budget
<1>8. CASE Recover \/ UNCHANGED vars
  BY <1>8, BudgetFrame DEF Recover, vars, budget
<1> QED
  BY <1>1, <1>2, <1>3, <1>4, <1>5, <1>6, <1>7, <1>8 DEF Next, Fill, Crash, Reconcile, Reconciles

(* However jobs are launched, settled, refused or lost, no more of them    *)
(* are in flight than the bound, and no more workers than the budget.      *)
THEOREM Budget == Spec => []WithinBudget
<1>1. Init => BudgetInv
  BY QueueConstants, FS_EmptySet DEF Init, BudgetInv, WithinBudget
<1>2. BudgetInv => WithinBudget
  BY DEF BudgetInv
<1> QED
  BY <1>1, <1>2, BudgetStep, TypeCorrect, PTL DEF Spec

-----------------------------------------------------------------------------
(* Attempts and documents.  RunningIsOwned is not inductive: that an       *)
(* attempt leaves its document settled depends on where a stop can land.   *)

InFlightStatuses == {"running", "pausing", "cancelling"}
Stopping == {"pausing", "cancelling"}

AttemptOK(j) ==
    /\ pc[j] # "none" <=> j \in inFlight
    /\ pc[j] # "none" => up
    /\ InAttempt(j) => jobs[j].status \in InFlightStatuses
    /\ InAttempt(j) /\ StopRequested(j) => jobs[j].status \in Stopping
    /\ pc[j] = "launched" /\ StopRequested(j) => jobs[j].status \in Stopping \cup {"cancelled"}
    /\ pc[j] \in {"settle_stop", "pause_settled", "cancel_settled"} => jobs[j].status \in Stopping
    /\ up /\ jobs[j].status = "running" => InAttempt(j) \/ j \in lost

AttemptInv == \A j \in Job : AttemptOK(j)

(* A job none of whose variables move.                                     *)
LEMMA AttemptFrame ==
    ASSUME NEW k, AttemptOK(k),
           up' = up, jobs'[k] = jobs[k], pc'[k] = pc[k], controls'[k] = controls[k],
           k \in inFlight' <=> k \in inFlight, k \in lost => k \in lost'
    PROVE  AttemptOK(k)'
BY DEF AttemptOK, InAttempt, StopRequested

(* A document moved by the table, by an action other than `start`.         *)
LEMMA AppliedStatus ==
    ASSUME NEW doc \in JobDocument, NEW a
    PROVE  /\ Legal(JOB_LIFECYCLE, doc.status, a) =>
                Applied(doc, a).status = nextState(JOB_LIFECYCLE, doc.status, a)
           /\ ~ Legal(JOB_LIFECYCLE, doc.status, a) => Applied(doc, a) = doc
BY DEF Applied, withStatus

(* One step of the attempt of j.                                           *)
LEMMA RunStepAttempt ==
    ASSUME TypeOK, AttemptInv, NEW j \in Job, RunStep(j)
    PROVE  AttemptInv'
<1> DEFINE st == jobs[j].status
<1>0. /\ jobs[j] \in JobDocument /\ AttemptOK(j) /\ pc \in [Job -> Stages]
      /\ jobs \in [Job -> JobDocument]
  BY DEF TypeOK, AttemptInv
<1>1. ASSUME NEW from, NEW to, NEW doc, AttemptGoes(j, from, to, doc),
             AttemptOK(j)'
      PROVE  AttemptInv'
  <2>1. ASSUME NEW k \in Job, k # j
        PROVE  AttemptOK(k)'
    BY <1>0, <1>1, <2>1, AttemptFrame DEF AttemptInv, AttemptGoes, AttemptStep, budget
  <2> QED
    BY <1>1, <2>1 DEF AttemptInv
<1>2. ASSUME NEW from, NEW to, NEW doc, AttemptGoes(j, from, to, doc)
      PROVE  /\ up /\ up' = up /\ pc[j] = from /\ pc'[j] = to /\ jobs'[j] = doc
             /\ controls' = controls /\ inFlight' = inFlight /\ lost' = lost
  BY <1>0, <1>2 DEF AttemptGoes, AttemptStep, budget
<1>3. CASE RunStart(j)
  <2> DEFINE to == IF Legal(JOB_LIFECYCLE, st, "start") THEN "preparing" ELSE "err"
  <2>1. AttemptGoes(j, "launched", to, Applied(jobs[j], "start"))
    BY <1>3 DEF RunStart, AttemptApplies
  <2>2. CASE Legal(JOB_LIFECYCLE, st, "start")
    <3>1. st = "queued" /\ Applied(jobs[j], "start").status = "running"
      BY <1>0, <2>2, JobMoves, AppliedStatus
    <3>2. AttemptOK(j)'
      BY <1>0, <1>2, <2>1, <2>2, <3>1
         DEF AttemptOK, InAttempt, StopRequested, InFlightStatuses, Stopping
    <3> QED
      BY <1>1, <2>1, <3>2
  <2>3. CASE ~ Legal(JOB_LIFECYCLE, st, "start")
    <3>1. Applied(jobs[j], "start") = jobs[j]
      BY <1>0, <2>3, AppliedStatus
    <3>2. AttemptOK(j)'
      BY <1>0, <1>2, <2>1, <2>3, <3>1 DEF AttemptOK, InAttempt, StopRequested
    <3> QED
      BY <1>1, <2>1, <3>2
  <2> QED
    BY <2>2, <2>3
<1>4. CASE RunPrepare(j)
  <2>1. PICK to \in {"playing", "fail"} : AttemptGoes(j, "preparing", to, jobs[j])
    BY <1>4 DEF RunPrepare
  <2>2. AttemptOK(j)'
    BY <1>0, <1>2, <2>1 DEF AttemptOK, InAttempt, StopRequested
  <2> QED
    BY <1>1, <2>1, <2>2
<1>5. CASE RunEnds(j)
  <2>1. PICK to \in {"attaching", "fail"} \cup (IF StopRequested(j) THEN {"settle_stop"} ELSE {}) :
            AttemptGoes(j, "playing", to, jobs[j])
    BY <1>5 DEF RunEnds
  <2>2. AttemptOK(j)'
    BY <1>0, <1>2, <2>1 DEF AttemptOK, InAttempt, StopRequested
  <2> QED
    BY <1>1, <2>1, <2>2
<1>6. CASE RunAttach(j)
  <2>1. PICK to \in {"settle_end", "fail"},
             doc \in {jobs[j], [jobs[j] EXCEPT !.result = @ \/ j \notin Adaptive]} :
            /\ AttemptGoes(j, "attaching", to, doc)
            /\ doc.status = st
    <3>1. [jobs[j] EXCEPT !.result = @ \/ j \notin Adaptive].status = st
      BY <1>0 DEF JobDocument
    <3> QED
      BY <1>6, <3>1 DEF RunAttach
  <2>2. AttemptOK(j)'
    BY <1>0, <1>2, <2>1 DEF AttemptOK, InAttempt, StopRequested
  <2> QED
    BY <1>1, <2>1, <2>2
<1>7. CASE RunSettleRead(j)
  <2>1. PICK from \in {"settle_end", "settle_stop"} :
            LET action == SettleActionFor(jobs[j].status)
                otherwise == IF from = "settle_end" THEN "complete" ELSE "fail"
            IN  AttemptGoes(j, from, IF action = "none" THEN otherwise ELSE action, jobs[j])
    BY <1>7 DEF RunSettleRead
  <2> DEFINE next == IF SettleActionFor(st) = "none"
                     THEN (IF from = "settle_end" THEN "complete" ELSE "fail")
                     ELSE SettleActionFor(st)
  <2>2. AttemptGoes(j, from, next, jobs[j])
    BY <2>1
  <2>3. /\ next \in {"complete", "fail", "pause_settled", "cancel_settled"}
        /\ next \in {"pause_settled", "cancel_settled"} => st \in Stopping
    BY DEF SettleActionFor, Stopping
  <2> HIDE DEF next
  <2>4. AttemptOK(j)'
    BY <1>0, <1>2, <2>2, <2>3 DEF AttemptOK, InAttempt, StopRequested
  <2> QED
    BY <1>1, <2>2, <2>4
<1>8. CASE RunSettle(j)
  <2>1. PICK a \in {"pause_settled", "cancel_settled", "complete", "fail"} :
            AttemptApplies(j, a, a, "ok")
    BY <1>8 DEF RunSettle
  <2> DEFINE to == IF Legal(JOB_LIFECYCLE, st, a) THEN "ok" ELSE "err"
             doc == Applied(jobs[j], a)
  <2>2. AttemptGoes(j, a, to, doc)
    BY <2>1 DEF AttemptApplies
  <2>3. to \in {"ok", "err"}
    OBVIOUS
  <2>4. doc.status # "running"
    <3>1. CASE Legal(JOB_LIFECYCLE, st, a)
      BY <1>0, <3>1, JobMoves, AppliedStatus
    <3>2. CASE ~ Legal(JOB_LIFECYCLE, st, a)
      <4>1. doc = jobs[j]
        BY <1>0, <3>2, AppliedStatus
      <4>2. st = "running" => Row(a, st, IF a = "complete" THEN "completed" ELSE "failed")
                                  \in JOB_TRANSITIONS
        BY <1>0, <1>2, <2>2 DEF AttemptOK, Stopping, JOB_TRANSITIONS
      <4> QED
        BY <3>2, <4>1, <4>2, JobLegal
    <3> QED
      BY <3>1, <3>2
  <2> HIDE DEF to, doc
  <2>5. AttemptOK(j)'
    BY <1>0, <1>2, <2>2, <2>3, <2>4 DEF AttemptOK, InAttempt, StopRequested
  <2> QED
    BY <1>1, <2>2, <2>5
<1> QED
  BY <1>3, <1>4, <1>5, <1>6, <1>7, <1>8 DEF RunStep

(* A document that was in flight stays so, or settles, under a write that  *)
(* fails.                                                                  *)
LEMMA ThrowsAttempt ==
    ASSUME TypeOK, AttemptInv, NEW j \in Job, AttemptThrows(j)
    PROVE  AttemptInv'
<1>0. pc \in [Job -> Stages] /\ jobs \in [Job -> JobDocument] /\ AttemptOK(j)
  BY DEF TypeOK, AttemptInv
<1>1. /\ up /\ up' = up /\ pc' = [pc EXCEPT ![j] = "threw"] /\ lost' = lost \cup {j}
      /\ \E doc : jobs' = [jobs EXCEPT ![j] = doc]
      /\ controls' = controls /\ inFlight' = inFlight
      /\ pc[j] # "none"
  BY DEF AttemptThrows, AttemptStep, budget, Writes, Settling
<1>2. AttemptOK(j)'
  BY <1>0, <1>1 DEF AttemptOK, InAttempt, StopRequested
<1>3. ASSUME NEW k \in Job, k # j
      PROVE  AttemptOK(k)'
  <2>1. pc'[k] = pc[k] /\ jobs'[k] = jobs[k]
    BY <1>0, <1>1, <1>3
  <2> QED
    BY <1>1, <2>1, AttemptFrame DEF AttemptInv
<1> QED
  BY <1>2, <1>3 DEF AttemptInv

LEMMA OperateAttempt ==
    ASSUME TypeOK, AttemptInv, Operate
    PROVE  AttemptInv'
<1>0. /\ pc \in [Job -> Stages] /\ jobs \in [Job -> JobDocument]
      /\ controls \in [Job -> {"none", "pause", "cancel"}]
  BY DEF TypeOK
<1>1. ASSUME NEW b \in Batch, StartBatch(b)
      PROVE  AttemptInv'
  BY <1>1, AttemptFrame DEF AttemptInv, StartBatch, budget
<1>2. ASSUME NEW j \in Job, NEW a \in {"pause", "cancel"}, Ask(j, a) \/ AskUnlogged(j, a)
      PROVE  AttemptInv'
  <2> DEFINE st == jobs[j].status
             to == Applied(jobs[j], a).status
  <2>1. /\ jobs' = [jobs EXCEPT ![j] = Applied(@, a)]
        /\ controls' = Request(j, a) \/ controls' = controls
        /\ up /\ up' = up /\ inFlight' = inFlight /\ pc' = pc /\ lost' = lost
        /\ Legal(JOB_LIFECYCLE, st, a)
    BY <1>2 DEF Ask, AskUnlogged, Asking, budget
  <2>2. /\ a = "pause" => st = "running" /\ to = "pausing"
        /\ a = "cancel" => to \in {"cancelled", "cancelling"}
        /\ a = "cancel" /\ st \in {"running", "pausing"} => to = "cancelling"
    BY <1>0, <2>1, JobMoves, AppliedStatus
  <2>3. a = "cancel" /\ st = "cancelling" => FALSE
    <3>1. Legal(JOB_LIFECYCLE, "cancelling", "cancel") => FALSE
      BY JobMove DEF JOB_TRANSITIONS, Row
    <3> QED
      BY <2>1, <3>1
  <2>4. jobs'[j].status = to /\ pc'[j] = pc[j]
    BY <1>0, <2>1
  <2>5. AttemptOK(j)
    BY DEF AttemptInv
  <2> HIDE DEF to
  <2>6. AttemptOK(j)'
    BY <1>2, <2>1, <2>2, <2>3, <2>4, <2>5
       DEF AttemptOK, InAttempt, StopRequested, InFlightStatuses, Stopping
  <2>7. ASSUME NEW k \in Job, k # j
        PROVE  AttemptOK(k)'
    <3>1. controls'[k] = controls[k] /\ jobs'[k] = jobs[k]
      BY <1>0, <2>1, <2>7 DEF Request
    <3> QED
      BY <2>1, <3>1, AttemptFrame DEF AttemptInv
  <2> QED
    BY <2>6, <2>7 DEF AttemptInv
<1>3. ASSUME NEW j \in Job, NEW a \in {"resume", "retry"},
             Requeue(j, a) \/ RequeueUnlogged(j, a)
      PROVE  AttemptInv'
  <2>1. /\ up /\ up' = up /\ inFlight' = inFlight /\ pc' = pc /\ controls' = controls
        /\ lost' = lost
        /\ \/ /\ Legal(JOB_LIFECYCLE, jobs[j].status, a)
              /\ jobs' = [jobs EXCEPT ![j] = Applied(@, a)]
           \/ jobs' = jobs
    BY <1>3 DEF Requeue, RequeueUnlogged, Asking, budget
  <2>2. CASE jobs' = jobs
    BY <2>1, <2>2, AttemptFrame DEF AttemptInv
  <2>3. CASE /\ Legal(JOB_LIFECYCLE, jobs[j].status, a)
             /\ jobs' = [jobs EXCEPT ![j] = Applied(@, a)]
    <3>1. /\ Applied(jobs[j], a).status = "queued"
          /\ jobs[j].status \in {"paused", "interrupted", "failed"}
      BY <1>0, <2>3, JobMoves, AppliedStatus
    <3>2. jobs'[j].status = "queued"
      BY <1>0, <2>3, <3>1
    <3>3. AttemptOK(j)
      BY DEF AttemptInv
    <3>4. AttemptOK(j)'
      BY <2>1, <3>1, <3>2, <3>3
         DEF AttemptOK, InAttempt, StopRequested, InFlightStatuses, Stopping
    <3>5. ASSUME NEW k \in Job, k # j
          PROVE  AttemptOK(k)'
      <4>1. jobs'[k] = jobs[k]
        BY <1>0, <2>3, <3>5
      <4> QED
        BY <2>1, <4>1, AttemptFrame DEF AttemptInv
    <3> QED
      BY <3>4, <3>5 DEF AttemptInv
  <2> QED
    BY <2>1, <2>2, <2>3
<1> QED
  BY <1>1, <1>2, <1>3 DEF Operate, Pause, Cancel, Resume, Retry

LEMMA AttemptStart ==
    ASSUME TypeOK, AttemptInv, NEW j \in Job, FillLaunch(j)
    PROVE  AttemptInv'
<1>0. pc \in [Job -> Stages] /\ controls \in [Job -> {"none", "pause", "cancel"}]
  BY DEF TypeOK
<1>1. /\ up /\ up' = up /\ jobs' = jobs /\ lost' = lost
      /\ j \notin inFlight /\ inFlight' = inFlight \cup {j}
      /\ pc' = [pc EXCEPT ![j] = "launched"]
      /\ controls' = [controls EXCEPT ![j] = "none"]
  BY DEF FillLaunch, FirstRow, Startable, catalog
<1>2. AttemptOK(j)'
  BY <1>0, <1>1 DEF AttemptInv, AttemptOK, InAttempt, StopRequested
<1>3. ASSUME NEW k \in Job, k # j
      PROVE  AttemptOK(k)'
  <2>1. pc'[k] = pc[k] /\ controls'[k] = controls[k] /\ (k \in inFlight' <=> k \in inFlight)
    BY <1>0, <1>1, <1>3
  <2> QED
    BY <1>1, <2>1, AttemptFrame DEF AttemptInv
<1> QED
  BY <1>2, <1>3 DEF AttemptInv

LEMMA AttemptEnd ==
    ASSUME TypeOK, AttemptInv, NEW j \in Job, AttemptSettles(j)
    PROVE  AttemptInv'
<1>0. pc \in [Job -> Stages] /\ controls \in [Job -> {"none", "pause", "cancel"}]
  BY DEF TypeOK
<1>1. /\ up /\ up' = up /\ jobs' = jobs /\ lost' = lost
      /\ pc[j] \in {"ok", "err", "threw"} /\ inFlight' = inFlight \ {j}
      /\ pc' = [pc EXCEPT ![j] = "none"]
      /\ controls' = [controls EXCEPT ![j] = "none"]
  BY DEF AttemptSettles, catalog
<1>2. AttemptOK(j)'
  BY <1>0, <1>1 DEF AttemptInv, AttemptOK, InAttempt, StopRequested
<1>3. ASSUME NEW k \in Job, k # j
      PROVE  AttemptOK(k)'
  <2>1. pc'[k] = pc[k] /\ controls'[k] = controls[k] /\ (k \in inFlight' <=> k \in inFlight)
    BY <1>0, <1>1, <1>3
  <2> QED
    BY <1>1, <2>1, AttemptFrame DEF AttemptInv
<1> QED
  BY <1>2, <1>3 DEF AttemptInv

(* A restart finds no attempt, and leaves no document in flight.           *)
LEMMA CrashAttempt ==
    ASSUME TypeOK, AttemptInv, (Down /\ UNCHANGED jobs) \/ Recover
    PROVE  AttemptInv'
<1>1. CASE Down
  BY <1>1 DEF Down, AttemptInv, AttemptOK, InAttempt, StopRequested
<1>2. CASE Recover
  <2> SUFFICES ASSUME NEW k \in Job PROVE AttemptOK(k)'
    BY DEF AttemptInv
  <2>1. /\ jobs[k] \in JobDocument /\ AttemptOK(k)
        /\ ~ up /\ up' = TRUE /\ inFlight' = inFlight /\ pc' = pc /\ controls' = controls
        /\ jobs'[k] = Applied(jobs[k], "interrupt")
    BY <1>2 DEF Recover, budget, TypeOK, AttemptInv
  <2>2. jobs'[k].status # "running"
    <3>1. CASE Legal(JOB_LIFECYCLE, jobs[k].status, "interrupt")
      BY <2>1, <3>1, JobMoves, AppliedStatus
    <3>2. CASE ~ Legal(JOB_LIFECYCLE, jobs[k].status, "interrupt")
      <4>1. jobs'[k] = jobs[k]
        BY <2>1, <3>2, AppliedStatus
      <4>2. Legal(JOB_LIFECYCLE, "running", "interrupt")
        BY JobLegal DEF JOB_TRANSITIONS
      <4> QED
        BY <3>2, <4>1, <4>2
    <3> QED
      BY <3>1, <3>2
  <2> QED
    BY <2>1, <2>2 DEF AttemptOK, InAttempt, StopRequested
<1> QED
  BY <1>1, <1>2

LEMMA AttemptInvStep ==
    ASSUME TypeOK, AttemptInv, [Next]_vars
    PROVE  AttemptInv'
<1>1. CASE FillStart \/ FillList \/ FillDone \/ \E j \in Job : FillSkip(j)
  BY <1>1, AttemptFrame DEF AttemptInv, FillStart, FillList, FillDone, FillSkip, budget, catalog
<1>2. ASSUME NEW j \in Job, FillLaunch(j) \/ AttemptSettles(j)
      PROVE  AttemptInv'
  BY <1>2, AttemptStart, AttemptEnd
<1>3. ASSUME NEW j \in Job, RunStep(j) \/ AttemptThrows(j) PROVE AttemptInv'
  BY <1>3, RunStepAttempt, ThrowsAttempt
<1>4. ASSUME NEW t \in tasks, Reconciles(t) PROVE AttemptInv'
  <2>1. UNCHANGED jobs /\ (Down \/ Kept)
    BY <1>4, ReconcileStep
  <2> QED
    BY <2>1, CrashAttempt, AttemptFrame DEF AttemptInv, Kept
<1>5. CASE Operate
  BY <1>5, OperateAttempt
<1>6. CASE Crash \/ Recover
  BY <1>6, CrashAttempt DEF Crash, catalog
<1>7. CASE UNCHANGED vars
  BY <1>7, AttemptFrame DEF AttemptInv, vars
<1> QED
  BY <1>1, <1>2, <1>3, <1>4, <1>5, <1>6, <1>7 DEF Next, Fill, Reconcile, Reconciles

LEMMA AttemptInvInit == Init => AttemptInv
BY DEF Init, AttemptInv, AttemptOK, InAttempt, StopRequested, NewDocument

(* A lost attempt holds its rejection until the process ends of it.        *)
RejectInv == lost # {} => Rejecting

LEMMA RejectFrame ==
    ASSUME RejectInv, lost' = lost,
           \A k \in Job : pc[k] = "threw" => pc'[k] = "threw",
           \A t \in tasks : t.of = "rejected" => \E u \in tasks' : u.of = "rejected"
    PROVE  RejectInv'
BY DEF RejectInv, Rejecting

LEMMA RejectReconcile ==
    ASSUME TypeOK, RejectInv, NEW t \in tasks, Reconciles(t)
    PROVE  RejectInv'
<1>1. CASE Down
  BY <1>1 DEF Down, RejectInv
<1>2. CASE Kept /\ TaskGone(t)
  <2>1. \A u \in tasks : u.of = "rejected" => u \in tasks'
    BY <1>2 DEF TaskGone
  <2> QED
    BY <1>2, <2>1, RejectFrame DEF Kept
<1>3. CASE Kept /\ TaskMoved(t)
  <2>1. PICK stage \in {"start", "complete"}, finished \in BOOLEAN :
            tasks' = (tasks \ {t}) \cup {[t EXCEPT !.stage = stage, !.finished = finished]}
    BY <1>3 DEF TaskMoved
  <2>2. [t EXCEPT !.stage = stage, !.finished = finished].of = t.of
    BY DEF TypeOK, Task
  <2>3. \A u \in tasks : u.of = "rejected" => \E v \in tasks' : v.of = "rejected"
    BY <2>1, <2>2
  <2> QED
    BY <1>3, <2>3, RejectFrame DEF Kept
<1> QED
  BY <1>1, <1>2, <1>3, ReconcileStep

LEMMA RejectInvStep ==
    ASSUME TypeOK, AttemptInv, RejectInv, [Next]_vars
    PROVE  RejectInv'
<1>0. pc \in [Job -> Stages]
  BY DEF TypeOK
<1>1. ASSUME UNCHANGED <<lost, pc, tasks>>
      PROVE  RejectInv'
  BY <1>1, RejectFrame
<1>2. CASE FillStart \/ FillList \/ FillDone \/ \E j \in Job : FillSkip(j)
  BY <1>1, <1>2 DEF FillStart, FillList, FillDone, FillSkip
<1>3. ASSUME NEW j \in Job, FillLaunch(j)
      PROVE  RejectInv'
  <2>1. pc[j] = "none" /\ pc' = [pc EXCEPT ![j] = "launched"] /\ UNCHANGED <<lost, tasks>>
    BY <1>3 DEF FillLaunch, Startable, AttemptInv, AttemptOK
  <2> QED
    BY <1>0, <2>1, RejectFrame
<1>4. ASSUME NEW j \in Job, RunStep(j)
      PROVE  RejectInv'
  <2>1. PICK from \in Stages \ {"threw"}, to \in Stages :
            /\ pc[j] = from /\ pc' = [pc EXCEPT ![j] = to]
            /\ UNCHANGED <<lost, tasks>>
    <3>1. \A from \in Stages \ {"threw"} : \A to, doc : AttemptGoes(j, from, to, doc) =>
            /\ pc[j] = from /\ pc' = [pc EXCEPT ![j] = to] /\ UNCHANGED <<lost, tasks>>
      BY DEF AttemptGoes, AttemptStep
    <3>2. \E from \in Stages \ {"threw"} : \E to, doc : AttemptGoes(j, from, to, doc)
      BY <1>4 DEF RunStep, RunStart, RunPrepare, RunEnds, RunAttach, RunSettleRead, RunSettle,
         AttemptApplies, Stages
    <3>3. pc' \in [Job -> Stages]
      BY <1>4, RunStepType DEF TypeOK
    <3> QED
      BY <1>0, <3>1, <3>2, <3>3
  <2> QED
    BY <1>0, <2>1, RejectFrame
<1>5. ASSUME NEW j \in Job, AttemptThrows(j)
      PROVE  RejectInv'
  <2>1. pc' = [pc EXCEPT ![j] = "threw"]
    BY <1>5 DEF AttemptThrows, AttemptStep
  <2> QED
    BY <1>0, <2>1 DEF RejectInv, Rejecting
<1>6. ASSUME NEW j \in Job, AttemptSettles(j)
      PROVE  RejectInv'
  <2> DEFINE of == IF pc[j] = "threw" THEN "rejected" ELSE "attempt"
             t == [batch |-> BatchOf[j], stage |-> "read", finished |-> FALSE, of |-> of]
  <2>1. lost' = lost /\ tasks' = tasks \cup {t} /\ pc' = [pc EXCEPT ![j] = "none"]
    BY <1>6 DEF AttemptSettles
  <2>2. t.of = of
    OBVIOUS
  <2>3. CASE pc[j] = "threw"
    <3>1. t \in tasks' /\ t.of = "rejected"
      BY <2>1, <2>2, <2>3
    <3> HIDE DEF t
    <3> QED
      BY <3>1 DEF RejectInv, Rejecting
  <2>4. CASE pc[j] # "threw"
    <3> HIDE DEF t
    <3> QED
      BY <1>0, <2>1, <2>4, RejectFrame
  <2> QED
    BY <2>3, <2>4
<1>7. ASSUME NEW t \in tasks, Reconciles(t)
      PROVE  RejectInv'
  BY <1>7, RejectReconcile
<1>8. CASE Operate
  <2>1. lost' = lost /\ pc' = pc /\ tasks \subseteq tasks'
    BY <1>8 DEF Operate, StartBatch, Pause, Cancel, Ask, AskUnlogged, Resume, Retry,
       Requeue, RequeueUnlogged
  <2> QED
    BY <2>1, RejectFrame
<1>9. CASE Crash
  BY <1>9 DEF Crash, Down, RejectInv
<1>10. CASE Recover \/ UNCHANGED vars
  BY <1>1, <1>10 DEF Recover, vars
<1> QED
  BY <1>2, <1>3, <1>4, <1>5, <1>6, <1>7, <1>8, <1>9, <1>10
     DEF Next, Fill, Reconcile, Reconciles

(* While the process lives, every document that says `running` is played   *)
(* by an attempt of this process that is past its `start`, or a failed     *)
(* write ended its attempt and the rejection that ends the process is on   *)
(* its way.                                                                *)
THEOREM RunningOwned == Spec => []RunningIsOwned
<1>1. AttemptInv /\ RejectInv => RunningIsOwned
  BY DEF AttemptInv, AttemptOK, RunningIsOwned, InAttempt, RejectInv
<1>2. Init => RejectInv
  BY DEF Init, RejectInv
<1> QED
  BY <1>1, <1>2, AttemptInvInit, AttemptInvStep, RejectInvStep, TypeCorrect, PTL DEF Spec

(* A run that stopped because it was asked finds `pausing` or `cancelling` *)
(* under it, so it never fails with stoppedWithoutRequest.                 *)
THEOREM StopHasRequest == Spec => []StoppedRunHasRequest
<1>1. AttemptInv => StoppedRunHasRequest
  BY DEF AttemptInv, AttemptOK, StoppedRunHasRequest, Stopping
<1> QED
  BY <1>1, AttemptInvInit, AttemptInvStep, TypeCorrect, PTL DEF Spec

-----------------------------------------------------------------------------
(* Draft batches.                                                          *)

(* No batch goes back to its draft.                                        *)
LEMMA ReleaseIsFinal ==
    ASSUME TypeOK, NEW k \in Job, [Next]_vars, Released(k)
    PROVE  Released(k)'
<1>1. BatchOf[k] \in Batch /\ batches \in [Batch -> BatchStatuses]
  BY QueueConstants DEF TypeOK
<1>2. ASSUME NEW b \in Batch, NEW a, batches' = BatchApplied(b, a)
      PROVE  Released(k)'
  <2>1. CASE Legal(BATCH_LIFECYCLE, batches[b], a)
    <3>1. nextState(BATCH_LIFECYCLE, batches[b], a) # "draft"
      BY <2>1, BatchMoves
    <3> QED
      BY <1>1, <1>2, <2>1, <3>1 DEF BatchApplied, Released
  <2>2. CASE ~ Legal(BATCH_LIFECYCLE, batches[b], a)
    BY <1>2, <2>2 DEF BatchApplied, Released
  <2> QED
    BY <2>1, <2>2
<1>3. CASE UNCHANGED batches
  BY <1>3 DEF Released
<1>4. ASSUME NEW t \in tasks, Reconciles(t)
      PROVE  Released(k)'
  <2>1. t.batch \in Batch
    BY DEF TypeOK, Task
  <2> QED
    BY <1>2, <1>3, <1>4, <2>1, ReconcileStep
<1>5. CASE Operate
  BY <1>2, <1>3, <1>5 DEF Operate, StartBatch, Pause, Cancel, Ask, AskUnlogged, Resume, Retry,
     Requeue, RequeueUnlogged
<1>6. CASE Fill
  BY <1>3, <1>6 DEF Fill, FillStart, FillList, FillSkip, FillLaunch, FillDone, catalog
<1>7. ASSUME NEW j \in Job, RunStep(j) \/ AttemptThrows(j) \/ AttemptSettles(j)
      PROVE  Released(k)'
  BY <1>3, <1>7 DEF RunStep, RunStart, RunPrepare, RunEnds, RunAttach, RunSettleRead,
     RunSettle, AttemptApplies, AttemptThrows, AttemptGoes, AttemptStep, AttemptSettles, catalog
<1>8. CASE Crash \/ Recover \/ UNCHANGED vars
  BY <1>3, <1>8 DEF Crash, Recover, catalog, vars
<1> QED
  BY <1>4, <1>5, <1>6, <1>7, <1>8 DEF Next, Reconcile, Reconciles

(* Only an attempt's `start` gives a document its start instant.           *)
LEMMA AppliedNotStarted ==
    ASSUME NEW doc \in JobDocument, NEW a, a # "start", ~ doc.startedAt
    PROVE  ~ Applied(doc, a).startedAt
<1>1. CASE Legal(JOB_LIFECYCLE, doc.status, a)
  <2>1. nextState(JOB_LIFECYCLE, doc.status, a) # "running"
    BY <1>1, JobMoves
  <2> QED
    BY <1>1, <2>1 DEF Applied, withStatus
<1>2. CASE ~ Legal(JOB_LIFECYCLE, doc.status, a)
  BY <1>2 DEF Applied
<1> QED
  BY <1>1, <1>2

LEMMA HeldBackStep ==
    ASSUME TypeOK, AttemptInv, HeldBack, [Next]_vars
    PROVE  HeldBack'
<1> SUFFICES ASSUME NEW k \in Job, ~ Released(k)
             PROVE  k \notin inFlight' /\ ~ jobs'[k].startedAt
  BY ReleaseIsFinal DEF HeldBack
<1>0. /\ k \notin inFlight /\ ~ jobs[k].startedAt /\ pc[k] = "none"
      /\ jobs \in [Job -> JobDocument]
  BY DEF HeldBack, AttemptInv, AttemptOK, TypeOK
<1>1. CASE UNCHANGED <<inFlight, jobs>>
  BY <1>0, <1>1
<1>2. ASSUME NEW j \in Job, FillLaunch(j)
      PROVE  k \notin inFlight' /\ ~ jobs'[k].startedAt
  BY <1>0, <1>2 DEF FillLaunch, Startable, catalog
<1>3. ASSUME NEW j \in Job, RunStep(j) \/ AttemptThrows(j)
      PROVE  k \notin inFlight' /\ ~ jobs'[k].startedAt
  <2>1. \A from, to, doc : AttemptStep(j, from, to, doc) =>
            pc[j] = from /\ inFlight' = inFlight /\ jobs' = [jobs EXCEPT ![j] = doc]
    BY DEF AttemptStep, budget
  <2>2. \E from, to, doc : from # "none" /\ AttemptStep(j, from, to, doc)
    BY <1>3 DEF RunStep, RunStart, RunPrepare, RunEnds, RunAttach, RunSettleRead, RunSettle,
       AttemptApplies, AttemptGoes, AttemptThrows, Writes, Settling
  <2>3. pc[j] # "none" /\ inFlight' = inFlight /\ \E doc : jobs' = [jobs EXCEPT ![j] = doc]
    BY <2>1, <2>2
  <2>4. k # j
    BY <1>0, <2>3
  <2> QED
    BY <1>0, <2>3, <2>4
<1>4. ASSUME NEW j \in Job, AttemptSettles(j)
      PROVE  k \notin inFlight' /\ ~ jobs'[k].startedAt
  BY <1>0, <1>4 DEF AttemptSettles, catalog
<1>5. ASSUME NEW j \in Job, NEW a, a # "start", inFlight' = inFlight,
             jobs' = [jobs EXCEPT ![j] = Applied(@, a)]
      PROVE  k \notin inFlight' /\ ~ jobs'[k].startedAt
  BY <1>0, <1>5, AppliedNotStarted
<1>6. CASE Operate
  BY <1>1, <1>5, <1>6
     DEF Operate, StartBatch, Pause, Cancel, Ask, AskUnlogged, Resume, Retry,
         Requeue, RequeueUnlogged, budget
<1>7. CASE Down /\ UNCHANGED jobs
  BY <1>0, <1>7 DEF Down
<1>8. CASE Recover
  BY <1>0, <1>8, AppliedNotStarted DEF Recover, budget
<1>9. CASE FillStart \/ FillList \/ FillDone \/ \E j \in Job : FillSkip(j)
  BY <1>1, <1>9 DEF FillStart, FillList, FillDone, FillSkip, budget, catalog
<1>10. ASSUME NEW t \in tasks, Reconciles(t)
       PROVE  k \notin inFlight' /\ ~ jobs'[k].startedAt
  BY <1>1, <1>7, <1>10, ReconcileStep DEF Kept
<1>11. CASE UNCHANGED vars
  BY <1>1, <1>11 DEF vars
<1>12. CASE Crash
  BY <1>7, <1>12 DEF Crash, catalog
<1> QED
  BY <1>2, <1>3, <1>4, <1>6, <1>8, <1>9, <1>10, <1>11, <1>12
     DEF Next, Fill, Reconcile, Reconciles

(* No job of a draft batch is ever launched or started, whatever the order *)
(* of fills, verbs, crashes and restarts.                                  *)
THEOREM DraftsHeldBack == Spec => []HeldBack
<1>1. Init => HeldBack
  BY DEF Init, HeldBack, NewDocument
<1> QED
  BY <1>1, HeldBackStep, AttemptInvInit, AttemptInvStep, TypeCorrect, PTL DEF Spec

-----------------------------------------------------------------------------
(* The queue implements JobContract.                                       *)

Statuses == [j \in Job |-> jobs[j].status]
Playing == {j \in Job : InAttempt(j)}
Verdicts == [j \in Job |-> Verdict(j)]

VerdictOf(stage) ==
    CASE stage = "complete"       -> "completed"
      [] stage = "pause_settled"  -> "paused"
      [] stage = "cancel_settled" -> "cancelled"
      [] stage = "fail"           -> "failed"
      [] OTHER                    -> "open"

Resting == {"none", "launched", "ok", "err", "threw"}

(* Steps the contract does not speak of.                                   *)
LEMMA ContractStutter ==
    ASSUME Statuses' = Statuses, Playing' = Playing, Verdicts' = Verdicts, lost' = lost,
           up' = up
    PROVE  UNCHANGED Contract!vars
BY DEF Contract!vars, Statuses, Playing, Verdicts

LEMMA ContractFrame ==
    ASSUME UNCHANGED <<jobs, pc, lost, up>>
    PROVE  UNCHANGED Contract!vars
BY ContractStutter DEF Statuses, Playing, Verdicts, InAttempt, Verdict

(* What a move of one attempt is to the contract.                          *)
LEMMA ContractMove ==
    ASSUME pc \in [Job -> Stages], NEW j \in Job, NEW to, pc' = [pc EXCEPT ![j] = to]
    PROVE  /\ Verdicts' = [Verdicts EXCEPT ![j] = VerdictOf(to)]
           /\ to \in Resting => Playing' = Playing \ {j}
           /\ to \notin Resting => Playing' = Playing \cup {j}
           /\ VerdictOf(to) = VerdictOf(pc[j]) => Verdicts' = Verdicts
           /\ Verdicts[j] = VerdictOf(pc[j])
           /\ j \in Playing <=> pc[j] \notin Resting
<1>1. \A k \in Job : Verdicts[k] = VerdictOf(pc[k])
  BY DEF Verdicts, Verdict, VerdictOf
<1>2. \A k \in Job : Verdicts'[k] = VerdictOf(pc'[k])
  BY DEF Verdicts, Verdict, VerdictOf
<1>3. \A k \in Job : pc'[k] = IF k = j THEN to ELSE pc[k]
  OBVIOUS
<1>4. Verdicts' = [Verdicts EXCEPT ![j] = VerdictOf(to)]
  <2>1. Verdicts' = [k \in Job |-> Verdicts'[k]] /\ Verdicts = [k \in Job |-> Verdicts[k]]
    BY DEF Verdicts
  <2> HIDE DEF Verdicts, VerdictOf
  <2>2. \A k \in Job : Verdicts'[k] = IF k = j THEN VerdictOf(to) ELSE Verdicts[k]
    BY <1>1, <1>2, <1>3
  <2>3. DOMAIN Verdicts = Job /\ DOMAIN Verdicts' = Job
    BY DEF Verdicts
  <2> QED
    BY <2>1, <2>2, <2>3
<1>8. ASSUME VerdictOf(to) = VerdictOf(pc[j]) PROVE Verdicts' = Verdicts
  <2>1. \A k \in Job : Verdict(k)' = Verdict(k)
    BY <1>3, <1>8 DEF Verdict, VerdictOf
  <2> QED
    BY <2>1 DEF Verdicts
<1>5. \A k \in Job : k \in Playing <=> pc[k] \notin Resting
  BY DEF Playing, InAttempt, Resting
<1>6. \A k \in Job : k \in Playing' <=> pc'[k] \notin Resting
  BY DEF Playing, InAttempt, Resting
<1>7. Playing \subseteq Job /\ Playing' \subseteq Job
  BY DEF Playing
<1> HIDE DEF Playing, Resting
<1> QED
  BY <1>1, <1>3, <1>4, <1>5, <1>6, <1>7, <1>8

LEMMA ContractEnds ==
    ASSUME NEW j \in Job, up, up' = up, j \in Playing, Playing' = Playing \ {j},
           Verdicts' = [Verdicts EXCEPT ![j] = "open"]
    PROVE  Contract!Ends(j)
BY DEF Contract!Ends, Playing, Verdicts

LEMMA ContractSettled ==
    ASSUME jobs \in [Job -> JobDocument], NEW j \in Job, NEW doc,
           jobs' = [jobs EXCEPT ![j] = doc], doc.status = Verdicts[j],
           Verdicts[j] \in Contract!Answers(j) \cup {"failed"}
    PROVE  Contract!Settled(j)
<1>1. Statuses' = [Statuses EXCEPT ![j] = Verdicts[j]]
  BY DEF Statuses
<1> QED
  BY <1>1 DEF Contract!Settled, Contract!Becomes, Statuses, Verdicts

(* What a move of one document is to the contract.                         *)
LEMMA ContractBecomes ==
    ASSUME jobs \in [Job -> JobDocument], NEW j \in Job, NEW doc, NEW S, doc.status \in S,
           jobs' = [jobs EXCEPT ![j] = doc]
    PROVE  Contract!Becomes(j, S)
<1>1. Statuses' = [Statuses EXCEPT ![j] = doc.status]
  BY DEF Statuses
<1> QED
  BY <1>1 DEF Contract!Becomes, Statuses

(* A write that leaves the status where it was.                            *)
LEMMA ContractSame ==
    ASSUME jobs \in [Job -> JobDocument], NEW j \in Job, NEW doc,
           doc.status = jobs[j].status, jobs' = [jobs EXCEPT ![j] = doc]
    PROVE  Statuses' = Statuses
BY DEF Statuses

(* The end a document in flight is given by its settling action.           *)
LEMMA SettleMove ==
    ASSUME NEW j \in Job, NEW a \in Settling, NEW to,
           Row(a, jobs[j].status, to) \in JOB_TRANSITIONS, jobs[j].status \in InFlightStatuses
    PROVE  /\ to = VerdictOf(a)
           /\ VerdictOf(a) \in Contract!Answers(j) \cup {"failed"}
<1> DEFINE st == jobs[j].status
<1>1. \/ a = "complete" /\ st = "running" /\ to = "completed"
      \/ a = "pause_settled" /\ st = "pausing" /\ to = "paused"
      \/ a = "cancel_settled" /\ st = "cancelling" /\ to = "cancelled"
      \/ a = "fail" /\ to = "failed"
  BY DEF JOB_TRANSITIONS, Row, InFlightStatuses, Settling
<1>2. to = VerdictOf(a)
  BY <1>1 DEF VerdictOf
<1>3. Statuses[j] = st
  BY DEF Statuses
<1>4. to \in Contract!Answers(j) \cup {"failed"}
  BY <1>1, <1>3 DEF Contract!Answers, Statuses
<1> QED
  BY <1>2, <1>4

(* A settling action the table refuses is one the document does not ask    *)
(* for any more.                                                           *)
LEMMA SettleRefused ==
    ASSUME NEW j \in Job, NEW a \in Settling, ~ Legal(JOB_LIFECYCLE, jobs[j].status, a),
           jobs[j].status \in InFlightStatuses
    PROVE  VerdictOf(a) \notin Contract!Answers(j) \cup {"open", "failed"}
<1> DEFINE st == jobs[j].status
<1>1. ASSUME NEW to, Row(a, st, to) \in JOB_TRANSITIONS PROVE FALSE
  BY <1>1, JobLegal
<1>2. a # "fail"
  BY <1>1 DEF JOB_TRANSITIONS, InFlightStatuses
<1>3. /\ a = "complete" => st # "running"
      /\ a = "pause_settled" => st # "pausing"
      /\ a = "cancel_settled" => st # "cancelling"
  BY <1>1 DEF JOB_TRANSITIONS
<1>4. Statuses[j] = st
  BY DEF Statuses
<1> QED
  BY <1>2, <1>3, <1>4 DEF Contract!Answers, Statuses, VerdictOf, InFlightStatuses, Settling

LEMMA ContractRunStep ==
    ASSUME TypeOK, AttemptInv, BudgetInv, NEW j \in Job, RunStep(j)
    PROVE  [Contract!Next]_(Contract!vars)
<1> DEFINE st == jobs[j].status
<1>0. /\ jobs[j] \in JobDocument /\ AttemptOK(j) /\ pc \in [Job -> Stages]
      /\ jobs \in [Job -> JobDocument] /\ Statuses[j] = st
  BY DEF TypeOK, AttemptInv, Statuses
<1>1. ASSUME NEW from, NEW to, NEW doc, AttemptGoes(j, from, to, doc)
      PROVE  /\ up /\ up' = up /\ lost' = lost
             /\ pc[j] = from /\ pc' = [pc EXCEPT ![j] = to]
             /\ jobs' = [jobs EXCEPT ![j] = doc]
             /\ from # "none" => j \in inFlight
             /\ Verdicts[j] = VerdictOf(from)
             /\ Verdicts' = [Verdicts EXCEPT ![j] = VerdictOf(to)]
             /\ VerdictOf(to) = VerdictOf(from) => Verdicts' = Verdicts
             /\ j \in Playing <=> from \notin Resting
             /\ to \in Resting => Playing' = Playing \ {j}
             /\ to \notin Resting => Playing' = Playing \cup {j}
  BY <1>0, <1>1, ContractMove DEF AttemptGoes, AttemptStep, AttemptOK
<1>2. ASSUME NEW from, NEW to, NEW doc, AttemptGoes(j, from, to, doc),
             doc.status = st, from \in Resting <=> to \in Resting,
             VerdictOf(to) = VerdictOf(from)
      PROVE  UNCHANGED Contract!vars
  <2>1. Statuses' = Statuses
    BY <1>0, <1>1, <1>2, ContractSame
  <2>2. Verdicts' = Verdicts
    BY <1>1, <1>2
  <2>3. Playing' = Playing
    BY <1>1, <1>2
  <2> QED
    BY <1>1, <1>2, <2>1, <2>2, <2>3, ContractStutter
<1>3. ASSUME NEW from, NEW to, AttemptGoes(j, from, to, jobs[j]),
             from \notin Resting, to \notin Resting, VerdictOf(from) = "open",
             VerdictOf(to) \in Contract!Answers(j) \cup {"failed"}
      PROVE  Contract!Next
  <2>1. Statuses' = Statuses
    BY <1>0, <1>1, <1>3, ContractSame
  <2>2. Playing' = Playing
    BY <1>1, <1>3
  <2>3. Contract!Decide(j)
    BY <1>1, <1>3, <2>1, <2>2 DEF Contract!Decide, Playing, Verdicts, Statuses
  <2> QED
    BY <2>3 DEF Contract!Next
<1>4. CASE RunStart(j)
  <2> DEFINE to == IF Legal(JOB_LIFECYCLE, st, "start") THEN "preparing" ELSE "err"
  <2>1. AttemptGoes(j, "launched", to, Applied(jobs[j], "start"))
    BY <1>4 DEF RunStart, AttemptApplies
  <2>2. CASE Legal(JOB_LIFECYCLE, st, "start")
    <3>1. st = "queued" /\ Applied(jobs[j], "start").status = "running"
      BY <1>0, <2>2, JobMoves, AppliedStatus
    <3>2. Contract!Becomes(j, {"running"})
      BY <1>0, <1>1, <2>1, <3>1, ContractBecomes
    <3>3. j \notin Playing /\ Playing' = Playing \cup {j}
      BY <1>1, <2>1, <2>2 DEF Resting
    <3>4. Verdicts' = Verdicts
      <4>1. VerdictOf("preparing") = "open" /\ VerdictOf("launched") = "open"
        BY DEF VerdictOf
      <4> QED
        BY <1>1, <2>1, <2>2, <4>1
    <3>5. Cardinality(Playing) < MaxConcurrentJobs
      <4>0. \A k \in Playing : k \in inFlight
        BY DEF Playing, AttemptInv, AttemptOK, InAttempt
      <4>1. Playing \subseteq inFlight \ {j}
        BY <3>3, <4>0
      <4>2. /\ IsFiniteSet(inFlight \ {j})
            /\ Cardinality(inFlight \ {j}) = Cardinality(inFlight) - 1
        BY <1>1, <2>1, FS_RemoveElement DEF BudgetInv
      <4>3. /\ IsFiniteSet(Playing)
            /\ Cardinality(Playing) <= Cardinality(inFlight \ {j})
        BY <4>1, <4>2, FS_Subset
      <4>4. Cardinality(Playing) \in Nat /\ Cardinality(inFlight) \in Nat
        BY <4>3, FS_CardinalityType DEF BudgetInv
      <4> QED
        BY <4>2, <4>3, <4>4, QueueConstants DEF BudgetInv, WithinBudget
    <3>6. Contract!Cardinality(Playing) = Cardinality(Playing)
      BY DEF Contract!Cardinality, Cardinality
    <3>7. Contract!Begin(j)
      BY <1>0, <1>1, <2>1, <3>1, <3>2, <3>3, <3>4, <3>5, <3>6
         DEF Contract!Begin, Playing, Verdicts, Statuses
    <3> QED
      BY <3>7 DEF Contract!Next
  <2>3. CASE ~ Legal(JOB_LIFECYCLE, st, "start")
    <3>1. Applied(jobs[j], "start") = jobs[j]
      BY <1>0, <2>3, AppliedStatus
    <3>2. VerdictOf("err") = VerdictOf("launched") /\ "err" \in Resting /\ "launched" \in Resting
      BY DEF VerdictOf, Resting
    <3> QED
      BY <1>2, <2>1, <2>3, <3>1, <3>2
  <2> QED
    BY <2>2, <2>3
<1>5. CASE RunPrepare(j)
  <2>1. CASE AttemptGoes(j, "preparing", "playing", jobs[j])
    BY <1>2, <2>1 DEF Resting, VerdictOf
  <2>2. CASE AttemptGoes(j, "preparing", "fail", jobs[j])
    BY <1>3, <2>2 DEF Resting, VerdictOf
  <2> QED
    BY <1>5, <2>1, <2>2 DEF RunPrepare
<1>6. CASE RunEnds(j)
  <2>1. PICK to \in {"attaching", "fail", "settle_stop"} : AttemptGoes(j, "playing", to, jobs[j])
    BY <1>6 DEF RunEnds
  <2>2. CASE to = "fail"
    BY <1>3, <2>1, <2>2 DEF Resting, VerdictOf
  <2>3. CASE to # "fail"
    <3>1. VerdictOf(to) = VerdictOf("playing") /\ to \notin Resting /\ "playing" \notin Resting
      BY <2>1, <2>3 DEF Resting, VerdictOf
    <3> QED
      BY <1>2, <2>1, <3>1
  <2> QED
    BY <2>2, <2>3
<1>7. CASE RunAttach(j)
  <2> DEFINE doc == [jobs[j] EXCEPT !.result = @ \/ j \notin Adaptive]
  <2>1. doc.status = st
    BY <1>0 DEF JobDocument
  <2> HIDE DEF doc
  <2>2. CASE AttemptGoes(j, "attaching", "settle_end", doc)
    BY <1>2, <2>1, <2>2 DEF Resting, VerdictOf
  <2>3. CASE AttemptGoes(j, "attaching", "fail", jobs[j])
    BY <1>3, <2>3 DEF Resting, VerdictOf
  <2> QED
    BY <1>7, <2>2, <2>3 DEF RunAttach, doc
<1>8. CASE RunSettleRead(j)
  <2>1. PICK from \in {"settle_end", "settle_stop"} :
            LET action == SettleActionFor(jobs[j].status)
                otherwise == IF from = "settle_end" THEN "complete" ELSE "fail"
            IN  AttemptGoes(j, from, IF action = "none" THEN otherwise ELSE action, jobs[j])
    BY <1>8 DEF RunSettleRead
  <2> DEFINE next == IF SettleActionFor(st) = "none"
                     THEN (IF from = "settle_end" THEN "complete" ELSE "fail")
                     ELSE SettleActionFor(st)
  <2>2. AttemptGoes(j, from, next, jobs[j])
    BY <2>1
  <2>3. st \in InFlightStatuses
    <3>1. InAttempt(j)
      BY <1>1, <2>2 DEF InAttempt
    <3> QED
      BY <1>0, <3>1 DEF AttemptOK
  <2>4. \/ next = "fail"
        \/ next = "complete" /\ st = "running"
        \/ next = "pause_settled" /\ st = "pausing"
        \/ next = "cancel_settled" /\ st = "cancelling"
    BY <2>3 DEF SettleActionFor, InFlightStatuses
  <2> HIDE DEF next
  <2>5. VerdictOf(next) \in Contract!Answers(j) \cup {"failed"}
    BY <1>0, <2>4 DEF Contract!Answers, Statuses, VerdictOf
  <2>6. /\ from \notin Resting /\ next \notin Resting /\ VerdictOf(from) = "open"
    BY <2>1, <2>4 DEF Resting, VerdictOf
  <2> QED
    BY <1>3, <2>2, <2>5, <2>6
<1>9. CASE RunSettle(j)
  <2>1. PICK a \in Settling : AttemptApplies(j, a, a, "ok")
    BY <1>9 DEF RunSettle, Settling
  <2> DEFINE to == IF Legal(JOB_LIFECYCLE, st, a) THEN "ok" ELSE "err"
             doc == Applied(jobs[j], a)
  <2>2. AttemptGoes(j, a, to, doc) /\ to \in Resting /\ VerdictOf(to) = "open"
        /\ a \notin Resting
    BY <2>1 DEF AttemptApplies, Resting, VerdictOf, Settling
  <2>3. st \in InFlightStatuses
    <3>1. InAttempt(j)
      BY <1>1, <2>2 DEF InAttempt, Settling
    <3> QED
      BY <1>0, <3>1 DEF AttemptOK
  <2>4. CASE Legal(JOB_LIFECYCLE, st, a)
    <3>1. doc.status = nextState(JOB_LIFECYCLE, st, a)
      BY <1>0, <2>4, AppliedStatus
    <3>2. /\ doc.status = VerdictOf(a)
          /\ VerdictOf(a) \in Contract!Answers(j) \cup {"failed"}
      BY <2>3, <2>4, <3>1, JobMove, SettleMove
    <3> HIDE DEF to, doc
    <3>3. /\ Verdicts[j] = VerdictOf(a) /\ lost' = lost
          /\ jobs' = [jobs EXCEPT ![j] = doc] /\ doc.status = Verdicts[j]
      BY <1>1, <2>2, <3>2
    <3>4. Contract!Settled(j)
      BY <1>0, <3>2, <3>3, ContractSettled
    <3>5. Contract!Ends(j)
      BY <1>1, <2>2, ContractEnds
    <3>6. Contract!Settle(j)
      BY <3>3, <3>4, <3>5 DEF Contract!Settle
    <3> QED
      BY <3>6 DEF Contract!Next
  <2>5. CASE ~ Legal(JOB_LIFECYCLE, st, a)
    <3>1. Statuses' = Statuses
      BY <1>0, <1>1, <2>2, <2>5, AppliedStatus, ContractSame
    <3>2. VerdictOf(a) \notin Contract!Answers(j) \cup {"open", "failed"}
      BY <2>3, <2>5, SettleRefused
    <3> HIDE DEF to, doc
    <3>3. Contract!Ends(j)
      BY <1>1, <2>2, ContractEnds
    <3>4. Verdicts[j] = VerdictOf(a) /\ lost' = lost
      BY <1>1, <2>2
    <3>5. Contract!Abandon(j)
      BY <3>1, <3>2, <3>3, <3>4 DEF Contract!Abandon, Verdicts, Statuses
    <3> QED
      BY <3>5 DEF Contract!Next
  <2> QED
    BY <2>4, <2>5
<1> QED
  BY <1>4, <1>5, <1>6, <1>7, <1>8, <1>9 DEF RunStep

LEMMA ContractThrows ==
    ASSUME TypeOK, AttemptInv, NEW j \in Job, AttemptThrows(j)
    PROVE  Contract!Next
<1> DEFINE st == jobs[j].status
<1>0. /\ jobs[j] \in JobDocument /\ AttemptOK(j) /\ pc \in [Job -> Stages]
      /\ jobs \in [Job -> JobDocument] /\ Statuses[j] = st
  BY DEF TypeOK, AttemptInv, Statuses
<1>1. PICK doc \in {jobs[j], Written(j)} : AttemptStep(j, pc[j], "threw", doc)
  BY DEF AttemptThrows
<1>2. /\ up /\ up' = up /\ lost' = lost \cup {j} /\ Writes(j)
      /\ pc' = [pc EXCEPT ![j] = "threw"] /\ jobs' = [jobs EXCEPT ![j] = doc]
  BY <1>1 DEF AttemptThrows, AttemptStep
<1>3. "threw" \in Resting /\ VerdictOf("threw") = "open"
  BY DEF Resting, VerdictOf
<1>4. /\ Verdicts' = [Verdicts EXCEPT ![j] = "open"] /\ Playing' = Playing \ {j}
      /\ Verdicts[j] = VerdictOf(pc[j]) /\ (j \in Playing <=> pc[j] \notin Resting)
      /\ "open" = VerdictOf(pc[j]) => Verdicts' = Verdicts
  <2> DEFINE to == "threw"
  <2>1. to \in Resting /\ VerdictOf(to) = "open" /\ pc' = [pc EXCEPT ![j] = to]
    BY <1>2, <1>3
  <2> HIDE DEF to
  <2>2. /\ Verdicts' = [Verdicts EXCEPT ![j] = VerdictOf(to)]
        /\ Playing' = Playing \ {j}
        /\ VerdictOf(to) = VerdictOf(pc[j]) => Verdicts' = Verdicts
        /\ Verdicts[j] = VerdictOf(pc[j])
        /\ j \in Playing <=> pc[j] \notin Resting
    BY <1>0, <2>1, ContractMove
  <2> QED
    BY <2>1, <2>2
<1>5. CASE pc[j] = "launched"
  <2>1. st = "queued" /\ Applied(jobs[j], "start").status = "running"
    BY <1>0, <1>2, <1>5, JobMoves, AppliedStatus DEF Writes, Settling
  <2>2. doc.status \in {"queued", "running"}
    <3>1. Written(j) = Applied(jobs[j], "start")
      BY <1>5 DEF Written, Settling
    <3>2. doc = jobs[j] \/ doc = Applied(jobs[j], "start")
      BY <1>1, <3>1
    <3> QED
      BY <2>1, <3>2
  <2>3. Contract!Becomes(j, {"queued", "running"})
    BY <1>0, <1>2, <2>2, ContractBecomes
  <2>4. j \notin Playing /\ Playing' = Playing
    BY <1>4, <1>5 DEF Resting
  <2>5. Verdicts' = Verdicts
    <3>1. VerdictOf("launched") = "open"
      BY DEF VerdictOf
    <3> QED
      BY <1>4, <1>5, <3>1
  <2>6. Contract!Lose(j)
    BY <1>0, <1>2, <2>1, <2>3, <2>4, <2>5 DEF Contract!Lose, Playing, Verdicts, Statuses
  <2> QED
    BY <2>6 DEF Contract!Next
<1>6. ASSUME pc[j] \notin Resting, Statuses' = Statuses \/ Contract!Settled(j)
      PROVE  Contract!Next
  <2>1. Contract!Ends(j)
    BY <1>2, <1>4, <1>6, ContractEnds
  <2>2. Contract!Lose(j)
    BY <1>2, <1>6, <2>1 DEF Contract!Lose, Statuses
  <2> QED
    BY <2>2 DEF Contract!Next
<1>7. CASE doc.status = st /\ pc[j] # "launched"
  <2>1. Statuses' = Statuses
    BY <1>0, <1>2, <1>7, ContractSame
  <2>2. pc[j] \notin Resting
    BY <1>2, <1>7 DEF Writes, Settling, Resting
  <2> QED
    BY <1>6, <2>1, <2>2
<1>8. CASE doc.status # st /\ pc[j] # "launched"
  <2>1. doc = Written(j) /\ doc # jobs[j]
    BY <1>1, <1>8
  <2>2. pc[j] \in Settling
    <3>1. [jobs[j] EXCEPT !.result = TRUE].status = st
      BY <1>0 DEF JobDocument
    <3> QED
      BY <1>8, <2>1, <3>1 DEF Written
  <2>3. Legal(JOB_LIFECYCLE, st, pc[j]) /\ doc = Applied(jobs[j], pc[j])
    BY <1>2, <2>1, <2>2 DEF Writes, Written, Settling
  <2>4. st \in InFlightStatuses
    BY <1>0, <2>2 DEF AttemptOK, InAttempt, Settling
  <2>5. /\ doc.status = VerdictOf(pc[j])
        /\ VerdictOf(pc[j]) \in Contract!Answers(j) \cup {"failed"}
    BY <1>0, <2>2, <2>3, <2>4, AppliedStatus, JobMove, SettleMove
  <2>6. /\ doc.status = Verdicts[j]
        /\ Verdicts[j] \in Contract!Answers(j) \cup {"failed"}
    BY <1>4, <2>5
  <2>7. Contract!Settled(j)
    BY <1>0, <1>2, <2>6, ContractSettled
  <2>8. pc[j] \notin Resting
    BY <2>2 DEF Settling, Resting
  <2> QED
    BY <1>6, <2>7, <2>8
<1> QED
  BY <1>5, <1>7, <1>8

LEMMA ContractOperate ==
    ASSUME TypeOK, AttemptInv, Operate
    PROVE  [Contract!Next]_(Contract!vars)
<1>0. jobs \in [Job -> JobDocument]
  BY DEF TypeOK
<1>1. ASSUME NEW j \in Job, NEW a, Legal(JOB_LIFECYCLE, jobs[j].status, a),
             jobs' = [jobs EXCEPT ![j] = Applied(@, a)]
      PROVE  /\ Row(a, jobs[j].status, Applied(jobs[j], a).status) \in JOB_TRANSITIONS
             /\ \A S : Applied(jobs[j], a).status \in S => Contract!Becomes(j, S)
             /\ InAttempt(j) => jobs[j].status \in InFlightStatuses
  <2>1. Row(a, jobs[j].status, Applied(jobs[j], a).status) \in JOB_TRANSITIONS
    BY <1>0, <1>1, JobMove, AppliedStatus
  <2>2. \A S : Applied(jobs[j], a).status \in S => Contract!Becomes(j, S)
    BY <1>0, <1>1, ContractBecomes
  <2> QED
    BY <2>1, <2>2 DEF AttemptInv, AttemptOK
<1>2. ASSUME UNCHANGED <<pc, lost, up>>
      PROVE  Playing' = Playing /\ Verdicts' = Verdicts
  BY <1>2 DEF Playing, Verdicts, InAttempt, Verdict
<1>3. ASSUME NEW b \in Batch, StartBatch(b)
      PROVE  UNCHANGED Contract!vars
  BY <1>3, ContractFrame DEF StartBatch
<1>4. ASSUME NEW j \in Job, NEW a \in {"pause", "cancel"}, Ask(j, a) \/ AskUnlogged(j, a)
      PROVE  Contract!Next
  <2> DEFINE st == jobs[j].status
             to == Applied(jobs[j], a).status
  <2>1. /\ Legal(JOB_LIFECYCLE, st, a) /\ jobs' = [jobs EXCEPT ![j] = Applied(@, a)]
        /\ up /\ UNCHANGED <<pc, lost, up>>
    BY <1>4 DEF Ask, AskUnlogged, Asking
  <2>2. /\ \/ st = "running" /\ to \in {"pausing", "cancelling"}
           \/ st = "pausing" /\ to \in {"cancelling"}
           \/ st \in {"queued", "paused", "interrupted"} /\ to \in {"cancelled"}
        /\ InAttempt(j) => st \in InFlightStatuses
    BY <1>1, <2>1 DEF JOB_TRANSITIONS, Row
  <2>3. \A S : to \in S => Contract!Becomes(j, S)
    BY <1>1, <2>1
  <2>4. Playing' = Playing /\ Verdicts' = Verdicts
    BY <1>2, <2>1
  <2> HIDE DEF to
  <2>5. Contract!AskToStop(j) \/ Contract!Withdraw(j)
    BY <2>1, <2>2, <2>3, <2>4
       DEF Contract!AskToStop, Contract!Withdraw, Playing, Verdicts, InFlightStatuses
  <2> QED
    BY <2>5 DEF Contract!Next
<1>5. ASSUME NEW j \in Job, NEW a \in {"resume", "retry"},
             Requeue(j, a) \/ RequeueUnlogged(j, a)
      PROVE  [Contract!Next]_(Contract!vars)
  <2> DEFINE st == jobs[j].status
             to == Applied(jobs[j], a).status
  <2>1. up /\ UNCHANGED <<pc, lost, up>>
    BY <1>5 DEF Requeue, RequeueUnlogged, Asking
  <2>2. CASE jobs' = jobs
    BY <2>1, <2>2, ContractFrame
  <2>3. CASE Legal(JOB_LIFECYCLE, st, a) /\ jobs' = [jobs EXCEPT ![j] = Applied(@, a)]
    <3>1. /\ st \in {"paused", "interrupted", "failed"} /\ to \in {"queued"}
          /\ InAttempt(j) => st \in InFlightStatuses
      BY <1>1, <2>3 DEF JOB_TRANSITIONS, Row
    <3>2. \A S : to \in S => Contract!Becomes(j, S)
      BY <1>1, <2>3
    <3>3. Playing' = Playing /\ Verdicts' = Verdicts
      BY <1>2, <2>1
    <3> HIDE DEF to
    <3>4. Contract!Requeue(j)
      BY <2>1, <3>1, <3>2, <3>3 DEF Contract!Requeue, Playing, Verdicts, InFlightStatuses
    <3> QED
      BY <3>4 DEF Contract!Next
  <2> QED
    BY <1>5, <2>2, <2>3 DEF Requeue, RequeueUnlogged
<1> QED
  BY <1>3, <1>4, <1>5 DEF Operate, Pause, Cancel, Resume, Retry

LEMMA ContractRecover ==
    ASSUME TypeOK, AttemptInv, Recover
    PROVE  Contract!Return
<1>1. /\ ~ up /\ up' = TRUE /\ jobs' = [j \in Job |-> Applied(jobs[j], "interrupt")]
      /\ Playing' = Playing /\ Verdicts' = Verdicts /\ lost' = lost
  BY DEF Recover, Playing, Verdicts, InAttempt, Verdict
<1>2. Contract!INTERRUPTIBLE_STATUSES = {"running", "pausing", "cancelling"}
  <2>1. \A s : Contract!Legal(Contract!JOB_LIFECYCLE, s, "interrupt")
                 <=> s \in {"running", "pausing", "cancelling"}
    <3> TAKE s
    <3> USE DEF Contract!Legal, Contract!Moves, Contract!JOB_LIFECYCLE, Contract!Row
    <3>1. ASSUME Contract!Legal(Contract!JOB_LIFECYCLE, s, "interrupt")
          PROVE  s \in {"running", "pausing", "cancelling"}
      <4>1. PICK t \in Contract!JOB_TRANSITIONS : t.from = s /\ t.action = "interrupt"
        BY <3>1
      <4> QED
        BY <4>1 DEF Contract!JOB_TRANSITIONS
    <3>2. ASSUME s \in {"running", "pausing", "cancelling"}
          PROVE  Contract!Legal(Contract!JOB_LIFECYCLE, s, "interrupt")
      <4>1. Contract!Row("interrupt", s, "interrupted") \in Contract!JOB_TRANSITIONS
        BY <3>2 DEF Contract!JOB_TRANSITIONS
      <4> QED
        BY <4>1
    <3> QED
      BY <3>1, <3>2
  <2>2. {"running", "pausing", "cancelling"} \subseteq Contract!JobStatuses
    BY DEF Contract!JobStatuses
  <2> QED
    BY <2>1, <2>2 DEF Contract!INTERRUPTIBLE_STATUSES
<1>3. ASSUME NEW j \in Job
      PROVE  Applied(jobs[j], "interrupt").status =
                IF jobs[j].status \in {"running", "pausing", "cancelling"}
                THEN "interrupted" ELSE jobs[j].status
  <2>0. jobs[j] \in JobDocument
    BY DEF TypeOK
  <2>1. CASE Legal(JOB_LIFECYCLE, jobs[j].status, "interrupt")
    <3>1. Row("interrupt", jobs[j].status, Applied(jobs[j], "interrupt").status)
             \in JOB_TRANSITIONS
      BY <2>0, <2>1, JobMove, AppliedStatus
    <3> QED
      BY <3>1 DEF JOB_TRANSITIONS, Row
  <2>2. CASE ~ Legal(JOB_LIFECYCLE, jobs[j].status, "interrupt")
    <3>1. jobs[j].status \notin {"running", "pausing", "cancelling"}
      BY <2>2, JobLegal DEF JOB_TRANSITIONS
    <3> QED
      BY <2>0, <2>2, <3>1, AppliedStatus
  <2> QED
    BY <2>1, <2>2
<1>4. Statuses' = [j \in Job |-> IF Statuses[j] \in {"running", "pausing", "cancelling"}
                                 THEN "interrupted" ELSE Statuses[j]]
  BY <1>1, <1>3 DEF Statuses
<1> QED
  BY <1>1, <1>2, <1>4 DEF Contract!Return, Statuses, Playing, Verdicts

LEMMA ContractDown ==
    ASSUME Down, UNCHANGED jobs
    PROVE  Contract!Die
<1>1. /\ up /\ up' = FALSE /\ lost' = {} /\ Playing' = {} /\ Statuses' = Statuses
      /\ Verdicts' = [j \in Job |-> "open"]
  BY DEF Down, Playing, InAttempt, Statuses, Verdicts, Verdict
<1> QED
  BY <1>1 DEF Contract!Die, Playing, Statuses, Verdicts

LEMMA ContractStep ==
    ASSUME TypeOK, AttemptInv, BudgetInv, [Next]_vars
    PROVE  [Contract!Next]_(Contract!vars)
<1>0. pc \in [Job -> Stages]
  BY DEF TypeOK
<1>1. CASE FillStart \/ FillList \/ FillDone \/ (\E j \in Job : FillSkip(j))
  BY <1>1, ContractFrame DEF FillStart, FillList, FillDone, FillSkip, catalog
<1>2. ASSUME NEW j \in Job, FillLaunch(j) \/ AttemptSettles(j)
      PROVE  UNCHANGED Contract!vars
  <2>1. PICK to \in {"launched", "none"} :
            /\ pc' = [pc EXCEPT ![j] = to] /\ pc[j] \in Resting
            /\ UNCHANGED <<jobs, lost, up>>
    BY <1>2 DEF FillLaunch, Startable, AttemptSettles, AttemptInv, AttemptOK, catalog, Resting
  <2>2. to \in Resting /\ VerdictOf(to) = VerdictOf(pc[j])
    BY <2>1 DEF Resting, VerdictOf
  <2>3. Playing' = Playing
    <3>1. Playing' = Playing \ {j} /\ j \notin Playing
      BY <1>0, <2>1, <2>2, ContractMove
    <3> QED
      BY <3>1
  <2>4. Verdicts' = Verdicts
    BY <1>0, <2>1, <2>2, ContractMove
  <2> QED
    BY <2>1, <2>3, <2>4, ContractStutter DEF Statuses
<1>3. ASSUME NEW j \in Job, RunStep(j) \/ AttemptThrows(j)
      PROVE  [Contract!Next]_(Contract!vars)
  BY <1>3, ContractRunStep, ContractThrows
<1>4. ASSUME NEW t \in tasks, Reconciles(t)
      PROVE  [Contract!Next]_(Contract!vars)
  <2>1. UNCHANGED jobs /\ (Down \/ Kept)
    BY <1>4, ReconcileStep
  <2> QED
    BY <2>1, ContractDown, ContractFrame DEF Kept, Contract!Next
<1>5. CASE Operate
  BY <1>5, ContractOperate
<1>6. CASE Crash
  BY <1>6, ContractDown DEF Crash, catalog, Contract!Next
<1>7. CASE Recover
  BY <1>7, ContractRecover DEF Contract!Next
<1>8. CASE UNCHANGED vars
  BY <1>8, ContractFrame DEF vars
<1> QED
  BY <1>1, <1>2, <1>3, <1>4, <1>5, <1>6, <1>7, <1>8 DEF Next, Fill, Reconcile, Reconciles

(* The queue, the runner and the catalog together implement the contract:  *)
(* each job is begun only from the queue, by one attempt at a time, within *)
(* the bound; an attempt answers what was asked before it decided how to   *)
(* end, or is on record as lost to a failed write; and a restart leaves no *)
(* job looking alive.                                                      *)
THEOREM Implements == Spec => ImplementsContract
<1>1. Init => Contract!Init
  BY DEF Init, Contract!Init, NewDocument, InAttempt, Verdict
<1>2. Init => BudgetInv
  BY QueueConstants, FS_EmptySet DEF Init, BudgetInv, WithinBudget
<1> QED
  BY <1>1, <1>2, ContractStep, BudgetStep, AttemptInvInit, AttemptInvStep, TypeCorrect, PTL
     DEF Spec, ImplementsContract, Contract!Spec
=============================================================================
