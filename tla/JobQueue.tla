------------------------------ MODULE JobQueue ------------------------------
(***************************************************************************)
(* The experiment queue of apps/admin-server/src/run: JobQueue decides     *)
(* what runs next, ExperimentRunner carries one attempt from `start` to    *)
(* its settlement, and the catalog keeps the documents across a crash.     *)
(* Every await of the source that another caller can slip into is a        *)
(* boundary between two actions here, and every write of the store that    *)
(* nothing guards may fail: before its document changed, or after, when    *)
(* the line of the log could not be appended.                              *)
(***************************************************************************)
EXTENDS JobLifecycle, Integers

LOCAL INSTANCE Functions

CONSTANTS
    Job, Batch,
    BatchOf,            \* the batch each job was created in
    Order,              \* createdAt, id: the order listJobs answers in
    Adaptive,           \* the jobs whose spec.kind is adaptive_counter
    Requested,          \* workers each stored configuration asks for;
                        \* 0 when the configuration cannot be read
    MaxConcurrentJobs, MaxWorkers, MaxWorkersPerJob,     \* ResourceLimits
    \* Bounds of the model
    MaxAsks,            \* operator verbs
    MaxCrashes,         \* crashes of the process
    MaxFailures,        \* failing writes
    MaxFills            \* fills queued behind one another (saturating)

ASSUME QueueConstants ==
    /\ BatchOf \in [Job -> Batch]
    /\ Order \in [Job -> Nat]
    /\ \A j, k \in Job : Order[j] = Order[k] => j = k
    /\ Adaptive \subseteq Job
    /\ Requested \in [Job -> Nat]
    /\ \A j \in Adaptive : Requested[j] <= 1
    /\ MaxConcurrentJobs \in Nat \ {0}
    /\ MaxWorkersPerJob \in Nat \ {0}
    /\ MaxWorkers \in Nat /\ MaxWorkersPerJob <= MaxWorkers
    /\ MaxAsks \in Nat /\ MaxCrashes \in Nat /\ MaxFailures \in Nat
    /\ MaxFills \in Nat \ {0}

VARIABLES
    jobs,           \* the catalog: one document per job
    batches,        \* the catalog: the status of each batch
    up,             \* the orchestration process is running
    inFlight,       \* JobQueue.#inFlight
    controls,       \* #controls: what each attempt was asked
    grants,         \* #grants
    workersInUse,   \* #workersInUse
    unstartable,    \* #unstartable
    fill,           \* where the running #fill is
    page,           \* the queued jobs that fill listed
    fills,          \* fills chained behind it
    pc,             \* where each attempt is in ExperimentRunner.run
    tasks,          \* reconcileBatch calls in progress
    asks, crashes, failures,    \* bounds
    pumped,         \* history: the queue was scheduled after the last thing that
                    \* could make a job startable
    lost            \* history: the jobs whose attempt of this process threw

catalog == <<jobs, batches>>
budget == <<inFlight, controls, grants, workersInUse>>
filling == <<fill, page>>
vars == <<jobs, batches, up, inFlight, controls, grants, workersInUse, unstartable,
          fill, page, fills, pc, tasks, asks, crashes, failures, pumped, lost>>
bounds == <<asks, crashes, failures>>

Stages == {"none", "launched", "preparing", "playing", "attaching", "settle_end",
           "settle_stop", "pause_settled", "cancel_settled", "complete", "fail",
           "ok", "err", "threw"}
(* Who awaits a reconcileBatch: an attempt that returned, an attempt whose *)
(* rejection is on its way, or the request that released the batch.        *)
Task == [batch : Batch, stage : {"read", "start", "complete"}, finished : BOOLEAN,
         of : {"attempt", "rejected", "request"}]

TypeOK ==
    /\ jobs \in [Job -> JobDocument]
    /\ batches \in [Batch -> BatchStatuses]
    /\ up \in BOOLEAN
    /\ inFlight \subseteq Job
    /\ controls \in [Job -> {"none", "pause", "cancel"}]
    /\ grants \in [Job -> Nat]
    /\ workersInUse \in Int
    /\ unstartable \subseteq Job
    /\ fill \in {"idle", "listing", "choosing"}
    /\ page \subseteq Job
    /\ fills \in 0..MaxFills
    /\ pc \in [Job -> Stages]
    /\ tasks \subseteq Task
    /\ asks \in 0..MaxAsks
    /\ crashes \in 0..MaxCrashes
    /\ failures \in 0..MaxFailures
    /\ pumped \in BOOLEAN
    /\ lost \subseteq Job

Init ==
    /\ jobs = [j \in Job |-> NewDocument]
    /\ batches = [b \in Batch |-> "draft"]
    /\ up = TRUE
    /\ inFlight = {} /\ unstartable = {} /\ page = {} /\ tasks = {}
    /\ controls = [j \in Job |-> "none"]
    /\ grants = [j \in Job |-> 0]
    /\ workersInUse = 0
    /\ fill = "idle" /\ fills = 0
    /\ pc = [j \in Job |-> "none"]
    /\ asks = 0 /\ crashes = 0 /\ failures = 0
    /\ pumped = FALSE /\ lost = {}

Members(b) == {j \in Job : BatchOf[j] = b}
Released(j) == batches[BatchOf[j]] # "draft"

(* #schedule: chains one more fill.                                        *)
Schedule ==
    /\ fills' = IF fills < MaxFills THEN fills + 1 ELSE MaxFills
    /\ pumped' = TRUE
NoSchedule == UNCHANGED <<fills, pumped>>

(* A write throws; what it left on disk is up to the action.               *)
WriteFails ==
    /\ failures < MaxFailures
    /\ failures' = failures + 1

-----------------------------------------------------------------------------
(* #fill: list the queued jobs, choose the first startable one, launch it, *)
(* and list again until nothing can start.                                 *)

FillStart ==
    /\ up /\ fill = "idle" /\ fills > 0
    /\ fill' = "listing"
    /\ fills' = fills - 1
    /\ UNCHANGED <<catalog, up, budget, unstartable, page, pc, tasks, bounds, pumped, lost>>

HasRoom == Cardinality(inFlight) < MaxConcurrentJobs /\ workersInUse < MaxWorkers

(* listJobs({status: queued}) limited to one row more than the bound.      *)
Queued == {j \in Job : jobs[j].status = "queued"}
FirstRows(S) ==
    {j \in S : Cardinality({k \in S : Order[k] < Order[j]}) < MaxConcurrentJobs + 1}

FillList ==
    /\ up /\ fill = "listing"
    /\ IF HasRoom
       THEN fill' = "choosing" /\ page' = FirstRows(Queued)
       ELSE fill' = "idle" /\ page' = {}
    /\ UNCHANGED <<catalog, up, budget, unstartable, fills, pc, tasks, bounds, pumped, lost>>

IsFirst(j, S) == j \in S /\ \A k \in S : Order[j] <= Order[k]
FirstRow(j) == up /\ fill = "choosing" /\ IsFirst(j, page)

(* Mutant: a draft batch is not looked at.                                 *)
MutStartDraft(j) == j \notin inFlight \cup unstartable /\ Requested[j] > 0

(* The rows of the page #nextStartable does not skip.                      *)
Startable(j) ==
    /\ j \notin inFlight
    /\ j \notin unstartable
    /\ Released(j)
    /\ Requested[j] > 0

(* The page #nextStartable lists holds no row it could ever take: drafts,  *)
(* refused jobs and unreadable configurations fill it.                     *)
PageBlocked == \A k \in FirstRows(Queued) : k \notin inFlight /\ ~ Startable(k)

(* One row passed over.  #batchReleased reads each batch once per pass, so *)
(* a batch found in draft takes the rest of its rows with it.              *)
FillSkip(j) ==
    /\ FirstRow(j)
    /\ ~ Startable(j)
    /\ page' = page \ (IF j \in inFlight \cup unstartable \/ Released(j)
                       THEN {j} ELSE Members(BatchOf[j]))
    /\ UNCHANGED <<catalog, up, budget, unstartable, fill, fills, pc, tasks, bounds, pumped, lost>>

Least(a, b) == IF a <= b THEN a ELSE b

(* grantWorkers: the request, under the two ceilings and what remains; 0   *)
(* stands for `null`, not now.                                             *)
grantWorkers(requested) ==
    IF HasRoom
    THEN Least(Least(requested, MaxWorkersPerJob), MaxWorkers - workersInUse)
    ELSE 0

FillLaunch(j) ==
    /\ FirstRow(j)
    /\ Startable(j)
    /\ grantWorkers(Requested[j]) > 0
    /\ inFlight' = inFlight \cup {j}
    /\ controls' = [controls EXCEPT ![j] = "none"]
    /\ grants' = [grants EXCEPT ![j] = grantWorkers(Requested[j])]
    /\ workersInUse' = workersInUse + grantWorkers(Requested[j])
    /\ pc' = [pc EXCEPT ![j] = "launched"]
    /\ fill' = "listing"
    /\ page' = {}
    /\ UNCHANGED <<catalog, up, unstartable, fills, tasks, bounds, pumped, lost>>

FillDone ==
    /\ up /\ fill = "choosing"
    /\ \A j \in page : IsFirst(j, page) => Startable(j) /\ grantWorkers(Requested[j]) = 0
    /\ fill' = "idle"
    /\ page' = {}
    /\ UNCHANGED <<catalog, up, budget, unstartable, fills, pc, tasks, bounds, pumped, lost>>

-----------------------------------------------------------------------------
(* ExperimentRunner.run, one attempt.                                      *)

AttemptStep(j, from, to, doc) ==
    /\ up /\ pc[j] = from
    /\ pc' = [pc EXCEPT ![j] = to]
    /\ jobs' = [jobs EXCEPT ![j] = doc]
    /\ UNCHANGED <<batches, up, budget, unstartable, filling, fills, tasks, pumped>>

AttemptGoes(j, from, to, doc) ==
    AttemptStep(j, from, to, doc) /\ UNCHANGED <<bounds, lost>>

(* A transition the attempt takes through the store: on a refusal the      *)
(* attempt returns the store's error and the document stays as it is.      *)
AttemptApplies(j, from, action, to) ==
    AttemptGoes(j, from,
                IF Legal(JOB_LIFECYCLE, jobs[j].status, action) THEN to ELSE "err",
                Applied(jobs[j], action))

(* Mutant: the attempt marks the document itself.                          *)
MutStartUnasked(j) == AttemptGoes(j, "launched", "preparing", withStatus(jobs[j], "running"))

RunStart(j) == AttemptApplies(j, "launched", "start", "preparing")

(* #prepare finds the configuration and the directory, or refuses.         *)
RunPrepare(j) == \E to \in {"playing", "fail"} : AttemptGoes(j, "preparing", to, jobs[j])

StopRequested(j) == controls[j] # "none"

(* runExperiment returns, throws, or - only when asked - stops.            *)
RunEnds(j) ==
    \E to \in {"attaching", "fail"} \cup (IF StopRequested(j) THEN {"settle_stop"} ELSE {}) :
        AttemptGoes(j, "playing", to, jobs[j])

(* The manifest is read and attached, or is missing or drifted.  An        *)
(* adaptive run publishes its documents instead and attaches nothing.      *)
RunAttach(j) ==
    \/ AttemptGoes(j, "attaching", "settle_end",
                   [jobs[j] EXCEPT !.result = @ \/ j \notin Adaptive])
    \/ AttemptGoes(j, "attaching", "fail", jobs[j])

(* #settleIfRequested reads the document and picks the settling action;    *)
(* without one, a finished run completes and a stopped run fails.          *)
RunSettleRead(j) ==
    \E from \in {"settle_end", "settle_stop"} :
        LET action == SettleActionFor(jobs[j].status)
            otherwise == IF from = "settle_end" THEN "complete" ELSE "fail"
        IN  AttemptGoes(j, from, IF action = "none" THEN otherwise ELSE action, jobs[j])

RunSettle(j) ==
    \E action \in {"pause_settled", "cancel_settled", "complete", "fail"} :
        AttemptApplies(j, action, action, "ok")

RunStep(j) ==
    RunStart(j) \/ RunPrepare(j) \/ RunEnds(j) \/ RunAttach(j) \/ RunSettleRead(j) \/ RunSettle(j)

Settling == {"pause_settled", "cancel_settled", "complete", "fail"}

(* The unguarded write an attempt awaits at each stage, if there is one,   *)
(* and the document it would leave.  Readings of progress and the three    *)
(* published documents are caught in the code and are not among them.      *)
Writes(j) ==
    \/ pc[j] = "launched" /\ Legal(JOB_LIFECYCLE, jobs[j].status, "start")
    \/ pc[j] = "preparing"
    \/ pc[j] = "playing" /\ j \in Adaptive
    \/ pc[j] = "attaching" /\ j \notin Adaptive
    \/ pc[j] \in Settling /\ Legal(JOB_LIFECYCLE, jobs[j].status, pc[j])

Written(j) ==
    CASE pc[j] = "launched"  -> Applied(jobs[j], "start")
      [] pc[j] = "attaching" -> [jobs[j] EXCEPT !.result = TRUE]
      [] pc[j] \in Settling  -> Applied(jobs[j], pc[j])
      [] OTHER               -> jobs[j]

(* The write throws, before or after its document is in place: `run`       *)
(* rejects, and nothing takes the document any further.                    *)
AttemptThrows(j) ==
    /\ WriteFails
    /\ Writes(j)
    /\ \E doc \in {jobs[j], Written(j)} : AttemptStep(j, pc[j], "threw", doc)
    /\ lost' = lost \cup {j}
    /\ UNCHANGED <<asks, crashes>>

(* Mutant: the grant is released after the attempt returned, in no         *)
(* `finally`.                                                              *)
MutReleaseOnReturn(j) ==
    /\ up /\ pc[j] \in {"ok", "err", "threw"}
    /\ pc' = [pc EXCEPT ![j] = "none"]
    /\ inFlight' = inFlight \ {j}
    /\ tasks' = tasks \cup {[batch |-> BatchOf[j], stage |-> "read", finished |-> FALSE,
                             of |-> IF pc[j] = "threw" THEN "rejected" ELSE "attempt"]}
    /\ IF pc[j] = "threw"
       THEN UNCHANGED <<unstartable, workersInUse, grants, controls>>
       ELSE /\ unstartable' = IF pc[j] = "err" THEN unstartable \cup {j} ELSE unstartable
            /\ workersInUse' = workersInUse - grants[j]
            /\ grants' = [grants EXCEPT ![j] = 0]
            /\ controls' = [controls EXCEPT ![j] = "none"]
    /\ NoSchedule
    /\ UNCHANGED <<catalog, up, filling, bounds, lost>>

(* The tail of #launch: remember a refusal, release the grant, then tell   *)
(* the batch and schedule again.  An attempt that threw is not remembered. *)
AttemptSettles(j) ==
    /\ up /\ pc[j] \in {"ok", "err", "threw"}
    /\ pc' = [pc EXCEPT ![j] = "none"]
    /\ unstartable' = IF pc[j] = "err" THEN unstartable \cup {j} ELSE unstartable
    /\ workersInUse' = workersInUse - grants[j]
    /\ grants' = [grants EXCEPT ![j] = 0]
    /\ controls' = [controls EXCEPT ![j] = "none"]
    /\ inFlight' = inFlight \ {j}
    /\ tasks' = tasks \cup {[batch |-> BatchOf[j], stage |-> "read", finished |-> FALSE,
                             of |-> IF pc[j] = "threw" THEN "rejected" ELSE "attempt"]}
    /\ NoSchedule
    /\ UNCHANGED <<catalog, up, filling, bounds, lost>>

-----------------------------------------------------------------------------
(* reconcileBatch, and what its callers do afterwards.                     *)

(* What a process leaves behind: nothing but the catalog.                  *)
Down ==
    /\ up /\ up' = FALSE
    /\ inFlight' = {} /\ unstartable' = {} /\ page' = {} /\ tasks' = {} /\ lost' = {}
    /\ controls' = [j \in Job |-> "none"]
    /\ grants' = [j \in Job |-> 0]
    /\ workersInUse' = 0
    /\ fill' = "idle" /\ fills' = 0
    /\ pc' = [j \in Job |-> "none"]
    /\ pumped' = FALSE

BatchApplied(b, action) ==
    IF Legal(BATCH_LIFECYCLE, batches[b], action)
    THEN [batches EXCEPT ![b] = nextState(BATCH_LIFECYCLE, @, action)]
    ELSE batches

Started(b) == \E j \in Members(b) : jobs[j].startedAt
Finished(b) == \A j \in Members(b) : isTerminalJobStatus(jobs[j].status)

Reconciling(t, stage) == up /\ t \in tasks /\ t.stage = stage

ReconcileGoes(t, stage, finished) ==
    /\ tasks' = (tasks \ {t}) \cup {[t EXCEPT !.stage = stage, !.finished = finished]}
    /\ UNCHANGED <<up, budget, unstartable, filling, fills, pc, pumped, lost>>

(* Mutant: a rejected attempt is taken for one that returned.              *)
MutReconcileForgives(t) ==
    /\ tasks' = tasks \ {t}
    /\ Schedule
    /\ UNCHANGED <<up, budget, unstartable, filling, pc, lost>>

(* The caller schedules; but a rejection that reconcileBatch held up has   *)
(* no handler anywhere, and the process ends on it.                        *)
ReconcileReturns(t) ==
    \/ /\ t.of # "rejected"
       /\ tasks' = tasks \ {t}
       /\ Schedule
       /\ UNCHANGED <<up, budget, unstartable, filling, pc, lost>>
    \/ t.of = "rejected" /\ Down

ReconcileRead(t) ==
    /\ Reconciling(t, "read")
    /\ IF Members(t.batch) # {} /\ (Started(t.batch) \/ Finished(t.batch))
       THEN ReconcileGoes(t, "start", Finished(t.batch))
       ELSE ReconcileReturns(t)
    /\ UNCHANGED <<catalog, bounds>>

(* Mutant: nothing is scheduled after a settlement.                        *)
MutReconcileQuiet(t) ==
    /\ Reconciling(t, "start")
    /\ batches' = BatchApplied(t.batch, "start")
    /\ tasks' = tasks \ {t}
    /\ UNCHANGED <<jobs, bounds, up, budget, unstartable, filling, fills, pc, pumped, lost>>

ReconcileStart(t) ==
    /\ Reconciling(t, "start")
    /\ batches' = BatchApplied(t.batch, "start")
    /\ IF t.finished THEN ReconcileGoes(t, "complete", TRUE) ELSE ReconcileReturns(t)
    /\ UNCHANGED <<jobs, bounds>>

ReconcileComplete(t) ==
    /\ Reconciling(t, "complete")
    /\ batches' = BatchApplied(t.batch, "complete")
    /\ ReconcileReturns(t)
    /\ UNCHANGED <<jobs, bounds>>

(* The batch's document cannot be written: the request that asked is       *)
(* answered with an error and pumps nothing, an attempt rejects.           *)
ReconcileThrows(t) ==
    /\ WriteFails
    /\ \E action \in {"start", "complete"} :
        Reconciling(t, action) /\ Legal(BATCH_LIFECYCLE, batches[t.batch], action)
    /\ \/ /\ t.of = "request"
          /\ tasks' = tasks \ {t}
          /\ UNCHANGED <<up, budget, unstartable, filling, fills, pc, pumped, lost>>
       \/ t.of # "request" /\ Down
    /\ UNCHANGED <<catalog, asks, crashes>>

-----------------------------------------------------------------------------
(* The operator.                                                           *)

Asking ==
    /\ up /\ asks < MaxAsks
    /\ asks' = asks + 1

(* startBatch: release a draft, reconcile it, then pump.                   *)
StartBatch(b) ==
    /\ Asking
    /\ batches[b] = "draft"
    /\ batches' = BatchApplied(b, "enqueue")
    /\ tasks' = tasks \cup
           {[batch |-> b, stage |-> "read", finished |-> FALSE, of |-> "request"]}
    /\ pumped' = FALSE
    /\ UNCHANGED <<jobs, up, budget, unstartable, filling, fills, pc, crashes, failures, lost>>

(* JobStopControl.request: a later pause cannot undo a cancel.             *)
Request(j, reason) ==
    IF j \in inFlight /\ controls[j] # "cancel"
    THEN [controls EXCEPT ![j] = reason]
    ELSE controls

(* pause and cancel schedule nothing, although the withdrawal of a queued  *)
(* row may bring a startable one into the page.                            *)
Unscheduled(j) == pumped' = (pumped /\ ~ (j \in Queued /\ PageBlocked))

(* Mutant: the switch first, the transition second.                        *)
MutAskSwitchFirst(j, action) ==
    /\ Asking
    /\ jobs' = [jobs EXCEPT ![j] = Applied(@, action)]
    /\ controls' = Request(j, action)
    /\ Unscheduled(j)
    /\ UNCHANGED <<batches, up, inFlight, grants, workersInUse, unstartable, filling,
                   fills, pc, tasks, crashes, failures, lost>>

(* #ask: the transition first, the switch second.  One step, because the   *)
(* store's lock on the job holds every reader off until the transition is  *)
(* logged, which is when the switch is thrown.                             *)
Ask(j, action) ==
    /\ Asking
    /\ Legal(JOB_LIFECYCLE, jobs[j].status, action)
    /\ jobs' = [jobs EXCEPT ![j] = Applied(@, action)]
    /\ controls' = Request(j, action)
    /\ Unscheduled(j)
    /\ UNCHANGED <<batches, up, inFlight, grants, workersInUse, unstartable, filling,
                   fills, pc, tasks, crashes, failures, lost>>

(* The transition is on disk and its line is not: the verb is answered     *)
(* with an error and the switch is not thrown.                             *)
AskUnlogged(j, action) ==
    /\ Asking /\ WriteFails
    /\ Legal(JOB_LIFECYCLE, jobs[j].status, action)
    /\ jobs' = [jobs EXCEPT ![j] = Applied(@, action)]
    /\ Unscheduled(j)
    /\ UNCHANGED <<batches, up, budget, unstartable, filling, fills, pc, tasks, crashes, lost>>

Pause(j) == Ask(j, "pause") \/ AskUnlogged(j, "pause")
Cancel(j) == Ask(j, "cancel") \/ AskUnlogged(j, "cancel")

(* resume and retry: forget a refusal whatever the store then answers.     *)
Requeue(j, action) ==
    /\ Asking
    /\ unstartable' = unstartable \ {j}
    /\ IF Legal(JOB_LIFECYCLE, jobs[j].status, action)
       THEN jobs' = [jobs EXCEPT ![j] = Applied(@, action)] /\ Schedule
       ELSE /\ UNCHANGED <<jobs, fills>>
            /\ pumped' = (pumped /\ j \notin unstartable)
    /\ UNCHANGED <<batches, up, budget, filling, pc, tasks, crashes, failures, lost>>

(* The job is back in the queue on disk, but nothing is scheduled.         *)
RequeueUnlogged(j, action) ==
    /\ Asking /\ WriteFails
    /\ Legal(JOB_LIFECYCLE, jobs[j].status, action)
    /\ unstartable' = unstartable \ {j}
    /\ jobs' = [jobs EXCEPT ![j] = Applied(@, action)]
    /\ pumped' = FALSE
    /\ UNCHANGED <<batches, up, budget, filling, fills, pc, tasks, crashes, lost>>

Resume(j) == Requeue(j, "resume") \/ RequeueUnlogged(j, "resume")
Retry(j) == Requeue(j, "retry") \/ RequeueUnlogged(j, "retry")

-----------------------------------------------------------------------------
(* The process dies: the catalog is all that is left.                      *)
Crash ==
    /\ crashes < MaxCrashes
    /\ crashes' = crashes + 1
    /\ Down
    /\ UNCHANGED <<catalog, asks, failures>>

(* openFileCatalogStore recovers before a queue exists; nothing is pumped. *)
Recover ==
    /\ ~ up
    /\ up' = TRUE
    /\ jobs' = [j \in Job |-> Applied(jobs[j], "interrupt")]
    /\ UNCHANGED <<batches, budget, unstartable, filling, fills, pc, tasks, bounds, pumped, lost>>

Fill == FillStart \/ FillList \/ (\E j \in Job : FillSkip(j) \/ FillLaunch(j)) \/ FillDone
Reconcile == \E t \in tasks : ReconcileRead(t) \/ ReconcileStart(t) \/ ReconcileComplete(t)
Operate ==
    \/ \E b \in Batch : StartBatch(b)
    \/ \E j \in Job : Pause(j) \/ Cancel(j) \/ Resume(j) \/ Retry(j)

Next ==
    \/ Fill
    \/ \E j \in Job : RunStep(j) \/ AttemptThrows(j) \/ AttemptSettles(j)
    \/ Reconcile
    \/ \E t \in tasks : ReconcileThrows(t)
    \/ Operate
    \/ Crash \/ Recover

Spec == Init /\ [][Next]_vars

(* Promises settle and I/O completes; a run plays a finite schedule.       *)
Fairness ==
    /\ WF_vars(Fill)
    /\ WF_vars(Reconcile)
    /\ \A j \in Job : WF_vars(RunStep(j)) /\ WF_vars(AttemptSettles(j))

LiveSpec == Spec /\ Fairness

-----------------------------------------------------------------------------
(* What the queue promises.                                                *)

(* No reachable document contradicts statusTimestampProblems: whatever the *)
(* order of attempts, verbs, crashes and retries, a terminal job has a     *)
(* completion instant, no other has, and a started one has a start.        *)
DocumentsValid == \A j \in Job : TimestampsAgree(jobs[j])

(* limits.ts: the concurrency bound and the worker budget hold whatever is *)
(* launched, settled, refused or lost.                                     *)
WithinBudget ==
    /\ Cardinality(inFlight) <= MaxConcurrentJobs
    /\ workersInUse <= MaxWorkers

(* #release: the budget is exactly what the attempts in flight were        *)
(* granted, so no sequence of settlements leaks or doubles a grant.        *)
GrantsAddUp ==
    /\ workersInUse = SumFunction(grants)
    /\ \A j \in Job : j \in inFlight <=> grants[j] > 0

(* grantWorkers, #release: no bound is passed, and none is used up by       *)
(* grants that were never given back.                                      *)
BudgetIsExact == WithinBudget /\ GrantsAddUp

InAttempt(j) == pc[j] \notin {"none", "launched", "ok", "err", "threw"}

(* A rejection nothing handles is on its way through this process.         *)
Rejecting == (\E j \in Job : pc[j] = "threw") \/ (\E t \in tasks : t.of = "rejected")

(* A document that says `running` while the process lives is being played  *)
(* by exactly one attempt of this process, past its `start` - or a write   *)
(* of its attempt failed, and then the process is about to end of it.      *)
RunningIsOwned ==
    \A j \in Job : up /\ jobs[j].status = "running"
                     => \/ j \in inFlight /\ InAttempt(j)
                        \/ j \in lost /\ Rejecting

(* #launch: an attempt that threw takes the process with it, so that the   *)
(* next start finds the document it left and interrupts it.                *)
LostEndsProcess == (lost # {}) ~> ~ up

(* #settle: a run that stopped because it was asked finds a settling state *)
(* under it, so `stoppedWithoutRequest` is never how a job fails.          *)
StoppedRunHasRequest ==
    \A j \in Job : pc[j] \in {"settle_stop", "pause_settled", "cancel_settled"}
                     => jobs[j].status \in {"pausing", "cancelling"}

(* #batchReleased: no job of a draft batch is launched, ever started or    *)
(* given workers.                                                          *)
HeldBack == \A j \in Job : ~ Released(j) => j \notin inFlight /\ ~ jobs[j].startedAt

(* A completed experiment has its result attached, through every pause,    *)
(* crash and retry that led there.                                         *)
CompletedHasResult ==
    \A j \in Job \ Adaptive : jobs[j].status = "completed" => jobs[j].result

(* reconcileBatch: a batch leaves `queued` only once a member started or   *)
(* every member is terminal.                                               *)
BatchStartIsTrue ==
    \A b \in Batch : batches[b] \in {"running", "completed"}
                       => Started(b) \/ Finished(b)

(* How an attempt has decided to end once it has read its document for the *)
(* last time.                                                              *)
Verdict(j) ==
    CASE pc[j] = "complete"       -> "completed"
      [] pc[j] = "pause_settled"  -> "paused"
      [] pc[j] = "cancel_settled" -> "cancelled"
      [] pc[j] = "fail"           -> "failed"
      [] OTHER                    -> "open"

(* The queue implements the contract: the statuses of the documents, and   *)
(* the attempts between their start and their settlement.                  *)
Contract == INSTANCE JobContract WITH
                status <- [j \in Job |-> jobs[j].status],
                playing <- {j \in Job : InAttempt(j)},
                verdict <- [j \in Job |-> Verdict(j)],
                alive <- up

(* Every step of the queue, the runner, the operator and a crash is a step *)
(* of JobContract or changes nothing it speaks of.                         *)
ImplementsContract == Contract!Spec

Quiescent ==
    up /\ fill = "idle" /\ fills = 0 /\ inFlight = {} /\ tasks = {}

(* A job that could start is started or withdrawn in the end, unless the   *)
(* process ends or older rows that cannot start fill the page.             *)
StartableStarts ==
    \A j \in Job : (j \in Queued /\ Startable(j) /\ pumped)
                     ~> (j \notin Queued \/ ~ up \/ PageBlocked)

(* #nextStartable: "if any queued job is not one of them it is inside the  *)
(* first maxConcurrentJobs + 1 rows of the ordering": when everything this *)
(* process scheduled has settled and no attempt is in flight, no queued    *)
(* job it could start is left behind.                                      *)
IdleQueueIsEmpty ==
    Quiescent /\ pumped => \A j \in Queued : ~ Startable(j)

(* #launch: "`run` reports refusals as values rather than throwing": no    *)
(* document is left running behind an attempt that is over.                *)
RunningIsPlayed ==
    \A j \in Job : up /\ jobs[j].status = "running" => j \in inFlight

(* #ask: the job behind a stop that has not settled is one this process is *)
(* running.                                                                *)
StopIsOwned ==
    \A j \in Job : up /\ jobs[j].status \in {"pausing", "cancelling"} => j \in inFlight

(* #unstartable: "a job that is still queued after being refused should    *)
(* not exist".                                                             *)
RefusedLeavesQueue == unstartable \cap Queued = {}

(* reconcileBatch: a released batch whose every job is terminal does not   *)
(* stay `queued` once everything has settled.                              *)
FinishedBatchLeavesQueue ==
    \A b \in Batch : Quiescent /\ Members(b) # {} /\ Finished(b) => batches[b] # "queued"

(* reconcileBatch: "moves a batch as far as its members justify, and no    *)
(* further"; `complete` once every member is terminal.                     *)
BatchMovesAsJustified ==
    [][\A b \in Batch : batches[b] # "completed" /\ batches'[b] = "completed"
                            => Finished(b)']_vars
=============================================================================
