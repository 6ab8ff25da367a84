---------------------------- MODULE JobLifecycle ----------------------------
(***************************************************************************)
(* The two transition tables of packages/admin-contracts/src/lifecycle.ts, *)
(* the queries derived from them, and the instants a status requires       *)
(* (catalog.ts).  Every module about jobs and batches reads these tables,  *)
(* as the store, the queue and the screens of the source do.               *)
(***************************************************************************)
EXTENDS Naturals, FiniteSets

Row(action, from, to) == [action |-> action, from |-> from, to |-> to]

JobStatuses == {"queued", "running", "pausing", "paused", "cancelling",
                "interrupted", "completed", "failed", "cancelled"}
JobActions == {"start", "pause", "pause_settled", "resume", "cancel",
               "cancel_settled", "interrupt", "complete", "fail", "retry"}

JOB_TRANSITIONS ==
    { Row("start", "queued", "running"),
      Row("pause", "running", "pausing"),
      Row("pause_settled", "pausing", "paused"),
      Row("resume", "paused", "queued"),
      Row("resume", "interrupted", "queued"),
      Row("cancel", "queued", "cancelled"),
      Row("cancel", "running", "cancelling"),
      Row("cancel", "pausing", "cancelling"),
      Row("cancel", "paused", "cancelled"),
      Row("cancel", "interrupted", "cancelled"),
      Row("cancel_settled", "cancelling", "cancelled"),
      Row("interrupt", "running", "interrupted"),
      Row("interrupt", "pausing", "interrupted"),
      Row("interrupt", "cancelling", "interrupted"),
      Row("complete", "running", "completed"),
      Row("fail", "running", "failed"),
      Row("fail", "pausing", "failed"),
      Row("fail", "cancelling", "failed"),
      Row("retry", "failed", "queued") }

JOB_LIFECYCLE ==
    [initial |-> "queued", states |-> JobStatuses, transitions |-> JOB_TRANSITIONS,
     terminal |-> {"completed", "failed", "cancelled"}]

BatchStatuses == {"draft", "queued", "running", "pausing", "paused",
                  "cancelling", "completed", "cancelled"}

BATCH_TRANSITIONS ==
    { Row("enqueue", "draft", "queued"),
      Row("start", "queued", "running"),
      Row("pause", "running", "pausing"),
      Row("pause_settled", "pausing", "paused"),
      Row("resume", "paused", "queued"),
      Row("cancel", "draft", "cancelled"),
      Row("cancel", "queued", "cancelled"),
      Row("cancel", "running", "cancelling"),
      Row("cancel", "pausing", "cancelling"),
      Row("cancel", "paused", "cancelled"),
      Row("cancel_settled", "cancelling", "cancelled"),
      Row("complete", "running", "completed") }

BATCH_LIFECYCLE ==
    [initial |-> "draft", states |-> BatchStatuses, transitions |-> BATCH_TRANSITIONS,
     terminal |-> {"completed", "cancelled"}]

-----------------------------------------------------------------------------
Moves(model, from, action) ==
    {t \in model.transitions : t.from = from /\ t.action = action}

Legal(model, from, action) == Moves(model, from, action) # {}

(* Where an action leads; asked only of legal ones.                        *)
nextState(model, from, action) == (CHOOSE t \in Moves(model, from, action) : TRUE).to

(* The states reachable without ever taking one named action: a fixed      *)
(* point, reached after as many rounds as there are states.                *)
reachableStates(model, without) ==
    LET grow(S) == S \cup {t.to : t \in {r \in model.transitions :
                                           r.action # without /\ r.from \in S}}
        seen[n \in 0..Cardinality(model.states)] ==
            IF n = 0 THEN {model.initial} ELSE grow(seen[n - 1])
    IN  seen[Cardinality(model.states)]

isTerminalJobStatus(status) == status \in JOB_LIFECYCLE.terminal

JOB_STATUSES_REQUIRING_START == JobStatuses \ reachableStates(JOB_LIFECYCLE, "start")

(* The statuses a restart finds work in.                                   *)
INTERRUPTIBLE_STATUSES == {s \in JobStatuses : Legal(JOB_LIFECYCLE, s, "interrupt")}

-----------------------------------------------------------------------------
(* A job document, with the fields the lifecycle decides.                  *)
JobDocument == [status : JobStatuses, startedAt : BOOLEAN, completedAt : BOOLEAN,
                failure : BOOLEAN, result : BOOLEAN]

NewDocument == [status |-> "queued", startedAt |-> FALSE, completedAt |-> FALSE,
                failure |-> FALSE, result |-> FALSE]

(* statusTimestampProblems(...) is empty.                                  *)
TimestampsAgree(doc) ==
    /\ isTerminalJobStatus(doc.status) <=> doc.completedAt
    /\ doc.status \in JOB_STATUSES_REQUIRING_START => doc.startedAt

(* The document a status change produces; a failure is recorded with the   *)
(* `fail` action and forgotten when the job leaves `failed`.               *)
withStatus(doc, to) ==
    [status      |-> to,
     startedAt   |-> doc.startedAt \/ to = "running",
     completedAt |-> isTerminalJobStatus(to),
     failure     |-> to = "failed" \/ (doc.status # "failed" /\ doc.failure),
     result      |-> doc.result]

(* applyJobAction on one document: a legal move, or a refusal that writes  *)
(* nothing.                                                                *)
Applied(doc, action) ==
    IF Legal(JOB_LIFECYCLE, doc.status, action)
    THEN withStatus(doc, nextState(JOB_LIFECYCLE, doc.status, action))
    ELSE doc

SettleActionFor(status) ==
    CASE status = "pausing"    -> "pause_settled"
      [] status = "cancelling" -> "cancel_settled"
      [] OTHER                 -> "none"
=============================================================================
