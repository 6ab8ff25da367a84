----------------------------- MODULE CatalogStore -----------------------------
(***************************************************************************)
(* The file catalog of apps/admin-server/src/catalog: one JSON document    *)
(* per batch and per job, a stored configuration and an event log per job, *)
(* and saved test configurations.  An operation of the store is several    *)
(* writes under the lock of one document; here each write is an action, so *)
(* that other callers, a failing write and a crash come between any two.   *)
(***************************************************************************)
EXTENDS JobLifecycle, Integers, Sequences

CONSTANTS
    Batch,
    Job,                    \* identities, numbers so that they have an order
    Time,                   \* readings of the clock, which may also go back
    Client,                 \* callers of the store in the one process
    PageLimit,              \* rows of one page of a listing
    MAX_SAVED_CHOICES,
    Actions, BatchActions,  \* the lifecycle actions callers ask for
    \* Bounds of the model
    MaxChanges,             \* logged changes of one job
    MaxCalls,               \* calls begun, tours of the list among them
    MaxFailures             \* crashes of the process and writes that fail

ASSUME CatalogConstants ==
    /\ Job \subseteq Nat
    /\ Time \subseteq Nat /\ Time # {} /\ Batch # {}
    /\ PageLimit \in Nat \ {0}
    /\ MAX_SAVED_CHOICES \in Nat
    /\ Actions \subseteq JobActions
    /\ MaxChanges \in Nat /\ MaxCalls \in Nat /\ MaxFailures \in Nat

VARIABLES
    mode,           \* the process: down, opening (recovering), or serving
    batches,        \* batch documents; no file while the status is "none"
    configs,        \* the jobs with a stored configuration
    stored,         \* the jobs with a document
    jobs,           \* the documents of the stored jobs
    logs,           \* events/<job>.jsonl, line by line
    calls,          \* what each caller is in the middle of
    saved,          \* how many saved choices there are
    traversal,      \* one client reading the job list page by page
    asked,          \* calls begun so far
    failures,       \* crashes and failed writes so far
    gaps            \* history: events that a crash or a failure kept from a log

files == <<batches, configs, stored, jobs, logs, saved>>
bounds == <<asked, failures, gaps>>
vars == <<mode, batches, configs, stored, jobs, logs, calls, saved, traversal,
          asked, failures, gaps>>

-----------------------------------------------------------------------------
BatchDocument == [status : BatchStatuses \cup {"none"}, members : Seq(Job)]

(* `changes` counts the logged changes of the document: it stands for the  *)
(* instant `updatedAt`, which is also the instant of the event.            *)
CatalogJob == [life : JobDocument, batch : Batch, createdAt : Time,
               execution : BOOLEAN, changes : Nat]

Kinds == {"created", "transition", "annotated", "result_attached"}
Event == [kind : Kinds, change : Nat, to : JobStatuses]

(* A line of a log: readable, or not; ended by its newline, or not.        *)
Line == [event : Event, readable : BOOLEAN, ended : BOOLEAN]

NoCall == [op |-> "none"]
CreateCall == [op : {"create"}, at : {"config", "job", "member", "append"},
               batch : Batch, job : Job, now : Time, members : Seq(Job)]
RewriteCall == [op : {"rewrite"}, batch : Batch, next : BatchDocument]
ChangeCall == [op : {"change"}, at : {"write", "append"}, job : Job,
               next : CatalogJob, logged : BOOLEAN, event : Event]
SaveCall == [op : {"save"}]

Cursor == [at : Int, id : Int]
Traversal == [open : BOOLEAN, left : SUBSET Job, shown : SUBSET Job,
              again : BOOLEAN, cursor : Cursor]

(* Every file and every call has the shape the schemas give it.            *)
TypeOK ==
    /\ mode \in {"down", "opening", "serving"}
    /\ batches \in [Batch -> BatchDocument]
    /\ configs \subseteq Job
    /\ stored \subseteq Job
    /\ jobs \in [Job -> CatalogJob]
    /\ logs \in [Job -> Seq(Line)]
    /\ calls \in [Client -> {NoCall} \cup CreateCall \cup RewriteCall \cup ChangeCall
                              \cup SaveCall]
    /\ saved \in Nat
    /\ traversal \in Traversal
    /\ asked \in 0..MaxCalls
    /\ failures \in 0..MaxFailures
    /\ gaps \in [Job -> Nat]

(* A new job: queued, in its batch, as of one reading of the clock.        *)
Fresh(b, now) == [life |-> NewDocument, batch |-> b, createdAt |-> now,
                  execution |-> FALSE, changes |-> 0]

Start == [at |-> -1, id |-> -1]
NoTraversal == [open |-> FALSE, left |-> {}, shown |-> {}, again |-> FALSE,
                cursor |-> Start]

Init ==
    /\ mode = "opening"
    /\ batches = [b \in Batch |-> [status |-> "none", members |-> <<>>]]
    /\ configs = {} /\ stored = {}
    /\ jobs = [j \in Job |-> Fresh(CHOOSE b \in Batch : TRUE, CHOOSE t \in Time : TRUE)]
    /\ logs = [j \in Job |-> <<>>]
    /\ calls = [c \in Client |-> NoCall]
    /\ saved = 0
    /\ traversal = NoTraversal
    /\ asked = 0 /\ failures = 0
    /\ gaps = [j \in Job |-> 0]

-----------------------------------------------------------------------------
(* KeyedMutex: one task at a time per document.                            *)

(* Mutants: a read-modify-write without the lock of its document.          *)
MutBatchFree(b) == TRUE
MutJobFree(j) == TRUE

BatchFree(b) == \A c \in Client : calls[c].op \in {"create", "rewrite"} => calls[c].batch # b
JobFree(j) == \A c \in Client : calls[c].op = "change" => calls[c].job # j

Idle(c) == calls[c].op = "none"
AllIdle == \A c \in Client : Idle(c)
Call(c, call) == calls' = [calls EXCEPT ![c] = call]
Goto(c, stage) == calls' = [calls EXCEPT ![c].at = stage]
Return(c) == Call(c, NoCall)
Asks == mode = "serving" /\ asked < MaxCalls /\ asked' = asked + 1
Asked == <<mode, files, traversal, failures, gaps>>

(* appendJsonLine: what follows a line without its newline becomes part of *)
(* that line, and nobody can read either.                                  *)
Garbage(line) == [line EXCEPT !.readable = FALSE, !.ended = TRUE]
NewLine(event) == [event |-> event, readable |-> TRUE, ended |-> TRUE]
(* Mutant: the log is written over instead of appended to.                 *)
MutAppended(log, event) == <<NewLine(event)>>

Appended(log, event) ==
    IF log # <<>> /\ ~ log[Len(log)].ended
    THEN [log EXCEPT ![Len(log)] = Garbage(@)]
    ELSE Append(log, NewLine(event))

-----------------------------------------------------------------------------
(* Batches.                                                                *)

CreateBatch(b) ==
    /\ mode = "serving"
    /\ batches[b].status = "none"
    /\ batches' = [batches EXCEPT ![b].status = "draft"]
    /\ UNCHANGED <<mode, configs, stored, jobs, logs, calls, saved, traversal, bounds>>

(* applyBatchAction under the batch's lock: read and check the move.       *)
BatchActionReads(c, b, action) ==
    /\ Asks /\ Idle(c) /\ BatchFree(b)
    /\ Legal(BATCH_LIFECYCLE, batches[b].status, action)
    /\ Call(c, [op |-> "rewrite", batch |-> b,
                next |-> [batches[b] EXCEPT !.status = nextState(BATCH_LIFECYCLE, @, action)]])
    /\ UNCHANGED Asked

(* permutationProblem(...) is null: the same members, as many as before.   *)
Entries(seq) == {seq[i] : i \in DOMAIN seq}
IsPermutation(current, proposed) ==
    /\ Entries(current) = Entries(proposed)
    /\ Len(current) = Len(proposed)

(* reorderBatchJobs; the order asked for comes from an earlier reading, so *)
(* it may name any jobs.                                                   *)
ReorderReads(c, b, proposed) ==
    /\ Asks /\ Idle(c) /\ BatchFree(b)
    /\ batches[b].status = "draft"
    /\ IsPermutation(batches[b].members, proposed)
    /\ Call(c, [op |-> "rewrite", batch |-> b,
                next |-> [batches[b] EXCEPT !.members = proposed]])
    /\ UNCHANGED Asked

RewriteWrites(c) ==
    /\ calls[c].op = "rewrite"
    /\ batches' = [batches EXCEPT ![calls[c].batch] = calls[c].next]
    /\ Return(c)
    /\ UNCHANGED <<mode, configs, stored, jobs, logs, saved, traversal, bounds>>

-----------------------------------------------------------------------------
(* createJob and createAdaptiveJob: under the batch's lock, the            *)
(* configuration, the document, the membership, the event.                 *)

(* Mutant: nobody looks whether the identity is taken.                     *)
MutIsNew(j) == \A c \in Client : calls[c].op = "create" => calls[c].job # j

(* Identities are minted at random, so in no order.                        *)
IsNew(j) == /\ j \notin stored \cup configs
            /\ \A c \in Client : calls[c].op = "create" => calls[c].job # j

CreateJobReads(c, b, j, now) ==
    /\ Asks /\ Idle(c) /\ BatchFree(b)
    /\ batches[b].status = "draft"
    /\ IsNew(j)
    /\ Call(c, [op |-> "create", at |-> "config", batch |-> b, job |-> j, now |-> now,
                members |-> batches[b].members])
    /\ UNCHANGED Asked

Creating(c, stage) == calls[c].op = "create" /\ calls[c].at = stage

CreateJobConfig(c) ==
    /\ Creating(c, "config")
    /\ configs' = configs \cup {calls[c].job}
    /\ Goto(c, "job")
    /\ UNCHANGED <<mode, batches, stored, jobs, logs, saved, traversal, bounds>>

CreateJobDocument(c) ==
    /\ Creating(c, "job")
    /\ stored' = stored \cup {calls[c].job}
    /\ jobs' = [jobs EXCEPT ![calls[c].job] = Fresh(calls[c].batch, calls[c].now)]
    /\ Goto(c, "member")
    /\ UNCHANGED <<mode, batches, configs, logs, saved, traversal, bounds>>

CreateJobMember(c) ==
    /\ Creating(c, "member")
    /\ batches' = [batches EXCEPT ![calls[c].batch] =
                      [status |-> "draft", members |-> Append(calls[c].members, calls[c].job)]]
    /\ Goto(c, "append")
    /\ UNCHANGED <<mode, configs, stored, jobs, logs, saved, traversal, bounds>>

CreatedEvent == [kind |-> "created", change |-> 0, to |-> "queued"]

CreateJobAppends(c) ==
    /\ Creating(c, "append")
    /\ logs' = [logs EXCEPT ![calls[c].job] = Appended(@, CreatedEvent)]
    /\ Return(c)
    /\ UNCHANGED <<mode, batches, configs, stored, jobs, saved, traversal, bounds>>

-----------------------------------------------------------------------------
(* #mutateJob: under the job's lock, read and change, write the document,  *)
(* append the event.                                                       *)

NoEvent(j) == [kind |-> "annotated", change |-> jobs[j].changes, to |-> jobs[j].life.status]

Changes(c, j, next, logged, event) ==
    /\ Idle(c) /\ j \in stored /\ JobFree(j)
    /\ TimestampsAgree(next.life)
    /\ Call(c, [op |-> "change", at |-> "write", job |-> j, logged |-> logged,
                next |-> next, event |-> event])
    /\ UNCHANGED Asked

(* A change with an event of one kind.                                     *)
Logs(c, j, kind, life) ==
    LET n == jobs[j].changes + 1
    IN  Changes(c, j, [jobs[j] EXCEPT !.life = life, !.changes = n], TRUE,
                [kind |-> kind, change |-> n, to |-> life.status])

Serves(j) == Asks /\ jobs[j].changes < MaxChanges

ApplyJobAction(c, j, action) ==
    /\ Serves(j)
    /\ Legal(JOB_LIFECYCLE, jobs[j].life.status, action)
    /\ Logs(c, j, "transition", Applied(jobs[j].life, action))

SetJobAnnotations(c, j) == Serves(j) /\ Logs(c, j, "annotated", jobs[j].life)

AttachJobResult(c, j) ==
    Serves(j) /\ Logs(c, j, "result_attached", [jobs[j].life EXCEPT !.result = TRUE])

(* setJobExecution, setJobProgress: a change without an event.             *)
SetJobExecution(c, j) ==
    /\ Asks /\ ~ jobs[j].execution
    /\ Changes(c, j, [jobs[j] EXCEPT !.execution = TRUE], FALSE, NoEvent(j))

Changing(c, stage) == calls[c].op = "change" /\ calls[c].at = stage

ChangeWrites(c) ==
    /\ Changing(c, "write")
    /\ jobs' = [jobs EXCEPT ![calls[c].job] = calls[c].next]
    /\ IF calls[c].logged THEN Goto(c, "append") ELSE Return(c)
    /\ UNCHANGED <<mode, batches, configs, stored, logs, saved, traversal, bounds>>

ChangeAppends(c) ==
    /\ Changing(c, "append")
    /\ logs' = [logs EXCEPT ![calls[c].job] = Appended(@, calls[c].event)]
    /\ Return(c)
    /\ UNCHANGED <<mode, batches, configs, stored, jobs, saved, traversal, bounds>>

-----------------------------------------------------------------------------
(* createSavedChoice: the limit is checked on a listing, under no lock.    *)

SaveChecks(c) ==
    /\ Asks /\ Idle(c)
    /\ saved < MAX_SAVED_CHOICES
    /\ Call(c, [op |-> "save"])
    /\ UNCHANGED Asked

SaveWrites(c) ==
    /\ calls[c].op = "save"
    /\ saved' = saved + 1
    /\ Return(c)
    /\ UNCHANGED <<mode, batches, configs, stored, jobs, logs, traversal, bounds>>

-----------------------------------------------------------------------------
(* Listing jobs page by page.  A document never goes away and its position *)
(* never changes, so a page is decided by the names it starts from.        *)

Position(j) == [at |-> jobs[j].createdAt, id |-> j]
Before(p, q) == p.at < q.at \/ (p.at = q.at /\ p.id < q.id)

(* Mutant: a row of the cursor's own instant is taken for shown.           *)
MutIsAfter(p, cursor) == p.at > cursor.at

isAfter(p, cursor) == Before(cursor, p)

Remaining == {j \in stored : isAfter(Position(j), traversal.cursor)}
Items == {j \in Remaining :
            Cardinality({k \in Remaining : Before(Position(k), Position(j))}) < PageLimit}

(* left: the jobs there when the reading began and not shown so far.       *)
OpenTraversal ==
    /\ Asks /\ ~ traversal.open
    /\ traversal' = [NoTraversal EXCEPT !.open = TRUE, !.left = stored]
    /\ UNCHANGED <<mode, files, calls, failures, gaps>>

LastOf(rows) == CHOOSE j \in rows : \A k \in rows \ {j} : Before(Position(k), Position(j))

(* nextCursor is null when the rows left fit the page.                     *)
ListPage ==
    /\ mode = "serving" /\ traversal.open
    /\ traversal' =
         LET left == traversal.left \ Items
             again == traversal.again \/ Items \cap traversal.shown # {}
         IN  IF Items = Remaining
             THEN [NoTraversal EXCEPT !.left = left, !.again = again]
             ELSE [open |-> TRUE, left |-> left, again |-> again,
                   shown |-> traversal.shown \cup Items, cursor |-> Position(LastOf(Items))]
    /\ UNCHANGED <<mode, files, calls, bounds>>

-----------------------------------------------------------------------------
(* Failure, crash, restart.                                                *)

(* Who still owes the log of j a line about what its document shows.       *)
Owing(j) == {c \in Client : \/ Creating(c, "member") /\ calls[c].job = j
                            \/ Creating(c, "append") /\ calls[c].job = j
                            \/ Changing(c, "append") /\ calls[c].job = j}
EventOf(c) == IF calls[c].op = "create" THEN CreatedEvent ELSE calls[c].event
Appending(c) == Creating(c, "append") \/ Changing(c, "append")

(* What an append cut short leaves: a last line without its newline, which *)
(* may still be readable.                                                  *)
Torn(log, event, readable) ==
    IF log # <<>> /\ ~ log[Len(log)].ended
    THEN [log EXCEPT ![Len(log)].readable = FALSE]
    ELSE Append(log, [event |-> event, readable |-> readable, ended |-> FALSE])

(* No trace of the appends of cut, or of one of them per log.              *)
CutShort(cut) ==
    \/ UNCHANGED logs
    \/ \E c \in cut, readable \in BOOLEAN :
          /\ Appending(c)
          /\ logs' = [logs EXCEPT ![calls[c].job] = Torn(@, EventOf(c), readable)]

(* A write that fails rejects the call: what was written before it stays.  *)
(* openFileCatalogStore does not survive one.                              *)
Throws(c) ==
    /\ failures < MaxFailures /\ ~ Idle(c)
    /\ failures' = failures + 1
    /\ gaps' = [j \in Job |-> IF c \in Owing(j) THEN gaps[j] + 1 ELSE gaps[j]]
    /\ CutShort({c})
    /\ Return(c)
    /\ mode' = IF mode = "opening" THEN "down" ELSE mode
    /\ UNCHANGED <<batches, configs, stored, jobs, saved, traversal, asked>>

Crash ==
    /\ failures < MaxFailures /\ mode # "down"
    /\ failures' = failures + 1
    /\ gaps' = [j \in Job |-> gaps[j] + Cardinality(Owing(j))]
    /\ CutShort(Client)
    /\ calls' = [c \in Client |-> NoCall]
    /\ mode' = "down"
    /\ UNCHANGED <<batches, configs, stored, jobs, saved, traversal, asked>>

(* openFileCatalogStore: recovery interrupts what the documents show in    *)
(* progress, one job after the other, before anybody is served.            *)
Restart ==
    /\ mode = "down" /\ mode' = "opening"
    /\ UNCHANGED <<files, calls, traversal, bounds>>

InProgress == {j \in stored : jobs[j].life.status \in INTERRUPTIBLE_STATUSES}

Recover(c, j) ==
    /\ mode = "opening" /\ AllIdle /\ j \in InProgress
    /\ UNCHANGED asked
    /\ Logs(c, j, "transition", Applied(jobs[j].life, "interrupt"))

Opened ==
    /\ mode = "opening" /\ AllIdle /\ InProgress = {}
    /\ mode' = "serving"
    /\ UNCHANGED <<files, calls, traversal, bounds>>

-----------------------------------------------------------------------------
Orders == UNION {[1..n -> Job] : n \in 0..Cardinality(Job)}

BatchStep(c, b) ==
    \/ \E action \in BatchActions : BatchActionReads(c, b, action)
    \/ \E proposed \in Orders : ReorderReads(c, b, proposed)
    \/ \E j \in Job, now \in Time : CreateJobReads(c, b, j, now)

ChangeStep(c, j) ==
    \/ \E action \in Actions : ApplyJobAction(c, j, action)
    \/ SetJobAnnotations(c, j)
    \/ AttachJobResult(c, j)
    \/ SetJobExecution(c, j)
    \/ Recover(c, j)

CallStep(c) ==
    \/ RewriteWrites(c)
    \/ CreateJobConfig(c) \/ CreateJobDocument(c) \/ CreateJobMember(c) \/ CreateJobAppends(c)
    \/ ChangeWrites(c) \/ ChangeAppends(c)
    \/ SaveChecks(c) \/ SaveWrites(c)
    \/ Throws(c)

Next ==
    \/ \E b \in Batch : CreateBatch(b)
    \/ \E c \in Client : \/ CallStep(c)
                          \/ \E b \in Batch : BatchStep(c, b)
                          \/ \E j \in Job : ChangeStep(c, j)
    \/ OpenTraversal \/ ListPage
    \/ Crash \/ Restart \/ Opened

Spec == Init /\ [][Next]_vars

-----------------------------------------------------------------------------
(* Whatever fails or dies between two writes, a batch lists only jobs that *)
(* are there and are its own, each once, and every job has the             *)
(* configuration it will be run with: the order of createJob's writes      *)
(* (file-catalog-store.ts:427-441).                                        *)
MembersExist ==
    /\ stored \subseteq configs
    /\ \A b \in Batch :
         /\ Entries(batches[b].members) \subseteq {j \in stored : jobs[j].batch = b}
         /\ Cardinality(Entries(batches[b].members)) = Len(batches[b].members)

(* The log is never ahead of the document: a line that can be read is of a *)
(* change the document went through, in the order it did, and the line of  *)
(* the last change names the status the document has.  The line of a       *)
(* creation may come late.                                                 *)
LogIsHistory ==
    \A j \in Job :
        LET said(i) == logs[j][i].event
            lines == {i \in DOMAIN logs[j] : logs[j][i].readable}
        IN  /\ lines # {} => j \in stored
            /\ \A i \in lines : said(i).change <= jobs[j].changes
            /\ \A i \in lines : said(i).change = jobs[j].changes
                                   => said(i).to = jobs[j].life.status
            /\ \A i, k \in lines : i < k /\ said(k).kind # "created"
                                      => said(i).change < said(k).change

Readable(j) == {logs[j][i].event.change : i \in {n \in DOMAIN logs[j] : logs[j][n].readable}}

(* A log no crash and no failing write touched misses nothing but what is  *)
(* being appended: every change of the document is in it.                  *)
LogIsComplete ==
    \A j \in stored : gaps[j] = 0
        => Cardinality((0..jobs[j].changes) \ Readable(j)) <= Cardinality(Owing(j))

(* Two callers that read the same document never undo one another: a batch *)
(* loses no member and, once enqueued, keeps its order; a job keeps what   *)
(* was recorded of it.                                                     *)
NothingUndone ==
    [][/\ \A b \in Batch :
            /\ Entries(batches[b].members) \subseteq Entries(batches'[b].members)
            /\ batches[b].status \notin {"none", "draft"} =>
                 batches'[b].members = batches[b].members /\ batches'[b].status # "draft"
       /\ \A j \in stored :
            /\ j \in stored'
            /\ jobs[j].execution => jobs'[j].execution
            /\ jobs[j].life.result => jobs'[j].life.result
            /\ jobs[j].changes <= jobs'[j].changes]_vars

(* Reading the list to its end shows every job that was there when the     *)
(* reading began, and no job twice, whatever is created meanwhile and      *)
(* whichever way the clock goes.                                           *)
TraversalIsWhole ==
    /\ ~ traversal.open => traversal.left = {}
    /\ ~ traversal.again

(* "A job whose batch has not listed it yet is a job the next append will  *)
(* list" (file-catalog-store.ts:427-431).                                  *)
NextAppendLists ==
    [][\A b \in Batch : Len(batches'[b].members) > Len(batches[b].members)
        => {j \in stored : jobs[j].batch = b} \subseteq Entries(batches'[b].members)]_vars

(* "No other caller can hold a reference to an ID that has not been        *)
(* returned yet" (file-catalog-store.ts:364-366): the creation is the      *)
(* first line of a log.                                                    *)
CreatedFirst ==
    \A j \in Job : \A i \in DOMAIN logs[j] :
        logs[j][i].readable /\ logs[j][i].event.kind = "created" => i = 1

(* "This log is missing its last entry" (files.ts:198-200): an append that *)
(* is cut short costs that one line.                                       *)
OneLineLost ==
    \A j \in stored :
        Cardinality((0..jobs[j].changes) \ Readable(j)) <= gaps[j] + Cardinality(Owing(j))

(* The limit on saved configurations is "the most it lists".               *)
WithinSavedLimit == saved <= MAX_SAVED_CHOICES
=============================================================================
