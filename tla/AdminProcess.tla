---------------------------- MODULE AdminProcess ----------------------------
(***************************************************************************)
(* The admin service as an operating system process: main.ts takes the     *)
(* lock, opens the catalog (which recovers what a dead process left in     *)
(* progress), serves operators, and on a signal closes its server and      *)
(* gives the lock back.  Composes OrchestratorLock with what JobContract   *)
(* says of a queue, of which every process has its own; the documents are  *)
(* files, and all processes see the same.                                  *)
(*                                                                         *)
(* A signal ends the serving of requests and nothing else: attempts go on, *)
(* and a fill that follows one begins the next queued job.                 *)
(***************************************************************************)
EXTENDS OrchestratorLock, JobLifecycle

CONSTANTS
    Job, MaxConcurrentJobs,
    Verbs,          \* what operators ask for: pause, cancel, resume, retry
    MaxAsks         \* bound of the model: requests that move a job

ASSUME ProcessConstants ==
    /\ Verbs \subseteq {"pause", "cancel", "resume", "retry"}
    /\ MaxConcurrentJobs \in Nat
    /\ MaxAsks \in Nat

VARIABLES
    docs,           \* the status in each job's document
    opened,         \* the processes that have opened the catalog
    filling,        \* those whose queue has a fill to do
    attempts,       \* the jobs each process is running
    asks            \* requests so far

queues == <<docs, opened, filling, attempts, asks>>
processVars == <<vars, queues>>

ProcessTypeOK ==
    /\ TypeOK
    /\ docs \in [Job -> JobStatuses]
    /\ opened \subseteq Proc
    /\ filling \subseteq opened
    /\ attempts \in [Proc -> SUBSET Job]
    /\ asks \in 0..MaxAsks

(* The last process may have died with work in progress.                   *)
ProcessInit ==
    /\ Init
    /\ docs \in [Job -> {"queued", "running"}]
    /\ opened = {} /\ filling = {}
    /\ attempts = [p \in Proc |-> {}]
    /\ asks = 0

-----------------------------------------------------------------------------
(* The lock's own steps, but for the end of a process.                     *)
LockStep(p) ==
    /\ \/ Start(p) \/ tryCreateLock(p) \/ LinkRefused(p) \/ ClassifyRefusal(p)
       \/ Close(p) \/ ReleaseRead(p) \/ ReleaseRemove(p)
       \/ StartRecovery(p) \/ CheckStale(p) \/ RemoveStale(p)
    /\ UNCHANGED queues

(* A process ends with its attempts; the documents stay as they are.       *)
Dies(p) ==
    /\ Exit(p)
    /\ opened' = opened \ {p} /\ filling' = filling \ {p}
    /\ attempts' = [attempts EXCEPT ![p] = {}]
    /\ UNCHANGED <<docs, asks>>

(* openFileCatalogStore, after the lock is held and before anybody is      *)
(* served.  Nothing resumes by itself.                                     *)
Opens(p) ==
    /\ phase[p] = "held" /\ p \notin opened
    /\ opened' = opened \cup {p}
    /\ docs' = [j \in Job |-> IF docs[j] \in INTERRUPTIBLE_STATUSES
                              THEN nextState(JOB_LIFECYCLE, docs[j], "interrupt")
                              ELSE docs[j]]
    /\ UNCHANGED <<vars, filling, attempts, asks>>

Moved(j, action) ==
    IF Legal(JOB_LIFECYCLE, docs[j], action)
    THEN [docs EXCEPT ![j] = nextState(JOB_LIFECYCLE, @, action)]
    ELSE docs

(* A request of an operator, served until the signal.                      *)
Serves(p) == phase[p] = "held" /\ p \in opened

Ask(p, j, verb) ==
    /\ Serves(p)
    /\ asks < MaxAsks /\ asks' = asks + 1
    /\ Legal(JOB_LIFECYCLE, docs[j], verb)
    /\ docs' = Moved(j, verb)
    /\ filling' = filling \cup (IF verb \in {"resume", "retry"} THEN {p} ELSE {})
    /\ UNCHANGED <<vars, opened, attempts>>

(* A batch is started: whatever it has queued may begin.                   *)
Release(p) ==
    /\ Serves(p) /\ p \notin filling
    /\ filling' = filling \cup {p}
    /\ UNCHANGED <<vars, docs, opened, attempts, asks>>

HasRoom(p) == Cardinality(attempts[p]) < MaxConcurrentJobs
Startable(p) == {j \in Job \ attempts[p] : docs[j] = "queued"}

Begin(p, j) ==
    /\ p \in filling /\ HasRoom(p) /\ j \in Startable(p)
    /\ docs' = Moved(j, "start")
    /\ attempts' = [attempts EXCEPT ![p] = @ \cup {j}]
    /\ UNCHANGED <<vars, opened, filling, asks>>

FillDone(p) ==
    /\ p \in filling
    /\ ~ HasRoom(p) \/ Startable(p) = {}
    /\ filling' = filling \ {p}
    /\ UNCHANGED <<vars, docs, opened, attempts, asks>>

(* An attempt ends and schedules a fill; what it writes is refused when    *)
(* the document has moved.                                                 *)
Settles(p, j) ==
    /\ j \in attempts[p]
    /\ \E action \in {"complete", "fail", SettleActionFor(docs[j])} : docs' = Moved(j, action)
    /\ attempts' = [attempts EXCEPT ![p] = @ \ {j}]
    /\ filling' = filling \cup {p}
    /\ UNCHANGED <<vars, opened, asks>>

QueueStep(p) ==
    \/ Opens(p) \/ Release(p) \/ FillDone(p)
    \/ \E j \in Job : \/ \E verb \in Verbs : Ask(p, j, verb)
                      \/ Begin(p, j) \/ Settles(p, j)

ProcessNext == \E p \in Proc : LockStep(p) \/ Dies(p) \/ QueueStep(p)

ProcessSpec == ProcessInit /\ [][ProcessNext]_processVars

-----------------------------------------------------------------------------
(* What the lock is for: never do two processes "run the same job, each    *)
(* opening the same experiment directory under two independent worker      *)
(* budgets" (lock.ts:20-22).                                               *)
RunsOnce ==
    \A p, q \in Proc : attempts[p] \cap attempts[q] # {} => p = q

(* And it is kept but for one case: one of the two has been told to stop,  *)
(* has given the lock back (main.ts:145-150) and goes on nevertheless.     *)
OnlyLeftBehind ==
    \A p, q \in Proc : attempts[p] \cap attempts[q] # {}
        => p = q \/ phase[p] = "released" \/ phase[q] = "released"
=============================================================================
