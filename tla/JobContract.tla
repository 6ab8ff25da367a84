----------------------------- MODULE JobContract -----------------------------
(***************************************************************************)
(* What an operator is promised about a job, whoever schedules it: it is   *)
(* begun only from the queue and by one attempt at a time, under the       *)
(* concurrency bound; the attempt that plays it answers what was asked     *)
(* before it decided how to end; a dead process never leaves it looking    *)
(* alive, and an attempt lost to a failed write is on record as lost until *)
(* the process ends.                                                       *)
(***************************************************************************)
EXTENDS JobLifecycle

CONSTANTS Job, MaxConcurrentJobs

VARIABLES
    status,         \* of each job
    playing,        \* the jobs some attempt is playing
    verdict,        \* how each attempt has decided to end, or "open"
    lost,           \* the jobs whose attempt a failed write ended
    alive           \* the process

vars == <<status, playing, verdict, lost, alive>>

Init ==
    /\ status = [j \in Job |-> "queued"]
    /\ playing = {}
    /\ verdict = [j \in Job |-> "open"]
    /\ lost = {}
    /\ alive = TRUE

Becomes(j, statuses) == \E s \in statuses : status' = [status EXCEPT ![j] = s]

Begin(j) ==
    /\ alive /\ j \notin playing /\ Cardinality(playing) < MaxConcurrentJobs
    /\ status[j] = "queued" /\ Becomes(j, {"running"})
    /\ playing' = playing \cup {j}
    /\ UNCHANGED <<verdict, lost, alive>>

(* Asked to stop: a cancel may follow a pause, never the reverse.          *)
AskToStop(j) ==
    /\ alive
    /\ \/ status[j] = "running" /\ Becomes(j, {"pausing", "cancelling"})
       \/ status[j] = "pausing" /\ Becomes(j, {"cancelling"})
    /\ UNCHANGED <<playing, verdict, lost, alive>>

(* The end each status asks for.                                           *)
Answers(j) ==
    CASE status[j] = "running"    -> {"completed"}
      [] status[j] = "pausing"    -> {"paused"}
      [] status[j] = "cancelling" -> {"cancelled"}
      [] OTHER                    -> {}

(* An attempt looks at what is asked of it for the last time.              *)
Decide(j) ==
    /\ alive /\ j \in playing /\ verdict[j] = "open"
    /\ \E end \in Answers(j) \cup {"failed"} : verdict' = [verdict EXCEPT ![j] = end]
    /\ UNCHANGED <<status, playing, lost, alive>>

Ends(j) ==
    /\ alive /\ j \in playing
    /\ playing' = playing \ {j}
    /\ verdict' = [verdict EXCEPT ![j] = "open"]
    /\ UNCHANGED alive

Settled(j) == verdict[j] \in Answers(j) \cup {"failed"} /\ Becomes(j, {verdict[j]})

Settle(j) == Ends(j) /\ Settled(j) /\ UNCHANGED lost

(* Asked to stop after it had decided: it ends without an answer.          *)
Abandon(j) ==
    /\ Ends(j)
    /\ verdict[j] \notin Answers(j) \cup {"open", "failed"}
    /\ UNCHANGED <<status, lost>>

(* A write of the attempt fails, before or after the document changed.     *)
Lose(j) ==
    /\ lost' = lost \cup {j}
    /\ \/ Ends(j) /\ (Settled(j) \/ UNCHANGED status)
       \/ /\ alive /\ j \notin playing
          /\ status[j] = "queued" /\ Becomes(j, {"queued", "running"})
          /\ UNCHANGED <<playing, verdict, alive>>

Withdraw(j) ==
    /\ alive /\ j \notin playing
    /\ status[j] \in {"queued", "paused", "interrupted"} /\ Becomes(j, {"cancelled"})
    /\ UNCHANGED <<playing, verdict, lost, alive>>

Requeue(j) ==
    /\ alive /\ j \notin playing
    /\ status[j] \in {"paused", "interrupted", "failed"} /\ Becomes(j, {"queued"})
    /\ UNCHANGED <<playing, verdict, lost, alive>>

Die ==
    /\ alive /\ alive' = FALSE
    /\ playing' = {} /\ lost' = {}
    /\ verdict' = [j \in Job |-> "open"]
    /\ UNCHANGED status

Return ==
    /\ ~ alive /\ alive' = TRUE
    /\ status' = [j \in Job |-> IF status[j] \in INTERRUPTIBLE_STATUSES
                                THEN "interrupted" ELSE status[j]]
    /\ UNCHANGED <<playing, verdict, lost>>

Next ==
    \/ \E j \in Job : \/ Begin(j) \/ AskToStop(j) \/ Decide(j)
                      \/ Settle(j) \/ Abandon(j) \/ Lose(j)
                      \/ Withdraw(j) \/ Requeue(j)
    \/ Die \/ Return

Spec == Init /\ [][Next]_vars
=============================================================================
