------------------------------ MODULE MatchStream ------------------------------
(***************************************************************************)
(* The matches of one simulation run and the stream they are recorded in   *)
(* (apps/simulator: run-batch.ts, workers/pool.ts, reporting/match-store.ts*)
(* and sinks.ts, experiment.ts).  A run plays its batches one after the    *)
(* other, each on a pool of worker threads or in a loop of the main        *)
(* thread, appends the records to matches.jsonl through a buffer and at    *)
(* the end writes its documents.  It may be stopped, fail or die, and the  *)
(* next attempt goes on from what the stream holds.                        *)
(*                                                                         *)
(* The main thread runs one handler at a time, so an action is a handler   *)
(* up to the next write of a file: a crash may come before any write and   *)
(* cut it short.                                                           *)
(***************************************************************************)
EXTENDS Naturals, Sequences, FiniteSets, Functions

CONSTANTS
    Match,          \* what identifies a record: the match and its arm
    Schedule,       \* the batches of the run, each a sequence of matches
    Worker,         \* worker threads
    Main,           \* the main thread, when it plays the matches itself
    FlushEvery,     \* records buffered before a write (16 in the code)
    \* Bound of the model
    MaxAttempts

Entries(seq) == {seq[i] : i \in DOMAIN seq}
Scheduled == UNION {Entries(Schedule[i]) : i \in DOMAIN Schedule}

ASSUME StreamConstants ==
    /\ Schedule \in Seq(Seq(Match)) /\ Schedule # <<>>
    /\ Main \notin Worker /\ (Worker \cup {Main}) \cap Match = {}
    /\ Match \cap {"off", "starting", "idle"} = {}
    /\ (Worker \cup {Main}) \cap {"off", "starting", "idle"} = {}
    /\ FlushEvery \in Nat \ {0}
    /\ MaxAttempts \in Nat

(* Every match has a place of its own in the schedule.                     *)
ASSUME Distinct ==
    \A i, k \in DOMAIN Schedule : \A n \in DOMAIN Schedule[i], m \in DOMAIN Schedule[k] :
        Schedule[i][n] = Schedule[k][m] => i = k /\ n = m

VARIABLES
    \* On disk
    created,        \* matches.jsonl is there
    stream,         \* its whole lines
    torn,           \* half a line follows them
    header,         \* matches.header.json
    documents,      \* which of the documents of a finished run are there
    \* The attempt that runs, if one does
    at,             \* what the main thread is at; "idle" between attempts
    threads,        \* how many matches it may have in play: its workers
    left,           \* records read and still to be written again
    known,          \* the identities the store has
    buffer,         \* lines appended and not yet on disk
    arm,            \* the batch that is played
    jobs,           \* the places in it nobody has taken yet
    playing,        \* what each thread is at: a match, or
                    \* "off", "starting", "idle"
    asked,          \* somebody asked this attempt to stop
    stoppedFor,     \* the batch has seen that
    abnormal,       \* a match of the batch failed or ended abnormally
    fresh,          \* outcome.records of the batch
    failed,         \* matches this attempt could not run
    taken,          \* history: matches this attempt handed out
    failFast,       \* of the configuration
    result,         \* how the last attempt ended
    attempts

disk == <<created, stream, torn, header, documents>>
batch == <<arm, jobs, playing, stoppedFor, abnormal, fresh, failed, taken>>
vars == <<disk, at, threads, left, known, buffer, batch, asked, failFast, result, attempts>>

Threads == Worker \cup {Main}
Documents == {"manifest", "summary", "report"}
Places == {"idle", "rewriting", "header", "arm", "batch", "closing", "flush"} \cup Documents

(* The stream, the store and the threads have the shapes the code gives    *)
(* them; the buffer never outgrows the interval it is flushed at.          *)
TypeOK ==
    /\ created \in BOOLEAN /\ torn \in BOOLEAN
    /\ stream \in Seq(Match)
    /\ header \in {"none", "torn", "whole"}
    /\ documents \subseteq Documents
    /\ at \in Places
    /\ threads \subseteq Worker
    /\ left \in Seq(Match)
    /\ known \subseteq Match
    /\ buffer \in Seq(Match) /\ Len(buffer) <= FlushEvery
    /\ arm \in DOMAIN Schedule
    /\ jobs \subseteq DOMAIN Schedule[arm]
    /\ playing \in [Threads -> Match \cup {"off", "starting", "idle"}]
    /\ asked \in BOOLEAN /\ stoppedFor \in BOOLEAN /\ abnormal \in BOOLEAN
    /\ fresh \subseteq Match /\ failed \subseteq Match /\ taken \subseteq Match
    /\ failFast \in BOOLEAN
    /\ result \in {"none", "stopped", "failed", "completed"}
    /\ attempts \in 0..MaxAttempts

AllOff == [t \in Threads |-> "off"]
InPlay == {t \in Threads : playing[t] \in Match}

Init ==
    /\ created = FALSE /\ stream = <<>> /\ torn = FALSE
    /\ header = "none" /\ documents = {}
    /\ at = "idle" /\ threads = {} /\ left = <<>> /\ known = {} /\ buffer = <<>>
    /\ arm = 1 /\ jobs = {} /\ playing = AllOff
    /\ asked = FALSE /\ stoppedFor = FALSE /\ abnormal = FALSE
    /\ fresh = {} /\ failed = {} /\ taken = {}
    /\ failFast \in BOOLEAN
    /\ result = "none" /\ attempts = 0

-----------------------------------------------------------------------------
(* JsonlWriter: appendFileSync of the whole buffer.  What follows half a   *)
(* line is part of that line, and readJsonl drops both.                    *)

Full == Len(buffer) = FlushEvery

AppendLines(lines) ==
    /\ stream' = stream \o (IF torn THEN Tail(lines) ELSE lines)
    /\ torn' = FALSE

Flushed == IF buffer = <<>> THEN UNCHANGED <<stream, torn>> ELSE AppendLines(buffer)

Flush ==
    /\ Full
    /\ Flushed
    /\ buffer' = <<>>
    /\ UNCHANGED <<created, header, documents, at, threads, left, known, batch,
                   asked, failFast, result, attempts>>

-----------------------------------------------------------------------------
(* MatchStore.  An attempt of the admin server's runner always resumes:    *)
(* what the stream holds is read, the file is emptied and written again.   *)

NewAttempt ==
    /\ at = "idle" /\ result # "completed"
    /\ attempts < MaxAttempts /\ attempts' = attempts + 1
    /\ asked' = FALSE /\ failed' = {} /\ taken' = {}
    /\ UNCHANGED <<header, documents, arm, jobs, playing, stoppedFor, abnormal, fresh, failFast>>

Truncated == torn' = FALSE

OpenFresh(workers) ==
    /\ NewAttempt /\ ~ created
    /\ created' = TRUE
    /\ at' = "header" /\ threads' = workers /\ result' = "none"
    /\ known' = {}
    /\ UNCHANGED <<stream, torn, left, buffer>>

OpenResumed(workers) ==
    /\ NewAttempt /\ created /\ header = "whole"
    /\ known' = Entries(stream) /\ left' = stream
    /\ stream' = <<>> /\ Truncated
    /\ at' = "rewriting" /\ threads' = workers /\ result' = "none"
    /\ UNCHANGED <<created, buffer>>

(* assertNoDrift: without a header that can be read nothing is resumed.    *)
OpenRefused ==
    /\ NewAttempt /\ created /\ header # "whole"
    /\ result' = "failed"
    /\ UNCHANGED <<created, stream, torn, at, threads, left, known, buffer>>

Chunk == SubSeq(left, 1, IF Len(left) < FlushEvery THEN Len(left) ELSE FlushEvery)

Rewrite ==
    /\ at = "rewriting"
    /\ IF left = <<>>
       THEN at' = "header" /\ UNCHANGED <<stream, torn, left>>
       ELSE /\ AppendLines(Chunk)
            /\ left' = SubSeq(left, Len(Chunk) + 1, Len(left))
            /\ UNCHANGED at
    /\ UNCHANGED <<created, header, documents, threads, known, buffer, batch,
                   asked, failFast, result, attempts>>

WriteHeader ==
    /\ at = "header"
    /\ header' = "whole"
    /\ at' = "arm" /\ arm' = 1
    /\ UNCHANGED <<created, stream, torn, documents, threads, left, known, buffer, jobs,
                   playing, stoppedFor, abnormal, fresh, failed, taken, asked, failFast,
                   result, attempts>>

-----------------------------------------------------------------------------
(* runBatch: what the stream has under this arm is done; the rest is       *)
(* played, on the pool when there is more than one worker and one match.   *)

(* Mutant: what the stream has is played again.                            *)
MutPending(schedule) == DOMAIN schedule

Pending(schedule) == {n \in DOMAIN schedule : schedule[n] \notin known}

Pooled == Cardinality(threads) > 1 /\ Cardinality(Pending(Schedule[arm])) > 1

(* As many threads as there are matches for, spawned before any is ready.  *)
Spawned(workers) ==
    /\ workers \subseteq threads
    /\ Cardinality(workers) <= Cardinality(Pending(Schedule[arm]))
    /\ \/ workers = threads
       \/ Cardinality(workers) = Cardinality(Pending(Schedule[arm]))

StartBatch ==
    /\ at = "arm" /\ at' = "batch"
    /\ jobs' = Pending(Schedule[arm])
    /\ stoppedFor' = FALSE /\ abnormal' = FALSE /\ fresh' = {}
    /\ \/ ~ Pooled /\ playing' = [AllOff EXCEPT ![Main] = "idle"]
       \/ /\ Pooled
          /\ \E workers \in SUBSET threads :
                /\ Spawned(workers)
                /\ playing' = [t \in Threads |-> IF t \in workers THEN "starting" ELSE "off"]
    /\ UNCHANGED <<disk, threads, left, known, buffer, arm, failed, taken, asked,
                   failFast, result, attempts>>

(* accept: the record, if there is one, goes to the store.                 *)
Outcomes == {"normal", "abnormal", "failed"}

Accept(match, outcome) ==
    /\ abnormal' = (abnormal \/ outcome # "normal")
    /\ IF outcome = "failed"
       THEN failed' = failed \cup {match} /\ UNCHANGED <<fresh, known, buffer>>
       ELSE /\ fresh' = fresh \cup {match}
            /\ known' = known \cup {match}
            /\ buffer' = IF match \in known THEN buffer ELSE Append(buffer, match)
            /\ UNCHANGED failed

(* shouldStop is asked while there is a match left to hand out, and its    *)
(* answer remembered.                                                      *)
SeesStop == stoppedFor' = (stoppedFor \/ (asked /\ jobs # {}))

NoMoreWork == jobs = {} \/ stoppedFor \/ asked

NobodyPlays(free) == \A t \in Threads : free[t] \notin Match

(* Mutant: the pool waits for work that is no longer handed out.           *)
MutPoolWaits(free) == jobs = {} /\ NobodyPlays(free)

PoolIsDone(free) == NoMoreWork /\ NobodyPlays(free)

(* The first match nobody has taken is handed out.                         *)
Takes(worker, free) ==
    \E n \in jobs :
        /\ \A k \in jobs : n <= k
        /\ playing' = [free EXCEPT ![worker] = Schedule[arm][n]]
        /\ jobs' = jobs \ {n} /\ taken' = taken \cup {Schedule[arm][n]}

(* dispatch: the next match, or the end of the pool, where every thread is *)
(* terminated, or nothing for this thread.                                 *)
Dispatch(worker, free) ==
    /\ SeesStop
    /\ \/ ~ NoMoreWork /\ Takes(worker, free) /\ UNCHANGED at
       \/ /\ NoMoreWork /\ PoolIsDone(free)
          /\ playing' = AllOff /\ at' = "closing"
          /\ UNCHANGED <<jobs, taken>>
       \/ /\ NoMoreWork /\ ~ PoolIsDone(free)
          /\ playing' = free
          /\ UNCHANGED <<jobs, taken, at>>

Handling == at = "batch" /\ ~ Full

WorkerReady(worker) ==
    /\ Handling /\ playing[worker] = "starting"
    /\ Dispatch(worker, [playing EXCEPT ![worker] = "idle"])
    /\ UNCHANGED <<disk, threads, left, known, buffer, arm, abnormal, fresh, failed,
                   asked, failFast, result, attempts>>

WorkerAnswers(worker, outcome) ==
    /\ Handling /\ worker # Main /\ playing[worker] \in Match
    /\ Accept(playing[worker], outcome)
    /\ Dispatch(worker, [playing EXCEPT ![worker] = "idle"])
    /\ UNCHANGED <<disk, threads, left, arm, asked, failFast, result, attempts>>

(* The attempt is over: what was buffered and what was played are gone.    *)
Ends(how) ==
    /\ at' = "idle" /\ result' = how
    /\ playing' = AllOff /\ jobs' = {} /\ left' = <<>> /\ buffer' = <<>>

(* A thread that cannot start, dies or sends what is not an answer.        *)
PoolFails(worker) ==
    /\ Handling /\ worker # Main /\ playing[worker] # "off"
    /\ Ends("failed")
    /\ UNCHANGED <<disk, threads, known, arm, stoppedFor, abnormal, fresh, failed, taken,
                   asked, failFast, attempts>>

(* The loop of the main thread: only here failFast ends a batch, and before*)
(* a stop is asked for again.                                              *)
FailedFast == failFast /\ abnormal

LoopTakes ==
    /\ Handling /\ playing[Main] = "idle"
    /\ IF FailedFast THEN UNCHANGED stoppedFor ELSE SeesStop
    /\ \/ ~ NoMoreWork /\ ~ FailedFast /\ Takes(Main, playing) /\ UNCHANGED at
       \/ /\ NoMoreWork \/ FailedFast
          /\ playing' = AllOff /\ at' = "closing"
          /\ UNCHANGED <<jobs, taken>>
    /\ UNCHANGED <<disk, threads, left, known, buffer, arm, abnormal, fresh, failed,
                   asked, failFast, result, attempts>>

MatchEnds(outcome) ==
    /\ Handling /\ playing[Main] \in Match
    /\ Accept(playing[Main], outcome)
    /\ playing' = [playing EXCEPT ![Main] = "idle"]
    /\ UNCHANGED <<disk, at, threads, left, arm, jobs, stoppedFor, taken, asked, failFast,
                   result, attempts>>

-----------------------------------------------------------------------------
(* After the last answer: a stop flushes the store and unwinds, anything   *)
(* else goes on to the next batch or to the documents.                     *)

(* Mutants: the stop unwinds and leaves the buffer; nobody looks for one.  *)
MutFlushedAtStop == UNCHANGED <<stream, torn>>
MutStopped == FALSE

FlushedAtStop == Flushed
Stopped == stoppedFor

BatchStops ==
    /\ at = "closing" /\ ~ Full /\ Stopped
    /\ FlushedAtStop
    /\ Ends("stopped")
    /\ UNCHANGED <<created, header, documents, threads, known, arm, stoppedFor, abnormal,
                   fresh, failed, taken, asked, failFast, attempts>>

BatchReturns ==
    /\ at = "closing" /\ ~ Full /\ ~ Stopped
    /\ IF arm < Len(Schedule) THEN at' = "arm" /\ arm' = arm + 1
                              ELSE at' = "manifest" /\ UNCHANGED arm
    /\ jobs' = {}
    /\ UNCHANGED <<disk, threads, left, known, buffer, playing, stoppedFor, abnormal,
                   fresh, failed, taken, asked, failFast, result, attempts>>

(* finish: the manifest, the summary, the report, and only then the flush. *)
After == [manifest |-> "summary", summary |-> "report", report |-> "flush"]

WriteDocument ==
    /\ at \in Documents
    /\ documents' = documents \cup {at}
    /\ at' = After[at]
    /\ UNCHANGED <<created, stream, torn, header, threads, left, known, buffer, batch,
                   asked, failFast, result, attempts>>

FlushedAtEnd == Flushed

Finish ==
    /\ at = "flush"
    /\ FlushedAtEnd
    /\ Ends("completed")
    /\ UNCHANGED <<created, header, documents, threads, known, arm, stoppedFor, abnormal,
                   fresh, failed, taken, asked, failFast, attempts>>

-----------------------------------------------------------------------------
(* The operator, and the end of the process.                               *)

AskStop ==
    /\ at \notin {"idle"} /\ ~ asked
    /\ asked' = TRUE
    /\ UNCHANGED <<disk, at, threads, left, known, buffer, batch, failFast, result, attempts>>

(* The lines a flush or a rewrite may be in the middle of.                 *)
Writing == IF at = "rewriting" THEN Chunk
           ELSE IF Full \/ at = "flush" \/ (at = "closing" /\ stoppedFor) THEN buffer
           ELSE <<>>

CutShort ==
    \/ UNCHANGED <<stream, torn>>
    \/ \E n \in 0..Len(Writing), half \in BOOLEAN :
          /\ n > 0 \/ half
          /\ half => n < Len(Writing)
          /\ stream' = stream \o (IF torn /\ n > 0 THEN Tail(SubSeq(Writing, 1, n))
                                                   ELSE SubSeq(Writing, 1, n))
          /\ torn' = (half \/ (torn /\ n = 0))

Crash ==
    /\ at # "idle"
    /\ CutShort
    /\ header' \in {header} \cup IF at = "header" THEN {"torn", "whole"} ELSE {}
    /\ Ends("failed")
    /\ UNCHANGED <<created, documents, threads, known, arm, stoppedFor, abnormal, fresh,
                   failed, taken, asked, failFast, attempts>>

-----------------------------------------------------------------------------
Open == \/ \E workers \in (SUBSET Worker) \ {{}} : OpenFresh(workers) \/ OpenResumed(workers)
        \/ OpenRefused

MainStep ==
    \/ Flush \/ Rewrite \/ WriteHeader \/ StartBatch
    \/ LoopTakes \/ (\E outcome \in Outcomes : MatchEnds(outcome))
    \/ BatchStops \/ BatchReturns \/ WriteDocument \/ Finish

WorkerStep(worker) ==
    \/ WorkerReady(worker)
    \/ \E outcome \in Outcomes : WorkerAnswers(worker, outcome)

Next ==
    \/ Open
    \/ MainStep
    \/ \E worker \in Worker : WorkerStep(worker) \/ PoolFails(worker)
    \/ AskStop \/ Crash

(* The main thread goes on while it has something to do, every match ends, *)
(* and a thread that was spawned comes up or fails.                        *)
Fairness ==
    /\ WF_vars(MainStep)
    /\ \A worker \in Worker : WF_vars(WorkerStep(worker))

Spec == Init /\ [][Next]_vars /\ Fairness

-----------------------------------------------------------------------------
(* Nobody plays a match the store already has, no match is played twice at *)
(* a time, and none has two lines: two workers, the buffer and the stream  *)
(* of earlier attempts never overlap (run-batch.ts:116-123, pool.ts).      *)
PlayedOnce ==
    /\ \A t \in InPlay : playing[t] \notin known
    /\ \A t, u \in InPlay : playing[t] = playing[u] => t = u
    /\ IsInjective(stream \o buffer)
    /\ {Schedule[arm][n] : n \in jobs} \cap ({playing[t] : t \in InPlay} \cup known) = {}

(* An attempt that stops or completes leaves on disk every record it found *)
(* there and every match it handed out, unless the match could not be run  *)
(* (stop.ts: "every record it played is committed").                       *)
HandedOutIsKept ==
    [][result' \in {"stopped", "completed"} /\ at # "idle" /\ at' = "idle"
        => known \cup taken \subseteq Entries(stream') \cup failed]_vars

(* No document of a finished run is written while a match of the schedule  *)
(* is neither recorded nor known to fail, whenever the stop came; failFast *)
(* is the exception the configuration asks for.                            *)
FinishedIsWhole ==
    [][documents' # documents => failFast \/ Scheduled \subseteq known \cup failed]_vars

(* An attempt comes to an end, stopped or not.                             *)
AttemptEnds == (at # "idle") ~> (at = "idle")

(* "Every record produced *or resumed* for this batch, in canonical order" *)
(* (run-batch.ts:95).                                                      *)
OutcomeIsWhole ==
    [][at = "closing" /\ at' \in {"arm", "manifest"}
        => Entries(Schedule[arm]) \cap known \subseteq fresh]_vars

(* "The file on disk *is* the progress" (run-batch.ts:118): what is in the *)
(* stream stays in it.                                                     *)
ProgressIsKept ==
    [][at' = "idle" => Entries(left) \cup Entries(stream) \subseteq Entries(stream')]_vars

(* "An empty directory makes this a no-op" (job-runner.ts:326-329): a run  *)
(* whose stream is its own can always be resumed.                          *)
NeverRefused == [][~ OpenRefused]_vars

(* A partial run "cannot leave behind a document that reads like a         *)
(* finished one" (stop.ts): with the report, the stream is complete.       *)
ReportHasStream ==
    "report" \in documents /\ at = "idle" /\ ~ failFast
        => Scheduled \subseteq Entries(stream) \cup failed

(* "Stop the whole run on the first abnormal match" (config.ts:216).       *)
FailFastStops == [][failFast /\ abnormal /\ at = "batch" => taken' = taken]_vars
=============================================================================
