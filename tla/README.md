# TCG-Prototype: TLA+ models, checks and proofs

TCG-Prototype is a TypeScript monorepo around a multiplayer trading-card game: a rules
engine, a multiplayer match server with bots, and a laboratory that plays experiments
of many matches under an admin service. This directory holds TLA+ modules that model the
parts of it that hold state across steps and can go wrong in an order nobody wrote a test for,
TLC configurations that check them on small instances, and TLAPS proofs of the most
important facts for every value of the constants.

Paths below are relative to the repository root.

Run a check with `tlc -config X.cfg MCModule.tla`, a proof with `tlapm Module_proofs.tla`.

## 1. The system

### Parts with state of their own

| Part | State it keeps | Operations | What makes it hard |
|---|---|---|---|
| **Orchestrator lock** `apps/admin-server/src/service/lock.ts` | one file naming pid and host | acquire (exclusive link), release, hand-run recovery | any number of processes, crashes between any two system calls, reused pids, other hosts |
| **Job and batch lifecycle** `packages/admin-contracts/src/lifecycle.ts`, `catalog.ts` | two transition tables; documents with a status and instants | legal moves, next state, instants a status requires | every other part trusts the tables |
| **Experiment queue and runner** `apps/admin-server/src/run/{queue,job-runner,control,limits}.ts` | attempts in flight, grants, stop switches, refused jobs, one fill at a time | fill, launch, run one attempt, settle, reconcile a batch; operator: release, pause, cancel, resume, retry | every `await` lets another caller in; any write may throw; crash and recovery |
| **File catalog** `apps/admin-server/src/catalog/*` | one JSON document per job and batch, an event log, an index | create, transition under a per-document lock, list, recover | several writes per operation, crash between them |
| **Match server** `apps/multiplayer-server/src/{match-server,lobby,ws-adapter}.ts` | sockets, attachments, lobbies of seats, the match, disconnect windows, published records | a handler per client message, socket closure, window timer, bot submission | messages of several sockets in any order, takeover of a seat, timers armed for an earlier match |
| **Live bot runner** `apps/multiplayer-server/src/bot-runner.ts` | one pump, a pacing wait per seat, counters | wake, pump, pilot decision, submit, halt, stop | the board moves under every `await` |
| **Rules engine** `packages/rules-engine/src/*` | the match: phases, queue, choice, combat, Reaction window | `applyAction`, the loops behind it, `legalActions` | any seat may leave at any point; choices, windows and queues outlive the seat they were for |
| **Admin process** `apps/admin-server/src/main.ts` | one process: lock, open catalog, queue, server | start, serve, stop on a signal | a signal ends the serving and not the attempts |
| **Simulation runs** `apps/simulator/src/{run-batch,experiment}.ts`, `workers/pool.ts`, `reporting/{match-store,sinks}.ts` | the matches handed out and in play, worker threads, a buffer, a resumable stream of records, the documents of a finished run | open or resume, play a batch, stop, finish | a stop, a dead worker or a crash at any write; matches in play on several threads |
| **Adaptive counter-search** `apps/simulator/src/adaptive/*`, driven by `run/job-runner.ts` | a checkpoint, a raw record by block, lineages of revisions, the same stream | open or resume, block, generation, round, checkpoint, validate, publish | every phase is several files; a phase may be played twice |
| **Web client**, **admin client** | a connection, pending submissions; a polled session | reconnect, resubmit; poll, refresh | stale answers, repeated submissions |

The remaining parts (HTTP handlers and read models, lab planning, schedules and seeds, reports
and statistics, pilots' scoring, decks, telemetry, card data, schemas) are pure functions, data or
presentation: they keep nothing across steps. `PROJECT.json` lists every part with its sources, its
status and the reason.

### How they interact

```
 main.ts ── acquires ──> OrchestratorLock                         (AdminProcess: one per catalog)
    │
    └─ opens catalog (recovers documents) ─> JobQueue ─ grants ─> ExperimentRunner
                                              ^   │ transitions     │ start/settle      │ plays
                 operator (HTTP) ── verbs ────┘   └──> documents    │                   v
                                         (CatalogStore, JobLifecycle)        MatchStream, AdaptiveRun
                                                                          (stream, checkpoint, documents)

 browser ── socket ──> MatchServer ── applyAction/legalActions ──> rules engine (TurnFlow)
                         │  ^ submit
                         └──┴─ wake/stop ──> BotRunner ── views ──> pilots
```

### What must hold, part by part

- **Lock**: one holder, whatever crashes; nobody but the holder removes a live holder's record.
- **Queue**: concurrency and worker bounds exact; a job begun once, from the queue, by one
  attempt; a stop accepted before the attempt decided how to end is answered; a document never says
  `running` unless somebody runs it or a failed write is about to end the process; every startable job on
  the page starts in the end; drafts are held back; batches follow their members.
- **Match server**: a socket acts only for its own seat; somebody who is back is not timed out;
  whoever drops out has a window and the window ends; a match deals in only ready seats; an action
  is taken once; a match is published once with the origin that ended it; bots stop with the match.
- **Bot runner**: a seat owed a decision has a wait or a pump working on it, unless its wake fell into
  the one gap where wakes are lost; no answer to a board that has moved; silence after a halt or a stop.
- **Admin process**: one process at a time serves a catalog; a job is not run by two.
- **Catalog**: documents and event log agree whatever fails between two writes; nobody's change is
  undone by another caller; a list read page by page is whole.
- **Simulation runs**: a match is played and recorded once; a stop loses nothing that was handed out; no
  document claims a schedule that was not played; every attempt ends.
- **Adaptive search**: what the checkpoint is past is on record; a phase played again decides the same;
  the budget holds over every interruption; an attempt ends unless its blocks spend nothing; the side that
  lost a block is the side that adapts.
- **Rules engine**: nothing waits for a seat that has left; what is offered is what is taken;
  somebody can always move; the turn passes round the circle; every chain of effects ends.

The hazards behind these, each at its line, are in `PROJECT.json`.

## 2. Modules

| Module | Models | Uses |
|---|---|---|
| `OrchestratorLock` | the lock | |
| `JobLifecycle` | both transition tables, documents, instants | |
| `JobContract` | abstract: what an operator is promised about a job | `JobLifecycle` |
| `JobQueue` | queue, runner, verbs, batches, crash and recovery | `JobLifecycle`; implements `JobContract` |
| `AdminProcess` | the service as a process: lock, queue and shutdown together | extends `OrchestratorLock`, `JobLifecycle` |
| `CatalogStore` | the file catalog, write by write | `JobLifecycle` |
| `MatchStream` | the matches of a simulation run and their stream | |
| `AdaptiveRun` | the adaptive search and its documents | |
| `MatchServer` | one lobby of the match server | |
| `BotRunner` | the bot runner of one match | |
| `TurnFlow` | turns, phases, windows and eliminations of the engine | |
| `MC…` | model values and bounds of one module | that module |
| `…_proofs` | theorems of one module; of the lock in `AdminProcess_proofs`, of the tables in `JobQueue_proofs` | that module, TLAPS |

### OrchestratorLock

`phase[p]` is where process `p` stands in `main()`: before and after the exclusive link
(`tryCreateLock`/`LinkRefused`), reading the file to explain a refusal (`ClassifyRefusal`),
holding, and the two halves of a release (`ReleaseRead`, `ReleaseRemove`: the code reads the file
and only then removes it). The recovery step is a process of its own in three steps: read,
check, `rm`. `Exit` kills any live process anywhere. A dead process's pid may be given to another
(`PidIsFree` says when). `SeparateRecovery` is the instruction in `main.ts` that the recovery step
is run separately from a start. The code does not enforce it; the run and both theorems about exclusion
assume it, so they say nothing of a start that slips in between the reading of the stale text and the `rm`.
With `SeparateRecovery = FALSE` in `AdminProcessRefuted.cfg` TLC shows that start losing its record
(`MutualExclusion`, `LiveLockUntouched`).

Writing the temporary record is part of the start: nobody else knows its name, and only the link
publishes it.

### AdminProcess

The lock's own steps, and beside them a queue in every process: `attempts[p]` is what process `p` is
running, `filling` the processes whose queue has a fill to do, `docs` the documents all of them see. Of
a queue it takes what `JobContract` says: a job begins from `queued`, within the bound, and settles as
was asked last; `JobQueue` shows that the real queue keeps to that. `Opens` recovers and starts
nothing. After the signal (`Close`) nobody is served (`Serves`), and nothing else changes: `Begin` and
`Settles` ask only whether the process lives, because `main.ts` neither stops attempts nor ends the process.

### JobLifecycle, JobContract and JobQueue

`JobLifecycle` is the two tables row by row, the queries the code derives from them
(`nextState`, reachability, the statuses that need a start) and `withStatus`, the document a
transition writes. A recursive *function* computes reachability, so that proofs may use the module.

In `JobQueue` an action runs from one `await` to the next where another caller can slip in:

- `FillStart/FillList/FillSkip/FillLaunch/FillDone` are `#fill`: it lists at most
  `MaxConcurrentJobs + 1` queued rows and then reads batches one by one, on a page that may be
  stale. `fills` counts fills chained behind the running one.
- `RunStart … RunSettle` are one attempt. The stages of `pc[j]` are the awaits of
  `ExperimentRunner.run`; `RunSettleRead` reads the document and `RunSettle` writes it, and an
  operator may come in between. `RunEnds` is the external experiment: it returns, throws, or - only
  when asked - stops.
- `AttemptThrows` is a write of the attempt that nothing guards (`Writes` says at which stages there is
  one): it fails before its document was replaced or after, when the event could not be logged; `run`
  rejects and the stage is `threw`. `lost` remembers the job.
- `AttemptSettles` is the tail of `#launch`, its `finally` included; `Reconcile*` is `reconcileBatch`, whose
  callers ask for a fill after it. The rejection of an attempt waits for that reconciliation and then has
  no handler anywhere (`#release` has dropped the promise from `#inFlight`, all that kept it), so the
  process ends, which is Node's default: `Down`, which `Crash` shares. `ReconcileThrows` is its own failing write: an error to the request that asked, a
  rejection of the attempt that did.
- `Pause, Cancel, Resume, Retry, StartBatch` are the operator's verbs. `Ask` is one step because the
  store's lock on the job holds every reader off until the transition is logged, which is when
  the switch is thrown. `AskUnlogged` and `RequeueUnlogged` are the verbs whose log line fails: the
  transition is on disk, the operator gets an error, no switch is thrown and nothing is scheduled.
- `Crash` loses everything but the documents, `Recover` interrupts what they show in progress.

`pumped` is history: whether the queue was scheduled since the last event that could make a job
startable. A restart pumps nothing, by design of the code (the operator does), nor does a pause or cancel,
although withdrawing a queued row may bring a startable one into the page (`Unscheduled`).

Not modelled: reads that throw, writes that fail while the process starts, and a `startBatch` whose own
release fails (it changes nothing but the answer).

`JobContract` has five variables: `status`, who is `playing`, each attempt's `verdict` (how it
decided to end when it last read its document), the jobs `lost` to a failed write, and whether the process is
`alive`. An attempt ends with the status its verdict names if that still answers the document; asked
to stop *after* its verdict it ends without an answer (`Abandon`), which is what the code does and what
section 5 holds against its comments. `Lose` is the only other way an attempt may leave a document.
`JobQueue` maps to it by the statuses of the documents, the attempts between `start` and settlement, their
stages, `lost` and `up` (`INSTANCE … WITH`); `ImplementsContract` is that refinement.

### CatalogStore

`JobQueue` takes an operation of the store as one step; here it is several. A caller is in the middle
of at most one call (`calls[c]`), which holds the lock of one batch or one job (`BatchFree`,
`JobFree`: `KeyedMutex`) from its read to its last write. Each file written is an action:
`CreateJobConfig/Document/Member/Appends`, `ChangeWrites/Appends`, `RewriteWrites`. Documents are
replaced by a rename, so they are old or new; the event log is appended to, so a write cut short leaves
a line without its newline (`Torn`), and what is appended next becomes part of it (`Appended`).
`Throws` is a write that fails and rejects its call, `Crash` the end of the process, `Recover` what
`openFileCatalogStore` does next. `gaps[j]` is history: how many events a failure kept from a log.
Identities are minted at random, so they are numbers without relation to the order of creation, and the
clock may be set back: paging sorts by instant and identity (`Position`, `isAfter`).

An instant of a change is a count of the changes so far. Result locations, comparison annotations (one
write under one lock) and progress counters (written like an execution) are left out.

### MatchStream

An action is a handler of the main thread up to the next write of a file. `at` is where the main thread
is; `playing[t]` what each worker, or the main thread itself in the loop, is at. `OpenFresh`,
`OpenResumed` and `OpenRefused` are the three outcomes of opening the store; a resume empties the
file and writes the surviving records again (`Rewrite`) in the same chunks the buffer is flushed in.
`jobs` is a set of places in the batch's schedule, of which `Takes` hands out the first: the code's index
into the list of pending matches. `Dispatch` is the pool's one decision: the next match, the end, or
nothing for this thread.
`WorkerAnswers` accepts a record and dispatches; a thread that dies or cannot start rejects the
batch (`PoolFails`). `BatchStops`, `BatchReturns`, `WriteDocument` and `Finish` are
what follows the last answer. The loop of the main thread looks at `failFast` before it asks whether to stop
(`LoopTakes`), the pool never does. `Crash` cuts short whatever is being written: `torn` is half a line.

A write that fails in a process that lives on is left out: an append that throws inside `accept`
(`run-batch.ts:212-229` over `sinks.ts:64`) leaves a match that is on record and counted as failed. A
failure of this kind is modelled only as the end of the process.

Every attempt after the first resumes, because the job runner always asks for it. A match has one outcome
per playing, chosen freely: `normal`, `abnormal` (recorded, and a reason for `failFast`) or `failed`.

### AdaptiveRun

Blocks and generations alternate; `at` is the phase's next write: series, generation or round, then
the checkpoint. A resumed attempt reads the checkpoint and plays its phase again against the same stream, so
what a match ended in (`fates`) is kept for as long as its phase may be replayed: a match is a
function of its seed. `Records` is what the store has of a phase, resumed or fresh. A revision is
named by the block and place it was generated at (`revisionId`), which is as much as digests tell
apart within one run; both lineages start with one root, as in the code. `twins` says that the
candidates of a generation are one deck: their screening matches then have the same identities and are
played once but charged twice, which is the way the budget is allowed to err. Any match may throw. A block
whose matches all throw spends nothing (`run.ts:357`), so the attempt may go on for ever: the blocks after
the bound `MaxBlock` throw, all of them, and share its number (`WriteCheckpointAgain`), which makes that
run a lasso TLC can find. Matches of a phase are played
one after another: how several are in play is the subject of `MatchStream`.

### MatchServer

Every handler of the server is synchronous, so one handler is one action, with everything it
does: re-deriving the lobby's status, publishing the end of a match, stopping bots, closing an
abandoned lobby. What races is the order of messages of several sockets, closures, timers and
bot submissions. The variables are the fields of `MatchServer`, `Lobby` and its seats.
`attachments[c] = Elsewhere` stands for a seat of another lobby: a socket may leave its
seat here by joining elsewhere. A timer is armed for one match, so its value is that match's number.

The engine is external: a match is who is alive and whether it is over, and a play may leave any
survivors. `executed` and `present` are history: how often an action identity was taken, and
which seats were held by somebody at any time in the match. Two constants describe clients:
`OneSeat` (does a client ask for a seat only when it holds none? the web client does, a socket
need not) and `ActionId`.

Left out, because no property reads it: event cursors, the text of views and records, version
checks, refusals that change nothing.

### BotRunner

The pump runs from one `await` to the next without interruption: deciding, yielding, returning.
`Loop` is one iteration (scan the seats, reconcile waits, halt a seat at its ceiling, ask the
first that may act). `ask.moved` says that the board moved since the pilot was asked.

After its last scan the pump is `returned`: `wake` is told so a few microtasks later, by the `.finally`
of its promise (`Finally`). A person's message may be handled in that gap. `ws-adapter.ts:35,51-53` uses `ws`
(^8.18.0) at its defaults, where the messages of one chunk are handed over in one tick, so `BoardMoves` is
allowed there as at every other `await`; only the runner's own timers, each a macrotask, are not
(`Expire`). A wake in the gap is recorded and scanned by nobody: `WakeLost`. The model errs on the side of
letting a message in after *every* last scan, where the code needs the pump to have returned in the
same tick. The board may move without bound.

### TurnFlow

`applyAction` is one synchronous call. It is split into the handler (a player action, taken at rest)
and the turns of the loops in `advance` and `pumpQueue` (engine steps, taken while `running`): an
order of internal steps is then visible to properties, and no player acts between them. Cards are
abstracted to what they can do to the flow: an effect may cost seats the match, ask a seat,
counter a waiting card, set off abilities, or do none of these; which is a nondeterministic choice.

Simplifications, each with its reason:

- one Reaction per window, the default of the configuration, so "passed" and "has played" are one set;
- seats that lose together leave a window in one step (the same result as one by one with three seats);
- the starting seat is number 1, and the turn number is dropped: neither is asked about;
- no offer of the Ready Step before the very first turn: nothing can be exhausted yet;
- of the loop safeguards only `maxResolutionSteps` is kept; the fixed limits (64 and 1024 turns) and the
  repeated-state check only end a loop earlier.

## 3. Runs

Every run but those marked *violation* must finish without error. State counts are for orientation.

| Run | Instance | Asks | States |
|---|---|---|---|
| `service` | 4 processes, 2 hosts, 2 pids of which one is reused, any file left behind; one job, 2 requests | exclusion; a live record is untouched; a job runs twice only beside a process that gave the lock back | 1 551 000 |
| `queue` | 2 jobs of one batch (one adaptive, one wanting more workers than allowed), 2 slots, 2 workers, 2 verbs, 1 crash, 1 failing write | stops find their request, bounds kept, grants add up, running documents owned or lost, contract implemented | 863 000 |
| `queue_live` | 3 jobs of 2 batches, 1 slot, so pages of 2 rows, 2 verbs, fairness | drafts held back; whatever can start does, unless rows that cannot fill the page | 76 000 |
| `catalog` | 2 callers, 2 jobs of one batch, 4 calls, 2 failures or crashes, 2 readings of the clock, pages of 1 | documents agree with each other and with the log, nothing undone, paging whole | 1 686 000 |
| `server` | 2 sockets that may hold several seats in turn, tables of 2 and 3 seats, 1 match | nobody acts for another's seat, nobody who is back is timed out, only ready seats play | 549 000 |
| `server_live` | 2 orderly clients, 2 seats, 2 matches, 1 action identity, 1 bot decision, fairness | once-only actions and records, true origins, bots stop, windows end | 434 000 |
| `bot` | 2 bots (one always slow, one slow only to react), ceiling 2, any number of board moves, fairness | one way only to lose a wake-up, waits are for what is offered, every decision is answered or its wake lost | 24 000 |
| `turn` | 3 seats, items of 1 effect, 1 waiting item | nothing waits for the dead, offers equal acceptances, turns pass, only three ways to strand a table, the engine uses itself up; no deadlock | 979 000 |
| `stream` | batches of 3 and 1 matches, 2 workers or the loop, flush every 2, 3 attempts, fairness | played and recorded once, kept over a stop, finished means whole, every attempt ends | 452 000 |
| `adaptive` | blocks of 2 games, 2 candidates of 1 game, budget 4, flush every 2, 3 block numbers, 1 interruption, fairness | record behind the checkpoint, replay decides the same, budget, lineages, every attempt ends unless its blocks spend nothing | 309 000 |
| `adaptive_loop` *violation* | the same | `LoopStops` | |
| `adaptive_loser` *violation* | the same | `LoserAdapts` | |

Five further configurations hold as well and are kept for changes to their modules:
`JobQueueAlso.cfg` (`TypeOK`, `DocumentsValid`, `CompletedHasResult`, `BatchStartIsTrue`),
`JobQueueLost.cfg` (`LostEndsProcess`: two failing writes and fairness, an attempt lost to one of them ends
the process), `TurnFlowLive.cfg` (`ComesToRest`: longer effects and fairness, the engine gives control back),
`MatchServerAlso.cfg` (`WaitingCannotStart`) and `MatchServerLiveAlso.cfg` (`SeatIsAttached`, `WindowRuns`).

### Why these bounds

- **Service.** A refusal needs two contenders; a reused pid a third process; a foreign host a fourth.
  One job is enough to be run twice; two requests pause and resume it. The theorems hold for any number.
- **Catalog.** Two callers race; a torn line needs one failure and the line lost with it a second; two jobs
  on pages of one row need a cursor; two readings of the clock are later, earlier and the same.
- **Stream.** Two workers have two matches in play while a third waits; the second batch is played in the
  loop and sees what the first left; a buffer of two flushes within a batch; the third attempt resumes
  what a resume left.
- **Adaptive.** A budget of four pays for two blocks, or for a block and the screening of two candidates: the
  run ends with and without a pending generation. One interruption, anywhere, strikes a phase that is then
  replayed; the four safety theorems hold for any number. Any match
  may throw, a whole block's too. The third block can be paid for only when an earlier one threw; from there on
  every match throws and the number stands still, so blocks that spend nothing repeat in a cycle.
- **Queue.** Two jobs compete for a slot, a worker and a batch; two verbs give pause-then-cancel or
  stop-then-retry; one crash and one failing write may fall anywhere, in any stage. In `queue_live` three
  jobs meet pages of two rows, so a listing cuts off a job: `StartableStarts` says that a job it can start is
  started or withdrawn unless the page holds nothing that could start; the job that stays behind such
  a page is `IdleQueueIsEmpty`, section 5. No write fails in `queue_live`: a failing one ends the process
  or leaves nothing scheduled, which the property does not ask about (with one verb and one failing
  write it was found to hold too). `MaxFills` saturates: a third waiting
  fill does what the second does. The theorems hold for any jobs, workers and bounds.
- **Server.** A takeover needs two sockets; a socket that is gone may be used again as a new one,
  so two stand for any number in turn. A table of three with two people leaves one seat for a bot or
  a departure. Two matches in one lobby show what the first leaves behind for the second.
  `server` uses symmetry of sockets, and a VIEW that hides how a match ended and what was published of
  it: neither is read by a move of a seat or socket nor by the run's invariants (`TypeOK` is then
  checked on one state per view; `server_live` checks the rest without a view or symmetry).
- **Bots.** Two bots give a first and a second in the scan; the ceiling is reached; the board moves as
  often as it likes, during a decision, a yield, the gap after the last scan and at rest.
- **Turns.** With three seats one may leave without ending the match, in any role (active, attacked,
  asked, holder of priority). The safeguard is configurable from 16 up; 1 (3 in `TurnFlowLive.cfg`) makes it
  reachable within the bounds, and it only ends matches.

Deadlock is checked in `turn`, where a finished match stutters explicitly.
Elsewhere the system may really stop (everything exited; no operator; nobody connected), so it is off.

### Fairness

- `queue_live`, `JobQueueLost.cfg`: weak fairness of fills, reconciliations, and each attempt's steps. Promises settle,
  file I/O completes and an experiment plays a finite schedule. Nothing is assumed of the operator, nor that a write fails.
- `server_live`: weak fairness of the window timers only. Nothing is assumed of clients or bots.
- `bot`: weak fairness of the pump and of timers: pilots are bounded computations, microtasks run,
  timers fire. Of the others `OwedIsAnswered` asks, in the property itself, that they pause in the end: a
  table that moves whenever a pilot decides starves it, which depends on how long a pilot takes and is not
  decided here.
- `TurnFlowLive.cfg`: weak fairness of the engine's own loop. Nothing is assumed of players.
- `stream`: weak fairness of the main thread and of each worker: handlers run, matches end (the engine's
  loop ends, as `EngineRunsDown` says), a thread comes up or fails. A thread that exits quietly is outside it, see
  section 5. Nothing is assumed of the operator.
- `adaptive`, `adaptive_loop`: weak fairness of the attempt's own steps, for the same reasons.

Each property of a passing run has a mutant: a plausible bug of the code, written as an operator beside
the definition it replaces (`Mut…`), under which TLC finds the property violated.

## 4. Proofs

| Module | Theorems | Argument |
|---|---|---|
| `AdminProcess_proofs` | `TypeCorrect`, `Exclusion`, `LiveLockSafe` of the lock; `ImplementsLock`, `ServiceExclusion`, `ServiceLiveLockSafe`, `LeftBehind` | Of the lock, inductive `IInv`: types, live pids unique on a host, a holder's record is the file, a recovery step is alone, and a recovery step about to remove the file knows nobody holds the lock. `MutualExclusion` alone is not inductive: it says nothing of the file, which is what decides who wins. Each step of the service is a step of the lock or a stutter, so the lock's theorems carry over. `RunsUnderLock`: whoever runs a job took the lock and holds it or has given it back; with exclusion, of two that run one job one has given it back. |
| `JobQueue_proofs` | `TypeCorrect`, `Budget`, `RunningOwned`, `StopHasRequest`, `DraftsHeldBack`, `Implements` | `BudgetInv` adds that the set of attempts is finite (needed for its cardinality). `AttemptInv` relates, per job, the attempt's stage, its switch and its document: an attempt that was asked to stop finds a settling document, and a running document has an attempt past its start or its job is `lost`. `RejectInv`: as long as a job is lost, a rejection is on its way, in an attempt that threw or a reconciliation it waits for; the two together are `RunningIsOwned`. `Implements` uses `AttemptInv` for each action of the mapping: an attempt's verdict is the stage it is at, and its last step answers the document, abandons it or, when a write failed, loses it. `HeldBack` needs that a batch never returns to `draft`, which is read off the table. |
| `CatalogStore_proofs` | `TypeCorrect`, `ListedJobsExist`, `LogFollowsDocument`, `UpdatesAreKept`, `LogMissesNothing`, `ListingIsWhole` | `CatalogInv`: the calls in progress hold different documents (`Locks`); what each of them read is still so when it writes (`CreationOK`, `RewriteOK`, `ChangeOK`); a line about to be appended is newer than every line of its log; a document that never changed is queued, so the late line of its creation names the right status. One lemma per write, `LogStep` for whole and torn appends alike, and `Keeps`, the step of `NothingUndone`, proved beside the invariant. On it rest `CompleteInv` (the lines of a log without a gap all end, and every change of the document is in it or owed by a caller, `SaidOrOwed`; the locks leave at most two callers that owe, so their number is finite whatever `Client` is) and `TraversalInv` (what a reading has not shown comes after its cursor, what it has shown does not: a page is the rows of least rank, so its last row is before every row left, and `Keeps` says that no row moves). |
| `BotRunner_proofs` | `TypeCorrect`, `OwedWaiting`, `WaitsOwed`, `Silent`, `SeenBoard` | `IInv`: a wait is only started for a delay that is not 0, the seat being asked may still answer, the end of the match stopped the runner. `AtRest`: after a last scan every seat has exactly the wait it is owed, until something wakes the runner. A pump that is idle scans at once, so only a wake between its return and its `.finally` breaks it and stays on record (`woken`): the exception `WakeLost` in `OwedWaiting` and `WaitsOwed`, which assume nothing else. |
| `MatchServer_proofs` | `TypeCorrect`, `OneSeatOneSocket`, `BackIsSafe`, `DropStartsWindow`, `StartedReady`, `WaitingIsTrue`, `BotsStop`, `TakesEachOnce`, `PublishesEachOnce`, `OriginRecorded`, `SeatHasSocket` | `ServerInv` adds to the seven properties it proves that the lobby is `in_match` exactly while its match runs, that windows count only for people's seats, and that an empty seat has no deck and is not ready: without the first, `canStart` (which asks the status) says nothing about the match. The five handlers that move a match are brought to one form (`Moves`: the match goes on, or lobby and runner end with it and it is published with its cause); leaving and a closed socket to another (`Parts`, `LetGo`). `HistoryInv` is proved beside it: an identity the engine took is in `appliedActions`, and as many matches are published as are over. |
| `TurnFlow_proofs` | `TypeCorrect`, `PriorityMoves`, `WorkOfTheLiving`, `NobodyElseStalls`, `OffersAreExact`, `TurnsPassRound`, `EveryChainEnds` | `FlowInv`: no choice is pending while the engine runs, a match that is not over has a seat left, and a window is `Good` (where it is open, the seat at its index has not answered). `TableInv` adds what the window and the queue are made of: no seat twice in an order, pending cards and queued work of seats still in, as long as the match is not over. What a departure removes is removed by `Keeping`, whose lemmas say that ranks of places are one to one, so that what is kept is what was there, in its order. `RestInv` says what a match that gives control back is waiting for (a choice, a window, defenders, a phase, a hand, or one of the three accidents), from which the moves offered follow case by case. `NextLiving` proves the arithmetic of the circle: the next seat is in the match and every seat passed over is not. `EveryChainEnds` is the termination of the loops: each turn that does not give control back lowers `Fuel` in the lexicographic order (seats still in, steps left to the safeguard, stops the turn can still make by itself, cards waiting in a window, queued work), and `Fuel` is always five naturals (`FuelIs`), below which nothing goes; `Burned` says which of the five each step uses up. |
| `AdaptiveRun_proofs` | `LineagesAreChains`, `BudgetIsKept`, `RecordBacksCheckpoint`, `DecisionsStand` | `ChainInv`: a revision in a lineage is the root or of an earlier block, identities tell the revisions of both lineages apart, and a pending generation is bred from a revision some side plays: so the side `loserSideOf` finds plays the very revision the candidates descend from, whichever side lost. `GamesInv`: every learning game on record is of a phase settled, and counted in `gamesSpent`, or of the phase in progress, which is affordable if it has any: a settled phase costs no more than it played. `PlaceInv`: a batch that is over has a fate for each of its games, and a record of all that did not throw. With it, what the store says of a phase is what its fates say (`SettledIsTrue`), and fates only grow while a phase may be replayed (`TruthStays`); `RecordInv` says that a record of the phase in progress is what its fates say. Neither `BudgetKept` nor `SameDecision` is inductive: both depend on what interrupted attempts left behind. |
| `MatchStream_proofs` | `TypeCorrect`, `NothingTwice`, `StopKeepsAll`, `OnlyWholeRunsFinish` | `StoreInv`, inductive by itself: what the store knows is exactly what is in the stream, read and still to be written again, or buffered, and no line is in two of these; half a line is only there between attempts. It rests on lemmas about sequences: two that are put together have no line twice iff neither has and they share none (`JoinedLines`), so a chunk that moves from `left` to `stream`, a flush and a write cut short all keep it. `WorkIsSound` adds the batch: the main thread plays or the workers do, threads play different matches that are neither known nor still to be taken (`Apart`), and every match handed out or behind the batch's index is recorded, failed or played (`Whole`). `Given`, `Closed` and `MatchIsOver` say what taking a match, the end of the pool and an answer do to these two, for the pool and the loop alike. `HandedOutIsKept` and `FinishedIsWhole` are then read off the only steps that can violate them. That the schedule names every match once (`Distinct`) is needed where a match is taken. |

Assumptions are those named in the modules (`LockConstants`, `QueueConstants`, `CatalogConstants`,
`RunnerAssumption`, `SeatsAssumption`, `BoundsAssumption`, `ConnectionsAssumption`, `FlowAssumption`,
`AdaptiveConstants`, `StreamConstants`, `Distinct`), evaluated by TLC in every run, and the two
conditions stated in the theorems (`SeparateRecovery`, `OneSeat`).

Only model-checked: all liveness (`StartableStarts`, `LostEndsProcess`, `AwayIsResolved`, `OwedIsAnswered`,
`AttemptEnds`, and `ComesToRest`, whose measure is proved by `EveryChainEnds`), `DocumentsValid`,
`CompletedHasResult`, `BatchStartIsTrue`, and `GrantsAddUp`, the half of `BudgetIsExact` beside the bounds that
`Budget` proves (a sum over an arbitrary set needs induction over data).

## 5. Disagreements between code and documentation

### With a run

**The winner adapts** (`adaptive_loser`). `loserSideOf` (`adaptive/run.ts:184`) finds the side that lost a
block by comparing identities of revisions, the incumbent's first. Both lineages begin with the same root
(`checkpoint.ts:157-161` calls that expected), so until a first promotion it always answers `incumbent`: when the
opponent loses, its candidates are screened against its own root and promoted into the other lineage.
`run.ts:60-63` says that it is the loser's lineage that adapts.

**A search that never ends** (`adaptive_loop`). A block whose matches all throw spends nothing
(`adaptive/run.ts:357`), so the budget is never used up and the loop at `:568-575` plays block after block.
`run.ts:66-68` says that the loop stops cleanly at the budget. `AttemptEnds` is the same property with this one exception.

### Without a run of their own

Each configuration named here lists properties that a document, a comment or a reader would expect and that TLC
finds violated. Keep one property and drop the others (TLC stops at the first), with the constants changed
as the second column says. They are kept for whoever changes the code.

| Configuration | Property | What the code does |
|---|---|---|
| `AdminProcessRefuted` | `RunsOnce` | a signal closes the server and releases the lock while attempts run, and a fill goes on after it (`main.ts:144-149`): the next service recovers their documents and runs them a second time, which `lock.ts:20-22` says the lock prevents |
| `AdminProcessRefuted`, `SeparateRecovery = FALSE` | `MutualExclusion`, `LiveLockUntouched` (a PROPERTY) | a start beside the recovery step publishes its record before the `rm`, which removes it (`lock.ts:203-205`, `:229`); `main.ts:62` asks for a step run separately and nothing enforces it |
| `JobQueueStop` | `StopIsOwned` | a pause accepted between the settlement read of an attempt and its `complete` (`job-runner.ts:367-375`) is answered by nobody: the attempt ends with the store's refusal and the document stays `pausing` in a living process. `job-runner.ts:361-364` says that the request wins, `queue.ts:268-274` that such a document cannot be met. The contract has it (`Abandon`), so that it can say everything else |
| `JobQueuePage` | `IdleQueueIsEmpty` | the page is cut to `maxConcurrentJobs + 1` rows before drafts, refused jobs and unreadable configurations are skipped (`queue.ts:315`, `:327-336`): a released job behind two drafts is not seen by any fill. `queue.ts:302-309` says a job that is not in flight is inside the page |
| `JobQueueThrown` | `RunningIsPlayed` | a write of an attempt that throws (`job-runner.ts:256`, `:355`, `:370`, `:445`) takes it out of the queue in its `finally` with the document still `running`; `queue.ts:372` says that `run` reports refusals as values. The rejection has no handler and ends the process (`RunningIsOwned`, `LostEndsProcess`), whose next start interrupts the document: one job's disk error interrupts every job in flight |
| `JobQueueRefuted` | `FinishedBatchLeavesQueue` | cancelling the last waiting job does not reconcile its batch: it stays `queued` with every member terminal |
| | `RefusedLeavesQueue` | a job may be queued and unstartable, which a comment says should not exist |
| | `BatchMovesAsJustified` | a batch is completed on a reading a retry has made false |
| `CatalogStoreRefuted` | `NextAppendLists` | a job whose batch was not written is never listed by a later creation, though `file-catalog-store.ts:427-431` says the next append will |
| | `CreatedFirst` | a job is in the listing before its creation is logged, so somebody may change it first: `:364-366` says nobody can hold a reference yet |
| | `OneLineLost` | the line appended after a torn one is lost with it: `files.ts:198-200` speaks of the last entry |
| | `WithinSavedLimit` | the limit is read on a listing under no lock, so two saves at once may exceed it (`:884`) |
| `MatchStreamRefuted` | `ProgressIsKept` | a resume empties the stream before it writes the survivors again; a crash in between loses them (`match-store.ts:134`; `run-batch.ts:118` calls the file the progress) |
| | `NeverRefused` | a crash before the header is written, or in it, leaves a run that can never be resumed (`match-store.ts:141`); `job-runner.ts:326-329` calls it a no-op |
| | `OutcomeIsWhole` | the outcome of a batch has only the records of this attempt, not "every record produced *or resumed*" (`run-batch.ts:95`); the deck search scores a resumed generation on them (`deck-search/evolve.ts:214-216`) |
| | `ReportHasStream` | the report is written before the last flush, so a crash leaves a report without its last records (`experiment.ts:1781-1782`) |
| | `FailFastStops` | only the loop of the main thread looks at `failFast` (`run-batch.ts:230`); the pool plays on, though `config.ts:216` says the whole run stops |
| `AdaptiveRunRefuted` | `MatchesFirst` | the checkpoint moves on while the phase's records are in the buffer: `run.ts:97-101` says "never the reverse" |
| `MatchServerRefuted` | `AwayIsTimed` | a ready player who left before the start is dealt in and never timed out: windows open only when a socket closes during the match (`match-server.ts:344`; `README.md:155-157`) |
| | `AbandonedCloses` | a match that ends with nobody connected keeps its lobby |
| | `StartedStaysStarted` | a finished lobby is reopened by `set_ready` |
| | `ReadyCanStart` | a new player does not re-derive the status: it says ready, the host cannot start |
| `MatchServerRefuted`, `ThreeConns`, 3 seats, 1 match, `Budget` | `FitsTable` | a table shrunk below an occupied seat number seats more players than it has seats |
| `MatchServerRefuted`, `OneSeat = FALSE` | `SeatIsAttached` | a socket that takes a second seat leaves the first shown as connected |
| `BotRunnerLost` | `EligibleIsScheduled` | `wake` returns while `#running` is set, which the `.finally` of the pump's promise clears some microtasks after the pump looked at `#woken` for the last time (`bot-runner.ts:597-616`); a second message of one chunk falls in between, and the seat it was for has no wait and no pump until somebody else moves. `:592-595` claims every newly eligible decision is scheduled exactly once |
| `BotRunnerRefuted` | `CategoryIsAnswered` | a wait served for one category is counted for another when the offer changed after it ran out |
| `TurnFlowRefuted` | `SomeoneIsOffered` | `handleMulligan` waits for every seat of `playerOrder`, those that have left too, so an opening hand never comes (`engine.ts:236`; `:171-173` says it must not strand anybody) |
| | `PlayGoesOn` | a Reaction window outlives its turn when the active seat is eliminated during it (`flow.ts:533`; `:527-528`) |
| | `ReadiedFirst` | the seat asked during a Ready Step leaves: the rest of the step is dropped |
| | `HandsSettledFirst` | the starting seat leaves during opening hands: its heir plays a turn before they are settled |
| `TurnFlowRefuted`, `N = 4` | `PriorityKept` | priority is an index; when an earlier seat leaves it is not moved back, and the holder is passed over |

The passing runs say how far this goes. `RunningIsOwned`: a document is left running only by a failed
write that is about to end the process. `OwedIsWaiting`: a seat is left without a wait only by a wake in the
one gap. `OnlyLeftBehind`: a job is run twice only beside a process that
released its lock. `NoOtherStall`: a match at rest offers nobody a move only if an opening hand will
never come, a window was left behind, or a pending payment depends on a seat that left (`CannotBePaid`).
`OffersMatch`: what `legalActions` offers is what the handlers take, outside these and a turn played
before the hands. `SameDecision` and `RawBacksCheckpoint` hold although `MatchesFirst` does not: a match
lost with the buffer is played again and ends as it did.

Read in the source but not modelled: `activate_ability` never settles the events of its costs, so what
a sacrifice should set off is not; nor are discards to hand size or units lost with a conceding seat;
an effect's choice stays pending when the effect's owner is eliminated while another seat is asked. A
worker thread that exits with code 0 while it has a match is not noticed (`workers/pool.ts:148`). The writes
of an adaptive attempt after its last match (`job-runner.ts:627-669`) are not guarded, though `:681-690`
says that a failure of one must be recorded: `AttemptThrows` at stage `playing` of an adaptive job.

## 6. Not modelled, and what comes next

1. The web client's reconnect and resubmission (`net/match-client.ts`) against `MatchServer`; the admin
   client's polling.
2. The match's own computation in the simulator (`run-match.ts`), which joins `MatchStream` to the engine.
3. The file store of live records, which writes a match once.

Out of scope: hashing of seeds and schedules (TLA+ could only assume it), floating-point statistics,
scoring of pilots, the content of effects and cards, presentation, schemas, HTTP and read models.
