------------------------------ MODULE AdaptiveRun ------------------------------
(***************************************************************************)
(* The adaptive counter-search: apps/simulator/src/adaptive/run.ts driven  *)
(* by #runAdaptive of apps/admin-server/src/run/job-runner.ts.  Two decks  *)
(* play mirrored blocks; the loser of a block gets candidates, which are   *)
(* screened against the winner and promoted or not.  Matches go to a       *)
(* buffered stream, and after every phase the runner writes the raw record *)
(* and then the checkpoint.  A run may be stopped, fail or die and goes on *)
(* from the checkpoint.  How a batch of matches is played and recorded is  *)
(* the subject of MatchStream; here a batch plays one match after another. *)
(***************************************************************************)
EXTENDS Naturals, Sequences, FiniteSets, Functions

CONSTANTS
    BlockGames,             \* matches of a block, both orientations
    ScreenGames,            \* matches of one candidate's screening
    FinalGames,             \* matches of the frozen validation
    candidateCount,
    totalLearningBudget,
    FlushEvery,             \* records the stream buffers
    \* Bounds of the model
    MaxBlock,               \* the number of the last block told from the next
    MaxInterruptions        \* stops, failures and crashes

(* With two games, more wins is a higher Wilson bound.                     *)
ASSUME AdaptiveConstants ==
    /\ {BlockGames, FinalGames, FlushEvery} \subseteq Nat \ {0}
    /\ ScreenGames \in 1..2
    /\ {candidateCount, totalLearningBudget, MaxBlock, MaxInterruptions} \subseteq Nat

VARIABLES
    \* On disk
    stream,         \* the records of matches.jsonl, in order
    series, generations, rounds,    \* adaptive-raw.json, by block
    saved,          \* adaptive-checkpoint.json is there
    published,      \* adaptive-result.json is there
    \* The attempt
    at,             \* what it is at; "idle" between attempts
    checkpoint,     \* the document, and the one a run begins with
    known,          \* the records the store has
    buffer,         \* those not yet on disk
    candidate,      \* whose screening is played
    asked,          \* somebody asked it to stop
    interruptions,
    \* What the seeds decide
    fates,          \* how the matches of the phase in progress end
    brood,          \* how many candidates a generation has, the rest rejected
    twins           \* whether its candidates are the same deck

raw == <<series, generations, rounds>>
seeds == <<fates, brood, twins>>
vars == <<stream, raw, saved, published, at, checkpoint, known, buffer, candidate, asked,
          interruptions, seeds>>

(* f with v at x, whether it had something there or not.                   *)
Put(f, x, v) == [y \in DOMAIN f \cup {x} |-> IF y = x THEN v ELSE f[y]]

-----------------------------------------------------------------------------
(* Revisions and lineages.                                                 *)

ADAPTIVE_BLOCK_SIDES == <<"incumbent", "opponent">>
Sides == {"incumbent", "opponent"}
Other(side) == IF side = "incumbent" THEN "opponent" ELSE "incumbent"

(* What a revision's digest is of, as far as two of one run can differ.    *)
Revision == [block : 0..MaxBlock, index : 0..candidateCount, generation : Nat,
             parent : Seq(Nat)]
revisionId(revision) == <<revision.block, revision.index>>
Root == [block |-> 0, index |-> 0, generation |-> 0, parent |-> <<>>]

Active(side) == LET lineage == checkpoint.lineages[side] IN lineage[Len(lineage)]

NoGeneration == [block |-> 0, generation |-> 0, incumbent |-> <<>>, opponent |-> <<>>,
                 candidates |-> <<>>]
Pending == checkpoint.pendingGeneration # NoGeneration

(* freshAdaptiveCheckpoint: both lineages begin with the same revision.    *)
Fresh == [gamesSpent |-> 0, nextBlock |-> 0, pendingGeneration |-> NoGeneration,
          lineages |-> [side \in Sides |-> <<Root>>]]

Places == {"idle", "opening", "phase", "play", "series", "generation", "round", "checkpoint",
           "flush", "final", "finalFlush", "raw", "publish", "result",
           "stopping", "stopped", "failing"}

Init ==
    /\ stream = <<>> /\ series = <<>> /\ generations = <<>> /\ rounds = <<>>
    /\ saved = FALSE /\ published = FALSE
    /\ at = "idle" /\ checkpoint = Fresh /\ known = {} /\ buffer = <<>>
    /\ candidate = 1 /\ asked = FALSE /\ interruptions = 0
    /\ fates = <<>> /\ brood \in 0..candidateCount
    /\ twins \in BOOLEAN /\ (twins => brood > 1)

-----------------------------------------------------------------------------
(* The matches of a phase.  A screening match is identified by the decks,  *)
(* not by the candidate: candidates with one deck have their matches in    *)
(* common.                                                                 *)

Matches(kind, block, deck, games) == [n \in 1..games |-> <<kind, block, deck, n>>]
Deck(i) == IF twins THEN 1 ELSE i

BlockMatches == Matches("block", checkpoint.nextBlock, 0, BlockGames)
Screening(i) == Matches("screen", checkpoint.nextBlock, Deck(i), ScreenGames)

Schedule == IF at = "final" THEN Matches("final", 0, 0, FinalGames)
            ELSE IF Pending THEN Screening(candidate)
            ELSE BlockMatches

Learning(match) == match[1] # "final"

(* A match that threw has no record and would throw again.                 *)
Thrown(match) == match \in DOMAIN fates /\ fates[match] = "throws"

(* The places of the schedule a batch still has to play, in their order.   *)
Unplayed == {n \in DOMAIN Schedule : Schedule[n] \notin known /\ ~ Thrown(Schedule[n])}

(* Mutant: only what this attempt played itself is counted.                *)
MutRecords(matches) == {match \in Range(matches) : match \in Range(buffer)}

(* recordsForSchedule: what the store has, resumed or fresh.               *)
Records(matches) == Range(matches) \cap known

Wins(matches, side) == Cardinality({match \in Records(matches) : fates[match] = side})

(* Who loses a block of so many wins on either side; no record is no result.*)
decideAdaptiveBlock(left, right) ==
    IF left + right = 0 THEN "no_decision"
    ELSE IF left = right THEN "tie"
    ELSE IF left < right THEN "incumbent" ELSE "opponent"

Decision == decideAdaptiveBlock(Wins(BlockMatches, "left"), Wins(BlockMatches, "right"))
Decisive == Decision \in Sides

-----------------------------------------------------------------------------
(* Nothing of an attempt is left in memory after it.                       *)
Ends == at' = "idle" /\ known' = {} /\ candidate' = 1 /\ asked' = FALSE

(* An attempt opens the stream: read it, empty it, write it again.         *)

Stays == UNCHANGED <<interruptions, brood, twins>>

Open ==
    /\ at = "idle" /\ ~ published
    /\ at' = "opening"
    /\ known' = Range(stream) /\ buffer' = stream /\ stream' = <<>>
    /\ Stays /\ UNCHANGED <<raw, saved, published, checkpoint, candidate, asked, fates>>

Opened ==
    /\ at = "opening" /\ at' = "phase"
    /\ stream' = buffer /\ buffer' = <<>>
    /\ Stays /\ UNCHANGED <<raw, saved, published, checkpoint, known, candidate, asked,
                            fates>>

-----------------------------------------------------------------------------
(* The loop of runAdaptiveExperiment: a phase is begun only when the       *)
(* budget pays for all of it.                                              *)

gamesRemaining == totalLearningBudget - checkpoint.gamesSpent
totalGames == Len(checkpoint.pendingGeneration.candidates) * ScreenGames

(* Mutant: the generation is screened whatever it costs.                   *)
MutScreeningFits == TRUE

ScreeningFits == totalGames <= gamesRemaining
BlockFits == BlockGames <= gamesRemaining
Affordable == IF Pending THEN ScreeningFits ELSE BlockFits

(* Mutant: a generation that is refused is tried again.                    *)
MutRefused == IF Pending THEN "phase" ELSE "flush"

Refused == "flush"

BeginPhase ==
    /\ at = "phase"
    /\ at' = IF ~ Affordable THEN Refused
             ELSE IF Pending /\ checkpoint.pendingGeneration.candidates = <<>> THEN "round"
             ELSE "play"
    /\ candidate' = 1
    /\ Stays /\ UNCHANGED <<stream, raw, saved, published, checkpoint, known, buffer, asked,
                            fates>>

(* How a match ends is a function of its seed: the same every time.  Any   *)
(* number of a phase may throw; those of block MaxBlock all do.            *)
Fates(match) ==
    IF match \in DOMAIN fates THEN {fates[match]}
    ELSE IF ~ Learning(match) THEN {"left"}
    ELSE IF checkpoint.nextBlock = MaxBlock THEN {"throws"}
    ELSE {"left", "right", "throws"} \cup (IF match[1] = "block" THEN {"none"} ELSE {})

Playing == at \in {"play", "final"} /\ Len(buffer) < FlushEvery

PlayMatch ==
    /\ Playing /\ ~ asked
    /\ \E n \in Unplayed :
          /\ \A k \in Unplayed : n <= k
          /\ LET match == Schedule[n]
             IN  \E fate \in Fates(match) :
                    /\ fates' = Put(fates, match, fate)
                    /\ IF fate = "throws"
                       THEN UNCHANGED <<known, buffer>>
                       ELSE known' = known \cup {match} /\ buffer' = Append(buffer, match)
    /\ Stays /\ UNCHANGED <<stream, raw, saved, published, at, checkpoint, candidate, asked>>

Flushed == stream' = stream \o buffer /\ buffer' = <<>>

Flush ==
    /\ at \in {"play", "final"} /\ Len(buffer) = FlushEvery
    /\ Flushed
    /\ Stays /\ UNCHANGED <<raw, saved, published, at, checkpoint, known, candidate, asked,
                            fates>>

(* The batch is over: the next candidate, or what the phase has decided.   *)
Played ==
    /\ Playing /\ Unplayed = {}
    /\ \/ /\ at = "final" /\ at' = "finalFlush" /\ UNCHANGED candidate
       \/ /\ at = "play" /\ ~ Pending /\ at' = "series" /\ UNCHANGED candidate
       \/ /\ at = "play" /\ Pending
          /\ IF candidate < Len(checkpoint.pendingGeneration.candidates)
             THEN candidate' = candidate + 1 /\ UNCHANGED at
             ELSE at' = "round" /\ UNCHANGED candidate
    /\ Stays /\ UNCHANGED <<stream, raw, saved, published, checkpoint, known, buffer, asked,
                            fates>>

-----------------------------------------------------------------------------
(* onRawEvent: the record of a block is put in the place of the one there. *)

Upsert(records, record) == Put(records, checkpoint.nextBlock, record)
Writes == /\ Stays
          /\ UNCHANGED <<stream, published, known, buffer, candidate, asked>>

(* Mutant: the candidates of a decisive block are not reported.            *)
MutAfterSeries == "checkpoint"

AfterSeries == IF Decisive THEN "generation" ELSE "checkpoint"

WriteSeries ==
    /\ at = "series" /\ at' = AfterSeries
    /\ series' = Upsert(series, [decision |-> Decision,
                                 incumbent |-> revisionId(Active("incumbent")),
                                 opponent |-> revisionId(Active("opponent"))])
    /\ Writes /\ UNCHANGED <<generations, rounds, saved, checkpoint, fates>>

(* generateAdaptiveCandidates, from the revision of the side that lost.    *)
Generated(side) ==
    LET loser == Active(side)
    IN  [block |-> checkpoint.nextBlock, generation |-> loser.generation + 1,
         incumbent |-> revisionId(loser), opponent |-> revisionId(Active(Other(side))),
         candidates |-> [i \in 1..brood |->
             [block |-> checkpoint.nextBlock, index |-> i,
              generation |-> loser.generation + 1, parent |-> revisionId(loser)]]]

WriteGeneration ==
    /\ at = "generation" /\ at' = "checkpoint"
    /\ generations' = Upsert(generations, Generated(Decision))
    /\ Writes /\ UNCHANGED <<series, rounds, saved, checkpoint, fates>>

(* Mutant: always the first side.                                          *)
MutLoserSideOf == "incumbent"

(* loserSideOf: the first side whose active revision the candidates are    *)
(* derived from.                                                           *)
loserSideOf ==
    LET names(side) == revisionId(Active(side)) = checkpoint.pendingGeneration.incumbent
    IN  ADAPTIVE_BLOCK_SIDES[CHOOSE i \in 1..2 :
            names(ADAPTIVE_BLOCK_SIDES[i]) /\ \A k \in 1..(i - 1) : ~ names(ADAPTIVE_BLOCK_SIDES[k])]

(* Of the candidates that won most of their decided games, the best; 0 for *)
(* none.                                                                   *)
decideAdaptivePromotion(won, lost) ==
    LET qualified == {i \in DOMAIN won : won[i] > lost[i]}
        better(i, k) == \/ won[i] > won[k]
                        \/ won[i] = won[k] /\ i < k
    IN  IF qualified = {} THEN 0
        ELSE CHOOSE i \in qualified : \A k \in qualified \ {i} : better(i, k)

Scores(side) == [i \in DOMAIN checkpoint.pendingGeneration.candidates |-> Wins(Screening(i), side)]
Promoted == decideAdaptivePromotion(Scores("left"), Scores("right"))

WriteRound ==
    /\ at = "round" /\ at' = "checkpoint"
    /\ rounds' = Upsert(rounds, [loserSide |-> loserSideOf,
                                 opponent |-> revisionId(Active(Other(loserSideOf))),
                                 promoted |-> Promoted])
    /\ Writes /\ UNCHANGED <<series, generations, saved, checkpoint, fates>>

BlockCost == Cardinality(Records(BlockMatches))

AfterBlock ==
    IF Decisive
    THEN [checkpoint EXCEPT !.gamesSpent = @ + BlockCost, !.pendingGeneration = Generated(Decision)]
    ELSE [checkpoint EXCEPT !.gamesSpent = @ + BlockCost, !.nextBlock = @ + 1]

AfterGeneration ==
    LET promotion == IF Promoted = 0 THEN <<>>
                     ELSE <<checkpoint.pendingGeneration.candidates[Promoted]>>
    IN  [checkpoint EXCEPT !.gamesSpent = @ + totalGames, !.nextBlock = @ + 1,
                           !.pendingGeneration = NoGeneration,
                           !.lineages[loserSideOf] = @ \o promotion]

(* onCheckpoint: the phase is settled.  What its seeds decided is not      *)
(* asked for again.                                                        *)
WriteCheckpoint ==
    /\ at = "checkpoint" /\ at' = "phase"
    /\ checkpoint.nextBlock < MaxBlock
    /\ checkpoint' = IF Pending THEN AfterGeneration ELSE AfterBlock
    /\ saved' = TRUE
    /\ fates' = <<>>
    /\ Writes /\ UNCHANGED raw

(* A block whose matches all threw has no record and costs nothing.        *)
SpendsNothing == at = "checkpoint" /\ ~ Pending /\ BlockCost = 0

(* The same, of block MaxBlock, whose number stands for those of all later *)
(* ones: the next block is like it, but for a stop before its first match. *)
WriteCheckpointAgain ==
    /\ SpendsNothing /\ checkpoint.nextBlock = MaxBlock
    /\ at' = IF asked THEN "stopping" ELSE "phase"
    /\ saved' = TRUE
    /\ Writes /\ UNCHANGED <<raw, checkpoint, fates>>

-----------------------------------------------------------------------------
(* The end of the run: the frozen decks are validated unless a generation  *)
(* is left undecided, and the documents are published.                     *)

RunEnds ==
    /\ at = "flush"
    /\ Flushed
    /\ at' = IF Pending THEN "raw" ELSE "final"
    /\ Stays /\ UNCHANGED <<raw, saved, published, checkpoint, known, candidate, asked,
                            fates>>

ValidationEnds ==
    /\ at = "finalFlush" /\ at' = "raw"
    /\ Flushed
    /\ Stays /\ UNCHANGED <<raw, saved, published, checkpoint, known, candidate, asked,
                            fates>>

(* The raw record is written as it is.                                     *)
PublishRaw ==
    /\ at = "raw" /\ at' = "publish"
    /\ Writes /\ UNCHANGED <<raw, saved, checkpoint, fates>>

PublishCheckpoint ==
    /\ at = "publish" /\ at' = "result"
    /\ saved' = TRUE
    /\ Writes /\ UNCHANGED <<raw, checkpoint, fates>>

PublishResult ==
    /\ at = "result" /\ Ends
    /\ published' = TRUE
    /\ Stays /\ UNCHANGED <<stream, raw, saved, checkpoint, buffer, fates>>

-----------------------------------------------------------------------------
(* Stop, failure, crash.                                                   *)

Interrupts == interruptions < MaxInterruptions

AskStop ==
    /\ Interrupts /\ ~ asked /\ at # "idle"
    /\ asked' = TRUE /\ interruptions' = interruptions + 1
    /\ UNCHANGED <<stream, raw, saved, published, at, checkpoint, known, buffer, candidate,
                   seeds>>

(* The stop is seen before the next match of a batch.                      *)
Stop ==
    /\ Playing /\ asked /\ Unplayed # {}
    /\ at' = "stopping"
    /\ Stays /\ UNCHANGED <<stream, raw, saved, published, checkpoint, known, buffer,
                            candidate, asked, fates>>

(* A batch is rejected, or a document cannot be written.  (When the last   *)
(* documents are written the buffer is empty.)                             *)
Fail ==
    /\ Interrupts /\ interruptions' = interruptions + 1
    /\ at \in {"play", "final", "series", "generation", "round", "checkpoint", "raw", "publish",
               "result"}
    /\ at' = "failing"
    /\ UNCHANGED <<stream, raw, saved, published, checkpoint, known, buffer, candidate, asked,
                   seeds>>

Unwind ==
    /\ at \in {"stopping", "failing"}
    /\ Flushed
    /\ IF at = "stopping" THEN at' = "stopped" /\ UNCHANGED <<known, candidate, asked>>
                          ELSE Ends
    /\ Stays /\ UNCHANGED <<raw, saved, published, checkpoint, fates>>

Stopped ==
    /\ at = "stopped" /\ Ends
    /\ saved' = TRUE
    /\ Stays /\ UNCHANGED <<stream, raw, published, checkpoint, buffer, fates>>

(* The buffer is lost, but for what a write under way got to disk.         *)
Writing == \/ at \in {"opening", "flush", "finalFlush", "stopping", "failing"}
           \/ at \in {"play", "final"} /\ Len(buffer) = FlushEvery

Crash ==
    /\ Interrupts /\ interruptions' = interruptions + 1
    /\ at # "idle" /\ Ends
    /\ \E n \in 0..(IF Writing THEN Len(buffer) ELSE 0) :
          stream' = stream \o SubSeq(buffer, 1, n)
    /\ buffer' = <<>>
    /\ UNCHANGED <<raw, saved, published, checkpoint, seeds>>

-----------------------------------------------------------------------------
Step ==
    \/ Opened \/ BeginPhase
    \/ PlayMatch \/ Flush \/ Played
    \/ WriteSeries \/ WriteGeneration \/ WriteRound
    \/ WriteCheckpoint \/ WriteCheckpointAgain
    \/ RunEnds \/ ValidationEnds \/ PublishRaw \/ PublishCheckpoint \/ PublishResult
    \/ Stop \/ Unwind \/ Stopped

Next == Open \/ Step \/ AskStop \/ Fail \/ Crash

(* An attempt goes on: its matches end and its writes return.              *)
Spec == Init /\ [][Next]_vars /\ WF_vars(Step)

-----------------------------------------------------------------------------
(* The documents have their shape, and a checkpoint that was never written *)
(* is the one a run begins with.                                           *)
TypeOK ==
    /\ at \in Places
    /\ {saved, published, asked, twins} \subseteq BOOLEAN
    /\ checkpoint.nextBlock \in 0..MaxBlock
    /\ checkpoint.gamesSpent \in 0..totalLearningBudget
    /\ \A side \in Sides : checkpoint.lineages[side] \in Seq(Revision)
    /\ DOMAIN series \cup DOMAIN generations \cup DOMAIN rounds \subseteq 0..MaxBlock
    /\ ~ saved => checkpoint = Fresh
    /\ Range(buffer) \subseteq known /\ Len(buffer) <= Cardinality(known)

(* Whatever was interrupted, the raw record has what the checkpoint is     *)
(* past: the series of every block, and the candidates and the screening   *)
(* of every block somebody lost (run.ts:97-101, onRawEvent).               *)
RawBacksCheckpoint ==
    /\ 0..checkpoint.nextBlock \subseteq DOMAIN series \cup {checkpoint.nextBlock}
    /\ Pending => /\ checkpoint.nextBlock \in DOMAIN series \cap DOMAIN generations
                  /\ generations[checkpoint.nextBlock] = checkpoint.pendingGeneration
    /\ \A block \in DOMAIN series : block < checkpoint.nextBlock /\ series[block].decision \in Sides
          => block \in DOMAIN generations \cap DOMAIN rounds

(* A phase that is played again after an interruption decides what it had  *)
(* decided: a record once written is only ever replaced by its equal       *)
(* (run.ts:74-83).                                                         *)
SameDecision ==
    [][/\ \A block \in DOMAIN series : series'[block] = series[block]
       /\ \A block \in DOMAIN generations : generations'[block] = generations[block]
       /\ \A block \in DOMAIN rounds : rounds'[block] = rounds[block]]_vars

(* The learning games on record never exceed the budget, replayed and      *)
(* interrupted phases included.                                            *)
BudgetKept == Cardinality({match \in known : Learning(match)}) <= totalLearningBudget

(* A lineage is the chain assertAdaptiveLineage wants: a root, and every   *)
(* further revision derived from the one before it, one generation on.     *)
LineageIsChain ==
    \A side \in Sides : LET chain == checkpoint.lineages[side] IN
        /\ chain[1] = Root
        /\ \A i \in 2..Len(chain) : /\ chain[i].parent = revisionId(chain[i - 1])
                                    /\ chain[i].generation = chain[i - 1].generation + 1

(* An attempt comes to an end: the budget runs out, unless block after     *)
(* block spends nothing of it.                                             *)
AttemptEnds == (at # "idle") ~> (at = "idle" \/ SpendsNothing)

(* The loop "stops cleanly once totalLearningBudget no longer affords the  *)
(* next whole block" (run.ts:66-68), without an exception.                 *)
LoopStops == (at # "idle") ~> (at = "idle")

(* When "a block decides a loser, that lineage's candidates" are promoted  *)
(* or retained (run.ts:60-63): the screening of a block is of the side     *)
(* that lost it.                                                           *)
LoserAdapts ==
    \A block \in DOMAIN rounds \cap DOMAIN series :
        rounds[block].loserSide = series[block].decision

(* "Match records, then that phase's raw event(s), then that phase's       *)
(* checkpoint advance - never the reverse" (run.ts:97-101).                *)
MatchesFirst ==
    [][checkpoint' # checkpoint => Records(Schedule) \subseteq Range(stream)]_vars
=============================================================================
