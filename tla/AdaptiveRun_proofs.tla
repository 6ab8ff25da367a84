-------------------------- MODULE AdaptiveRun_proofs --------------------------
(***************************************************************************)
(* Proofs about AdaptiveRun: lineages are chains, the raw record backs the *)
(* checkpoint, a phase played again decides what it had decided, and the   *)
(* learning budget holds, for any sizes of block, screening and generation *)
(* and wherever the run is stopped, fails or dies.                         *)
(***************************************************************************)
EXTENDS AdaptiveRun, WellFoundedInduction, FiniteSetTheorems, SequenceTheorems, TLAPS

-----------------------------------------------------------------------------
(* The least of some numbers.                                              *)

Less == OpToRel(<, Nat)

LEMMA LessWellFounded == IsWellFoundedOn(Less, Nat)
  BY NatLessThanWellFounded, Zenon DEF OpToRel, Less

LEMMA Least ==
    ASSUME NEW S \in SUBSET Nat, S # {}
    PROVE  \E k \in S : \A j \in S : k <= j
<1>1. PICK k \in S : \A j \in S : ~ (<<j, k>> \in Less)
  BY LessWellFounded, WFMin
<1>2. \A i, j \in Nat : i < j => <<i, j>> \in Less
  BY DEF Less, OpToRel
<1>3. \A j \in S : k \in Nat /\ j \in Nat /\ ~ (j < k)
  BY <1>1, <1>2
<1> QED
  BY <1>3

(* The greatest of some numbers that have a bound.                         *)
LEMMA Greatest ==
    ASSUME NEW S \in SUBSET Nat, S # {}, NEW bound \in Nat, \A k \in S : k <= bound
    PROVE  \E k \in S : \A j \in S : j <= k
<1> DEFINE rest == {bound - k : k \in S}
<1>1. rest \in SUBSET Nat /\ rest # {}
  <2>1. \A k \in S : k \in Nat /\ k <= bound
    OBVIOUS
  <2>2. \A k \in S : bound - k \in Nat
    BY <2>1
  <2> QED
    BY <2>2
<1>2. PICK r \in rest : \A q \in rest : r <= q
  <2> HIDE DEF rest
  <2> QED
    BY <1>1, Least
<1>3. PICK k \in S : r = bound - k
  OBVIOUS
<1>4. \A j \in S : bound - k <= bound - j
  BY <1>2, <1>3
<1>5. \A j \in S : j <= k
  <2> SUFFICES ASSUME NEW j \in S PROVE j <= k
    OBVIOUS
  <2>1. bound - k <= bound - j /\ j \in Nat /\ k \in Nat
    BY <1>4
  <2> QED
    BY <2>1
<1> QED
  BY <1>5

-----------------------------------------------------------------------------
(* The games of a schedule, and how many of them there are.                *)

LEMMA Bounds ==
    /\ BlockGames \in Nat \ {0} /\ FinalGames \in Nat \ {0} /\ ScreenGames \in 1..2
    /\ candidateCount \in Nat /\ totalLearningBudget \in Nat /\ MaxBlock \in Nat
BY AdaptiveConstants

LEMMA GamesOf ==
    ASSUME NEW kind, NEW block, NEW deck, NEW games \in Nat
    PROVE  /\ Range(Matches(kind, block, deck, games)) = {<<kind, block, deck, n>> : n \in 1..games}
           /\ IsFiniteSet(Range(Matches(kind, block, deck, games)))
           /\ Cardinality(Range(Matches(kind, block, deck, games))) <= games
<1> DEFINE f == Matches(kind, block, deck, games)
<1>1. f \in Surjection(1..games, Range(f))
  BY DEF Matches, Surjection, Range
<1>2. IsFiniteSet(1..games) /\ Cardinality(1..games) = games
  BY FS_Interval
<1>3. IsFiniteSet(Range(f)) /\ Cardinality(Range(f)) <= Cardinality(1..games)
  <2> HIDE DEF f
  <2> QED
    BY <1>1, <1>2, FS_Surjection
<1> QED
  BY <1>2, <1>3 DEF Matches, Range

(* Any count over the games of a schedule is at most its length.           *)
LEMMA CountOf ==
    ASSUME NEW kind, NEW block, NEW deck, NEW games \in Nat,
           NEW G \in SUBSET Range(Matches(kind, block, deck, games))
    PROVE  IsFiniteSet(G) /\ Cardinality(G) \in 0..games
<1>1. IsFiniteSet(G) /\ Cardinality(G) <= games
  <2> DEFINE all == Range(Matches(kind, block, deck, games))
  <2>1. IsFiniteSet(all) /\ Cardinality(all) <= games
    BY GamesOf
  <2> HIDE DEF all
  <2>2. IsFiniteSet(G) /\ Cardinality(G) <= Cardinality(all)
    BY <2>1, FS_Subset DEF all
  <2> QED
    BY <2>1, <2>2, FS_CardinalityType
<1> QED
  BY <1>1, FS_CardinalityType

-----------------------------------------------------------------------------
(* The rules.                                                              *)

(* Somebody or nobody is promoted: the best is there to be chosen.         *)
LEMMA SomebodyIsBest ==
    ASSUME NEW n \in Nat, NEW bound \in Nat,
           NEW won \in [1..n -> 0..bound], NEW lost \in [1..n -> 0..bound]
    PROVE  decideAdaptivePromotion(won, lost) \in 0..n
<1> DEFINE qualified == {i \in DOMAIN won : won[i] > lost[i]}
           better(i, k) == won[i] > won[k] \/ (won[i] = won[k] /\ i < k)
           best == CHOOSE i \in qualified : \A k \in qualified \ {i} : better(i, k)
<1>1. decideAdaptivePromotion(won, lost) = IF qualified = {} THEN 0 ELSE best
  BY Zenon DEF decideAdaptivePromotion
<1>2. \A i \in qualified : i \in 1..n /\ won[i] \in Nat /\ won[i] <= bound
  OBVIOUS
<1>3. CASE qualified = {}
  BY <1>1, <1>3
<1>4. CASE qualified # {}
  <2> DEFINE scores == {won[i] : i \in qualified}
  <2> HIDE DEF qualified
  <2>1. scores \in SUBSET Nat /\ scores # {} /\ \A k \in scores : k <= bound
    BY <1>4, <1>2
  <2>2. PICK top \in scores : \A k \in scores : k <= top
    <3> HIDE DEF scores
    <3> QED
      BY <2>1, Greatest
  <2> DEFINE leaders == {i \in qualified : won[i] = top}
  <2>3. leaders \in SUBSET Nat /\ leaders # {}
    BY <1>2, <2>2
  <2>4. PICK first \in leaders : \A k \in leaders : first <= k
    <3> HIDE DEF leaders
    <3> QED
      BY <2>3, Least
  <2>5. first \in qualified /\ won[first] = top
    BY <2>4
  <2>6. \A k \in qualified \ {first} : better(first, k)
    <3> SUFFICES ASSUME NEW k \in qualified \ {first} PROVE better(first, k)
      OBVIOUS
    <3>1. won[k] <= top /\ won[k] \in Nat /\ top \in Nat /\ k \in Nat /\ first \in Nat
      BY <1>2, <2>2, <2>5
    <3>2. won[k] = top => first <= k
      BY <2>4
    <3> QED
      BY <2>5, <3>1, <3>2
  <2> HIDE DEF better
  <2>7. best \in qualified
    BY <2>5, <2>6
  <2> HIDE DEF best
  <2> QED
    BY <1>1, <1>4, <1>2, <2>7
<1> QED
  BY <1>3, <1>4

LEMMA BlockVerdict ==
    ASSUME NEW left, NEW right
    PROVE  decideAdaptiveBlock(left, right) \in {"no_decision", "tie"} \cup Sides
BY DEF decideAdaptiveBlock, Sides
-----------------------------------------------------------------------------
(* The lineages: a chain from the root, of revisions of earlier blocks, no *)
(* two with one identity; and a generation under way descends from the     *)
(* revision some side plays now.                                           *)
Generation == [block : 0..MaxBlock, generation : Nat, incumbent : Seq(Nat), opponent : Seq(Nat),
               candidates : Seq(Revision)]
Checkpoint == [gamesSpent : Nat, nextBlock : 0..MaxBlock, pendingGeneration : Generation,
               lineages : [Sides -> Seq(Revision)]]

InPhase == at \in {"play", "series", "generation", "round", "checkpoint"}
CheckpointOK ==
    /\ checkpoint \in Checkpoint
    /\ brood \in 0..candidateCount

Earlier(revision) == revision = Root \/ (revision.index > 0 /\ revision.block < checkpoint.nextBlock)
Lineages ==
    /\ \A side \in Sides : Len(checkpoint.lineages[side]) > 0
    /\ \A side \in Sides : \A i \in DOMAIN checkpoint.lineages[side] :
          Earlier(checkpoint.lineages[side][i])
    /\ \A s, t \in Sides :
          \A i \in DOMAIN checkpoint.lineages[s], k \in DOMAIN checkpoint.lineages[t] :
             revisionId(checkpoint.lineages[s][i]) = revisionId(checkpoint.lineages[t][k])
                => checkpoint.lineages[s][i] = checkpoint.lineages[t][k]

Bred(generation) ==
    /\ generation.block = checkpoint.nextBlock
    /\ \E side \in Sides : /\ generation.incumbent = revisionId(Active(side))
                           /\ generation.generation = Active(side).generation + 1
    /\ \A i \in DOMAIN generation.candidates :
          generation.candidates[i] = [block |-> checkpoint.nextBlock, index |-> i,
                                      generation |-> generation.generation,
                                      parent |-> generation.incumbent]

ChainInv ==
    /\ CheckpointOK
    /\ Lineages /\ LineageIsChain
    /\ Pending => Bred(checkpoint.pendingGeneration)

(* The games: those of the phase in progress, and those of phases before. *)
Game == {"block", "screen", "final"} \X Nat \X Nat \X Nat
Recorded == known \cup Range(stream) \cup Range(buffer)
Candidates == DOMAIN checkpoint.pendingGeneration.candidates
PhaseGames ==
    IF Pending THEN {<<"screen", checkpoint.nextBlock, d, n>> : d \in Candidates, n \in 1..ScreenGames}
               ELSE Range(BlockMatches)
Past(game) ==
    /\ Learning(game)
    /\ \/ game[2] < checkpoint.nextBlock
       \/ game[2] = checkpoint.nextBlock /\ Pending /\ game[1] = "block"

GamesInv ==
    /\ stream \in Seq(Game) /\ buffer \in Seq(Game) /\ known \in SUBSET Game
    /\ at # "idle" => Recorded \subseteq known
    /\ \A game \in Recorded : Learning(game) => Past(game) \/ game \in PhaseGames
    /\ \A game \in Recorded \cap PhaseGames : game \in DOMAIN fates /\ fates[game] # "throws"
    /\ IsFiniteSet(Recorded)
    /\ Cardinality({game \in Recorded : Past(game)}) <= checkpoint.gamesSpent
    /\ checkpoint.gamesSpent <= totalLearningBudget
    /\ Recorded \cap PhaseGames # {} \/ InPhase => Affordable

(* A batch that is over has a fate for every game, and a record unless it  *)
(* threw.                                                                  *)
Settled(matches) ==
    \A game \in Range(matches) : /\ game \in DOMAIN fates
                                 /\ game \in known <=> fates[game] # "throws"
PlaceInv ==
    /\ at \in {"series", "generation"} => ~ Pending
    /\ at = "round" => Pending
    /\ at = "play" /\ Pending => /\ candidate \in Candidates
                                 /\ \A i \in Candidates : i < candidate => Settled(Screening(i))
    /\ at \in {"series", "generation", "checkpoint"} /\ ~ Pending => Settled(BlockMatches)
    /\ at \in {"round", "checkpoint"} /\ Pending =>
          \A i \in Candidates : Settled(Screening(i))

(* What the fates say of a phase, whoever has played it.                   *)
Tally(matches, side) == Cardinality({game \in Range(matches) : fates[game] = side})
Verdict == decideAdaptiveBlock(Tally(BlockMatches, "left"), Tally(BlockMatches, "right"))
Fated(matches) == Range(matches) \subseteq DOMAIN fates
TrueSeries == [decision |-> Verdict, incumbent |-> revisionId(Active("incumbent")),
               opponent |-> revisionId(Active("opponent"))]
TrueScores(side) == [i \in Candidates |-> Tally(Screening(i), side)]
TrueRound == [loserSide |-> loserSideOf, opponent |-> revisionId(Active(Other(loserSideOf))),
              promoted |-> decideAdaptivePromotion(TrueScores("left"), TrueScores("right"))]

RawInRange == DOMAIN series \cup DOMAIN generations \cup DOMAIN rounds \subseteq 0..checkpoint.nextBlock
RawIsTrue ==
    LET block == checkpoint.nextBlock
    IN  /\ ~ Pending => block \notin DOMAIN rounds
        /\ ~ Pending /\ block \in DOMAIN series => Fated(BlockMatches) /\ series[block] = TrueSeries
        /\ ~ Pending /\ block \in DOMAIN generations =>
              /\ block \in DOMAIN series /\ Verdict \in Sides
              /\ generations[block] = Generated(Verdict)
        /\ Pending /\ block \in DOMAIN rounds =>
              (\A i \in Candidates : Fated(Screening(i))) /\ rounds[block] = TrueRound
RawReached ==
    LET block == checkpoint.nextBlock
    IN  /\ at = "generation" => block \in DOMAIN series /\ Verdict \in Sides
        /\ at = "checkpoint" /\ ~ Pending =>
              block \in DOMAIN series /\ (Verdict \in Sides => block \in DOMAIN generations)
        /\ at = "checkpoint" /\ Pending => block \in DOMAIN rounds

RecordInv == RawInRange /\ RawBacksCheckpoint /\ RawIsTrue /\ RawReached

-----------------------------------------------------------------------------
(* Lineages.                                                               *)

LEMMA InitChain == Init => ChainInv
<1> SUFFICES ASSUME Init PROVE ChainInv
  OBVIOUS
<1>1. checkpoint = Fresh /\ brood \in 0..candidateCount /\ at = "idle"
  BY DEF Init
<1>2. Root \in Revision /\ <<Root>> \in Seq(Revision) /\ Len(<<Root>>) = 1
  <2>1. Root \in Revision
    BY Bounds, EmptySeq DEF Root, Revision
  <2> QED
    BY <2>1
<1>3. NoGeneration \in Generation
  BY Bounds, EmptySeq DEF NoGeneration, Generation
<1>4. checkpoint \in Checkpoint
  BY <1>1, <1>2, <1>3, Bounds DEF Fresh, Checkpoint
<1>5. \A side \in Sides : checkpoint.lineages[side] = <<Root>>
  BY <1>1 DEF Fresh
<1>6. ~ Pending
  BY <1>1 DEF Pending, Fresh
<1>7. DOMAIN <<Root>> = {1} /\ <<Root>>[1] = Root
  BY <1>2
<1>8. Lineages
  BY <1>2, <1>5, <1>7 DEF Lineages, Earlier
<1>9. LineageIsChain
  BY <1>2, <1>5, <1>7 DEF LineageIsChain
<1> QED
  BY <1>1, <1>4, <1>6, <1>8, <1>9 DEF ChainInv, CheckpointOK, InPhase

LEMMA ActiveIs ==
    ASSUME CheckpointOK, Lineages, NEW side \in Sides
    PROVE  LET lineage == checkpoint.lineages[side]
           IN  /\ lineage \in Seq(Revision) /\ Len(lineage) \in Nat \ {0}
               /\ DOMAIN lineage = 1..Len(lineage) /\ Len(lineage) \in DOMAIN lineage
               /\ Active(side) = lineage[Len(lineage)] /\ Active(side) \in Revision
<1>1. checkpoint.lineages[side] \in Seq(Revision) /\ Len(checkpoint.lineages[side]) > 0
  BY DEF CheckpointOK, Checkpoint, Lineages
<1> QED
  BY <1>1, LenProperties, ElementOfSeq DEF Active

LEMMA IdIsSeq ==
    ASSUME NEW revision \in Revision
    PROVE  revisionId(revision) \in Seq(Nat)
BY DEF revisionId, Revision

(* The side loserSideOf finds plays the revision the candidates are of.    *)
LEMMA LoserIs ==
    ASSUME ChainInv, Pending
    PROVE  /\ loserSideOf \in Sides
           /\ revisionId(Active(loserSideOf)) = checkpoint.pendingGeneration.incumbent
           /\ checkpoint.pendingGeneration.generation = Active(loserSideOf).generation + 1
<1> DEFINE names(side) == revisionId(Active(side)) = checkpoint.pendingGeneration.incumbent
           S == {i \in 1..2 : names(ADAPTIVE_BLOCK_SIDES[i])}
           first == CHOOSE i \in 1..2 : /\ names(ADAPTIVE_BLOCK_SIDES[i])
                                        /\ \A k \in 1..(i - 1) : ~ names(ADAPTIVE_BLOCK_SIDES[k])
<1>1. PICK side \in Sides : /\ checkpoint.pendingGeneration.incumbent = revisionId(Active(side))
                            /\ checkpoint.pendingGeneration.generation = Active(side).generation + 1
  BY DEF ChainInv, Bred
<1>2. /\ ADAPTIVE_BLOCK_SIDES[1] = "incumbent" /\ ADAPTIVE_BLOCK_SIDES[2] = "opponent"
      /\ side \in {ADAPTIVE_BLOCK_SIDES[1], ADAPTIVE_BLOCK_SIDES[2]}
  BY DEF ADAPTIVE_BLOCK_SIDES, Sides
<1>3. \E i \in 1..2 : /\ names(ADAPTIVE_BLOCK_SIDES[i])
                      /\ \A k \in 1..(i - 1) : ~ names(ADAPTIVE_BLOCK_SIDES[k])
  <2>1. CASE names(ADAPTIVE_BLOCK_SIDES[1])
    <3> HIDE DEF names
    <3>1. \A k \in 1..(1 - 1) : ~ names(ADAPTIVE_BLOCK_SIDES[k])
      OBVIOUS
    <3> QED
      BY <2>1, <3>1
  <2>2. CASE ~ names(ADAPTIVE_BLOCK_SIDES[1])
    <3>1. names(ADAPTIVE_BLOCK_SIDES[2])
      BY <1>1, <1>2, <2>2
    <3> HIDE DEF names
    <3>2. \A k \in 1..(2 - 1) : k = 1
      OBVIOUS
    <3> QED
      BY <2>2, <3>1, <3>2
  <2> QED
    BY <2>1, <2>2
<1>4. first \in 1..2 /\ names(ADAPTIVE_BLOCK_SIDES[first])
  <2> HIDE DEF names
  <2> QED
    BY <1>3
<1>5. loserSideOf = ADAPTIVE_BLOCK_SIDES[first]
  BY Zenon DEF loserSideOf
<1> HIDE DEF first
<1>6. loserSideOf \in Sides /\ revisionId(Active(loserSideOf)) = revisionId(Active(side))
  BY <1>1, <1>2, <1>4, <1>5 DEF Sides
<1>7. Active(loserSideOf) = Active(side)
  BY <1>6, ActiveIs DEF ChainInv, Lineages
<1> QED
  BY <1>1, <1>6, <1>7

(* The candidates of either side are a generation under way.               *)
LEMMA GeneratedIs ==
    ASSUME ChainInv, NEW side \in Sides
    PROVE  /\ Generated(side) \in Generation /\ Generated(side) # NoGeneration
           /\ Bred(Generated(side))
           /\ Len(Generated(side).candidates) = brood
           /\ DOMAIN Generated(side).candidates = 1..brood
<1> DEFINE loser == Active(side)
           candidate_(i) == [block |-> checkpoint.nextBlock, index |-> i,
                             generation |-> loser.generation + 1, parent |-> revisionId(loser)]
           candidates == [i \in 1..brood |-> candidate_(i)]
<1>1. /\ CheckpointOK /\ Lineages /\ brood \in Nat /\ brood <= candidateCount
      /\ checkpoint.nextBlock \in 0..MaxBlock /\ candidateCount \in Nat
  BY Bounds DEF ChainInv, CheckpointOK, Checkpoint
<1>2. loser \in Revision /\ Active(Other(side)) \in Revision
  <2>1. Other(side) \in Sides
    BY DEF Other, Sides
  <2> QED
    BY <1>1, <2>1, ActiveIs
<1>3. /\ revisionId(loser) \in Seq(Nat) /\ revisionId(Active(Other(side))) \in Seq(Nat)
      /\ loser.generation \in Nat
  BY <1>2, IdIsSeq DEF Revision
<1>4. Generated(side) = [block |-> checkpoint.nextBlock, generation |-> loser.generation + 1,
                         incumbent |-> revisionId(loser),
                         opponent |-> revisionId(Active(Other(side))),
                         candidates |-> candidates]
  BY DEF Generated
<1> HIDE DEF loser
<1>5. \A i \in 1..brood : candidate_(i) \in Revision
  BY <1>1, <1>3 DEF Revision
<1>6. candidates \in Seq(Revision) /\ Len(candidates) = brood /\ DOMAIN candidates = 1..brood
  <2>1. candidates \in [1..brood -> Revision]
    BY <1>5
  <2> HIDE DEF candidates
  <2>2. candidates \in Seq(Revision)
    BY <1>1, <2>1, SeqDef
  <2> QED
    BY <1>1, <2>1, <2>2, LenProperties
<1>7. Bred(Generated(side))
  <2>1. \A i \in DOMAIN candidates : candidates[i] = candidate_(i)
    OBVIOUS
  <2> HIDE DEF candidates
  <2> QED
    BY <1>4, <2>1 DEF Bred, loser
<1> HIDE DEF candidates
<1> QED
  BY <1>1, <1>3, <1>4, <1>6, <1>7 DEF Generation, NoGeneration

LEMMA CountsAre ==
    ASSUME CheckpointOK
    PROVE  /\ Len(checkpoint.pendingGeneration.candidates) \in Nat
           /\ Candidates = 1..Len(checkpoint.pendingGeneration.candidates)
           /\ BlockCost \in 0..BlockGames
           /\ \A side : Scores(side) \in [Candidates -> 0..ScreenGames]
<1>1. checkpoint.pendingGeneration.candidates \in Seq(Revision)
  BY DEF CheckpointOK, Checkpoint, Generation
<1>2. /\ Len(checkpoint.pendingGeneration.candidates) \in Nat
      /\ Candidates = 1..Len(checkpoint.pendingGeneration.candidates)
  BY <1>1, LenProperties DEF Candidates
<1>3. BlockCost \in 0..BlockGames
  <2>1. Records(BlockMatches) \in SUBSET Range(Matches("block", checkpoint.nextBlock, 0, BlockGames))
    BY DEF Records, BlockMatches
  <2> QED
    BY <2>1, Bounds, CountOf DEF BlockCost
<1>4. ASSUME NEW side, NEW i PROVE Wins(Screening(i), side) \in 0..ScreenGames
  <2> DEFINE won == {match \in Records(Screening(i)) : fates[match] = side}
             deck == Deck(i)
  <2>1. won \in SUBSET Range(Matches("screen", checkpoint.nextBlock, deck, ScreenGames))
    BY DEF Records, Screening
  <2> HIDE DEF won, deck
  <2>2. Cardinality(won) \in 0..ScreenGames
    BY <2>1, Bounds, CountOf
  <2> QED
    BY <2>2 DEF Wins, won
<1> QED
  BY <1>2, <1>3, <1>4 DEF Scores, Candidates

LEMMA PromotedIs ==
    ASSUME CheckpointOK
    PROVE  Promoted = 0 \/ Promoted \in Candidates
<1> DEFINE n == Len(checkpoint.pendingGeneration.candidates)
           won == Scores("left")
           lost == Scores("right")
<1>1. /\ n \in Nat /\ ScreenGames \in Nat /\ Candidates = 1..n
      /\ won \in [1..n -> 0..ScreenGames] /\ lost \in [1..n -> 0..ScreenGames]
  BY CountsAre, Bounds
<1>2. Promoted = decideAdaptivePromotion(won, lost)
  BY DEF Promoted
<1> HIDE DEF n, won, lost
<1>3. Promoted \in 0..n
  BY <1>1, <1>2, SomebodyIsBest
<1> QED
  BY <1>1, <1>3

(* Lineages nobody adds to are as sound in a later block.                  *)
LEMMA LineagesStay ==
    ASSUME ChainInv, checkpoint'.nextBlock \in Nat, checkpoint.nextBlock <= checkpoint'.nextBlock,
           checkpoint'.lineages = checkpoint.lineages
    PROVE  Lineages' /\ LineageIsChain'
<1>1. CheckpointOK /\ Lineages /\ LineageIsChain /\ checkpoint.nextBlock \in Nat
  BY DEF ChainInv, CheckpointOK, Checkpoint
<1>2. \A s \in Sides : \A i \in DOMAIN checkpoint.lineages[s] :
         checkpoint.lineages[s][i].block < checkpoint.nextBlock
            => checkpoint.lineages[s][i].block < checkpoint'.nextBlock
  <2> SUFFICES ASSUME NEW s \in Sides, NEW i \in DOMAIN checkpoint.lineages[s]
               PROVE  checkpoint.lineages[s][i].block < checkpoint.nextBlock
                         => checkpoint.lineages[s][i].block < checkpoint'.nextBlock
    OBVIOUS
  <2>1. checkpoint.lineages[s][i] \in Revision
    BY <1>1, ActiveIs, ElementOfSeq
  <2>2. checkpoint.lineages[s][i].block \in Nat
    BY <2>1 DEF Revision
  <2> QED
    BY <1>1, <2>2
<1>3. Lineages'
  BY <1>1, <1>2 DEF Lineages, Earlier
<1> QED
  BY <1>1, <1>3 DEF LineageIsChain

LEMMA OneMore ==
    ASSUME NEW S, NEW s \in Seq(S), NEW t \in Seq(S)
    PROVE  Len(t) = 1 => /\ s \o t \in Seq(S) /\ Len(s \o t) = Len(s) + 1
                         /\ \A i \in 1..Len(s) : (s \o t)[i] = s[i]
                         /\ (s \o t)[Len(s) + 1] = t[1]
<1> DEFINE m == Len(s)
           n == Len(t)
           st == s \o t
<1>1. /\ st \in Seq(S) /\ Len(st) = m + n /\ m \in Nat
      /\ \A i \in 1..(m + n) : st[i] = IF i <= m THEN s[i] ELSE t[i - m]
  BY ConcatProperties
<1> HIDE DEF m, n, st
<1>2. ASSUME n = 1
      PROVE  st \in Seq(S) /\ Len(st) = m + 1 /\ (\A i \in 1..m : st[i] = s[i]) /\ st[m + 1] = t[1]
  <2> DEFINE k == m + 1
  <2>1. k \in 1..(m + n) /\ ~ (k <= m) /\ k - m = 1
    BY <1>1, <1>2
  <2> HIDE DEF k
  <2>2. st[k] = t[1]
    BY <1>1, <2>1
  <2>3. \A i \in 1..m : i \in 1..(m + n) /\ i <= m
    BY <1>1, <1>2
  <2>4. \A i \in 1..m : st[i] = s[i]
    BY <1>1, <2>3
  <2> QED
    BY <1>1, <1>2, <2>2, <2>4 DEF k
<1> QED
  BY <1>2 DEF m, n, st

(* A revision of this block, derived from the last of a lineage, carries   *)
(* it on.                                                                  *)
LEMMA LineagesGrow ==
    ASSUME ChainInv, checkpoint.nextBlock < MaxBlock, NEW side \in Sides,
           NEW promotion \in Seq(Revision), NEW revision \in Revision,
           Len(promotion) = 1, promotion[1] = revision,
           revision.block = checkpoint.nextBlock, revision.index > 0,
           revision.parent = revisionId(Active(side)),
           revision.generation = Active(side).generation + 1,
           checkpoint'.nextBlock = checkpoint.nextBlock + 1,
           checkpoint'.lineages = [checkpoint.lineages EXCEPT ![side] = @ \o promotion]
    PROVE  Lineages' /\ LineageIsChain' /\ checkpoint'.lineages \in [Sides -> Seq(Revision)]
<1> DEFINE old == checkpoint.lineages
           new == checkpoint'.lineages
           L == Len(old[side])
<1>1. /\ CheckpointOK /\ Lineages /\ LineageIsChain
      /\ old \in [Sides -> Seq(Revision)] /\ checkpoint.nextBlock \in Nat
  BY DEF ChainInv, CheckpointOK, Checkpoint
<1>2. \A s \in Sides : /\ old[s] \in Seq(Revision) /\ Len(old[s]) \in Nat /\ Len(old[s]) > 0
                       /\ DOMAIN old[s] = 1..Len(old[s])
  BY <1>1, ActiveIs
<1>3. Active(side) = old[side][L] /\ L \in DOMAIN old[side]
  BY <1>1, ActiveIs
<1>4. promotion \in Seq(Revision) /\ Len(promotion) = 1 /\ promotion[1] = revision
  OBVIOUS
<1>5. /\ new[side] \in Seq(Revision) /\ Len(new[side]) = L + 1
      /\ \A i \in 1..L : new[side][i] = old[side][i]
      /\ new[side][L + 1] = revision
  <2> DEFINE was == old[side]
  <2>1. was \in Seq(Revision) /\ new[side] = was \o promotion
    BY <1>1, <1>2
  <2> HIDE DEF was
  <2> QED
    BY <1>4, <2>1, OneMore DEF was
<1>6. \A s \in Sides \ {side} : new[s] = old[s]
  BY <1>1
<1>7. \A s \in Sides : /\ new[s] \in Seq(Revision) /\ Len(new[s]) \in Nat /\ Len(new[s]) >= Len(old[s])
                       /\ DOMAIN new[s] = 1..Len(new[s])
                       /\ \A i \in 1..Len(old[s]) : new[s][i] = old[s][i]
                       /\ \A i \in 1..Len(new[s]) :
                             i \in 1..Len(old[s]) \/ (s = side /\ i = L + 1 /\ new[s][i] = revision)
  <2> SUFFICES ASSUME NEW s \in Sides
               PROVE  /\ new[s] \in Seq(Revision) /\ Len(new[s]) \in Nat /\ Len(new[s]) >= Len(old[s])
                      /\ DOMAIN new[s] = 1..Len(new[s])
                      /\ \A i \in 1..Len(old[s]) : new[s][i] = old[s][i]
                      /\ \A i \in 1..Len(new[s]) :
                            i \in 1..Len(old[s]) \/ (s = side /\ i = L + 1 /\ new[s][i] = revision)
    OBVIOUS
  <2> HIDE DEF new, old
  <2>1. CASE s # side
    BY <1>2, <1>6, <2>1
  <2>2. CASE s = side
    <3>1. new[s] \in Seq(Revision) /\ DOMAIN new[s] = 1..Len(new[s]) /\ Len(new[s]) \in Nat
      BY <1>5, <2>2, LenProperties
    <3>2. L = Len(old[s]) /\ L \in Nat
      BY <1>2, <2>2
    <3> HIDE DEF L
    <3>3. Len(new[s]) = L + 1 /\ new[s][L + 1] = revision
      BY <1>4, <1>5, <2>2
    <3>4. \A i \in 1..Len(new[s]) :
             i \in 1..Len(old[s]) \/ (s = side /\ i = L + 1 /\ new[s][i] = revision)
      BY <2>2, <3>2, <3>3
    <3>5. \A i \in 1..Len(old[s]) : new[s][i] = old[s][i]
      BY <1>5, <2>2, <3>2
    <3> QED
      BY <3>1, <3>2, <3>3, <3>4, <3>5
  <2> QED
    BY <2>1, <2>2
<1>8. new \in [Sides -> Seq(Revision)]
  BY <1>1, <1>7
<1>9. \A s \in Sides : \A i \in DOMAIN old[s] :
         /\ old[s][i] \in Revision
         /\ old[s][i] = Root \/ (old[s][i].index > 0 /\ old[s][i].block < checkpoint.nextBlock)
  BY <1>1, <1>2, ElementOfSeq DEF Lineages, Earlier
<1>10. \A s, t \in Sides : \A i \in DOMAIN old[s], k \in DOMAIN old[t] :
          revisionId(old[s][i]) = revisionId(old[t][k]) => old[s][i] = old[t][k]
  BY <1>1 DEF Lineages
<1>11. \A s \in Sides : \A i \in DOMAIN old[s] : revisionId(old[s][i]) # revisionId(revision)
  <2> SUFFICES ASSUME NEW s \in Sides, NEW i \in DOMAIN old[s]
               PROVE  revisionId(old[s][i]) # revisionId(revision)
    OBVIOUS
  <2> DEFINE r == old[s][i]
  <2>1. r \in Revision /\ (r = Root \/ (r.index > 0 /\ r.block < checkpoint.nextBlock))
    BY <1>9
  <2> HIDE DEF r
  <2>2. <<r.block, r.index>> # <<revision.block, revision.index>>
    BY <1>1, <2>1 DEF Root, Revision
  <2> QED
    BY <2>2 DEF revisionId, r
<1>12. checkpoint'.nextBlock = checkpoint.nextBlock + 1
  OBVIOUS
<1>13. LineageIsChain'
  <2>1. \A s \in Sides : /\ old[s][1] = Root
                         /\ \A i \in 2..Len(old[s]) :
                               /\ old[s][i].parent = revisionId(old[s][i - 1])
                               /\ old[s][i].generation = old[s][i - 1].generation + 1
    BY <1>1 DEF LineageIsChain
  <2> SUFFICES ASSUME NEW s \in Sides
               PROVE  /\ new[s][1] = Root
                      /\ \A i \in 2..Len(new[s]) :
                            /\ new[s][i].parent = revisionId(new[s][i - 1])
                            /\ new[s][i].generation = new[s][i - 1].generation + 1
    BY DEF LineageIsChain
  <2>2. Len(old[s]) \in Nat /\ Len(old[s]) > 0 /\ L \in Nat /\ L > 0
    BY <1>2
  <2>3. new[s][1] = Root
    BY <1>7, <2>1, <2>2
  <2>4. ASSUME NEW i \in 2..Len(new[s])
        PROVE  /\ new[s][i].parent = revisionId(new[s][i - 1])
               /\ new[s][i].generation = new[s][i - 1].generation + 1
    <3>1. i \in Nat /\ i >= 2 /\ i \in 1..Len(new[s]) /\ i - 1 \in Nat /\ i - 1 >= 1
      BY <1>7
    <3>2. CASE i \in 1..Len(old[s])
      <4>1. i \in 2..Len(old[s]) /\ i - 1 \in 1..Len(old[s])
        BY <3>1, <3>2, <2>2
      <4> DEFINE k == i - 1
      <4>2. /\ old[s][i].parent = revisionId(old[s][k])
            /\ old[s][i].generation = old[s][k].generation + 1
        BY <2>1, <4>1
      <4>3. k \in 1..Len(old[s])
        BY <4>1
      <4> HIDE DEF k, old, new
      <4>4. new[s][i] = old[s][i] /\ new[s][k] = old[s][k]
        BY <1>7, <3>2, <4>3
      <4>5. new[s][i].parent = revisionId(new[s][k])
            /\ new[s][i].generation = new[s][k].generation + 1
        BY <4>2, <4>4
      <4> QED
        BY <4>5 DEF k
    <3>3. CASE s = side /\ i = L + 1 /\ new[s][i] = revision
      <4>1. i - 1 = L /\ L \in 1..Len(old[s])
        BY <2>2, <3>3
      <4>2. new[s][i - 1] = Active(side)
        BY <1>3, <1>7, <3>3, <4>1
      <4> HIDE DEF old, new, L
      <4> QED
        BY <3>3, <4>2
    <3> HIDE DEF old, new, L
    <3> QED
      BY <1>7, <3>1, <3>2, <3>3
  <2> QED
    BY <2>3, <2>4
<1>14. Lineages'
  <2> HIDE DEF old, L
  <2>1. \A s \in Sides : Len(new[s]) > 0
    BY <1>2, <1>7
  <2>2. \A s \in Sides : \A i \in DOMAIN new[s] : \/ \E k \in DOMAIN old[s] : new[s][i] = old[s][k]
                                                  \/ new[s][i] = revision
    BY <1>2, <1>7
  <2>3. \A s \in Sides : \A i \in DOMAIN new[s] :
           new[s][i] = Root \/ (new[s][i].index > 0 /\ new[s][i].block < checkpoint'.nextBlock)
    <3> SUFFICES ASSUME NEW s \in Sides, NEW i \in DOMAIN new[s]
                 PROVE  new[s][i] = Root
                        \/ (new[s][i].index > 0 /\ new[s][i].block < checkpoint'.nextBlock)
      OBVIOUS
    <3> HIDE DEF new
    <3>1. CASE new[s][i] = revision
      BY <1>1, <1>12, <3>1
    <3>2. ASSUME NEW k \in DOMAIN old[s], new[s][i] = old[s][k]
          PROVE  new[s][i] = Root
                 \/ (new[s][i].index > 0 /\ new[s][i].block < checkpoint'.nextBlock)
      <4>1. old[s][k].block \in Nat
        BY <1>9 DEF Revision
      <4> QED
        BY <1>1, <1>9, <1>12, <3>2, <4>1
    <3> QED
      BY <2>2, <3>1, <3>2
  <2>4. \A s, t \in Sides : \A i \in DOMAIN new[s], k \in DOMAIN new[t] :
           revisionId(new[s][i]) = revisionId(new[t][k]) => new[s][i] = new[t][k]
    <3> HIDE DEF new
    <3> QED
      BY <1>10, <1>11, <2>2
  <2> QED
    BY <2>1, <2>3, <2>4 DEF Lineages, Earlier
<1> QED
  BY <1>8, <1>13, <1>14

(* Only a checkpoint that is written changes what is known of the decks.   *)
LEMMA KeptUntilWritten ==
    ASSUME [Next]_vars, ~ WriteCheckpoint
    PROVE  /\ UNCHANGED <<checkpoint, brood, twins>>
           /\ InPhase' => InPhase \/ Affordable
<1> USE DEF InPhase, Stays, Writes
<1>1. CASE Open
  BY <1>1 DEF Open
<1>2. CASE Opened \/ BeginPhase
  BY <1>2, Zenon DEF Opened, BeginPhase, Refused
<1>3. CASE PlayMatch
  BY <1>3 DEF PlayMatch, Playing
<1>4. CASE Flush \/ Played
  BY <1>4 DEF Flush, Played, Playing
<1>5. CASE WriteSeries \/ WriteGeneration \/ WriteRound
  BY <1>5 DEF WriteSeries, WriteGeneration, WriteRound
<1>6. CASE RunEnds \/ ValidationEnds \/ PublishRaw \/ PublishCheckpoint \/ PublishResult
  BY <1>6 DEF RunEnds, ValidationEnds, PublishRaw, PublishCheckpoint, PublishResult, Ends
<1>10. CASE WriteCheckpointAgain
  BY <1>10 DEF WriteCheckpointAgain
<1>7. CASE Stop \/ Unwind \/ Stopped
  BY <1>7 DEF Stop, Unwind, Stopped, Ends
<1>8. CASE AskStop \/ Fail \/ Crash
  BY <1>8 DEF AskStop, Fail, Crash, Ends, seeds
<1>9. CASE UNCHANGED vars
  BY <1>9 DEF vars, seeds
<1> QED
  BY <1>1, <1>2, <1>3, <1>4, <1>5, <1>6, <1>7, <1>8, <1>9, <1>10 DEF Next, Step

LEMMA ChainKept ==
    ASSUME ChainInv, UNCHANGED <<checkpoint, brood>>
    PROVE  ChainInv'
<1>1. CheckpointOK'
  BY DEF ChainInv, CheckpointOK
<1>2. Lineages' /\ LineageIsChain'
  BY DEF ChainInv, Lineages, Earlier, LineageIsChain
<1>3. Pending' => Bred(checkpoint.pendingGeneration)'
  BY DEF ChainInv, Pending, Bred, Active
<1> QED
  BY <1>1, <1>2, <1>3 DEF ChainInv

(* What a checkpoint that is written changes.                              *)
LEMMA AfterBlockIs ==
    ASSUME ChainInv, WriteCheckpoint, ~ Pending
    PROVE  /\ checkpoint'.gamesSpent = checkpoint.gamesSpent + BlockCost
           /\ checkpoint'.lineages = checkpoint.lineages
           /\ Decisive => /\ checkpoint'.nextBlock = checkpoint.nextBlock
                          /\ checkpoint'.pendingGeneration = Generated(Decision)
           /\ ~ Decisive => /\ checkpoint'.nextBlock = checkpoint.nextBlock + 1
                            /\ checkpoint'.pendingGeneration = NoGeneration
<1>1. checkpoint' = AfterBlock
  BY DEF WriteCheckpoint
<1>2. checkpoint \in Checkpoint /\ checkpoint.pendingGeneration = NoGeneration
  BY DEF ChainInv, CheckpointOK, Pending
<1> DEFINE cost == BlockCost
           generated == Generated(Decision)
<1>3. CASE Decisive
  <2>1. checkpoint' = [checkpoint EXCEPT !.gamesSpent = @ + cost, !.pendingGeneration = generated]
    BY <1>1, <1>3 DEF AfterBlock
  <2> HIDE DEF cost, generated
  <2>2. /\ checkpoint'.gamesSpent = checkpoint.gamesSpent + cost
        /\ checkpoint'.lineages = checkpoint.lineages
        /\ checkpoint'.nextBlock = checkpoint.nextBlock
        /\ checkpoint'.pendingGeneration = generated
    BY <1>2, <2>1 DEF Checkpoint
  <2> QED
    BY <1>3, <2>2 DEF cost, generated
<1>4. CASE ~ Decisive
  <2>1. checkpoint' = [checkpoint EXCEPT !.gamesSpent = @ + cost, !.nextBlock = @ + 1]
    BY <1>1, <1>4 DEF AfterBlock
  <2> HIDE DEF cost, generated
  <2>2. /\ checkpoint'.gamesSpent = checkpoint.gamesSpent + cost
        /\ checkpoint'.lineages = checkpoint.lineages
        /\ checkpoint'.nextBlock = checkpoint.nextBlock + 1
        /\ checkpoint'.pendingGeneration = NoGeneration
    BY <1>2, <2>1 DEF Checkpoint
  <2> QED
    BY <1>4, <2>2 DEF cost, generated
<1> QED
  BY <1>3, <1>4

LEMMA AfterGenerationIs ==
    ASSUME ChainInv, WriteCheckpoint, Pending
    PROVE  /\ checkpoint'.gamesSpent = checkpoint.gamesSpent + totalGames
           /\ checkpoint'.nextBlock = checkpoint.nextBlock + 1
           /\ checkpoint'.pendingGeneration = NoGeneration
           /\ checkpoint'.lineages =
                 [checkpoint.lineages EXCEPT ![loserSideOf] = @ \o
                     (IF Promoted = 0 THEN <<>>
                      ELSE <<checkpoint.pendingGeneration.candidates[Promoted]>>)]
<1> DEFINE cost == totalGames
           promotion == IF Promoted = 0 THEN <<>>
                        ELSE <<checkpoint.pendingGeneration.candidates[Promoted]>>
           loser == loserSideOf
<1>1. checkpoint' = [checkpoint EXCEPT !.gamesSpent = @ + cost, !.nextBlock = @ + 1,
                                       !.pendingGeneration = NoGeneration,
                                       !.lineages[loser] = @ \o promotion]
  BY Zenon DEF WriteCheckpoint, AfterGeneration
<1>2. checkpoint \in Checkpoint
  BY DEF ChainInv, CheckpointOK
<1> HIDE DEF cost, promotion, loser
<1>3. /\ checkpoint'.gamesSpent = checkpoint.gamesSpent + cost
      /\ checkpoint'.nextBlock = checkpoint.nextBlock + 1
      /\ checkpoint'.pendingGeneration = NoGeneration
      /\ checkpoint'.lineages = [checkpoint.lineages EXCEPT ![loser] = @ \o promotion]
  BY <1>1, <1>2 DEF Checkpoint
<1> QED
  BY <1>3, Zenon DEF cost, promotion, loser

LEMMA ChainWritten ==
    ASSUME ChainInv, WriteCheckpoint
    PROVE  ChainInv'
<1>1. /\ CheckpointOK /\ Lineages /\ LineageIsChain /\ checkpoint.nextBlock < MaxBlock
      /\ checkpoint \in Checkpoint /\ checkpoint.nextBlock \in Nat /\ MaxBlock \in Nat
      /\ brood' = brood /\ at' = "phase" /\ brood \in 0..candidateCount
  BY Bounds DEF ChainInv, CheckpointOK, Checkpoint, WriteCheckpoint, InPhase, Writes, Stays
<1>2. checkpoint' = [gamesSpent |-> checkpoint'.gamesSpent, nextBlock |-> checkpoint'.nextBlock,
                     pendingGeneration |-> checkpoint'.pendingGeneration,
                     lineages |-> checkpoint'.lineages]
  <2> DEFINE cost == BlockCost
             generated == Generated(Decision)
             total == totalGames
             promotion == IF Promoted = 0 THEN <<>>
                          ELSE <<checkpoint.pendingGeneration.candidates[Promoted]>>
             loser == loserSideOf
  <2>1. \/ checkpoint' = [checkpoint EXCEPT !.gamesSpent = @ + cost, !.pendingGeneration = generated]
        \/ checkpoint' = [checkpoint EXCEPT !.gamesSpent = @ + cost, !.nextBlock = @ + 1]
        \/ checkpoint' = [checkpoint EXCEPT !.gamesSpent = @ + total, !.nextBlock = @ + 1,
                                            !.pendingGeneration = NoGeneration,
                                            !.lineages[loser] = @ \o promotion]
    BY Zenon DEF WriteCheckpoint, AfterGeneration, AfterBlock
  <2> HIDE DEF cost, generated, total, promotion, loser
  <2> QED
    BY <1>1, <2>1 DEF Checkpoint
<1>3. CASE ~ Pending
  <2>1. checkpoint'.lineages = checkpoint.lineages /\ checkpoint'.gamesSpent \in Nat
    BY <1>1, <1>3, AfterBlockIs, CountsAre, Bounds DEF Checkpoint
  <2>2. checkpoint.nextBlock <= checkpoint'.nextBlock /\ checkpoint'.nextBlock \in 0..MaxBlock
    BY <1>1, <1>3, AfterBlockIs
  <2>4. Lineages' /\ LineageIsChain'
    BY <1>1, <2>1, <2>2, LineagesStay
  <2>5. /\ checkpoint'.pendingGeneration \in Generation
        /\ Pending' => Bred(checkpoint.pendingGeneration)'
    <3>1. CASE Decisive
      <4> DEFINE generated == Generated(Decision)
      <4>1. generated \in Generation /\ Bred(generated)
        BY <3>1, GeneratedIs DEF Decisive
      <4>2. checkpoint'.pendingGeneration = generated /\ checkpoint'.nextBlock = checkpoint.nextBlock
        BY <1>3, <3>1, AfterBlockIs
      <4> HIDE DEF generated
      <4>3. \A side \in Sides : Active(side)' = Active(side)
        BY <2>1 DEF Active
      <4>4. Bred(checkpoint.pendingGeneration)'
        BY <4>1, <4>2, <4>3 DEF Bred
      <4> QED
        BY <4>1, <4>2, <4>4
    <3>2. CASE ~ Decisive
      <4>1. NoGeneration \in Generation
        BY Bounds, EmptySeq DEF NoGeneration, Generation
      <4> QED
        BY <1>3, <3>2, <4>1, AfterBlockIs DEF Pending
    <3> QED
      BY <3>1, <3>2
  <2>6. checkpoint' \in Checkpoint
    BY <1>1, <1>2, <2>1, <2>2, <2>5 DEF Checkpoint
  <2> QED
    BY <1>1, <2>4, <2>5, <2>6 DEF ChainInv, CheckpointOK, InPhase
<1>4. CASE Pending
  <2> DEFINE candidates == checkpoint.pendingGeneration.candidates
             promotion == IF Promoted = 0 THEN <<>> ELSE <<candidates[Promoted]>>
             loser == loserSideOf
  <2>1. loser \in Sides
    BY <1>4, LoserIs
  <2>2. /\ checkpoint'.nextBlock = checkpoint.nextBlock + 1
        /\ checkpoint'.pendingGeneration = NoGeneration
        /\ checkpoint'.lineages = [checkpoint.lineages EXCEPT ![loser] = @ \o promotion]
        /\ checkpoint'.gamesSpent = checkpoint.gamesSpent + totalGames
    BY <1>4, AfterGenerationIs, Zenon
  <2>8. /\ checkpoint'.nextBlock \in 0..MaxBlock /\ checkpoint'.nextBlock \in Nat
        /\ checkpoint.nextBlock <= checkpoint'.nextBlock
        /\ checkpoint'.pendingGeneration = NoGeneration
    BY <1>1, <2>2
  <2>3. checkpoint'.gamesSpent \in Nat
    <3>1. totalGames \in Nat
      BY <1>1, CountsAre, Bounds DEF totalGames
    <3> QED
      BY <1>1, <2>2, <3>1 DEF Checkpoint
  <2>4. Lineages' /\ LineageIsChain' /\ checkpoint'.lineages \in [Sides -> Seq(Revision)]
    <3>1. CASE Promoted = 0
      <4> DEFINE was == checkpoint.lineages
      <4>1. was \in [Sides -> Seq(Revision)] /\ promotion = <<>>
        BY <1>1, <3>1 DEF Checkpoint
      <4>2. was[loser] \in Seq(Revision)
        BY <2>1, <4>1
      <4>3. was[loser] \o promotion = was[loser]
        BY <4>1, <4>2, ConcatEmptySeq
      <4> HIDE DEF promotion, loser
      <4>4. checkpoint'.lineages = [was EXCEPT ![loser] = was[loser] \o promotion]
        BY <2>1, <2>2, <4>1
      <4> HIDE DEF was
      <4>5. checkpoint'.lineages = was
        BY <4>1, <4>3, <4>4
      <4> QED
        BY <1>1, <2>8, <4>1, <4>5, LineagesStay DEF was
    <3>2. CASE Promoted # 0
      <4> DEFINE revision == candidates[Promoted]
      <4>1. Promoted \in Candidates /\ candidates \in Seq(Revision)
        BY <1>1, <3>2, PromotedIs DEF Checkpoint, Generation
      <4>2. revision \in Revision /\ Promoted \in Nat /\ Promoted > 0
        BY <1>1, <4>1, CountsAre, ElementOfSeq DEF Candidates
      <4>3. /\ revision.block = checkpoint.nextBlock /\ revision.index = Promoted
            /\ revision.generation = checkpoint.pendingGeneration.generation
            /\ revision.parent = checkpoint.pendingGeneration.incumbent
        <5> DEFINE index == Promoted
        <5>1. index \in DOMAIN candidates
          BY <4>1 DEF Candidates
        <5>2. \A i \in DOMAIN candidates :
                 candidates[i] = [block |-> checkpoint.nextBlock, index |-> i,
                                  generation |-> checkpoint.pendingGeneration.generation,
                                  parent |-> checkpoint.pendingGeneration.incumbent]
          BY <1>4 DEF ChainInv, Bred
        <5> HIDE DEF index, candidates
        <5> QED
          BY <5>1, <5>2 DEF index
      <4>4. promotion = <<revision>>
        BY <3>2
      <4> HIDE DEF promotion, revision, loser
      <4>5. promotion \in Seq(Revision) /\ Len(promotion) = 1 /\ promotion[1] = revision
        BY <4>2, <4>4
      <4>6. /\ revision.parent = revisionId(Active(loser))
            /\ revision.generation = Active(loser).generation + 1
        BY <1>4, <4>3, LoserIs DEF loser
      <4> QED
        BY <1>1, <2>1, <2>2, <4>2, <4>3, <4>5, <4>6, LineagesGrow
    <3> QED
      BY <3>1, <3>2
  <2>5. NoGeneration \in Generation
    BY Bounds, EmptySeq DEF NoGeneration, Generation
  <2>6. checkpoint' \in Checkpoint
    BY <1>2, <2>3, <2>4, <2>5, <2>8 DEF Checkpoint
  <2>7. ~ Pending'
    BY <2>2 DEF Pending
  <2> QED
    BY <1>1, <2>4, <2>6, <2>7 DEF ChainInv, CheckpointOK, InPhase
<1> QED
  BY <1>3, <1>4

LEMMA ChainStep == ChainInv /\ [Next]_vars => ChainInv'
<1> SUFFICES ASSUME ChainInv, [Next]_vars PROVE ChainInv'
  OBVIOUS
<1>1. CASE WriteCheckpoint
  BY <1>1, ChainWritten
<1>2. CASE ~ WriteCheckpoint
  <2>1. UNCHANGED <<checkpoint, brood>>
    BY <1>2, KeptUntilWritten
  <2> QED
    BY <2>1, ChainKept
<1> QED
  BY <1>1, <1>2

(* However often the run is stopped or dies, either lineage is the chain   *)
(* assertAdaptiveLineage demands when the decks are frozen: a promotion    *)
(* puts a revision after the one it was derived from, on the side that     *)
(* still plays it.                                                         *)
THEOREM LineagesAreChains == Spec => []LineageIsChain
<1>1. Spec => []ChainInv
  BY InitChain, ChainStep, PTL DEF Spec
<1>2. ChainInv => LineageIsChain
  BY DEF ChainInv
<1> QED
  BY <1>1, <1>2, PTL

-----------------------------------------------------------------------------
(* Games on record.                                                        *)

LEMMA Ranges ==
    ASSUME stream \in Seq(Game), buffer \in Seq(Game)
    PROVE  /\ <<>> \in Seq(Game) /\ Range(<<>>) = {}
           /\ stream \o buffer \in Seq(Game)
           /\ Range(stream \o buffer) = Range(stream) \cup Range(buffer)
           /\ \A n \in 0..Len(buffer) :
                 LET written == stream \o SubSeq(buffer, 1, n)
                 IN  written \in Seq(Game) /\ Range(written) \subseteq Range(stream) \cup Range(buffer)
           /\ \A game \in Game : /\ Append(buffer, game) \in Seq(Game)
                                 /\ Range(Append(buffer, game)) = Range(buffer) \cup {game}
<1>1. <<>> \in Seq(Game) /\ Range(<<>>) = {}
  BY EmptySeq DEF Range
<1>2. /\ stream \o buffer \in Seq(Game)
      /\ Range(stream \o buffer) = Range(stream) \cup Range(buffer)
  BY RangeConcatenation, ConcatProperties
<1>3. ASSUME NEW n \in 0..Len(buffer)
      PROVE  LET written == stream \o SubSeq(buffer, 1, n)
             IN  written \in Seq(Game) /\ Range(written) \subseteq Range(stream) \cup Range(buffer)
  <2> DEFINE part == SubSeq(buffer, 1, n)
  <2>1. Len(buffer) \in Nat /\ n \in Nat /\ n <= Len(buffer)
    BY LenProperties
  <2>2. \A i \in 1..n : i \in DOMAIN buffer /\ buffer[i] \in Game
    BY <2>1, LenProperties
  <2>3. part \in Seq(Game) /\ Len(part) = n /\ \A i \in 1..n : part[i] = buffer[i]
    BY <2>1, <2>2
  <2> HIDE DEF part
  <2>4. Range(part) \subseteq Range(buffer)
    BY <2>2, <2>3, RangeEquality DEF Range
  <2> QED
    <3>1. /\ stream \o part \in Seq(Game)
          /\ Range(stream \o part) = Range(stream) \cup Range(part)
      BY <2>3, RangeConcatenation, ConcatProperties
    <3> QED
      BY <2>4, <3>1 DEF part
<1>4. ASSUME NEW game \in Game
      PROVE  /\ Append(buffer, game) \in Seq(Game)
             /\ Range(Append(buffer, game)) = Range(buffer) \cup {game}
  <2> DEFINE longer == Append(buffer, game)
             k == Len(buffer)
  <2>1. /\ longer \in Seq(Game) /\ Len(longer) = k + 1 /\ k \in Nat
        /\ \A i \in 1..k : longer[i] = buffer[i]
        /\ longer[k + 1] = game
    BY AppendProperties, LenProperties
  <2> HIDE DEF longer
  <2>2. Range(longer) = {longer[i] : i \in 1..(k + 1)} /\ Range(buffer) = {buffer[i] : i \in 1..k}
    BY <2>1, RangeEquality
  <2> HIDE DEF k
  <2>3. 1..(k + 1) = (1..k) \cup {k + 1}
    BY <2>1
  <2> QED
    BY <2>1, <2>2, <2>3 DEF longer
<1> QED
  BY <1>1, <1>2, <1>3, <1>4

(* No step but a match adds to what is on record.                          *)
LEMMA OnlyMatchesAdd ==
    ASSUME stream \in Seq(Game), buffer \in Seq(Game), known \in SUBSET Game,
           at # "idle" => Recorded \subseteq known,
           [Next]_vars, ~ PlayMatch
    PROVE  /\ stream' \in Seq(Game) /\ buffer' \in Seq(Game) /\ known' \in SUBSET Game
           /\ Recorded' \subseteq Recorded
           /\ at' # "idle" => Recorded' \subseteq known'
           /\ at \in {"play", "final"} /\ at' # "idle" => known' = known
<1> DEFINE Goal == /\ stream' \in Seq(Game) /\ buffer' \in Seq(Game) /\ known' \in SUBSET Game
                   /\ Recorded' \subseteq Recorded
                   /\ at' # "idle" => Recorded' \subseteq known'
                   /\ at \in {"play", "final"} /\ at' # "idle" => known' = known
<1>1. ASSUME UNCHANGED <<stream, buffer>>,
             (at' # "idle" /\ at # "idle" /\ known' = known) \/ (at' = "idle" /\ known' = {})
      PROVE  Goal
  BY <1>1 DEF Recorded
<1>2. ASSUME Flushed, at # "idle",
             (at' # "idle" /\ known' = known) \/ (at' = "idle" /\ known' = {})
      PROVE  Goal
  BY <1>2, Ranges DEF Recorded, Flushed
<1> USE DEF Stays, Writes, Ends
<1>3. CASE Open
  BY <1>3, Ranges, RangeOfSeq DEF Open, Recorded
<1>4. CASE Opened
  <2>1. stream' = buffer /\ buffer' = <<>> /\ known' = known /\ at = "opening" /\ at' = "phase"
    BY <1>4 DEF Opened
  <2> QED
    BY <2>1, Ranges DEF Recorded
<1>5. CASE BeginPhase \/ Played \/ Stop
  <2>1. UNCHANGED <<stream, buffer, known>> /\ at # "idle" /\ at' # "idle"
    BY <1>5 DEF BeginPhase, Played, Stop, Refused, Playing
  <2> QED
    BY <1>1, <2>1
<1>6. CASE Flush \/ RunEnds \/ ValidationEnds
  <2>1. Flushed /\ known' = known /\ at # "idle" /\ at' # "idle"
    BY <1>6 DEF Flush, RunEnds, ValidationEnds
  <2> QED
    BY <1>2, <2>1
<1>7. CASE WriteSeries \/ WriteGeneration \/ WriteRound \/ WriteCheckpoint \/ PublishRaw
           \/ PublishCheckpoint \/ WriteCheckpointAgain
  <2>1. UNCHANGED <<stream, buffer, known>> /\ at # "idle" /\ at' # "idle"
    BY <1>7 DEF WriteSeries, WriteGeneration, WriteRound, WriteCheckpoint, PublishRaw,
                PublishCheckpoint, AfterSeries, WriteCheckpointAgain, SpendsNothing
  <2> QED
    BY <1>1, <2>1
<1>8. CASE PublishResult \/ Stopped
  <2>1. UNCHANGED <<stream, buffer>> /\ known' = {} /\ at' = "idle"
    BY <1>8 DEF PublishResult, Stopped
  <2> QED
    BY <1>1, <2>1
<1>9. CASE Unwind
  <2>1. Flushed /\ at # "idle"
        /\ ((at' # "idle" /\ known' = known) \/ (at' = "idle" /\ known' = {}))
    BY <1>9 DEF Unwind
  <2> QED
    BY <1>2, <2>1
<1>10. CASE Crash
  <2>1. PICK n \in 0..(IF Writing THEN Len(buffer) ELSE 0) : stream' = stream \o SubSeq(buffer, 1, n)
    BY <1>10 DEF Crash
  <2>2. Len(buffer) \in Nat
    BY LenProperties
  <2>3. n \in 0..Len(buffer)
    BY <2>1, <2>2
  <2>4. buffer' = <<>> /\ known' = {} /\ at' = "idle"
    BY <1>10 DEF Crash
  <2> QED
    BY <2>1, <2>3, <2>4, Ranges DEF Recorded
<1>11. CASE AskStop \/ Fail
  <2>1. UNCHANGED <<stream, buffer, known>> /\ at # "idle" /\ at' # "idle"
    BY <1>11 DEF AskStop, Fail
  <2> QED
    BY <1>1, <2>1
<1>12. CASE UNCHANGED vars
  <2>1. UNCHANGED <<stream, buffer, known, at>>
    BY <1>12 DEF vars
  <2> QED
    BY <2>1 DEF Recorded
<1> QED
  BY <1>3, <1>4, <1>5, <1>6, <1>7, <1>8, <1>9, <1>10, <1>11, <1>12 DEF Next, Step

LEMMA FatesKept ==
    ASSUME [Next]_vars, ~ PlayMatch, ~ WriteCheckpoint
    PROVE  fates' = fates
<1> USE DEF Stays, Writes
<1>1. CASE Open \/ Opened \/ BeginPhase \/ Flush \/ Played
  BY <1>1 DEF Open, Opened, BeginPhase, Flush, Played
<1>2. CASE WriteSeries \/ WriteGeneration \/ WriteRound
  BY <1>2 DEF WriteSeries, WriteGeneration, WriteRound
<1>3. CASE RunEnds \/ ValidationEnds \/ PublishRaw \/ PublishCheckpoint \/ PublishResult
           \/ WriteCheckpointAgain
  BY <1>3 DEF RunEnds, ValidationEnds, PublishRaw, PublishCheckpoint, PublishResult,
              WriteCheckpointAgain
<1>4. CASE Stop \/ Unwind \/ Stopped \/ AskStop \/ Fail \/ Crash
  BY <1>4 DEF Stop, Unwind, Stopped, AskStop, Fail, Crash, seeds
<1>5. CASE UNCHANGED vars
  BY <1>5 DEF vars, seeds
<1> QED
  BY <1>1, <1>2, <1>3, <1>4, <1>5 DEF Next, Step

Plays(match, fate) ==
    /\ match \notin known
    /\ at = "play" => match \in PhaseGames
    /\ at = "final" => ~ Learning(match)
    /\ fates' = Put(fates, match, fate)
    /\ match \in DOMAIN fates => fates[match] = fate
    /\ \/ fate = "throws" /\ at = "play" /\ UNCHANGED <<known, buffer>>
       \/ fate # "throws" /\ known' = known \cup {match} /\ buffer' = Append(buffer, match)

(* What a step plays is a game nobody has a record of, of the phase in     *)
(* progress or of the validation; it ends as it ended before.              *)
LEMMA PlayIs ==
    ASSUME ChainInv, GamesInv, PlaceInv, PlayMatch
    PROVE  /\ at \in {"play", "final"} /\ at' = at
           /\ UNCHANGED <<stream, checkpoint, candidate, brood, twins>>
           /\ \E match \in Game : \E fate : Plays(match, fate)
<1>1. /\ at \in {"play", "final"} /\ at' = at
      /\ UNCHANGED <<stream, checkpoint, candidate, brood, twins>>
  BY DEF PlayMatch, Playing, Stays
<1>2. PICK n \in Unplayed : \E fate \in Fates(Schedule[n]) :
         /\ fates' = Put(fates, Schedule[n], fate)
         /\ IF fate = "throws"
            THEN UNCHANGED <<known, buffer>>
            ELSE known' = known \cup {Schedule[n]} /\ buffer' = Append(buffer, Schedule[n])
  BY DEF PlayMatch
<1>3. PICK fate \in Fates(Schedule[n]) :
         /\ fates' = Put(fates, Schedule[n], fate)
         /\ IF fate = "throws"
            THEN UNCHANGED <<known, buffer>>
            ELSE known' = known \cup {Schedule[n]} /\ buffer' = Append(buffer, Schedule[n])
  BY <1>2
<1> DEFINE match == Schedule[n]
<1>4. n \in DOMAIN Schedule /\ match \notin known /\ ~ Thrown(match)
  BY <1>2 DEF Unplayed
<1>5. checkpoint.nextBlock \in Nat /\ checkpoint \in Checkpoint
  BY DEF ChainInv, CheckpointOK, Checkpoint
<1>6. /\ match \in Game
      /\ at = "play" => match \in PhaseGames
      /\ at = "final" => ~ Learning(match)
  <2>1. CASE at = "final"
    <3>1. Schedule = Matches("final", 0, 0, FinalGames)
      BY <2>1 DEF Schedule
    <3>2. n \in 1..FinalGames /\ match = <<"final", 0, 0, n>>
      BY <1>4, <3>1 DEF Matches
    <3> QED
      BY <2>1, <3>2, Bounds DEF Game, Learning
  <2>2. CASE at = "play" /\ ~ Pending
    <3>1. Schedule = BlockMatches /\ PhaseGames = Range(BlockMatches)
      BY <2>2 DEF Schedule, PhaseGames
    <3>2. n \in 1..BlockGames /\ match = <<"block", checkpoint.nextBlock, 0, n>>
      BY <1>4, <3>1 DEF Matches, BlockMatches
    <3>3. match \in PhaseGames
      BY <1>4, <3>1 DEF Range
    <3> QED
      BY <1>5, <2>2, <3>2, <3>3, Bounds DEF Game
  <2>3. CASE at = "play" /\ Pending
    <3>1. Schedule = Screening(candidate)
      BY <2>3 DEF Schedule
    <3>2. n \in 1..ScreenGames /\ match = <<"screen", checkpoint.nextBlock, Deck(candidate), n>>
      BY <1>4, <3>1 DEF Matches, Screening
    <3>3. candidate \in Candidates
      BY <2>3 DEF PlaceInv
    <3>4. Deck(candidate) \in Candidates /\ Deck(candidate) \in Nat
      BY <3>3, CountsAre DEF Deck, ChainInv
    <3> DEFINE deck == Deck(candidate)
    <3> HIDE DEF deck, match
    <3>5. match \in PhaseGames
      BY <2>3, <3>2, <3>4 DEF PhaseGames, deck
    <3> QED
      BY <1>5, <2>3, <3>2, <3>4, <3>5, Bounds DEF Game
  <2> QED
    BY <1>1, <2>1, <2>2, <2>3
<1> HIDE DEF match
<1>7. /\ match \in DOMAIN fates => fates[match] = fate
      /\ fate = "throws" => at = "play"
  <2>1. fate \in Fates(match)
    BY <1>3 DEF match
  <2>2. at = "final" /\ match \notin DOMAIN fates => Fates(match) = {"left"}
    BY <1>6 DEF Fates
  <2>3. match \in DOMAIN fates => Fates(match) = {fates[match]} /\ fates[match] # "throws"
    BY <1>4 DEF Fates, Thrown
  <2> QED
    BY <1>1, <2>1, <2>2, <2>3
<1>8. /\ fates' = Put(fates, match, fate)
      /\ \/ fate = "throws" /\ UNCHANGED <<known, buffer>>
         \/ fate # "throws" /\ known' = known \cup {match} /\ buffer' = Append(buffer, match)
  BY <1>3 DEF match
<1> QED
  BY <1>1, <1>4, <1>6, <1>7, <1>8 DEF Plays

(* What a phase costs at most: the matches it has.                         *)
PhaseCost == IF Pending THEN totalGames ELSE BlockGames

LEMMA PhaseGamesAre ==
    ASSUME ChainInv, NEW G \in SUBSET PhaseGames
    PROVE  IsFiniteSet(G) /\ Cardinality(G) \in 0..PhaseCost /\ PhaseCost \in Nat
<1> DEFINE candidates == checkpoint.pendingGeneration.candidates
           L == Len(candidates)
           block == checkpoint.nextBlock
<1>1. CASE ~ Pending
  <2>1. PhaseGames = Range(Matches("block", block, 0, BlockGames)) /\ PhaseCost = BlockGames
    BY <1>1 DEF PhaseGames, PhaseCost, BlockMatches
  <2> QED
    BY <2>1, Bounds, CountOf
<1>2. CASE Pending
  <2>1. L \in Nat /\ Candidates = 1..L /\ PhaseCost = L * ScreenGames /\ ScreenGames \in Nat
    BY <1>2, CountsAre, Bounds DEF ChainInv, PhaseCost, totalGames
  <2>2. PhaseGames = {<<"screen", block, d, n>> : d \in Candidates, n \in 1..ScreenGames}
    BY <1>2 DEF PhaseGames
  <2> HIDE DEF L, block
  <2> DEFINE places == (1..L) \X (1..ScreenGames)
             f == [p \in places |-> <<"screen", block, p[1], p[2]>>]
  <2>3. IsFiniteSet(places) /\ Cardinality(places) = L * ScreenGames
    <3>1. /\ IsFiniteSet(1..L) /\ Cardinality(1..L) = L
          /\ IsFiniteSet(1..ScreenGames) /\ Cardinality(1..ScreenGames) = ScreenGames
      BY <2>1, FS_Interval
    <3> QED
      BY <3>1, FS_Product
  <2>4. f \in Surjection(places, PhaseGames)
    <3>1. \A p \in places : f[p] = <<"screen", block, p[1], p[2]>> /\ p[1] \in Candidates /\ p[2] \in 1..ScreenGames
      BY <2>1
    <3>2. \A p \in places : f[p] \in PhaseGames
      <4> SUFFICES ASSUME NEW p \in places PROVE f[p] \in PhaseGames
        OBVIOUS
      <4> DEFINE d == p[1]
                 n == p[2]
      <4>1. f[p] = <<"screen", block, d, n>> /\ d \in Candidates /\ n \in 1..ScreenGames
        BY <3>1
      <4> HIDE DEF d, n, f, places
      <4> QED
        BY <2>2, <4>1
    <3>3. f \in [places -> PhaseGames]
      BY <3>2
    <3>4. \A game \in PhaseGames : \E p \in places : f[p] = game
      <4> SUFFICES ASSUME NEW game \in PhaseGames PROVE \E p \in places : f[p] = game
        OBVIOUS
      <4>1. PICK d \in Candidates, n \in 1..ScreenGames : game = <<"screen", block, d, n>>
        BY <2>2
      <4>2. <<d, n>> \in places /\ f[<<d, n>>] = <<"screen", block, d, n>>
        BY <2>1
      <4> QED
        BY <4>1, <4>2
    <3> HIDE DEF f
    <3> QED
      BY <3>3, <3>4 DEF Surjection
  <2> HIDE DEF f, places
  <2>5. IsFiniteSet(PhaseGames) /\ Cardinality(PhaseGames) <= L * ScreenGames
    BY <2>3, <2>4, FS_Surjection
  <2>6. IsFiniteSet(G) /\ Cardinality(G) <= Cardinality(PhaseGames) /\ Cardinality(G) \in Nat
    BY <2>5, FS_Subset, FS_CardinalityType
  <2>7. L * ScreenGames \in Nat /\ Cardinality(PhaseGames) \in Nat
    BY <2>1, <2>5, FS_CardinalityType
  <2> QED
    BY <2>1, <2>5, <2>6, <2>7
<1> QED
  BY <1>1, <1>2

LEMMA PhaseIsPaid ==
    ASSUME ChainInv, GamesInv
    PROVE  /\ checkpoint.gamesSpent \in Nat /\ totalLearningBudget \in Nat
           /\ Affordable => checkpoint.gamesSpent + PhaseCost <= totalLearningBudget
<1>1. /\ checkpoint.gamesSpent \in Nat /\ totalLearningBudget \in Nat
      /\ checkpoint.gamesSpent <= totalLearningBudget
  BY Bounds DEF ChainInv, CheckpointOK, Checkpoint, GamesInv
<1>2. PhaseCost \in Nat
  BY PhaseGamesAre
<1>3. Affordable => PhaseCost <= totalLearningBudget - checkpoint.gamesSpent
  BY DEF Affordable, ScreeningFits, BlockFits, gamesRemaining, PhaseCost
<1> QED
  BY <1>1, <1>2, <1>3

(* Games past and games of the phase: together no more than their counts.  *)
LEMMA PastAndPresent ==
    ASSUME ChainInv, GamesInv, NEW G \in SUBSET Recorded,
           \A game \in G : Past(game) \/ game \in PhaseGames
    PROVE  /\ IsFiniteSet(G)
           /\ Cardinality(G) <= checkpoint.gamesSpent + Cardinality(Recorded \cap PhaseGames)
<1> DEFINE past == {game \in Recorded : Past(game)}
           present == Recorded \cap PhaseGames
<1>1. IsFiniteSet(Recorded) /\ Cardinality(past) <= checkpoint.gamesSpent /\ checkpoint.gamesSpent \in Nat
  BY PhaseIsPaid DEF GamesInv
<1>2. past \in SUBSET Recorded /\ present \in SUBSET Recorded /\ G \in SUBSET (past \cup present)
  OBVIOUS
<1> HIDE DEF past, present
<1>3. IsFiniteSet(past) /\ IsFiniteSet(present)
  BY <1>1, <1>2, FS_Subset
<1>4. /\ IsFiniteSet(past \cup present)
      /\ Cardinality(past \cup present) = Cardinality(past) + Cardinality(present) - Cardinality(past \cap present)
      /\ IsFiniteSet(past \cap present)
  BY <1>3, FS_Union, FS_Intersection
<1>5. IsFiniteSet(G) /\ Cardinality(G) <= Cardinality(past \cup present) /\ Cardinality(G) \in Nat
  BY <1>2, <1>4, FS_Subset, FS_CardinalityType
<1>6. /\ Cardinality(past) \in Nat /\ Cardinality(present) \in Nat
      /\ Cardinality(past \cap present) \in Nat /\ Cardinality(past \cup present) \in Nat
  BY <1>3, <1>4, FS_CardinalityType
<1>7. Cardinality(G) <= checkpoint.gamesSpent + Cardinality(present)
  BY <1>1, <1>4, <1>5, <1>6
<1> QED
  BY <1>5, <1>7 DEF present

(* No more games of learning are on record than the budget pays for.       *)
LEMMA RecordIsPaid ==
    ASSUME ChainInv, GamesInv
    PROVE  BudgetKept
<1> DEFINE G == {match \in known : Learning(match)}
           present == Recorded \cap PhaseGames
<1>1. G \in SUBSET Recorded /\ \A game \in G : Past(game) \/ game \in PhaseGames
  BY DEF GamesInv, Recorded
<1> HIDE DEF G
<1>2. IsFiniteSet(G) /\ Cardinality(G) <= checkpoint.gamesSpent + Cardinality(present)
  BY <1>1, PastAndPresent
<1>3. /\ IsFiniteSet(present) /\ Cardinality(present) \in Nat
      /\ Cardinality(present) <= PhaseCost /\ PhaseCost \in Nat
  <2>1. Cardinality(present) \in 0..PhaseCost
    BY PhaseGamesAre
  <2>2. IsFiniteSet(present) /\ PhaseCost \in Nat
    BY PhaseGamesAre
  <2> QED
    BY <2>1, <2>2
<1>4. Cardinality(G) \in Nat
  BY <1>2, FS_CardinalityType
<1>5. /\ checkpoint.gamesSpent \in Nat /\ totalLearningBudget \in Nat
      /\ checkpoint.gamesSpent <= totalLearningBudget
      /\ Affordable => checkpoint.gamesSpent + PhaseCost <= totalLearningBudget
  BY PhaseIsPaid DEF GamesInv
<1>6. CASE present = {}
  <2>1. Cardinality(present) = 0
    BY <1>6, FS_EmptySet
  <2> HIDE DEF present
  <2> QED
    BY <1>2, <1>4, <1>5, <2>1 DEF BudgetKept, G
<1>7. CASE present # {}
  <2>1. Affordable
    BY <1>7 DEF GamesInv
  <2> HIDE DEF present
  <2> QED
    BY <1>2, <1>3, <1>4, <1>5, <2>1 DEF BudgetKept, G
<1> QED
  BY <1>6, <1>7

LEMMA InitGames == Init => GamesInv
<1> SUFFICES ASSUME Init PROVE GamesInv
  OBVIOUS
<1>1. stream = <<>> /\ buffer = <<>> /\ known = {} /\ at = "idle" /\ checkpoint = Fresh
  BY DEF Init
<1>2. stream \in Seq(Game) /\ buffer \in Seq(Game) /\ Recorded = {}
  BY <1>1, EmptySeq DEF Recorded, Range
<1>3. IsFiniteSet({}) /\ Cardinality({}) = 0
  BY FS_EmptySet
<1>4. checkpoint.gamesSpent = 0 /\ totalLearningBudget \in Nat
  BY <1>1, Bounds DEF Fresh
<1>5. {game \in Recorded : Past(game)} = {}
  BY <1>2
<1> QED
  BY <1>1, <1>2, <1>3, <1>4, <1>5 DEF GamesInv, InPhase

LEMMA NoMorePast ==
    ASSUME GamesInv, checkpoint.gamesSpent \in Nat,
           NEW G \in SUBSET Recorded, NEW P \in SUBSET {game \in Recorded : Past(game)}
    PROVE  IsFiniteSet(G) /\ Cardinality(P) <= checkpoint.gamesSpent
<1> DEFINE past == {game \in Recorded : Past(game)}
<1>1. IsFiniteSet(Recorded) /\ past \in SUBSET Recorded /\ Cardinality(past) <= checkpoint.gamesSpent
  BY DEF GamesInv
<1>2. P \in SUBSET past
  OBVIOUS
<1> HIDE DEF past
<1>3. IsFiniteSet(G) /\ IsFiniteSet(past)
  BY <1>1, FS_Subset
<1>4. IsFiniteSet(P) /\ Cardinality(P) <= Cardinality(past)
  BY <1>2, <1>3, FS_Subset
<1>5. Cardinality(P) \in Nat /\ Cardinality(past) \in Nat
  BY <1>3, <1>4, FS_CardinalityType
<1> QED
  BY <1>1, <1>3, <1>4, <1>5

(* A step that neither plays a match nor writes a checkpoint.              *)
LEMMA GamesKept ==
    ASSUME ChainInv, GamesInv, [Next]_vars, ~ PlayMatch, ~ WriteCheckpoint
    PROVE  GamesInv'
<1>1. UNCHANGED <<checkpoint, brood, twins, fates>> /\ (InPhase' => InPhase \/ Affordable)
  BY KeptUntilWritten, FatesKept
<1>2. /\ stream' \in Seq(Game) /\ buffer' \in Seq(Game) /\ known' \in SUBSET Game
      /\ Recorded' \subseteq Recorded
      /\ at' # "idle" => Recorded' \subseteq known'
  BY OnlyMatchesAdd DEF GamesInv
<1>3. PhaseGames' = PhaseGames /\ (Affordable' <=> Affordable)
  BY <1>1 DEF PhaseGames, BlockMatches, Candidates, Pending, Affordable, ScreeningFits, BlockFits,
              gamesRemaining, totalGames
<1>4. \A game : Past(game)' <=> Past(game)
  BY <1>1 DEF Past, Pending
<1>5. \A game \in Recorded' : Learning(game)' => Past(game)' \/ game \in PhaseGames'
  BY <1>2, <1>3, <1>4 DEF GamesInv, Learning
<1>6. \A game \in Recorded' \cap PhaseGames' : game \in DOMAIN fates' /\ fates'[game] # "throws"
  BY <1>1, <1>2, <1>3 DEF GamesInv
<1>7. /\ IsFiniteSet(Recorded')
      /\ Cardinality({game \in Recorded' : Past(game)'}) <= checkpoint'.gamesSpent
  <2>1. {game \in Recorded' : Past(game)'} \in SUBSET {game \in Recorded : Past(game)}
    BY <1>2, <1>4
  <2> QED
    BY <1>1, <1>2, <2>1, NoMorePast, PhaseIsPaid
<1>8. Recorded' \cap PhaseGames' # {} \/ InPhase' => Affordable'
  BY <1>1, <1>2, <1>3 DEF GamesInv
<1> QED
  BY <1>1, <1>2, <1>5, <1>6, <1>7, <1>8 DEF GamesInv

LEMMA GamesPlayed ==
    ASSUME ChainInv, GamesInv, PlaceInv, PlayMatch
    PROVE  GamesInv'
<1>1. /\ at \in {"play", "final"} /\ at' = at
      /\ UNCHANGED <<stream, checkpoint, candidate, brood, twins>>
  BY PlayIs
<1>2. PICK match \in Game : \E fate : Plays(match, fate)
  BY PlayIs
<1>3. PICK fate : Plays(match, fate)
  BY <1>2
<1>4. /\ match \notin known
      /\ at = "play" => match \in PhaseGames
      /\ at = "final" => ~ Learning(match)
      /\ fates' = Put(fates, match, fate)
      /\ \/ fate = "throws" /\ at = "play" /\ UNCHANGED <<known, buffer>>
         \/ fate # "throws" /\ known' = known \cup {match} /\ buffer' = Append(buffer, match)
  BY <1>3 DEF Plays
<1>5. PhaseGames' = PhaseGames /\ (Affordable' <=> Affordable)
  BY <1>1 DEF PhaseGames, BlockMatches, Candidates, Pending, Affordable, ScreeningFits, BlockFits,
              gamesRemaining, totalGames
<1>6. \A game : Past(game)' <=> Past(game)
  BY <1>1 DEF Past, Pending
<1>7. /\ stream' \in Seq(Game) /\ buffer' \in Seq(Game) /\ known' \in SUBSET Game
      /\ Recorded' = IF fate = "throws" THEN Recorded ELSE Recorded \cup {match}
      /\ Recorded \subseteq known /\ Recorded' \subseteq known' /\ match \notin Recorded
  <2>1. stream \in Seq(Game) /\ buffer \in Seq(Game) /\ known \in SUBSET Game /\ Recorded \subseteq known
    BY <1>1 DEF GamesInv
  <2>2. CASE fate = "throws"
    BY <1>1, <1>4, <2>1, <2>2 DEF Recorded
  <2>3. CASE fate # "throws"
    <3>1. known' = known \cup {match} /\ buffer' = Append(buffer, match)
      BY <1>4, <2>3
    <3>2. buffer' \in Seq(Game) /\ Range(buffer') = Range(buffer) \cup {match}
      BY <2>1, <3>1, Ranges
    <3>3. Recorded' = Recorded \cup {match}
      BY <1>1, <3>1, <3>2 DEF Recorded
    <3> QED
      BY <1>1, <1>4, <2>1, <2>3, <3>1, <3>2, <3>3
  <2> QED
    BY <2>2, <2>3
<1>8. ~ Past(match)
  <2>1. CASE at = "final"
    BY <1>4, <2>1 DEF Past
  <2>2. CASE at = "play"
    <3>1. match \in PhaseGames /\ checkpoint.nextBlock \in Nat
      BY <1>4, <2>2 DEF ChainInv, CheckpointOK, Checkpoint
    <3>2. match[2] = checkpoint.nextBlock /\ (Pending => match[1] = "screen")
      BY <3>1 DEF PhaseGames, BlockMatches, Matches, Range
    <3> QED
      BY <3>1, <3>2 DEF Past
  <2> QED
    BY <1>1, <2>1, <2>2
<1>9. \A game \in Recorded' : Learning(game)' => Past(game)' \/ game \in PhaseGames'
  BY <1>1, <1>4, <1>5, <1>6, <1>7 DEF GamesInv, Learning
<1>10. \A game \in Recorded' \cap PhaseGames' : game \in DOMAIN fates' /\ fates'[game] # "throws"
  <2>1. fates' = Put(fates, match, fate)
    BY <1>4
  <2>2. DOMAIN fates' = DOMAIN fates \cup {match} /\ fates'[match] = fate
        /\ \A game \in DOMAIN fates : game # match => fates'[game] = fates[game]
    BY <2>1 DEF Put
  <2> QED
    BY <1>5, <1>7, <2>2 DEF GamesInv
<1>11. /\ IsFiniteSet(Recorded')
       /\ Cardinality({game \in Recorded' : Past(game)'}) <= checkpoint'.gamesSpent
  <2>1. {game \in Recorded' : Past(game)'} \in SUBSET {game \in Recorded : Past(game)}
    BY <1>6, <1>7, <1>8
  <2>2. IsFiniteSet(Recorded) /\ Cardinality({game \in Recorded' : Past(game)'}) <= checkpoint.gamesSpent
    BY <2>1, NoMorePast, PhaseIsPaid
  <2>3. IsFiniteSet(Recorded')
    BY <1>7, <2>2, FS_AddElement
  <2> QED
    BY <1>1, <2>2, <2>3
<1>12. Recorded' \cap PhaseGames' # {} \/ InPhase' => Affordable'
  <2>1. at = "final" => match \notin PhaseGames
    BY <1>4 DEF PhaseGames, BlockMatches, Matches, Range, Learning
  <2>2. InPhase' => InPhase
    BY <1>1 DEF InPhase
  <2>3. at = "play" => InPhase
    BY DEF InPhase
  <2> QED
    BY <1>1, <1>5, <1>7, <2>1, <2>2, <2>3 DEF GamesInv
<1>13. checkpoint'.gamesSpent <= totalLearningBudget
  BY <1>1 DEF GamesInv
<1> QED
  BY <1>7, <1>9, <1>10, <1>11, <1>12, <1>13 DEF GamesInv

(* A phase that is settled has cost no more than there was, and its games  *)
(* are of the past from then on.                                           *)
LEMMA GamesWritten ==
    ASSUME ChainInv, GamesInv, WriteCheckpoint
    PROVE  GamesInv'
<1>1. /\ at = "checkpoint" /\ at' = "phase" /\ UNCHANGED <<stream, known, buffer, brood, twins>>
      /\ Recorded' = Recorded
  BY DEF WriteCheckpoint, Writes, Stays, Recorded
<1> DEFINE present == Recorded \cap PhaseGames
           nb == checkpoint.nextBlock
<1>2. PICK cost \in Nat : /\ checkpoint'.gamesSpent = checkpoint.gamesSpent + cost
                          /\ Cardinality(present) <= cost /\ cost <= PhaseCost
  <2>1. CASE Pending
    BY <2>1, AfterGenerationIs, PhaseGamesAre DEF PhaseCost
  <2>2. CASE ~ Pending
    <3>1. present = Records(BlockMatches)
      BY <1>1, <2>2 DEF GamesInv, PhaseGames, Records, Recorded
    <3>2. Cardinality(present) = BlockCost
      BY <3>1 DEF BlockCost
    <3> HIDE DEF present
    <3> QED
      BY <2>2, <3>2, AfterBlockIs, CountsAre, Bounds DEF PhaseCost, ChainInv
  <2> QED
    BY <2>1, <2>2
<1>3. /\ nb \in Nat
      /\ \/ checkpoint'.nextBlock = nb + 1 /\ ~ Pending'
         \/ checkpoint'.nextBlock = nb /\ Pending' /\ ~ Pending
  <2>1. nb \in Nat
    BY DEF ChainInv, CheckpointOK, Checkpoint
  <2>2. CASE Pending
    BY <2>1, <2>2, AfterGenerationIs DEF Pending
  <2>3. CASE ~ Pending /\ Decisive
    <3>1. Generated(Decision) # NoGeneration
      BY <2>3, GeneratedIs DEF Decisive
    <3> QED
      BY <2>1, <2>3, <3>1, AfterBlockIs DEF Pending
  <2>4. CASE ~ Pending /\ ~ Decisive
    BY <2>1, <2>4, AfterBlockIs DEF Pending
  <2> QED
    BY <2>2, <2>3, <2>4
<1>4. \A game \in PhaseGames : game[2] = nb /\ (~ Pending => game[1] = "block")
  BY DEF PhaseGames, BlockMatches, Matches, Range
<1>5. \A game \in PhaseGames' : game[2] = checkpoint'.nextBlock /\ (Pending' => game[1] = "screen")
                                /\ Learning(game)
  BY DEF PhaseGames, BlockMatches, Matches, Range, Learning
<1>6. \A game \in Recorded : Past(game)' => Past(game) \/ game \in PhaseGames
  BY DEF GamesInv, Past, Learning
<1>7. \A game \in Recorded : Learning(game) => Past(game)' /\ game \notin PhaseGames'
  <2> SUFFICES ASSUME NEW game \in Recorded, Learning(game)
               PROVE  Past(game)' /\ game \notin PhaseGames'
    OBVIOUS
  <2>1. game \in Game /\ game[2] \in Nat
    <3>1. game \in Game
      BY RangeOfSeq DEF GamesInv, Recorded
    <3> QED
      BY <3>1 DEF Game
  <2> HIDE DEF nb
  <2>2. Past(game) \/ game \in PhaseGames
    BY DEF GamesInv
  <2>3. game[2] < nb \/ (game[2] = nb /\ (~ Pending => game[1] = "block"))
    BY <1>4, <2>2 DEF Past, nb
  <2> QED
    BY <1>3, <1>5, <2>1, <2>3 DEF Past, Learning
<1>8. /\ IsFiniteSet(Recorded')
      /\ Cardinality({game \in Recorded' : Past(game)'}) <= checkpoint'.gamesSpent
  <2> DEFINE P == {game \in Recorded' : Past(game)'}
  <2>1. P \in SUBSET Recorded /\ \A game \in P : Past(game) \/ game \in PhaseGames
    BY <1>1, <1>6
  <2> HIDE DEF P
  <2>2. IsFiniteSet(P) /\ Cardinality(P) <= checkpoint.gamesSpent + Cardinality(present)
    BY <2>1, PastAndPresent
  <2>3. Cardinality(P) \in Nat /\ checkpoint.gamesSpent \in Nat /\ Cardinality(present) \in Nat
    BY <2>2, FS_CardinalityType, PhaseGamesAre, PhaseIsPaid
  <2> HIDE DEF present
  <2> QED
    BY <1>1, <1>2, <2>2, <2>3 DEF GamesInv, P
<1>9. checkpoint'.gamesSpent <= totalLearningBudget
  <2>1. Affordable
    BY <1>1 DEF GamesInv, InPhase
  <2>2. /\ checkpoint.gamesSpent \in Nat /\ PhaseCost \in Nat /\ totalLearningBudget \in Nat
        /\ checkpoint.gamesSpent + PhaseCost <= totalLearningBudget
    BY <2>1, PhaseIsPaid, PhaseGamesAre
  <2> QED
    BY <1>2, <2>2
<1>10. Recorded' \cap PhaseGames' = {} /\ ~ InPhase'
  <2>1. \A game \in Recorded' : game \notin PhaseGames'
    BY <1>1, <1>5, <1>7
  <2> QED
    BY <1>1, <2>1 DEF InPhase
<1>11. /\ stream' \in Seq(Game) /\ buffer' \in Seq(Game) /\ known' \in SUBSET Game
       /\ Recorded' \subseteq known'
  BY <1>1 DEF GamesInv
<1>12. \A game \in Recorded' : Learning(game)' => Past(game)'
  BY <1>1, <1>7 DEF Learning
<1> QED
  BY <1>8, <1>9, <1>10, <1>11, <1>12 DEF GamesInv

(* A match that is played belongs to no batch that is over.                *)
LEMMA SettledStays ==
    ASSUME NEW matches, Settled(matches), NEW match, match \notin known, NEW fate,
           fates' = Put(fates, match, fate), match \in DOMAIN fates => fates[match] = fate,
           \/ fate = "throws" /\ known' = known
           \/ fate # "throws" /\ known' = known \cup {match}
    PROVE  \A game \in Range(matches) : /\ game \in DOMAIN fates'
                                        /\ game \in known' <=> fates'[game] # "throws"
<1>1. /\ DOMAIN fates' = DOMAIN fates \cup {match} /\ fates'[match] = fate
      /\ \A game \in DOMAIN fates : game # match => fates'[game] = fates[game]
  BY DEF Put
<1> SUFFICES ASSUME NEW game \in Range(matches)
             PROVE  game \in DOMAIN fates' /\ (game \in known' <=> fates'[game] # "throws")
  OBVIOUS
<1>2. game \in DOMAIN fates /\ (game \in known <=> fates[game] # "throws")
  BY DEF Settled
<1> QED
  BY <1>1, <1>2

LEMMA InitPlace == Init => PlaceInv
  BY DEF Init, PlaceInv

LEMMA PlacePlayed ==
    ASSUME ChainInv, GamesInv, PlaceInv, PlayMatch
    PROVE  PlaceInv'
<1>1. /\ at \in {"play", "final"} /\ at' = at
      /\ UNCHANGED <<stream, checkpoint, candidate, brood, twins>>
  BY PlayIs
<1>2. at = "play" /\ Pending => candidate \in Candidates
  BY DEF PlaceInv
<1>3. \A i : Settled(Screening(i)) => Settled(Screening(i))'
  <2> SUFFICES ASSUME NEW i, Settled(Screening(i)) PROVE Settled(Screening(i))'
    OBVIOUS
  <2> DEFINE matches == Screening(i)
  <2>1. matches' = matches
    BY <1>1 DEF Screening, Deck
  <2>2. PICK match \in Game : \E fate : Plays(match, fate)
    BY PlayIs
  <2> HIDE DEF matches
  <2>3. \A game \in Range(matches) : /\ game \in DOMAIN fates'
                                     /\ game \in known' <=> fates'[game] # "throws"
    BY <2>2, SettledStays DEF Plays, matches
  <2> QED
    BY <2>1, <2>3 DEF Settled, matches
<1>4. Candidates' = Candidates /\ (Pending' <=> Pending)
  BY <1>1 DEF Candidates, Pending
<1> QED
  BY <1>1, <1>2, <1>3, <1>4 DEF PlaceInv

(* A batch nothing of is left to play is settled.                          *)
LEMMA NothingLeft ==
    ASSUME ChainInv, GamesInv, PlaceInv, Played, at = "play"
    PROVE  Settled(Schedule)
<1> DEFINE matches == Schedule
<1>1. Unplayed = {} /\ Recorded \subseteq known /\ known \subseteq Recorded
  BY DEF Played, GamesInv, Recorded
<1>2. Range(matches) \subseteq PhaseGames
  <2>1. CASE ~ Pending
    BY <2>1 DEF Schedule, PhaseGames
  <2>2. CASE Pending
    <3>1. Deck(candidate) \in Candidates
      BY <2>2, CountsAre DEF Deck, PlaceInv, ChainInv
    <3> DEFINE deck == Deck(candidate)
    <3>2. matches = Matches("screen", checkpoint.nextBlock, deck, ScreenGames)
      BY <2>2 DEF Schedule, Screening
    <3> HIDE DEF matches, deck
    <3>3. Range(matches) = {<<"screen", checkpoint.nextBlock, deck, n>> : n \in 1..ScreenGames}
      BY <3>2, Bounds, GamesOf
    <3> QED
      BY <2>2, <3>1, <3>3 DEF PhaseGames, deck
  <2> QED
    BY <2>1, <2>2
<1>3. ASSUME NEW game \in Range(matches)
      PROVE  game \in DOMAIN fates /\ (game \in known <=> fates[game] # "throws")
  <2>1. PICK n \in DOMAIN matches : game = matches[n]
    BY DEF Range
  <2>2. game \in known \/ Thrown(game)
    BY <1>1, <2>1 DEF Unplayed
  <2>3. game \in known => game \in DOMAIN fates /\ fates[game] # "throws"
    BY <1>1, <1>2 DEF GamesInv
  <2> QED
    BY <2>2, <2>3 DEF Thrown
<1> QED
  BY <1>3 DEF Settled

LEMMA PlaceKept ==
    ASSUME ChainInv, GamesInv, PlaceInv, [Next]_vars, ~ PlayMatch, ~ WriteCheckpoint
    PROVE  PlaceInv'
<1>1. UNCHANGED <<checkpoint, twins, fates>>
  BY KeptUntilWritten, FatesKept
<1>2. /\ Candidates' = Candidates /\ (Pending' <=> Pending)
      /\ BlockMatches' = BlockMatches /\ \A i : Screening(i)' = Screening(i)
  BY <1>1 DEF Candidates, Pending, BlockMatches, Screening, Deck
<1>3. ASSUME known' = known
      PROVE  /\ Settled(BlockMatches) => Settled(BlockMatches)'
             /\ \A i : Settled(Screening(i)) => Settled(Screening(i))'
  BY <1>1, <1>2, <1>3 DEF Settled
<1>4. ASSUME at' \notin {"play", "series", "generation", "round", "checkpoint"}
      PROVE  PlaceInv'
  BY <1>4 DEF PlaceInv
<1>5. ASSUME UNCHANGED <<at, candidate, known>>
      PROVE  PlaceInv'
  BY <1>2, <1>3, <1>5 DEF PlaceInv
<1> USE DEF Stays, Writes, Ends
<1>6. CASE Open \/ Opened \/ RunEnds \/ ValidationEnds
  <2>1. at' \notin {"play", "series", "generation", "round", "checkpoint"}
    BY <1>6 DEF Open, Opened, RunEnds, ValidationEnds
  <2> QED
    BY <1>4, <2>1
<1>7. CASE PublishRaw \/ PublishCheckpoint \/ PublishResult \/ WriteCheckpointAgain
  <2>1. at' \notin {"play", "series", "generation", "round", "checkpoint"}
    BY <1>7 DEF PublishRaw, PublishCheckpoint, PublishResult, WriteCheckpointAgain
  <2> QED
    BY <1>4, <2>1
<1>8. CASE Stop \/ Unwind \/ Stopped \/ Fail \/ Crash
  <2>1. at' \notin {"play", "series", "generation", "round", "checkpoint"}
    BY <1>8 DEF Stop, Unwind, Stopped, Fail, Crash
  <2> QED
    BY <1>4, <2>1
<1>9. CASE Flush \/ AskStop \/ UNCHANGED vars
  <2>1. UNCHANGED <<at, candidate, known>>
    BY <1>9 DEF Flush, AskStop, vars
  <2> QED
    BY <1>5, <2>1
<1>10. CASE BeginPhase
  <2>1. CASE at' = "play"
    <3>1. candidate' = 1 /\ (Pending => checkpoint.pendingGeneration.candidates # <<>>)
      BY <1>10, <2>1 DEF BeginPhase, Refused
    <3>2. checkpoint.pendingGeneration.candidates \in Seq(Revision)
      BY DEF ChainInv, CheckpointOK, Checkpoint, Generation
    <3>3. Pending => 1 \in Candidates
      BY <3>1, <3>2, EmptySeq, LenProperties DEF Candidates
    <3>4. \A i \in Candidates : ~ (i < 1)
      BY CountsAre DEF ChainInv
    <3> QED
      BY <1>2, <2>1, <3>1, <3>3, <3>4 DEF PlaceInv
  <2>2. CASE at' = "round"
    <3>1. Pending /\ checkpoint.pendingGeneration.candidates = <<>>
      BY <1>10, <2>2 DEF BeginPhase, Refused
    <3>2. Candidates = {}
      BY <3>1, EmptySeq DEF Candidates
    <3> QED
      BY <1>2, <2>2, <3>1, <3>2 DEF PlaceInv
  <2>3. CASE at' \notin {"play", "round"}
    <3>1. at' = "flush"
      BY <1>10, <2>3 DEF BeginPhase, Refused
    <3> QED
      BY <1>4, <3>1
  <2> QED
    BY <2>1, <2>2, <2>3
<1>11. CASE Played
  <2>1. known' = known
    BY <1>11 DEF Played
  <2>2. CASE at = "final"
    <3>1. at' = "finalFlush"
      BY <1>11, <2>2 DEF Played
    <3> QED
      BY <1>4, <3>1
  <2>3. CASE at = "play" /\ ~ Pending
    <3>1. at' = "series" /\ Schedule = BlockMatches
      BY <1>11, <2>3 DEF Played, Schedule
    <3>2. Settled(BlockMatches)'
      BY <1>3, <1>11, <2>1, <2>3, <3>1, NothingLeft
    <3> QED
      BY <1>2, <2>3, <3>1, <3>2 DEF PlaceInv
  <2>4. CASE at = "play" /\ Pending
    <3> DEFINE L == Len(checkpoint.pendingGeneration.candidates)
    <3>1. /\ Schedule = Screening(candidate) /\ L \in Nat /\ Candidates = 1..L
          /\ candidate \in Candidates
      BY <2>4, CountsAre DEF Schedule, PlaceInv, ChainInv
    <3>2. \A i \in Candidates : i <= candidate => Settled(Screening(i))
      <4> SUFFICES ASSUME NEW i \in Candidates, i <= candidate PROVE Settled(Screening(i))
        OBVIOUS
      <4>1. CASE i = candidate
        BY <1>11, <2>4, <3>1, <4>1, NothingLeft
      <4>2. CASE i # candidate
        <5>1. i < candidate
          BY <3>1, <4>2
        <5> QED
          BY <2>4, <5>1 DEF PlaceInv
      <4> QED
        BY <4>1, <4>2
    <3>3. \A i \in Candidates : i <= candidate => Settled(Screening(i))'
      BY <1>3, <2>1, <3>2
    <3>4. \/ candidate < L /\ candidate' = candidate + 1 /\ at' = "play"
          \/ ~ (candidate < L) /\ at' = "round"
      BY <1>11, <2>4 DEF Played
    <3> HIDE DEF L
    <3>5. CASE candidate < L /\ candidate' = candidate + 1 /\ at' = "play"
      <4>1. candidate' \in Candidates /\ \A i \in Candidates : i < candidate' => i <= candidate
        BY <3>1, <3>5
      <4> QED
        BY <1>2, <2>4, <3>3, <3>5, <4>1 DEF PlaceInv
    <3>6. CASE ~ (candidate < L) /\ at' = "round"
      <4>1. \A i \in Candidates : i <= candidate
        BY <3>1, <3>6
      <4> QED
        BY <1>2, <2>4, <3>3, <3>6, <4>1 DEF PlaceInv
    <3> QED
      BY <3>4, <3>5, <3>6
  <2> QED
    BY <1>11, <2>2, <2>3, <2>4 DEF Played
<1>12. CASE WriteSeries \/ WriteGeneration
  <2>1. /\ at \in {"series", "generation"} /\ at' \in {"generation", "checkpoint"}
        /\ known' = known /\ ~ Pending /\ Settled(BlockMatches)
    BY <1>12 DEF WriteSeries, WriteGeneration, AfterSeries, PlaceInv
  <2> QED
    BY <1>2, <1>3, <2>1 DEF PlaceInv
<1>13. CASE WriteRound
  <2>1. /\ at = "round" /\ at' = "checkpoint" /\ known' = known /\ Pending
        /\ \A i \in Candidates : Settled(Screening(i))
    BY <1>13 DEF WriteRound, PlaceInv
  <2> QED
    BY <1>2, <1>3, <2>1 DEF PlaceInv
<1> QED
  BY <1>6, <1>7, <1>8, <1>9, <1>10, <1>11, <1>12, <1>13 DEF Next, Step

(* The games and where the attempt is with them.                           *)
PlayInv == ChainInv /\ GamesInv /\ PlaceInv

LEMMA PlayStep == PlayInv /\ [Next]_vars => PlayInv'
<1> SUFFICES ASSUME ChainInv, GamesInv, PlaceInv, [Next]_vars PROVE PlayInv'
  BY DEF PlayInv
<1>1. ChainInv'
  BY ChainStep
<1>2. GamesInv'
  BY GamesKept, GamesPlayed, GamesWritten
<1>3. PlaceInv'
  <2>1. WriteCheckpoint => PlaceInv'
    BY DEF WriteCheckpoint, PlaceInv
  <2> QED
    BY <2>1, PlacePlayed, PlaceKept
<1> QED
  BY <1>1, <1>2, <1>3 DEF PlayInv

(* No more learning games are on record than totalLearningBudget allows:   *)
(* a phase is begun only when gamesRemaining pays for all of it, and one   *)
(* that is played again after a stop or a crash has its games already.     *)
THEOREM BudgetIsKept == Spec => []BudgetKept
<1>1. Init => PlayInv
  BY InitChain, InitGames, InitPlace DEF PlayInv
<1>2. PlayInv => BudgetKept
  BY RecordIsPaid DEF PlayInv
<1> QED
  BY <1>1, <1>2, PlayStep, PTL DEF Spec

-----------------------------------------------------------------------------
(* The raw record.                                                         *)

(* What the store has of a batch that is over is what its fates say.       *)
LEMMA SettledIsTrue ==
    ASSUME NEW matches, Settled(matches), NEW side \in {"left", "right"}
    PROVE  Fated(matches) /\ Wins(matches, side) = Tally(matches, side)
<1>1. \A game \in Range(matches) : /\ game \in DOMAIN fates
                                   /\ game \in known <=> fates[game] # "throws"
  BY DEF Settled
<1>2. {match \in Records(matches) : fates[match] = side} = {game \in Range(matches) : fates[game] = side}
  BY <1>1 DEF Records
<1> QED
  BY <1>1, <1>2 DEF Fated, Wins, Tally

LEMMA BlockIsTrue ==
    ASSUME Settled(BlockMatches)
    PROVE  Fated(BlockMatches) /\ Decision = Verdict
BY SettledIsTrue DEF Decision, Verdict

LEMMA RoundIsTrue ==
    ASSUME \A i \in Candidates : Settled(Screening(i))
    PROVE  /\ \A i \in Candidates : Fated(Screening(i))
           /\ TrueRound = [loserSide |-> loserSideOf,
                           opponent |-> revisionId(Active(Other(loserSideOf))),
                           promoted |-> Promoted]
<1>1. \A i \in Candidates : /\ Fated(Screening(i))
                            /\ Wins(Screening(i), "left") = Tally(Screening(i), "left")
                            /\ Wins(Screening(i), "right") = Tally(Screening(i), "right")
  BY SettledIsTrue
<1>2. Scores("left") = TrueScores("left") /\ Scores("right") = TrueScores("right")
  BY <1>1 DEF Scores, TrueScores, Candidates
<1> QED
  BY <1>1, <1>2 DEF TrueRound, Promoted

(* A game ends as it ended before, so what is true of a phase stays true.  *)
FatesGrow == \A game \in DOMAIN fates : game \in DOMAIN fates' /\ fates'[game] = fates[game]

LEMMA TruthStays ==
    ASSUME UNCHANGED <<checkpoint, brood, twins>>, FatesGrow
    PROVE  /\ Candidates' = Candidates /\ (Pending' <=> Pending)
           /\ Fated(BlockMatches) =>
                 Fated(BlockMatches)' /\ Verdict' = Verdict /\ TrueSeries' = TrueSeries
           /\ (\A i \in Candidates : Fated(Screening(i))) =>
                 (\A i \in Candidates : Fated(Screening(i))') /\ TrueRound' = TrueRound
<1>1. /\ Candidates' = Candidates /\ (Pending' <=> Pending)
      /\ BlockMatches' = BlockMatches /\ \A i : Screening(i)' = Screening(i)
  BY DEF Candidates, Pending, BlockMatches, Screening, Deck
<1>2. \A side : Active(side)' = Active(side)
  BY DEF Active
<1>3. ASSUME NEW matches, Fated(matches), NEW now, now = matches, NEW side
      PROVE  /\ Range(now) \subseteq DOMAIN fates'
             /\ Cardinality({game \in Range(now) : fates'[game] = side}) = Tally(matches, side)
  <2>1. \A game \in Range(matches) : game \in DOMAIN fates' /\ fates'[game] = fates[game]
    BY <1>3 DEF FatesGrow, Fated
  <2>2. {game \in Range(now) : fates'[game] = side} = {game \in Range(matches) : fates[game] = side}
    BY <1>3, <2>1
  <2> QED
    BY <1>3, <2>1, <2>2 DEF Tally
<1>4. ASSUME Fated(BlockMatches)
      PROVE  Fated(BlockMatches)' /\ Verdict' = Verdict /\ TrueSeries' = TrueSeries
  <2>1. /\ Fated(BlockMatches)' /\ Tally(BlockMatches, "left")' = Tally(BlockMatches, "left")
        /\ Tally(BlockMatches, "right")' = Tally(BlockMatches, "right")
    <3> DEFINE was == BlockMatches
               now == BlockMatches'
    <3>1. now = was /\ Fated(was)
      BY <1>1, <1>4
    <3> HIDE DEF was, now
    <3>2. /\ Range(now) \subseteq DOMAIN fates'
          /\ Cardinality({game \in Range(now) : fates'[game] = "left"}) = Tally(was, "left")
          /\ Cardinality({game \in Range(now) : fates'[game] = "right"}) = Tally(was, "right")
      BY <1>3, <3>1
    <3> QED
      BY <3>2 DEF was, now, Fated, Tally
  <2>2. Verdict' = Verdict
    BY <2>1 DEF Verdict
  <2> QED
    BY <1>2, <2>1, <2>2 DEF TrueSeries
<1>5. ASSUME \A i \in Candidates : Fated(Screening(i))
      PROVE  (\A i \in Candidates : Fated(Screening(i))') /\ TrueRound' = TrueRound
  <2>1. \A i \in Candidates : /\ Fated(Screening(i))'
                              /\ Tally(Screening(i), "left")' = Tally(Screening(i), "left")
                              /\ Tally(Screening(i), "right")' = Tally(Screening(i), "right")
    <3> SUFFICES ASSUME NEW i \in Candidates
                 PROVE  /\ Fated(Screening(i))'
                        /\ Tally(Screening(i), "left")' = Tally(Screening(i), "left")
                        /\ Tally(Screening(i), "right")' = Tally(Screening(i), "right")
      OBVIOUS
    <3> DEFINE was == Screening(i)
               now == Screening(i)'
    <3>1. now = was /\ Fated(was)
      BY <1>1, <1>5
    <3> HIDE DEF was, now
    <3>2. /\ Range(now) \subseteq DOMAIN fates'
          /\ Cardinality({game \in Range(now) : fates'[game] = "left"}) = Tally(was, "left")
          /\ Cardinality({game \in Range(now) : fates'[game] = "right"}) = Tally(was, "right")
      BY <1>3, <3>1
    <3> QED
      BY <3>2 DEF was, now, Fated, Tally
  <2>2. TrueScores("left")' = TrueScores("left") /\ TrueScores("right")' = TrueScores("right")
    BY <1>1, <2>1 DEF TrueScores
  <2>3. loserSideOf' = loserSideOf
    BY DEF loserSideOf, Active
  <2> QED
    BY <1>2, <2>1, <2>2, <2>3 DEF TrueRound
<1> QED
  BY <1>1, <1>4, <1>5

LEMMA FatesOnlyGrow ==
    ASSUME PlayInv, [Next]_vars, ~ WriteCheckpoint
    PROVE  FatesGrow
<1>1. CASE PlayMatch
  <2>1. PICK match \in Game : \E fate : Plays(match, fate)
    BY <1>1, PlayIs DEF PlayInv
  <2> QED
    <3>1. PICK fate : /\ fates' = Put(fates, match, fate)
                      /\ match \in DOMAIN fates => fates[match] = fate
      BY <2>1 DEF Plays
    <3>2. /\ DOMAIN fates' = DOMAIN fates \cup {match} /\ fates'[match] = fate
          /\ \A y \in DOMAIN fates : y # match => fates'[y] = fates[y]
      BY <3>1 DEF Put
    <3> QED
      BY <3>1, <3>2 DEF FatesGrow
<1>2. CASE ~ PlayMatch
  BY <1>2, FatesKept DEF FatesGrow
<1> QED
  BY <1>1, <1>2

(* Records are only ever replaced by their equals.                         *)
Agrees ==
    /\ \A block \in DOMAIN series : series'[block] = series[block]
    /\ \A block \in DOMAIN generations : generations'[block] = generations[block]
    /\ \A block \in DOMAIN rounds : rounds'[block] = rounds[block]

LEMMA OnlyEventsWrite ==
    ASSUME [Next]_vars, ~ WriteSeries, ~ WriteGeneration, ~ WriteRound, ~ WriteCheckpoint
    PROVE  UNCHANGED <<series, generations, rounds>> /\ (at' \in {"generation", "checkpoint"} => at' = at)
<1> USE DEF raw, Stays, Writes, Ends
<1>1. CASE Open \/ Opened \/ BeginPhase \/ PlayMatch
  BY <1>1 DEF Open, Opened, BeginPhase, Refused, PlayMatch
<1>2. CASE Flush \/ Played
  BY <1>2 DEF Flush, Played
<1>3. CASE RunEnds \/ ValidationEnds \/ PublishRaw \/ PublishCheckpoint \/ PublishResult
           \/ WriteCheckpointAgain
  BY <1>3 DEF RunEnds, ValidationEnds, PublishRaw, PublishCheckpoint, PublishResult,
              WriteCheckpointAgain
<1>4. CASE Stop \/ Unwind \/ Stopped \/ AskStop \/ Fail \/ Crash
  BY <1>4 DEF Stop, Unwind, Stopped, AskStop, Fail, Crash
<1>5. CASE UNCHANGED vars
  BY <1>5 DEF vars
<1> QED
  BY <1>1, <1>2, <1>3, <1>4, <1>5 DEF Next, Step

LEMMA SameCandidates ==
    ASSUME UNCHANGED <<checkpoint, brood>>, Verdict' = Verdict
    PROVE  Generated(Verdict)' = Generated(Verdict)
BY DEF Generated, Active

LEMMA InitRecord == Init => RecordInv
<1> SUFFICES ASSUME Init PROVE RecordInv
  OBVIOUS
<1>1. /\ DOMAIN series = {} /\ DOMAIN generations = {} /\ DOMAIN rounds = {}
      /\ checkpoint.nextBlock = 0 /\ ~ Pending /\ at = "idle"
  BY DEF Init, Fresh, Pending
<1> QED
  BY <1>1 DEF RecordInv, RawInRange, RawBacksCheckpoint, RawIsTrue, RawReached

LEMMA RecordKept ==
    ASSUME PlayInv, RecordInv, [Next]_vars,
           ~ WriteSeries, ~ WriteGeneration, ~ WriteRound, ~ WriteCheckpoint
    PROVE  RecordInv' /\ Agrees
<1>1. UNCHANGED <<checkpoint, brood, twins>> /\ FatesGrow
  BY KeptUntilWritten, FatesOnlyGrow
<1>2. UNCHANGED <<series, generations, rounds>> /\ (at' \in {"generation", "checkpoint"} => at' = at)
  BY OnlyEventsWrite
<1>3. /\ Candidates' = Candidates /\ (Pending' <=> Pending)
      /\ Fated(BlockMatches) =>
            Fated(BlockMatches)' /\ Verdict' = Verdict /\ TrueSeries' = TrueSeries
      /\ (\A i \in Candidates : Fated(Screening(i))) =>
            (\A i \in Candidates : Fated(Screening(i))') /\ TrueRound' = TrueRound
  BY <1>1, TruthStays
<1>4. at \in {"generation", "checkpoint"} /\ ~ Pending => Fated(BlockMatches)
  BY BlockIsTrue DEF PlayInv, PlaceInv
<1>5. at = "generation" => ~ Pending
  BY DEF PlayInv, PlaceInv
<1>6. RawInRange' /\ RawBacksCheckpoint'
  BY <1>1, <1>2, <1>3 DEF RecordInv, RawInRange, RawBacksCheckpoint
<1>7. RawIsTrue'
  <2>1. ~ Pending' /\ checkpoint'.nextBlock \in DOMAIN generations' =>
           /\ checkpoint'.nextBlock \in DOMAIN series' /\ Verdict' \in Sides
           /\ generations'[checkpoint'.nextBlock] = Generated(Verdict)'
    <3> SUFFICES ASSUME ~ Pending, checkpoint.nextBlock \in DOMAIN generations
                 PROVE  /\ checkpoint.nextBlock \in DOMAIN series /\ Verdict' \in Sides
                        /\ generations[checkpoint.nextBlock] = Generated(Verdict)'
      BY <1>1, <1>2, <1>3
    <3>1. /\ checkpoint.nextBlock \in DOMAIN series /\ Verdict \in Sides /\ Fated(BlockMatches)
          /\ generations[checkpoint.nextBlock] = Generated(Verdict)
      BY DEF RecordInv, RawIsTrue
    <3>2. Verdict' = Verdict /\ Generated(Verdict)' = Generated(Verdict)
      BY <1>1, <1>3, <3>1, SameCandidates
    <3> QED
      BY <3>1, <3>2
  <2> QED
    BY <1>1, <1>2, <1>3, <2>1 DEF RecordInv, RawIsTrue
<1>8. RawReached'
  BY <1>1, <1>2, <1>3, <1>4, <1>5 DEF RecordInv, RawReached
<1> QED
  BY <1>2, <1>6, <1>7, <1>8 DEF RecordInv, Agrees

LEMMA SeriesWritten ==
    ASSUME PlayInv, RecordInv, [Next]_vars, WriteSeries
    PROVE  RecordInv' /\ Agrees
<1> DEFINE block == checkpoint.nextBlock
<1>1. /\ at = "series" /\ UNCHANGED <<generations, rounds, checkpoint, fates, brood, twins>>
      /\ at' = IF Decisive THEN "generation" ELSE "checkpoint"
      /\ ~ Pending /\ Settled(BlockMatches)
  BY DEF WriteSeries, Writes, Stays, AfterSeries, PlayInv, PlaceInv
<1>2. Fated(BlockMatches) /\ Decision = Verdict
  BY <1>1, BlockIsTrue
<1>3. series' = Put(series, block, TrueSeries)
  BY <1>2 DEF WriteSeries, Upsert, TrueSeries
<1>4. /\ DOMAIN series' = DOMAIN series \cup {block} /\ series'[block] = TrueSeries
      /\ \A y \in DOMAIN series : y # block => series'[y] = series[y]
  <2> HIDE DEF block
  <2> QED
    BY <1>3 DEF Put
<1>5. /\ (Pending' <=> Pending)
      /\ Fated(BlockMatches)' /\ Verdict' = Verdict /\ TrueSeries' = TrueSeries
  <2>1. FatesGrow
    BY <1>1 DEF FatesGrow
  <2> QED
    BY <1>1, <1>2, <2>1, TruthStays
<1>6. Generated(Verdict)' = Generated(Verdict)
  BY <1>1, <1>5, SameCandidates
<1>7. block \in Nat
  BY DEF PlayInv, ChainInv, CheckpointOK, Checkpoint
<1>8. RawInRange'
  BY <1>1, <1>4, <1>7 DEF RecordInv, RawInRange
<1>9. RawBacksCheckpoint'
  BY <1>1, <1>4, <1>5, <1>7 DEF RecordInv, RawBacksCheckpoint
<1>10. RawIsTrue'
  BY <1>1, <1>2, <1>4, <1>5, <1>6 DEF RecordInv, RawIsTrue
<1>11. RawReached'
  BY <1>1, <1>2, <1>4, <1>5 DEF RawReached, Decisive
<1>12. Agrees
  BY <1>1, <1>4 DEF Agrees, RecordInv, RawIsTrue
<1> QED
  BY <1>8, <1>9, <1>10, <1>11, <1>12 DEF RecordInv

LEMMA GenerationWritten ==
    ASSUME PlayInv, RecordInv, [Next]_vars, WriteGeneration
    PROVE  RecordInv' /\ Agrees
<1> DEFINE block == checkpoint.nextBlock
<1>1. /\ at = "generation" /\ UNCHANGED <<series, rounds, checkpoint, fates, brood, twins>>
      /\ at' = "checkpoint"
      /\ ~ Pending /\ Settled(BlockMatches)
  BY DEF WriteGeneration, Writes, Stays, PlayInv, PlaceInv
<1>2. /\ Fated(BlockMatches) /\ Decision = Verdict
      /\ block \in DOMAIN series /\ Verdict \in Sides
  BY <1>1, BlockIsTrue DEF RecordInv, RawReached
<1>3. generations' = Put(generations, block, Generated(Verdict))
  BY <1>2 DEF WriteGeneration, Upsert
<1>4. /\ DOMAIN generations' = DOMAIN generations \cup {block}
      /\ generations'[block] = Generated(Verdict)
      /\ \A y \in DOMAIN generations : y # block => generations'[y] = generations[y]
  <2> HIDE DEF block
  <2> QED
    BY <1>3 DEF Put
<1>5. /\ (Pending' <=> Pending)
      /\ Fated(BlockMatches)' /\ Verdict' = Verdict /\ TrueSeries' = TrueSeries
  <2>1. FatesGrow
    BY <1>1 DEF FatesGrow
  <2> QED
    BY <1>1, <1>2, <2>1, TruthStays
<1>6. Generated(Verdict)' = Generated(Verdict)
  BY <1>1, <1>5, SameCandidates
<1>7. block \in Nat
  BY DEF PlayInv, ChainInv, CheckpointOK, Checkpoint
<1>8. RawInRange'
  BY <1>1, <1>4, <1>7 DEF RecordInv, RawInRange
<1>9. RawBacksCheckpoint'
  BY <1>1, <1>4, <1>5, <1>7 DEF RecordInv, RawBacksCheckpoint
<1>10. RawIsTrue'
  BY <1>1, <1>2, <1>4, <1>5, <1>6 DEF RecordInv, RawIsTrue
<1>11. RawReached'
  BY <1>1, <1>2, <1>4, <1>5 DEF RawReached
<1>12. Agrees
  BY <1>1, <1>4 DEF Agrees, RecordInv, RawIsTrue
<1> QED
  BY <1>8, <1>9, <1>10, <1>11, <1>12 DEF RecordInv

LEMMA RoundWritten ==
    ASSUME PlayInv, RecordInv, [Next]_vars, WriteRound
    PROVE  RecordInv' /\ Agrees
<1> DEFINE block == checkpoint.nextBlock
<1>1. /\ at = "round" /\ UNCHANGED <<series, generations, checkpoint, fates, brood, twins>>
      /\ at' = "checkpoint"
      /\ Pending /\ \A i \in Candidates : Settled(Screening(i))
  BY DEF WriteRound, Writes, Stays, PlayInv, PlaceInv
<1>2. /\ \A i \in Candidates : Fated(Screening(i))
      /\ rounds' = Put(rounds, block, TrueRound)
  BY <1>1, RoundIsTrue DEF WriteRound, Upsert
<1>3. /\ DOMAIN rounds' = DOMAIN rounds \cup {block} /\ rounds'[block] = TrueRound
      /\ \A y \in DOMAIN rounds : y # block => rounds'[y] = rounds[y]
  <2> HIDE DEF block
  <2> QED
    BY <1>2 DEF Put
<1>4. /\ Candidates' = Candidates /\ (Pending' <=> Pending)
      /\ (\A i \in Candidates : Fated(Screening(i))') /\ TrueRound' = TrueRound
  <2>1. FatesGrow
    BY <1>1 DEF FatesGrow
  <2> QED
    BY <1>1, <1>2, <2>1, TruthStays
<1>5. block \in Nat
  BY DEF PlayInv, ChainInv, CheckpointOK, Checkpoint
<1>6. RawInRange'
  BY <1>1, <1>3, <1>5 DEF RecordInv, RawInRange
<1>7. RawBacksCheckpoint'
  BY <1>1, <1>3, <1>4, <1>5 DEF RecordInv, RawBacksCheckpoint
<1>8. RawIsTrue'
  BY <1>1, <1>3, <1>4 DEF RecordInv, RawIsTrue
<1>9. RawReached'
  BY <1>1, <1>3, <1>4 DEF RawReached
<1>10. Agrees
  BY <1>1, <1>3 DEF Agrees, RecordInv, RawIsTrue
<1> QED
  BY <1>6, <1>7, <1>8, <1>9, <1>10 DEF RecordInv

LEMMA CheckpointWritten ==
    ASSUME PlayInv, RecordInv, [Next]_vars, WriteCheckpoint
    PROVE  RecordInv' /\ Agrees
<1> DEFINE block == checkpoint.nextBlock
<1>1. /\ at = "checkpoint" /\ at' = "phase" /\ UNCHANGED <<series, generations, rounds>>
  BY DEF WriteCheckpoint, raw
<1>2. block \in Nat /\ ChainInv
  BY DEF PlayInv, ChainInv, CheckpointOK, Checkpoint
<1>3. CASE Pending
  <2>1. checkpoint'.nextBlock = block + 1 /\ ~ Pending'
    BY <1>2, <1>3, AfterGenerationIs DEF Pending
  <2>2. block \in DOMAIN series /\ block \in DOMAIN generations /\ block \in DOMAIN rounds
    BY <1>1, <1>3 DEF RecordInv, RawBacksCheckpoint, RawReached
  <2>3. RawBacksCheckpoint'
    BY <1>1, <1>2, <2>1, <2>2 DEF RecordInv, RawBacksCheckpoint, RawInRange
  <2>4. RawInRange' /\ RawIsTrue' /\ RawReached'
    BY <1>1, <1>2, <2>1 DEF RecordInv, RawInRange, RawIsTrue, RawReached
  <2> QED
    BY <1>1, <2>3, <2>4 DEF RecordInv, Agrees
<1>4. CASE ~ Pending
  <2>1. /\ Decision = Verdict /\ block \in DOMAIN series /\ series[block].decision = Verdict
        /\ block \notin DOMAIN rounds
        /\ Decisive => block \in DOMAIN generations /\ generations[block] = Generated(Decision)
    BY <1>1, <1>4, BlockIsTrue
       DEF PlayInv, PlaceInv, RecordInv, RawReached, RawIsTrue, TrueSeries, Decisive
  <2>2. CASE Decisive
    <3>1. /\ checkpoint'.nextBlock = block /\ checkpoint'.pendingGeneration = Generated(Decision)
          /\ Pending'
      BY <1>2, <1>4, <2>2, AfterBlockIs, GeneratedIs DEF Pending, Decisive
    <3>2. RawBacksCheckpoint'
      BY <1>1, <2>1, <2>2, <3>1 DEF RecordInv, RawBacksCheckpoint
    <3>3. RawInRange' /\ RawIsTrue' /\ RawReached'
      BY <1>1, <2>1, <3>1 DEF RecordInv, RawInRange, RawIsTrue, RawReached
    <3> QED
      BY <1>1, <3>2, <3>3 DEF RecordInv, Agrees
  <2>3. CASE ~ Decisive
    <3>1. checkpoint'.nextBlock = block + 1 /\ ~ Pending'
      BY <1>2, <1>4, <2>3, AfterBlockIs DEF Pending
    <3>2. RawBacksCheckpoint'
      BY <1>1, <1>2, <2>1, <2>3, <3>1 DEF RecordInv, RawBacksCheckpoint, RawInRange, Decisive
    <3>3. RawInRange' /\ RawIsTrue' /\ RawReached'
      BY <1>1, <1>2, <3>1 DEF RecordInv, RawInRange, RawIsTrue, RawReached
    <3> QED
      BY <1>1, <3>2, <3>3 DEF RecordInv, Agrees
  <2> QED
    BY <2>2, <2>3
<1> QED
  BY <1>3, <1>4

LEMMA RecordStep == PlayInv /\ RecordInv /\ [Next]_vars => RecordInv' /\ Agrees
<1> SUFFICES ASSUME PlayInv, RecordInv, [Next]_vars PROVE RecordInv' /\ Agrees
  OBVIOUS
<1> QED
  BY RecordKept, SeriesWritten, GenerationWritten, RoundWritten, CheckpointWritten

LEMMA AdaptiveInvariant == Spec => [](PlayInv /\ RecordInv)
<1>1. Init => PlayInv /\ RecordInv
  BY InitChain, InitGames, InitPlace, InitRecord DEF PlayInv
<1>2. PlayInv /\ RecordInv /\ [Next]_vars => (PlayInv /\ RecordInv)'
  BY PlayStep, RecordStep
<1> QED
  BY <1>1, <1>2, PTL DEF Spec

(* Wherever an attempt is interrupted, the raw record has the series, the  *)
(* candidates and the screening of everything the checkpoint is past: the  *)
(* runner writes a phase's raw events before that phase's checkpoint.      *)
THEOREM RecordBacksCheckpoint == Spec => []RawBacksCheckpoint
<1>1. RecordInv => RawBacksCheckpoint
  BY DEF RecordInv
<1> QED
  BY <1>1, AdaptiveInvariant, PTL

(* A phase that is played again after a stop, a failure or a crash comes   *)
(* to the decision that is on record: onRawEvent puts a record only in the *)
(* place of its equal.                                                     *)
THEOREM DecisionsStand == Spec => SameDecision
<1>1. PlayInv /\ RecordInv /\ [Next]_vars => [Agrees]_vars
  BY RecordStep
<1>2. Spec => [][Agrees]_vars
  BY <1>1, AdaptiveInvariant, PTL DEF Spec
<1> QED
  BY <1>2, PTL DEF SameDecision, Agrees
=============================================================================
