-------------------------- MODULE TurnFlow_proofs --------------------------
(***************************************************************************)
(* Proofs about TurnFlow: how turns pass round the circle of seats, who    *)
(* holds priority in a Reaction window, that only seats still in have work *)
(* to do, and what a match at rest waits for and offers, for any number of *)
(* seats and any bounds on what cards do.                                  *)
(***************************************************************************)
EXTENDS TurnFlow, WellFoundedInduction, FiniteSetTheorems, SequenceTheorems, TLAPS

-----------------------------------------------------------------------------
(* The least of some numbers, as CHOOSE picks it.                          *)

Less == OpToRel(<, Nat)

LEMMA LessWellFounded == IsWellFoundedOn(Less, Nat)
  BY NatLessThanWellFounded, Zenon DEF OpToRel, Less

LEMMA Least ==
    ASSUME NEW S \in SUBSET Nat, S # {}
    PROVE  \E k \in S : \A j \in S : k <= j
<1>1. PICK k \in S : \A j \in S : ~ (<<j, k>> \in Less)
  BY LessWellFounded, WFMin
<1>2. \A i, j \in Nat : i < j => <<i, j>> \in Less
  BY DEF Less, OpToRel
<1>3. \A j \in S : k \in Nat /\ j \in Nat /\ ~ (j < k)
  BY <1>1, <1>2
<1>4. \A j \in S : k <= j
  BY <1>3
<1> QED
  BY <1>4

-----------------------------------------------------------------------------
(* What is kept of a sequence (Keeping): the places counted, and the       *)
(* elements.                                                               *)

(* The places up to n, counted.                                            *)
UpTo(I, n) == {j \in I : j <= n}

LEMMA UpToCounts ==
    ASSUME NEW L \in Nat, NEW I \in SUBSET (1 .. L), NEW n \in Nat
    PROVE  /\ IsFiniteSet(UpTo(I, n)) /\ Cardinality(UpTo(I, n)) \in 0 .. Cardinality(I)
           /\ IsFiniteSet(I) /\ Cardinality(I) \in Nat
<1>1. IsFiniteSet(1 .. L)
  BY FS_Interval
<1>2. IsFiniteSet(I) /\ Cardinality(I) \in Nat
  BY <1>1, FS_Subset, FS_CardinalityType
<1>3. UpTo(I, n) \in SUBSET I
  BY DEF UpTo
<1> QED
  BY <1>2, <1>3, FS_Subset, FS_CardinalityType

(* Each of the first places is the k-th of exactly one.                    *)
LEMMA PlaceOfRank ==
    ASSUME NEW L \in Nat, NEW I \in SUBSET (1 .. L), NEW k \in 1 .. Cardinality(I)
    PROVE  \E i \in I : Cardinality(UpTo(I, i)) = k
<1> DEFINE Count(n) == Cardinality(UpTo(I, n))
           Enough == {n \in Nat : k <= Count(n)}
<1>I. \A j \in I : j \in Nat /\ 1 <= j /\ j <= L
  OBVIOUS
<1>0. k \in Nat /\ k # 0 /\ \A n \in Nat : Count(n) \in Nat
  BY UpToCounts
<1>1. L \in Enough
  <2>1. UpTo(I, L) = I
    BY <1>I DEF UpTo
  <2> QED
    BY <1>0, <2>1
<1>2. PICK m \in Enough : \A n \in Enough : m <= n
  <2> HIDE DEF Enough
  <2>1. Enough \in SUBSET Nat
    BY DEF Enough
  <2> QED
    BY <1>1, <2>1, Least
<1>3. m \in Nat /\ k <= Count(m) /\ \A n \in Nat : n < m => Count(n) < k
  <2>1. m \in Nat /\ k <= Count(m)
    BY <1>2
  <2>2. ASSUME NEW n \in Nat, n < m PROVE ~ (k <= Count(n))
    BY <1>2, <2>1, <2>2
  <2> QED
    BY <1>0, <2>1, <2>2
<1>4. m # 0
  <2>1. UpTo(I, 0) = {}
    <3>1. \A j \in I : ~ (j <= 0)
      BY <1>I
    <3> QED
      BY <3>1 DEF UpTo
  <2> QED
    BY <1>0, <1>3, <2>1, FS_EmptySet
<1>5. m - 1 \in Nat /\ Count(m - 1) \in Nat /\ Count(m - 1) < k
  BY <1>0, <1>3, <1>4
<1>6. UpTo(I, m) = UpTo(I, m - 1) \cup ({m} \cap I)
  <2>2. \A i \in I : i <= m <=> i <= m - 1 \/ i = m
    BY <1>3, <1>I
  <2> QED
    BY <2>2 DEF UpTo
<1>7. m \in I
  <2>1. ASSUME m \notin I PROVE FALSE
    <3>1. UpTo(I, m) = UpTo(I, m - 1)
      BY <1>6, <2>1
    <3> QED
      BY <1>0, <1>3, <1>5, <3>1
  <2> QED
    BY <2>1
<1>8. Count(m) <= Count(m - 1) + 1
  <2>1. UpTo(I, m) = UpTo(I, m - 1) \cup {m}
    BY <1>6, <1>7
  <2>2. IsFiniteSet(UpTo(I, m - 1))
    BY <1>5, UpToCounts
  <2> QED
    BY <1>5, <2>1, <2>2, FS_AddElement
<1>9. Count(m) \in Nat
  BY <1>0, <1>3
<1> HIDE DEF Count
<1>10. Count(m) = k
  BY <1>0, <1>3, <1>5, <1>8, <1>9
<1> QED
  BY <1>7, <1>10 DEF Count

LEMMA RankIsOwn ==
    ASSUME NEW L \in Nat, NEW I \in SUBSET (1 .. L), NEW i \in I, NEW j \in I,
           Cardinality(UpTo(I, i)) = Cardinality(UpTo(I, j))
    PROVE  i = j
<1>1. ASSUME NEW a \in I, NEW b \in I, a < b, Cardinality(UpTo(I, a)) = Cardinality(UpTo(I, b))
      PROVE  FALSE
  <2>0. a \in Nat /\ b \in Nat /\ \A k \in I : k \in Nat
    OBVIOUS
  <2>1. UpTo(I, a) \in SUBSET UpTo(I, b)
    <3>1. \A k \in I : k <= a => k <= b
      BY <1>1, <2>0
    <3> QED
      BY <3>1 DEF UpTo
  <2>4. b \in UpTo(I, b) /\ b \notin UpTo(I, a)
    BY <1>1, <2>0 DEF UpTo
  <2>2. IsFiniteSet(UpTo(I, b))
    BY <2>0, UpToCounts
  <2>3. UpTo(I, b) = UpTo(I, a)
    BY <1>1, <2>1, <2>2, FS_Subset
  <2> QED
    BY <2>3, <2>4
<1> QED
  <2>1. i \in Nat /\ j \in Nat
    OBVIOUS
  <2> QED
    BY <1>1, <2>1

(* What is kept is taken from the places kept, and all of them are.        *)
LEMMA KeepingIsOf ==
    ASSUME NEW X, NEW seq \in Seq(X), NEW I \in SUBSET (DOMAIN seq)
    PROVE  /\ Cardinality(I) \in Nat
           /\ DOMAIN Keeping(seq, I) = 1 .. Cardinality(I)
           /\ \A k \in 1 .. Cardinality(I) : \E i \in I : Keeping(seq, I)[k] = seq[i]
           /\ \A i \in I : \E k \in 1 .. Cardinality(I) : Keeping(seq, I)[k] = seq[i]
<1> PICK L \in Nat : DOMAIN seq = 1 .. L
  BY LenProperties
<1> DEFINE Place(k) == CHOOSE i \in I : Cardinality(UpTo(I, i)) = k
<1>0. Cardinality(I) \in Nat
  BY UpToCounts
<1>1. Keeping(seq, I) = [k \in 1 .. Cardinality(I) |-> seq[Place(k)]]
  BY DEF Keeping, UpTo
<1>2. ASSUME NEW k \in 1 .. Cardinality(I)
      PROVE  Place(k) \in I /\ Cardinality(UpTo(I, Place(k))) = k
  BY PlaceOfRank
<1>3. ASSUME NEW i \in I
      PROVE  /\ Cardinality(UpTo(I, i)) \in 1 .. Cardinality(I)
             /\ Place(Cardinality(UpTo(I, i))) = i
  <2>0. i \in Nat
    OBVIOUS
  <2>1. /\ i \in UpTo(I, i)
        /\ IsFiniteSet(UpTo(I, i)) /\ Cardinality(UpTo(I, i)) \in 0 .. Cardinality(I)
    <3>1. i \in UpTo(I, i)
      BY <2>0 DEF UpTo
    <3> QED
      BY <2>0, <3>1, UpToCounts
  <2>2. Cardinality(UpTo(I, i)) # 0
    BY <2>1, FS_EmptySet
  <2>3. Cardinality(UpTo(I, i)) \in 1 .. Cardinality(I)
    BY <1>0, <2>1, <2>2
  <2> QED
    BY <1>2, <2>3, RankIsOwn
<1> HIDE DEF Place
<1> QED
  BY <1>0, <1>1, <1>2, <1>3

LEMMA KeepingSeq ==
    ASSUME NEW X, NEW seq \in Seq(X), NEW I \in SUBSET (DOMAIN seq)
    PROVE  /\ Keeping(seq, I) \in Seq(X)
           /\ Len(Keeping(seq, I)) = Cardinality(I)
           /\ Members(Keeping(seq, I)) = {seq[i] : i \in I}
<1>1. Len(seq) \in Nat /\ DOMAIN seq = 1 .. Len(seq) /\ \A i \in DOMAIN seq : seq[i] \in X
  BY LenProperties
<1>2. /\ Cardinality(I) \in Nat
      /\ DOMAIN Keeping(seq, I) = 1 .. Cardinality(I)
      /\ \A k \in 1 .. Cardinality(I) : \E i \in I : Keeping(seq, I)[k] = seq[i]
      /\ \A i \in I : \E k \in 1 .. Cardinality(I) : Keeping(seq, I)[k] = seq[i]
  BY KeepingIsOf
<1>3. Keeping(seq, I) \in [1 .. Cardinality(I) -> X]
  <2>1. Keeping(seq, I) = [k \in DOMAIN Keeping(seq, I) |-> Keeping(seq, I)[k]]
    BY DEF Keeping
  <2> QED
    <3>1. \A k \in 1 .. Cardinality(I) : Keeping(seq, I)[k] \in X
      BY <1>1, <1>2
    <3> QED
      BY <1>2, <2>1, <3>1
<1>4. Keeping(seq, I) \in Seq(X)
  BY <1>2, <1>3, SeqDef
<1>5. Len(Keeping(seq, I)) = Cardinality(I)
  BY <1>2, <1>4, LenProperties
<1>6. Members(Keeping(seq, I)) = {seq[i] : i \in I}
  <2>1. Members(Keeping(seq, I)) = {Keeping(seq, I)[k] : k \in 1 .. Cardinality(I)}
    BY <1>2 DEF Members
  <2>2. ASSUME NEW x PROVE x \in Members(Keeping(seq, I)) <=> \E i \in I : x = seq[i]
    BY <1>2, <2>1
  <2> QED
    BY <2>2
<1> QED
  BY <1>4, <1>5, <1>6

-----------------------------------------------------------------------------
(* The circle of seats, without the remainder.                             *)

Jump(s, k) == IF s + k > N THEN s + k - N ELSE s + k

LEMMA Remainder ==
    ASSUME NEW a \in Nat, a < N
    PROVE  a % N = a /\ (a + N) % N = a
BY FlowAssumption

LEMMA ClockwiseIsJump ==
    ASSUME NEW s \in Seat, NEW k \in 1 .. N
    PROVE  Clockwise(s, k) = Jump(s, k) /\ Jump(s, k) \in Seat
<1>1. s \in Nat /\ k \in Nat /\ N \in Nat /\ 1 <= s /\ s <= N /\ 1 <= k /\ k <= N
  BY FlowAssumption DEF Seat
<1>2. CASE s + k > N
  <2> DEFINE a == s - 1 + k - N
  <2>1. a \in Nat /\ a < N /\ s - 1 + k = a + N
    BY <1>1, <1>2
  <2>2. (s - 1 + k) % N = a
    BY <2>1, Remainder
  <2> QED
    BY <1>1, <1>2, <2>2 DEF Clockwise, Jump, Seat
<1>3. CASE ~ (s + k > N)
  <2>1. s - 1 + k \in Nat /\ s - 1 + k < N
    BY <1>1, <1>3
  <2>2. (s - 1 + k) % N = s - 1 + k
    BY <2>1, Remainder
  <2> QED
    BY <1>1, <1>3, <2>2 DEF Clockwise, Jump, Seat
<1> QED
  BY <1>2, <1>3

(* The next seat is in the match, and every seat passed over is not.       *)
LEMMA NextLiving ==
    ASSUME NEW s \in Seat, NEW gone, Seat \ gone # {}
    PROVE  /\ nextLivingPlayer(s, gone) \in Seat \ gone
           /\ \A k \in 1 .. N : Clockwise(s, k) = nextLivingPlayer(s, gone) =>
                 \A j \in 1 .. (k - 1) : Clockwise(s, j) \in gone
<1> DEFINE K == {k \in 1 .. N : Clockwise(s, k) \notin gone}
           IsNext(k) == /\ Clockwise(s, k) \notin gone
                        /\ \A j \in 1 .. (k - 1) : Clockwise(s, j) \in gone
           next == CHOOSE k \in 1 .. N : IsNext(k)
<1>1. N \in Nat /\ 1 .. N \subseteq Nat
  BY FlowAssumption
<1>2. K # {}
  <2>1. PICK t \in Seat : t \notin gone
    OBVIOUS
  <2> DEFINE k == IF t > s THEN t - s ELSE t - s + N
  <2>2. k \in 1 .. N /\ Jump(s, k) = t
    BY <1>1 DEF Seat, Jump
  <2> QED
    BY <2>1, <2>2, ClockwiseIsJump
<1>3. PICK k \in K : \A j \in K : k <= j
  BY <1>1, <1>2, Least
<1>4. k \in 1 .. N /\ IsNext(k)
  BY <1>1, <1>3
<1>5. next \in 1 .. N /\ IsNext(next)
  BY <1>4
<1>6. nextLivingPlayer(s, gone) = Clockwise(s, next)
  BY DEF nextLivingPlayer
<1> HIDE DEF next
<1>7. ASSUME NEW i \in 1 .. N, Clockwise(s, i) = Clockwise(s, next) PROVE i = next
  <2>1. Jump(s, i) = Jump(s, next)
    BY <1>5, <1>7, ClockwiseIsJump
  <2> QED
    BY <1>1, <1>5, <2>1 DEF Jump, Seat
<1>8. Clockwise(s, next) \in Seat
  BY <1>5, ClockwiseIsJump
<1> QED
  BY <1>5, <1>6, <1>7, <1>8

-----------------------------------------------------------------------------
(* Windows: where one is open, the seat at the index has not answered.     *)

Fields == {"mode", "order", "index", "answered", "armed", "pending", "resume"}
IsWindow(w) == w = [f \in Fields |-> w[f]]
Good(w) == IsWindow(w) /\ (w.mode = "open" => w.order[w.index + 1] \notin w.answered)

LEMMA AdvanceGood ==
    ASSUME NEW w, IsWindow(w)
    PROVE  Good(advancePriority(w))
<1> DEFINE able == {k \in 0 .. (Len(w.order) - 1) : canAct(w, Offer(w, w.index + k))}
           step == CHOOSE k \in able : \A j \in able : k <= j
<1>1. CASE able = {}
  BY <1>1 DEF advancePriority, closeWindow, Good, IsWindow, Fields
<1>2. CASE able # {}
  <2>1. \E k \in able : \A j \in able : k <= j
    <3>1. able \subseteq Nat
      OBVIOUS
    <3> HIDE DEF able
    <3> QED
      BY <1>2, <3>1, Least
  <2>2. canAct(w, Offer(w, w.index + step))
    <3>1. step \in able
      BY <2>1
    <3> QED
      BY <3>1
  <2>3. advancePriority(w) = [w EXCEPT !.index = (@ + step) % Len(w.order)]
    BY <1>2 DEF advancePriority
  <2> HIDE DEF step, able
  <2>4. w.order[((w.index + step) % Len(w.order)) + 1] \notin w.answered
    BY <2>2 DEF canAct, Offer
  <2> QED
    BY <2>3, <2>4 DEF Good, IsWindow, Fields
<1> QED
  BY <1>1, <1>2

LEMMA NoWindowGood == Good(NoWindow)
BY DEF Good, IsWindow, Fields, NoWindow

LEMMA OpenGood ==
    ASSUME NEW subject, NEW resume, NEW gone, NEW w \in openReactionWindow(subject, resume, gone)
    PROVE  Good(w)
<1>1. PICK armed : w = advancePriority(draftWindow(armed, subject, resume, gone))
  BY DEF openReactionWindow
<1>2. IsWindow(draftWindow(armed, subject, resume, gone))
  BY DEF IsWindow, Fields, draftWindow
<1> QED
  BY <1>1, <1>2, AdvanceGood

LEMMA RemoveGood ==
    ASSUME NEW w, Good(w), NEW S, NEW v \in removeFromReactionWindow(w, S)
    PROVE  Good(v)
<1> DEFINE u == Without(w, S)
<1>1. IsWindow(u)
  BY DEF Good, Without, IsWindow, Fields
<1> HIDE DEF u
<1>2. \/ v \in {w, NoWindow}
      \/ v = u /\ u.mode = "closed"
      \/ \E armed : v = advancePriority([u EXCEPT !.armed = armed])
  BY DEF removeFromReactionWindow, u
<1>3. \A armed : IsWindow([u EXCEPT !.armed = armed])
  BY <1>1 DEF IsWindow, Fields
<1> QED
  BY <1>1, <1>2, <1>3, AdvanceGood, NoWindowGood DEF Good

LEMMA TouchGood ==
    ASSUME NEW w, Good(w), NEW v \in Touched(w)
    PROVE  Good(v)
<1>1. PICK u \in {w} \cup Countered(w) : v \in Rearmed(u)
  BY DEF Touched
<1>2. Good(u)
  BY <1>1 DEF Countered, Good, IsWindow, Fields
<1> QED
  BY <1>1, <1>2 DEF Rearmed, Good, IsWindow, Fields

-----------------------------------------------------------------------------
(* The invariant.                                                          *)

FlowInv ==
    /\ active \in Seat
    /\ running => choice = NoChoice /\ status # "complete"
    /\ status # "complete" => Living # {}
    /\ Good(window)

LEMMA InitFlow == Init => FlowInv
BY NoWindowGood, FlowAssumption DEF Init, FlowInv, Seat, Living

LEMMA SomeoneLeft ==
    ASSUME NEW gone, ~ Over(gone)
    PROVE  Seat \ gone # {}
BY FS_EmptySet DEF Over

(* What runStateBasedChecks leaves, of a match that is not over yet.       *)
LEMMA Checked ==
    ASSUME FlowInv, status # "complete", NEW S, NEW queues, NEW ph, NEW windows, NEW n,
           runStateBasedChecks(S, queues, ph, windows, n), active' = active,
           \A w \in windows : Good(w)
    PROVE  FlowInv'
<1>1. Good(window')
  BY DEF runStateBasedChecks
<1>2. active' \in Seat
  BY DEF FlowInv
<1>3. CASE S # {} /\ Over(out')
  BY <1>1, <1>2, <1>3 DEF runStateBasedChecks, finishMatch, Yield, FlowInv
<1>4. CASE ~ (S # {} /\ Over(out'))
  <2>1. Living' # {}
    <3>1. CASE S = {}
      BY <3>1 DEF runStateBasedChecks, FlowInv, Living
    <3>2. CASE ~ Over(out')
      BY <3>2, SomeoneLeft DEF Living
    <3> QED
      BY <1>4, <3>1, <3>2
  <2>2. status' # "complete" /\ (choice' = NoChoice \/ running' = FALSE)
    BY <1>4 DEF runStateBasedChecks, CancelChoice, Yield
  <2> QED
    BY <1>1, <1>2, <2>1, <2>2 DEF FlowInv
<1> QED
  BY <1>3, <1>4

LEMMA TurnBegins ==
    ASSUME FlowInv, status # "complete", NEW s \in Seat, NEW st, st # "complete", NEW mayAsk,
           beginTurn(s, st, mayAsk), UNCHANGED <<out, window>>
    PROVE  FlowInv'
BY DEF beginTurn, runReadyStep, Continue, Yield, FlowInv, Living

(* Handlers and steps that neither end the match nor touch who plays on.   *)
LEMMA GoesOn ==
    ASSUME FlowInv, status # "complete", UNCHANGED <<active, out>>, status' # "complete",
           choice' = NoChoice \/ ~ running', Good(window')
    PROVE  FlowInv'
BY DEF FlowInv, Living

LEMMA CommitKeeps ==
    ASSUME FlowInv, AtRest, NEW s \in Seat, NEW st, st # "complete",
           requestCostSelection(s) \/ commitPlay(s, st) \/ commitActivation(s, st),
           UNCHANGED <<active, out>>
    PROVE  FlowInv'
<1>1. status' # "complete" /\ (choice' = NoChoice \/ ~ running')
  BY DEF requestCostSelection, commitPlay, commitActivation, Yield
<1>2. Good(window')
  BY OpenGood DEF requestCostSelection, commitPlay, commitActivation, FlowInv
<1> QED
  BY <1>1, <1>2, GoesOn DEF AtRest

LEMMA MulliganKeeps ==
    ASSUME FlowInv, NEW s \in Seat, handleMulligan(s)
    PROVE  FlowInv'
<1>1. status = "mulligan" /\ Living # {}
  BY DEF handleMulligan, MayMulligan, FlowInv
<1>2. CASE \A t \in Seat \ {s} : mulligan[t] = "submitted"
  <2> DEFINE first == IF 1 \in out THEN nextLivingPlayer(1, out) ELSE 1
  <2>1. 1 \in Seat
    BY FlowAssumption DEF Seat
  <2>2. first \in Seat
    BY <1>1, <2>1, NextLiving DEF Living
  <2>3. beginTurn(first, "playing", FALSE) /\ UNCHANGED <<out, window>>
    BY <1>2 DEF handleMulligan
  <2> QED
    BY <1>1, <2>2, <2>3, TurnBegins
<1>3. CASE ~ \A t \in Seat \ {s} : mulligan[t] = "submitted"
  BY <1>3 DEF handleMulligan, MayMulligan, MayAct, FlowInv, Living
<1> QED
  BY <1>2, <1>3

LEMMA ReactionKeeps ==
    ASSUME FlowInv, NEW s \in Seat, handleReaction(s)
    PROVE  FlowInv'
<1>1. status # "complete" /\ choice' = NoChoice
  BY DEF handleReaction, MayReact, MayAct, MaySpeak, AtRest
<1>2. PICK w \in IF phase = "reaction_window" THEN {window} ELSE Rearmed(window) :
         LET next == [w EXCEPT !.answered = @ \cup {s}, !.index = (@ + 1) % Len(w.order)]
             played == [next EXCEPT !.pending = Append(@, [owner |-> s, countered |-> FALSE])]
         IN  window' \in {advancePriority(next), advancePriority(played)}
  BY DEF handleReaction
<1>3. IsWindow(w)
  BY <1>2 DEF FlowInv, Good, Rearmed, IsWindow, Fields
<1>4. Good(window')
  <2> DEFINE next == [w EXCEPT !.answered = @ \cup {s}, !.index = (@ + 1) % Len(w.order)]
             played == [next EXCEPT !.pending = Append(@, [owner |-> s, countered |-> FALSE])]
  <2>1. IsWindow(next)
    BY <1>3 DEF IsWindow, Fields
  <2>2. window' \in {advancePriority(next), advancePriority(played)}
    BY <1>2
  <2> HIDE DEF next
  <2>3. IsWindow(played)
    BY <2>1 DEF IsWindow, Fields
  <2> HIDE DEF played
  <2> QED
    BY <2>1, <2>2, <2>3, AdvanceGood
<1> QED
  BY <1>1, <1>4, GoesOn DEF handleReaction

LEMMA SubmitChoiceKeeps ==
    ASSUME FlowInv, NEW s \in Seat, handleSubmitChoice(s)
    PROVE  FlowInv'
<1>1. AtRest /\ status # "complete" /\ UNCHANGED <<active, out>>
  BY DEF handleSubmitChoice, MayChoose, MaySpeak, AtRest
<1>2. CASE runReadyStep("playing", TRUE) /\ UNCHANGED window
  BY <1>1, <1>2, GoesOn DEF runReadyStep, Yield, FlowInv
<1>3. CASE requestCostSelection(s) \/ commitPlay(s, "playing") \/ commitActivation(s, "playing")
  BY <1>1, <1>3, CommitKeeps
<1>4. CASE status' = "playing" /\ choice' = NoChoice /\ UNCHANGED window
  BY <1>1, <1>4, GoesOn DEF FlowInv
<1> QED
  BY <1>2, <1>3, <1>4 DEF handleSubmitChoice

LEMMA PlayerKeeps ==
    ASSUME FlowInv, NEW s \in Seat, PlayerAction(s)
    PROVE  FlowInv'
<1>1. CASE handleTermination(s)
  <2>1. status # "complete" /\ active' = active
    BY <1>1 DEF handleTermination, MaySpeak, AtRest
  <2>2. \A w \in removeFromReactionWindow(window, {s}) : Good(w)
    BY RemoveGood DEF FlowInv
  <2> QED
    BY <1>1, <2>1, <2>2, Checked DEF handleTermination
<1>2. CASE handlePlayCard(s) \/ handleActivateAbility(s)
  <2>1. AtRest /\ status # "complete" /\ UNCHANGED <<active, out>>
    BY <1>2 DEF handlePlayCard, handleActivateAbility, requireMainPhase, MayAct, MaySpeak, AtRest
  <2> QED
    BY <1>2, <2>1, CommitKeeps DEF handlePlayCard, handleActivateAbility
<1>3. CASE handlePassPhase(s) \/ handleAssignBlockers(s)
  BY <1>3, GoesOn DEF handlePassPhase, handleAssignBlockers, MayPass, MayBlock, MayAct, MaySpeak,
     AtRest, FlowInv
<1>4. CASE handleDeclareAttackers(s)
  <2>1. /\ status # "complete" /\ choice' = NoChoice
        /\ UNCHANGED <<status, active, out>>
    BY <1>4 DEF handleDeclareAttackers, MayAttack, MayAct, MaySpeak, AtRest
  <2>2. Good(window')
    BY <1>4, OpenGood DEF handleDeclareAttackers, FlowInv
  <2> QED
    BY <2>1, <2>2, GoesOn
<1> QED
  BY <1>1, <1>2, <1>3, <1>4, MulliganKeeps, ReactionKeeps, SubmitChoiceKeeps DEF PlayerAction

LEMMA PumpKeeps ==
    ASSUME FlowInv, pumpQueue
    PROVE  FlowInv'
<1>1. running /\ choice = NoChoice /\ status # "complete"
  BY DEF pumpQueue, completeItem, askForEffect, executeEffect, Pumps, FlowInv
<1>2. CASE completeItem \/ askForEffect
  BY <1>1, <1>2, GoesOn DEF completeItem, askForEffect, Yield, FlowInv
<1>3. CASE executeEffect
  <2>1. CASE finishMatch /\ UNCHANGED <<active, out, window>>
    BY <1>1, <2>1 DEF finishMatch, Yield, FlowInv
  <2>2. ASSUME NEW S \in SUBSET Living, NEW w \in Touched(window), NEW queues,
               runStateBasedChecks(S, queues, phase, removeFromReactionWindow(w, S), Counted)
        PROVE  FlowInv'
    <3>1. Good(w)
      BY TouchGood DEF FlowInv
    <3>2. \A v \in removeFromReactionWindow(w, S) : Good(v)
      BY <3>1, RemoveGood
    <3>3. active' = active
      BY <1>3 DEF executeEffect
    <3> QED
      BY <1>1, <2>2, <3>2, <3>3, Checked
  <2> QED
    BY <1>3, <2>1, <2>2 DEF executeEffect
<1> QED
  BY <1>2, <1>3 DEF pumpQueue

LEMMA AdvanceKeeps ==
    ASSUME FlowInv, advance
    PROVE  FlowInv'
<1>1. /\ running /\ choice = NoChoice /\ status # "complete"
      /\ active \in Seat /\ Living # {} /\ Good(window)
  BY DEF advance, passOn, comeToRest, startDraw, performDraw, finalizeBlockers, resolveCombat,
     resumeReactionWindow, performTurnEnd, InPhase, Advances, FlowInv
<1>2. nextLivingPlayer(active, out) \in Seat
  BY <1>1, NextLiving DEF Living
<1>3. CASE passOn
  BY <1>1, <1>2, <1>3, TurnBegins DEF passOn
<1>4. CASE comeToRest \/ startDraw
  BY <1>1, <1>4, GoesOn DEF comeToRest, startDraw, Yield
<1>5. CASE performDraw
  <2>1. PICK S \in SUBSET {active} :
           runStateBasedChecks(S, settled(queue, S), "main_1",
                               removeFromReactionWindow(window, S), steps)
    BY <1>5 DEF performDraw
  <2>2. \A w \in removeFromReactionWindow(window, S) : Good(w)
    BY <1>1, RemoveGood
  <2> QED
    BY <1>1, <1>5, <2>1, <2>2, Checked DEF performDraw
<1>6. CASE finalizeBlockers
  <2>1. Good(window')
    BY <1>1, <1>6, OpenGood DEF finalizeBlockers
  <2> QED
    BY <1>1, <1>6, <2>1, GoesOn DEF finalizeBlockers
<1>7. CASE resolveCombat
  <2>1. active' = active
    BY <1>7 DEF resolveCombat
  <2>2. ASSUME NEW S, NEW queues, NEW ph,
               \/ runStateBasedChecks(S, queues, ph, removeFromReactionWindow(window, S), steps)
               \/ runStateBasedChecks(S, queues, ph,
                                      openReactionWindow(<<>>, "main_2", out \cup S), steps)
        PROVE  FlowInv'
    BY <1>1, <2>1, <2>2, RemoveGood, OpenGood, Checked
  <2> QED
    BY <1>7, <2>2 DEF resolveCombat
<1>8. CASE resumeReactionWindow
  <2>1. Good(window')
    BY <1>1, <1>8, NoWindowGood DEF resumeReactionWindow, Good, IsWindow, Fields
  <2> QED
    BY <1>1, <1>8, <2>1, GoesOn DEF resumeReactionWindow
<1>9. CASE performTurnEnd
  <2>1. CASE choice' = Ask("discard", active, NoSeat, NoSeat) /\ Yield /\ active' = active
             /\ status' = "waiting_for_choice"
    BY <1>1, <1>9, <2>1, GoesOn DEF performTurnEnd, Yield
  <2>2. CASE beginTurn(nextLivingPlayer(active, out), status, TRUE)
    BY <1>1, <1>2, <1>9, <2>2, TurnBegins DEF performTurnEnd
  <2> QED
    BY <1>9, <2>1, <2>2 DEF performTurnEnd
<1> QED
  BY <1>3, <1>4, <1>5, <1>6, <1>7, <1>8, <1>9 DEF advance

LEMMA NextFlow == FlowInv /\ [Next]_vars => FlowInv'
<1> SUFFICES ASSUME FlowInv, [Next]_vars PROVE FlowInv'
  OBVIOUS
<1>1. CASE UNCHANGED vars
  BY <1>1 DEF vars, FlowInv, Living
<1> QED
  BY <1>1, PlayerKeeps, PumpKeeps, AdvanceKeeps DEF Next, Engine, Finished

LEMMA FlowInvariant == Spec => []FlowInv
<1>1. Init => FlowInv
  BY InitFlow
<1> QED
  BY <1>1, NextFlow, PTL DEF Spec

-----------------------------------------------------------------------------
(* What is on the table.                                                   *)

(* A window interrupts one of these phases, asks exactly the seats still in*)
(* the match, and holds no card of any other.                              *)
Interrupted == MAIN_PHASES \cup {"assign_blockers", "resolve_combat"}
OwnedBy(seq, seats) == \A i \in DOMAIN seq : seq[i].owner \in seats
Sound(w, gone) ==
    /\ w \in Window
    /\ w.mode = "none" => w = NoWindow
    /\ w.mode # "none" => /\ w.index < Len(w.order)
                          /\ Members(w.order) = Seat \ gone
                          /\ w.resume \in Interrupted
    /\ OwnedBy(w.pending, Seat \ gone)
Queued(q, gone) == q \in Seq(Item) /\ OwnedBy(q, Seat \ gone)

TableInv ==
    /\ TypeOK
    /\ Sound(window, out)
    /\ Queued(queue, out)
    /\ choice.player \notin out
    /\ choice.kind = "cost" => phase \in MAIN_PHASES
    /\ (attacked \cup awaitingDefenders) \cap (out \cup {active}) = {}

(* Who the match waits for.                                                *)
RestInv ==
    /\ status = "waiting_for_choice" <=> choice # NoChoice
    /\ choice # NoChoice => choice.player \in Seat
    /\ status = "mulligan" => /\ mulligan \in [Seat -> {"pending", "submitted"}]
                              /\ \E s \in Seat : mulligan[s] = "pending"
    /\ phase = "mulligan" => status = "mulligan" /\ queue = <<>> /\ window = NoWindow
    /\ phase = "complete" => status = "complete"
    /\ status # "complete" /\ phase = "reaction_window" => window.mode # "none"
    /\ status = "playing" /\ ~ running => queue = <<>> /\ active \notin out /\ NeedsPlayer
LEMMA NotOwnedByIs ==
    ASSUME NEW X, NEW seq \in Seq(X), NEW seats, OwnedBy(seq, seats), NEW S
    PROVE  NotOwnedBy(seq, S) \in Seq(X) /\ OwnedBy(NotOwnedBy(seq, S), seats \ S)
<1> DEFINE I == {i \in DOMAIN seq : seq[i].owner \notin S}
           kept == Keeping(seq, I)
<1>1. I \in SUBSET (DOMAIN seq)
  OBVIOUS
<1>2. \A i \in I : seq[i].owner \in seats \ S
  BY DEF OwnedBy
<1>3. NotOwnedBy(seq, S) = kept
  BY DEF NotOwnedBy
<1> HIDE DEF I
<1>4. kept \in Seq(X) /\ Members(kept) = {seq[i] : i \in I}
  BY <1>1, KeepingSeq
<1> HIDE DEF kept
<1>5. \A k \in DOMAIN kept : \E i \in I : kept[k] = seq[i]
  BY <1>4 DEF Members
<1> QED
  BY <1>2, <1>3, <1>4, <1>5 DEF OwnedBy

LEMMA KeptQueued ==
    ASSUME NEW q, NEW gone, Queued(q, gone), NEW S
    PROVE  Queued(cancelWorkOwnedBy(q, S), gone \cup S)
<1>1. q \in Seq(Item) /\ OwnedBy(q, Seat \ gone)
  BY DEF Queued
<1>2. NotOwnedBy(q, S) \in Seq(Item) /\ OwnedBy(NotOwnedBy(q, S), (Seat \ gone) \ S)
  BY <1>1, NotOwnedByIs
<1>3. (Seat \ gone) \ S = Seat \ (gone \cup S)
  OBVIOUS
<1> QED
  BY <1>2, <1>3 DEF Queued, cancelWorkOwnedBy

LEMMA EmptyQueued == \A gone : Queued(<<>>, gone)
BY EmptySeq DEF Queued, OwnedBy

LEMMA AppendOwned ==
    ASSUME NEW X, NEW seq \in Seq(X), NEW seats, OwnedBy(seq, seats),
           NEW e \in X, e.owner \in seats
    PROVE  Append(seq, e) \in Seq(X) /\ OwnedBy(Append(seq, e), seats)
<1>1. Append(seq, e) \in Seq(X) /\ Len(Append(seq, e)) = Len(seq) + 1
  BY AppendProperties
<1>2. DOMAIN Append(seq, e) = 1 .. (Len(seq) + 1) /\ Len(seq) \in Nat /\ DOMAIN seq = 1 .. Len(seq)
  BY <1>1, LenProperties
<1>3. \A i \in DOMAIN Append(seq, e) :
         Append(seq, e)[i] = IF i \in DOMAIN seq THEN seq[i] ELSE e
  BY <1>2, AppendProperties
<1> QED
  BY <1>1, <1>3 DEF OwnedBy

LEMMA NewItemQueued ==
    ASSUME NEW q, NEW gone, Queued(q, gone), NEW s \in Seat \ gone, NEW n \in 1 .. MaxEffects
    PROVE  Queued(Append(q, NewItem(s, n)), gone)
<1>1. n \in 0 .. MaxEffects
  BY FlowAssumption
<1>2. NewItem(s, n) \in Item /\ NewItem(s, n).owner = s
  BY <1>1 DEF NewItem, Item
<1> QED
  BY <1>2, AppendOwned DEF Queued

LEMMA NoticedQueued ==
    ASSUME NEW q, NEW gone, Queued(q, gone), NEW r \in Noticed(q, gone)
    PROVE  Queued(r, gone)
<1>1. CASE r = q
  BY <1>1
<1>2. CASE r # q
  <2>1. PICK s \in Seat \ gone, n \in 1 .. MaxEffects : r = Append(q, NewItem(s, n))
    BY <1>2 DEF Noticed
  <2> QED
    BY <2>1, NewItemQueued
<1> QED
  BY <1>1, <1>2

LEMMA SettledQueued ==
    ASSUME NEW q, Queued(q, out), NEW S, NEW r \in settled(q, S)
    PROVE  Queued(r, out \cup S)
BY KeptQueued, NoticedQueued DEF settled

(* Windows.                                                                *)

LEMMA ActiveFirst ==
    ASSUME active \in Seat, NEW gone
    PROVE  /\ activeFirstOrder(gone) \in Seq(Seat)
           /\ Members(activeFirstOrder(gone)) = Seat \ gone
<1> DEFINE circle == [k \in 1 .. N |-> Clockwise(active, k - 1)]
           I == {k \in 1 .. N : circle[k] \notin gone}
<1>1. N \in Nat /\ active \in Nat /\ 1 <= active /\ active <= N
  BY FlowAssumption DEF Seat
<1>2. Clockwise(active, 0) = active
  BY <1>1, Remainder DEF Clockwise
<1>3. \A k \in 1 .. N : Clockwise(active, k - 1) \in Seat
  BY <1>1, <1>2, ClockwiseIsJump
<1>4. circle \in Seq(Seat) /\ DOMAIN circle = 1 .. N
  BY <1>1, <1>3, SeqDef
<1>5. ASSUME NEW t \in Seat PROVE \E k \in 1 .. N : circle[k] = t
  <2>1. CASE t = active
    BY <1>1, <1>2, <2>1
  <2>2. CASE t # active
    <3> DEFINE j == IF t > active THEN t - active ELSE t - active + N
    <3>1. j \in 1 .. N /\ j + 1 \in 1 .. N /\ Jump(active, j) = t
      BY <1>1, <2>2 DEF Seat, Jump
    <3>2. Clockwise(active, j) = t
      BY <3>1, ClockwiseIsJump
    <3> HIDE DEF j
    <3>3. circle[j + 1] = Clockwise(active, j)
      BY <3>1
    <3> QED
      BY <3>1, <3>2, <3>3
  <2> QED
    BY <2>1, <2>2
<1>6. {circle[k] : k \in I} = Seat \ gone
  BY <1>3, <1>5
<1>7. activeFirstOrder(gone) = Keeping(circle, I)
  BY DEF activeFirstOrder
<1>8. I \in SUBSET (DOMAIN circle)
  BY <1>4
<1> HIDE DEF circle, I
<1> QED
  BY <1>4, <1>6, <1>7, <1>8, KeepingSeq

LEMMA MembersSome ==
    ASSUME NEW order \in Seq(Seat)
    PROVE  /\ Len(order) \in Nat
           /\ order # <<>> <=> Len(order) > 0
           /\ Members(order) # {} => Len(order) > 0
           /\ \A i \in Nat : i < Len(order) => order[i + 1] \in Members(order)
BY LenProperties, EmptySeq DEF Members

LEMMA NoWindowSound == \A gone : Sound(NoWindow, gone)
BY EmptySeq DEF Sound, NoWindow, Window, Phase, OwnedBy

LEMMA AdvanceSound ==
    ASSUME NEW w, NEW gone, Sound(w, gone), w.mode # "none"
    PROVE  Sound(advancePriority(w), gone) /\ advancePriority(w).mode # "none"
<1> DEFINE able == {k \in 0 .. (Len(w.order) - 1) : canAct(w, Offer(w, w.index + k))}
           step == CHOOSE k \in able : \A j \in able : k <= j
           next == (w.index + step) % Len(w.order)
<1>1. w \in Window /\ w.index \in Nat /\ Len(w.order) \in Nat /\ Len(w.order) > 0
  BY LenProperties DEF Sound, Window
<1>2. CASE able = {}
  BY <1>1, <1>2 DEF advancePriority, closeWindow, Sound, Window
<1>3. CASE able # {}
  <2>1. step \in able
    <3>1. able \subseteq Nat
      BY <1>1
    <3> HIDE DEF able
    <3> QED
      BY <1>3, <3>1, Least
  <2>2. step \in Nat
    BY <1>1, <2>1
  <2>3. advancePriority(w) = [w EXCEPT !.index = next]
    BY <1>3 DEF advancePriority
  <2> HIDE DEF step
  <2>4. next \in Nat /\ next < Len(w.order)
    BY <1>1, <2>2
  <2> HIDE DEF next
  <2> QED
    BY <1>1, <2>3, <2>4 DEF Sound, Window
<1> QED
  BY <1>2, <1>3

LEMMA OpenSound ==
    ASSUME active \in Seat, NEW subject \in Seq(Entry), NEW resume \in Interrupted, NEW gone,
           OwnedBy(subject, Seat \ gone), NEW w \in openReactionWindow(subject, resume, gone)
    PROVE  Sound(w, gone) /\ w.mode # "none"
<1>1. PICK armed \in (SUBSET (Seat \ gone)) \ {{}} :
         w = advancePriority(draftWindow(armed, subject, resume, gone))
  BY DEF openReactionWindow
<1> DEFINE draft == draftWindow(armed, subject, resume, gone)
<1>2. /\ activeFirstOrder(gone) \in Seq(Seat)
      /\ Members(activeFirstOrder(gone)) = Seat \ gone
  BY ActiveFirst
<1>3. Len(activeFirstOrder(gone)) > 0
  BY <1>1, <1>2, MembersSome
<1>4. resume \in Phase
  BY DEF Interrupted, Phase
<1>5. Sound(draft, gone) /\ draft.mode # "none"
  BY <1>1, <1>2, <1>3, <1>4 DEF draftWindow, Sound, Window
<1> HIDE DEF draft
<1> QED
  BY <1>1, <1>5, AdvanceSound DEF draft

LEMMA WithoutSound ==
    ASSUME NEW w, NEW gone, Sound(w, gone), w.mode # "none", NEW S
    PROVE  LET v == Without(w, S) IN
           /\ v.mode = w.mode
           /\ v.order = <<>> <=> Seat \ (gone \cup S) = {}
           /\ v.order # <<>> => Sound(v, gone \cup S)
<1> DEFINE I == {i \in DOMAIN w.order : w.order[i] \notin S}
           order == Keeping(w.order, I)
           pending == NotOwnedBy(w.pending, S)
           index == IF w.index >= Len(order) THEN 0 ELSE w.index
           v == Without(w, S)
<1>1. w \in Window /\ w.order \in Seq(Seat) /\ w.pending \in Seq(Entry) /\ w.index \in Nat
  BY DEF Sound, Window
<1>2. I \in SUBSET (DOMAIN w.order)
  OBVIOUS
<1>3. {w.order[i] : i \in I} = Seat \ (gone \cup S)
  BY DEF Sound, Members
<1>4. pending \in Seq(Entry) /\ OwnedBy(pending, Seat \ (gone \cup S))
  <2>1. (Seat \ gone) \ S = Seat \ (gone \cup S)
    OBVIOUS
  <2>2. OwnedBy(w.pending, Seat \ gone)
    BY DEF Sound
  <2> QED
    BY <1>1, <2>1, <2>2, NotOwnedByIs
<1>5. v = [w EXCEPT !.order = order, !.answered = @ \ S, !.pending = pending, !.index = index]
  BY DEF Without
<1> HIDE DEF I, v
<1>6. order \in Seq(Seat) /\ Members(order) = Seat \ (gone \cup S)
  BY <1>1, <1>2, <1>3, KeepingSeq
<1> HIDE DEF order, pending
<1>7. order = <<>> <=> Seat \ (gone \cup S) = {}
  <2>1. Members(<<>>) = {}
    BY DEF Members
  <2> QED
    BY <1>6, <2>1, MembersSome
<1>8. v.mode = w.mode /\ v.order = order
  BY <1>1, <1>5 DEF Window
<1>9. order # <<>> => Sound(v, gone \cup S)
  <2> SUFFICES ASSUME order # <<>> PROVE Sound(v, gone \cup S)
    OBVIOUS
  <2>1. index \in Nat /\ index < Len(order)
    BY <1>1, <1>6, MembersSome
  <2> HIDE DEF index
  <2>2. v \in Window /\ v.order = order /\ v.pending = pending /\ v.index = index
        /\ v.resume = w.resume
    BY <1>1, <1>4, <1>5, <1>6, <2>1 DEF Window
  <2> QED
    BY <1>4, <1>6, <1>8, <2>1, <2>2 DEF Sound
<1> QED
  BY <1>7, <1>8, <1>9 DEF v

(* Who drops out leaves a window that asks the seats left, or none if no   *)
(* seat is left.                                                           *)
LEMMA RemoveSound ==
    ASSUME NEW w, NEW gone, Sound(w, gone), NEW S, NEW v \in removeFromReactionWindow(w, S)
    PROVE  /\ Sound(v, gone \cup S)
           /\ w.mode # "none" /\ Seat \ (gone \cup S) # {} => v.mode # "none"
<1>1. CASE S = {}
  <2>1. v = w /\ gone \cup S = gone
    BY <1>1 DEF removeFromReactionWindow
  <2> QED
    BY <2>1
<1>2. CASE w.mode = "none"
  <2>1. v = NoWindow /\ w.mode = "none"
    BY <1>2 DEF removeFromReactionWindow, Sound
  <2> QED
    BY <2>1, NoWindowSound
<1>3. CASE S # {} /\ w.mode # "none"
  <2> DEFINE u == Without(w, S)
  <2>1. /\ u.mode = w.mode
        /\ u.order = <<>> <=> Seat \ (gone \cup S) = {}
        /\ u.order # <<>> => Sound(u, gone \cup S)
    BY <1>3, WithoutSound
  <2>2. v \in IF u.order = <<>> THEN {NoWindow}
              ELSE IF u.mode = "closed" THEN {u}
              ELSE {advancePriority([u EXCEPT !.armed = armed]) : armed \in SUBSET Members(u.order)}
    BY <1>3 DEF removeFromReactionWindow
  <2> HIDE DEF u
  <2>3. CASE u.order = <<>>
    BY <2>1, <2>2, <2>3, NoWindowSound
  <2>4. CASE u.order # <<>> /\ u.mode = "closed"
    BY <1>3, <2>1, <2>2, <2>4
  <2>5. CASE u.order # <<>> /\ u.mode # "closed"
    <3>1. PICK armed \in SUBSET Members(u.order) : v = advancePriority([u EXCEPT !.armed = armed])
      BY <2>2, <2>5
    <3> DEFINE x == [u EXCEPT !.armed = armed]
    <3>2. Sound(u, gone \cup S) /\ u.mode # "none"
      BY <1>3, <2>1, <2>5
    <3>3. armed \in SUBSET Seat
      BY <3>1, <3>2 DEF Sound
    <3>4. Sound(x, gone \cup S) /\ x.mode # "none"
      BY <3>2, <3>3 DEF Sound, Window
    <3> HIDE DEF x
    <3>5. v = advancePriority(x)
      BY <3>1 DEF x
    <3> QED
      BY <3>4, <3>5, AdvanceSound
  <2> QED
    BY <2>3, <2>4, <2>5
<1> QED
  BY <1>1, <1>2, <1>3

LEMMA RearmedSound ==
    ASSUME NEW w, NEW gone, Sound(w, gone), NEW v \in Rearmed(w)
    PROVE  Sound(v, gone) /\ v.mode = w.mode
<1>1. CASE w.mode = "open"
  <2>1. PICK armed \in SUBSET Members(w.order) : v = [w EXCEPT !.armed = armed]
    BY <1>1 DEF Rearmed
  <2>2. armed \in SUBSET Seat
    BY <1>1, <2>1 DEF Sound
  <2> QED
    BY <1>1, <2>1, <2>2 DEF Sound, Window
<1>2. CASE w.mode # "open"
  BY <1>2 DEF Rearmed
<1> QED
  BY <1>1, <1>2

LEMMA TouchSound ==
    ASSUME NEW w, NEW gone, Sound(w, gone), NEW v \in Touched(w)
    PROVE  Sound(v, gone) /\ v.mode = w.mode
<1>1. PICK u \in {w} \cup Countered(w) : v \in Rearmed(u)
  BY DEF Touched
<1>2. Sound(u, gone) /\ u.mode = w.mode
  <2>1. CASE u = w
    BY <2>1
  <2>2. CASE u # w
    <3>1. PICK i \in DOMAIN w.pending : u = [w EXCEPT !.pending[i].countered = TRUE]
      BY <1>1, <2>2 DEF Countered, counterTarget
    <3> DEFINE e == [w.pending[i] EXCEPT !.countered = TRUE]
               pending == [w.pending EXCEPT ![i] = e]
    <3>2. w \in Window /\ w.pending \in Seq(Entry) /\ w.pending[i] \in Entry
      BY <3>1, LenProperties DEF Sound, Window
    <3>3. e \in Entry /\ e.owner = w.pending[i].owner
      BY <3>2 DEF Entry
    <3>4. u = [w EXCEPT !.pending = pending]
      BY <3>1
    <3> HIDE DEF e
    <3>5. pending \in Seq(Entry) /\ DOMAIN pending = DOMAIN w.pending
      BY <3>1, <3>2, <3>3, ExceptSeq, LenProperties
    <3>6. OwnedBy(pending, Seat \ gone)
      BY <3>1, <3>2, <3>3 DEF Sound, OwnedBy
    <3> HIDE DEF pending
    <3>7. w.mode # "none"
      BY <3>1 DEF Sound, NoWindow
    <3> QED
      BY <3>2, <3>4, <3>5, <3>6, <3>7 DEF Sound, Window
  <2> QED
    BY <2>1, <2>2
<1> QED
  BY <1>1, <1>2, RearmedSound

(* The steps: those that cost no seat the match, the start of a turn, and  *)
(* the eliminations.                                                       *)
Statuses == {"mulligan", "playing", "waiting_for_choice", "complete"}

LEMMA InitTable == Init => TableInv
<1> SUFFICES ASSUME Init PROVE TableInv
  OBVIOUS
<1>1. TypeOK
  <2>1. choice \in Choice /\ queue \in Seq(Item) /\ window \in Window /\ window.mode = "none"
    BY EmptySeq, NoWindowSound DEF Init, Sound, Choice, NoChoice, Ask, NoSeat, NoWindow
  <2>2. active \in Seat /\ steps \in 0 .. maxResolutionSteps
    BY FlowAssumption DEF Init, Seat
  <2> QED
    BY <2>1, <2>2 DEF Init, TypeOK, Phase
<1>2. Sound(window, out) /\ Queued(queue, out)
  BY NoWindowSound, EmptyQueued DEF Init
<1> QED
  BY <1>1, <1>2 DEF Init, TableInv, NoChoice, Ask

LEMMA NoChoiceTable == NoChoice \in Choice /\ NoChoice.player = 0 /\ NoChoice.kind = "none"
BY DEF NoChoice, Choice, Ask, NoSeat

LEMMA TableGoesOn ==
    ASSUME TableInv, UNCHANGED <<active, out, mulligan>>,
           status' \in Statuses, phase' \in Phase, progress' \in {"starting", "started", "discarded"},
           choice' \in Choice, choice'.player \notin out,
           choice'.kind = "cost" => phase' \in MAIN_PHASES,
           Queued(queue', out), Sound(window', out),
           attacked' \in SUBSET Seat, awaitingDefenders' \in SUBSET Seat,
           (attacked' \cup awaitingDefenders') \cap (out \cup {active}) = {},
           running' \in BOOLEAN, steps' \in {0, steps}
    PROVE  TableInv'
<1>1. TypeOK'
  <2>1. window' \in Window /\ (window'.mode # "none" => window'.index < Len(window'.order))
    BY DEF Sound
  <2>2. queue' \in Seq(Item)
    BY DEF Queued
  <2>3. steps' \in 0 .. maxResolutionSteps
    BY FlowAssumption DEF TableInv, TypeOK
  <2> QED
    BY <2>1, <2>2, <2>3 DEF TableInv, TypeOK, Statuses
<1>2. Sound(window, out)' /\ Queued(queue, out)'
  BY DEF Sound, Queued
<1> QED
  BY <1>1, <1>2 DEF TableInv

LEMMA TableTurn ==
    ASSUME TableInv, NEW s \in Seat, NEW st \in Statuses, NEW mayAsk, beginTurn(s, st, mayAsk),
           UNCHANGED <<out, window>>,
           mulligan' \in [Seat -> {"pending", "submitted", "resolved"}]
    PROVE  TableInv'
<1>1. Queued(queue', out)
  BY NoticedQueued DEF beginTurn, runReadyStep, TableInv
<1>2. /\ choice' \in Choice /\ choice'.player \notin out /\ choice'.kind # "cost"
      /\ status' \in Statuses /\ progress' \in {"starting", "started"}
      /\ running' \in BOOLEAN /\ steps' \in {0, steps}
  <2>1. CASE choice' = NoChoice /\ status' = st /\ progress' = "started" /\ Continue
    <3>1. 0 \notin out
      BY DEF TableInv, TypeOK, Seat
    <3>2. running' \in BOOLEAN /\ steps' \in {0, steps}
      BY <2>1 DEF Continue
    <3> QED
      BY <2>1, <3>1, <3>2, NoChoiceTable
  <2>2. ASSUME NEW t \in Living, choice' = Ask("ready", t, NoSeat, NoSeat),
               status' = "waiting_for_choice", progress' = "starting", Yield
        PROVE  /\ choice' \in Choice /\ choice'.player \notin out /\ choice'.kind # "cost"
               /\ status' \in Statuses /\ progress' \in {"starting", "started"}
               /\ running' \in BOOLEAN /\ steps' \in {0, steps}
    <3>1. t \in Seat /\ t \notin out /\ NoSeat \in Seat \cup {NoSeat}
      BY DEF Living
    <3>2. choice' \in Choice /\ choice'.player = t /\ choice'.kind = "ready"
      BY <2>2, <3>1 DEF Ask, Choice
    <3> QED
      BY <2>2, <3>1, <3>2 DEF Statuses, Yield
  <2> QED
    BY <2>1, <2>2 DEF beginTurn, runReadyStep
<1>3. /\ active' = s /\ phase' = "turn_start" /\ attacked' = {} /\ awaitingDefenders' = {}
  BY DEF beginTurn
<1>4. TypeOK'
  <2>1. steps' \in 0 .. maxResolutionSteps
    BY <1>2, FlowAssumption DEF TableInv, TypeOK
  <2> QED
    BY <1>1, <1>2, <1>3, <2>1 DEF TableInv, TypeOK, Statuses, Queued, Phase
<1>5. Sound(window, out)' /\ Queued(queue, out)'
  BY <1>1 DEF TableInv, Sound, Queued
<1> QED
  BY <1>2, <1>3, <1>4, <1>5 DEF TableInv

LEMMA CheckedTable ==
    ASSUME TableInv, NEW S \in SUBSET Seat, NEW queues, NEW ph \in Phase, NEW windows,
           NEW n \in 0 .. maxResolutionSteps,
           runStateBasedChecks(S, queues, ph, windows, n),
           UNCHANGED <<active, mulligan, progress>>,
           \A q \in queues : Queued(q, out \cup S),
           \A w \in windows : Sound(w, out \cup S),
           choice = NoChoice \/ ph = phase
    PROVE  TableInv'
<1>1. /\ out' = out \cup S /\ Sound(window', out')
      /\ awaitingDefenders' = awaitingDefenders \ S /\ attacked' = attacked \ S
  BY DEF runStateBasedChecks
<1>2. 0 \notin out' /\ out' \in SUBSET Seat
  BY <1>1 DEF TableInv, TypeOK, Seat
<1>3. /\ status' \in Statuses /\ phase' \in Phase /\ choice' \in Choice
      /\ choice'.player \notin out'
      /\ choice'.kind = "cost" => phase' \in MAIN_PHASES
      /\ Queued(queue', out')
      /\ running' \in BOOLEAN /\ steps' \in 0 .. maxResolutionSteps
  <2>1. CASE S # {} /\ Over(out')
    <3>1. /\ status' = "complete" /\ phase' = "complete" /\ queue' = <<>>
          /\ choice' = NoChoice /\ running' = FALSE /\ steps' = 0
      BY <2>1 DEF runStateBasedChecks, finishMatch, Yield
    <3>2. 0 \in 0 .. maxResolutionSteps
      BY FlowAssumption
    <3> QED
      BY <1>2, <3>1, <3>2, EmptyQueued, NoChoiceTable DEF Statuses, Phase
  <2>2. CASE ~ (S # {} /\ Over(out'))
    <3>1. CancelChoice(S) /\ queue' \in queues /\ phase' = ph
          /\ running' \in BOOLEAN /\ steps' \in {0, n}
      BY <2>2 DEF runStateBasedChecks, Yield
    <3>2. /\ status' \in Statuses /\ choice' \in Choice /\ choice'.player \notin out'
          /\ choice' \in {choice, NoChoice}
      BY <1>1, <1>2, <3>1, NoChoiceTable DEF CancelChoice, TableInv, TypeOK, Statuses
    <3>3. Queued(queue', out')
      BY <1>1, <3>1
    <3>4. choice'.kind = "cost" => phase' \in MAIN_PHASES
      BY <3>1, <3>2, NoChoiceTable DEF TableInv
    <3>5. steps' \in 0 .. maxResolutionSteps
      BY <3>1, FlowAssumption
    <3> QED
      BY <3>1, <3>2, <3>3, <3>4, <3>5
  <2> QED
    BY <2>1, <2>2
<1>4. attacked' \in SUBSET Seat /\ awaitingDefenders' \in SUBSET Seat
      /\ (attacked' \cup awaitingDefenders') \cap (out' \cup {active'}) = {}
  BY <1>1 DEF TableInv, TypeOK
<1>5. TypeOK'
  BY <1>1, <1>2, <1>3, <1>4 DEF TableInv, TypeOK, Statuses, Queued, Sound
<1>6. Sound(window, out)' /\ Queued(queue, out)'
  BY <1>1, <1>3 DEF Sound, Queued
<1> QED
  BY <1>3, <1>4, <1>5, <1>6 DEF TableInv

LEMMA CommitTable ==
    ASSUME TableInv, NEW s \in Seat \ out, NEW st \in {status, "playing"}, phase \in MAIN_PHASES,
           requestCostSelection(s) \/ commitPlay(s, st) \/ commitActivation(s, st),
           UNCHANGED <<active, out, mulligan, combat>>,
           progress' = progress
    PROVE  TableInv'
<1>1. /\ active \in Seat /\ phase \in Phase /\ phase \in Interrupted /\ st \in Statuses
      /\ Queued(queue, out) /\ Sound(window, out) /\ 0 \notin out
      /\ progress \in {"starting", "started", "discarded"}
      /\ attacked \in SUBSET Seat /\ awaitingDefenders \in SUBSET Seat
      /\ (attacked \cup awaitingDefenders) \cap (out \cup {active}) = {}
  BY DEF TableInv, TypeOK, Statuses, Interrupted, Phase, MAIN_PHASES, Seat
<1>2. UNCHANGED <<attacked, awaitingDefenders>>
  BY DEF combat
<1>3. CASE requestCostSelection(s)
  <2>1. PICK t \in {NoSeat} \cup (Living \ {s}) : choice' = Ask("cost", s, NoSeat, t)
    BY <1>3 DEF requestCostSelection
  <2>2. choice' \in Choice /\ choice'.player = s
    BY <2>1 DEF Living, Ask, Choice
  <2>3. /\ status' \in Statuses /\ UNCHANGED <<phase, queue, window>>
        /\ running' \in BOOLEAN /\ steps' \in {0, steps}
    BY <1>3 DEF requestCostSelection, Yield, Statuses
  <2> QED
    BY <1>1, <1>2, <2>2, <2>3, TableGoesOn
<1>4. CASE commitPlay(s, st) \/ commitActivation(s, st)
  <2>1. /\ choice' \in Choice /\ choice'.player \notin out /\ choice'.kind # "cost"
        /\ status' \in Statuses /\ running' \in BOOLEAN /\ steps' \in {0, steps}
    BY <1>1, <1>4, NoChoiceTable DEF commitPlay, commitActivation, Continue
  <2>2. Queued(queue', out)
    <3>1. CASE queue' \in Noticed(queue, out)
      BY <1>1, <3>1, NoticedQueued
    <3>2. ASSUME NEW q \in Noticed(queue, out), queue' \in Noticed(q, out)
          PROVE  Queued(queue', out)
      BY <1>1, <3>2, NoticedQueued
    <3>3. ASSUME NEW q \in Noticed(queue, out), NEW n \in 1 .. MaxEffects,
                 queue' \in Noticed(Append(q, NewItem(s, n)), out)
          PROVE  Queued(queue', out)
      <4>1. Queued(Append(q, NewItem(s, n)), out)
        BY <1>1, NoticedQueued, NewItemQueued
      <4> QED
        BY <3>3, <4>1, NoticedQueued
    <3>4. ASSUME NEW n \in 1 .. MaxEffects, queue' = Append(queue, NewItem(s, n))
          PROVE  Queued(queue', out)
      BY <1>1, <3>4, NewItemQueued
    <3> QED
      BY <1>4, <3>1, <3>2, <3>3, <3>4 DEF commitPlay, commitActivation
  <2>3. phase' \in Phase /\ Sound(window', out)
    <3>1. CASE UNCHANGED <<phase, window>>
      BY <1>1, <3>1
    <3>2. CASE /\ window' \in openReactionWindow(<<[owner |-> s, countered |-> FALSE]>>, phase, out)
               /\ phase' = "reaction_window"
      <4> DEFINE card == [owner |-> s, countered |-> FALSE]
      <4>1. card \in Entry /\ card.owner \in Seat \ out
        BY DEF Entry
      <4> HIDE DEF card
      <4>2. <<card>> \in Seq(Entry) /\ OwnedBy(<<card>>, Seat \ out)
        BY <4>1 DEF OwnedBy
      <4>3. window' \in openReactionWindow(<<card>>, phase, out)
        BY <3>2 DEF card
      <4> QED
        BY <1>1, <3>2, <4>2, <4>3, OpenSound DEF Phase
    <3> QED
      BY <1>4, <3>1, <3>2 DEF commitPlay, commitActivation
  <2> QED
    BY <1>1, <1>2, <2>1, <2>2, <2>3, TableGoesOn
<1> QED
  BY <1>3, <1>4

LEMMA MulliganTable ==
    ASSUME TableInv, FlowInv, NEW s \in Seat, handleMulligan(s)
    PROVE  TableInv'
<1>1. status = "mulligan" /\ Living # {}
  BY DEF handleMulligan, MayMulligan, FlowInv
<1>2. CASE \A t \in Seat \ {s} : mulligan[t] = "submitted"
  <2> DEFINE first == IF 1 \in out THEN nextLivingPlayer(1, out) ELSE 1
  <2>1. 1 \in Seat
    BY FlowAssumption DEF Seat
  <2>2. first \in Seat
    BY <1>1, <2>1, NextLiving DEF Living
  <2>3. /\ beginTurn(first, "playing", FALSE) /\ UNCHANGED <<out, window>>
        /\ mulligan' \in [Seat -> {"pending", "submitted", "resolved"}]
    BY <1>2 DEF handleMulligan
  <2> QED
    BY <2>2, <2>3, TableTurn DEF Statuses
<1>3. CASE ~ \A t \in Seat \ {s} : mulligan[t] = "submitted"
  <2>1. /\ mulligan' = [mulligan EXCEPT ![s] = "submitted"]
        /\ UNCHANGED <<status, phase, active, out, progress, choice, queue, combat, window, running, steps>>
    BY <1>3 DEF handleMulligan
  <2>2. TypeOK'
    BY <2>1 DEF TableInv, TypeOK, combat
  <2> QED
    BY <2>1, <2>2 DEF TableInv, combat, Sound, Queued
<1> QED
  BY <1>2, <1>3

LEMMA ReactionTable ==
    ASSUME TableInv, NEW s \in Seat, handleReaction(s)
    PROVE  TableInv' /\ window'.mode # "none"
<1>1. PICK w \in IF phase = "reaction_window" THEN {window} ELSE Rearmed(window) :
         LET next == [w EXCEPT !.answered = @ \cup {s}, !.index = (@ + 1) % Len(w.order)]
             played == [next EXCEPT !.pending = Append(@, [owner |-> s, countered |-> FALSE])]
         IN  window' \in {advancePriority(next), advancePriority(played)}
  BY DEF handleReaction
<1> DEFINE index == (w.index + 1) % Len(w.order)
           next == [w EXCEPT !.answered = @ \cup {s}, !.index = (@ + 1) % Len(w.order)]
           card == [owner |-> s, countered |-> FALSE]
           played == [next EXCEPT !.pending = Append(@, card)]
<1>2. window.mode = "open" /\ s \notin out
  BY DEF handleReaction, MayReact, MayAct, MaySpeak
<1>3. Sound(w, out) /\ w.mode = "open"
  BY <1>1, <1>2, RearmedSound DEF TableInv
<1>4. w \in Window /\ w.index \in Nat /\ Len(w.order) \in Nat /\ Len(w.order) > 0
      /\ w.pending \in Seq(Entry) /\ OwnedBy(w.pending, Seat \ out)
  BY <1>3, LenProperties DEF Sound, Window
<1>5. index \in Nat /\ index < Len(w.order)
  BY <1>4
<1>6. next = [w EXCEPT !.answered = @ \cup {s}, !.index = index]
  BY <1>4 DEF Window
<1> HIDE DEF index, next
<1>7. Sound(next, out) /\ next.mode = "open" /\ next.pending = w.pending
  BY <1>3, <1>4, <1>5, <1>6 DEF Sound, Window
<1>8. Append(w.pending, card) \in Seq(Entry) /\ OwnedBy(Append(w.pending, card), Seat \ out)
  <2>1. card \in Entry /\ card.owner \in Seat \ out
    BY <1>2 DEF Entry
  <2> QED
    BY <1>4, <2>1, AppendOwned
<1> HIDE DEF card
<1>9. Sound(played, out) /\ played.mode = "open"
  BY <1>7, <1>8 DEF Sound, Window
<1>10. Sound(window', out) /\ window'.mode # "none"
  <2>1. window' \in {advancePriority(next), advancePriority(played)}
    BY <1>1 DEF next, card
  <2> HIDE DEF played
  <2> QED
    BY <1>7, <1>9, <2>1, AdvanceSound
<1>11. /\ UNCHANGED <<status, phase, active, out, mulligan, progress, choice, queue, attacked,
                      awaitingDefenders>>
       /\ running' \in BOOLEAN /\ steps' \in {0, steps}
  BY DEF handleReaction, combat, Continue
<1> QED
  BY <1>10, <1>11, TableGoesOn DEF TableInv, TypeOK, Statuses

LEMMA SubmitChoiceTable ==
    ASSUME TableInv, NEW s \in Seat, handleSubmitChoice(s)
    PROVE  TableInv'
<1>1. /\ Queued(queue, out) /\ Sound(window, out) /\ 0 \notin out /\ phase \in Phase
      /\ progress \in {"starting", "started", "discarded"}
      /\ attacked \in SUBSET Seat /\ awaitingDefenders \in SUBSET Seat
      /\ (attacked \cup awaitingDefenders) \cap (out \cup {active}) = {}
  BY DEF TableInv, TypeOK, Seat
<1>2. s \in Seat \ out /\ UNCHANGED <<active, out, mulligan, combat>>
  BY DEF handleSubmitChoice, MayChoose, MaySpeak
<1>3. UNCHANGED <<attacked, awaitingDefenders>>
  BY <1>2 DEF combat
<1>4. CASE runReadyStep("playing", TRUE) /\ UNCHANGED <<phase, window>>
  <2>1. Queued(queue', out)
    BY <1>1, <1>4, NoticedQueued DEF runReadyStep
  <2>2. /\ choice' \in Choice /\ choice'.player \notin out /\ choice'.kind # "cost"
        /\ status' \in Statuses /\ progress' \in {"starting", "started"}
        /\ running' \in BOOLEAN /\ steps' \in {0, steps}
    <3>1. CASE choice' = NoChoice /\ status' = "playing" /\ progress' = "started" /\ Continue
      BY <1>1, <3>1, NoChoiceTable DEF Continue, Statuses
    <3>2. ASSUME NEW t \in Living, choice' = Ask("ready", t, NoSeat, NoSeat),
                 status' = "waiting_for_choice", progress' = "starting", Yield
          PROVE  /\ choice' \in Choice /\ choice'.player \notin out /\ choice'.kind # "cost"
                 /\ status' \in Statuses /\ progress' \in {"starting", "started"}
                 /\ running' \in BOOLEAN /\ steps' \in {0, steps}
      BY <3>2 DEF Living, Ask, Choice, Statuses, Yield
    <3> QED
      BY <1>4, <3>1, <3>2 DEF runReadyStep
  <2> QED
    BY <1>1, <1>2, <1>3, <1>4, <2>1, <2>2, TableGoesOn
<1>5. CASE /\ choice.kind = "cost" /\ progress' = progress
           /\ requestCostSelection(s) \/ commitPlay(s, "playing") \/ commitActivation(s, "playing")
  <2>1. phase \in MAIN_PHASES
    BY <1>5 DEF TableInv
  <2> QED
    BY <1>2, <1>5, <2>1, CommitTable
<1>6. CASE /\ status' = "playing" /\ choice' = NoChoice /\ Continue
           /\ progress' \in {progress, "discarded"}
           /\ queue' \in {queue, Answered(s)}
           /\ UNCHANGED <<phase, window>>
  <2>1. Queued(Answered(s), out)
    <3>1. CASE Answered(s) = queue
      BY <1>1, <3>1
    <3>2. CASE 1 \notin DOMAIN queue
      <4>1. queue = [i \in DOMAIN queue |-> queue[i]]
        BY <1>1, LenProperties DEF Queued
      <4>2. Answered(s) = queue
        BY <3>2, <4>1 DEF Answered
      <4> QED
        BY <1>1, <4>2
    <3>3. CASE Answered(s) # queue /\ 1 \in DOMAIN queue
      <4> DEFINE item == [queue[1] EXCEPT !.asked = @ \cup {s}]
      <4>1. queue \in Seq(Item) /\ queue[1] \in Item /\ OwnedBy(queue, Seat \ out)
        BY <1>1, <3>3, LenProperties DEF Queued
      <4>2. item \in Item /\ item.owner = queue[1].owner
        BY <1>2, <4>1 DEF Item
      <4>3. Answered(s) = [queue EXCEPT ![1] = item]
        BY <3>3 DEF Answered
      <4> HIDE DEF item
      <4>4. Answered(s) \in Seq(Item) /\ DOMAIN Answered(s) = DOMAIN queue
        BY <3>3, <4>1, <4>2, <4>3, ExceptSeq, LenProperties
      <4>5. OwnedBy(Answered(s), Seat \ out)
        BY <3>3, <4>1, <4>2, <4>3, <4>4 DEF OwnedBy
      <4> QED
        BY <4>4, <4>5 DEF Queued
    <3> QED
      BY <3>1, <3>2, <3>3
  <2> QED
    BY <1>1, <1>2, <1>3, <1>6, <2>1, NoChoiceTable, TableGoesOn DEF Continue, Statuses
<1> QED
  BY <1>4, <1>5, <1>6 DEF handleSubmitChoice

LEMMA PlayerTable ==
    ASSUME TableInv, FlowInv, NEW s \in Seat, PlayerAction(s)
    PROVE  TableInv'
<1>1. /\ Queued(queue, out) /\ Sound(window, out) /\ 0 \notin out /\ phase \in Phase
      /\ active \in Seat /\ status \in Statuses /\ choice \in Choice
      /\ steps \in 0 .. maxResolutionSteps
      /\ progress \in {"starting", "started", "discarded"}
      /\ attacked \in SUBSET Seat /\ awaitingDefenders \in SUBSET Seat
      /\ (attacked \cup awaitingDefenders) \cap (out \cup {active}) = {}
      /\ choice.player \notin out
      /\ choice.kind = "cost" => phase \in MAIN_PHASES
  BY DEF TableInv, TypeOK, Seat, Statuses
<1>2. CASE handleTermination(s)
  <2> DEFINE queues == {cancelWorkOwnedBy(queue, {s})}
             windows == removeFromReactionWindow(window, {s})
  <2>1. \A q \in queues : Queued(q, out \cup {s})
    BY <1>1, KeptQueued
  <2>2. \A w \in windows : Sound(w, out \cup {s})
    BY <1>1, RemoveSound
  <2>3. /\ runStateBasedChecks({s}, queues, phase, windows, steps)
        /\ UNCHANGED <<active, mulligan, progress>>
    BY <1>2 DEF handleTermination
  <2> HIDE DEF queues, windows
  <2>4. {s} \in SUBSET Seat
    OBVIOUS
  <2> QED
    BY <1>1, <2>1, <2>2, <2>3, <2>4, CheckedTable
<1>3. CASE handlePlayCard(s) \/ handleActivateAbility(s)
  <2>1. s \in Seat \ out /\ phase \in MAIN_PHASES
    BY <1>3 DEF handlePlayCard, handleActivateAbility, requireMainPhase, MayAct, MaySpeak
  <2> QED
    BY <1>3, <2>1, CommitTable DEF handlePlayCard, handleActivateAbility
<1>4. CASE handlePassPhase(s)
  <2>1. queue' \in Noticed(queue, out) \cup {queue} /\ phase' \in {"declare_attackers", "turn_end"}
    BY <1>4 DEF handlePassPhase
  <2>2. Queued(queue', out) /\ phase' \in Phase /\ choice.kind # "cost"
    BY <1>1, <1>4, <2>1, NoticedQueued, NoChoiceTable DEF Phase, handlePassPhase, MayPass, MayAct
  <2>3. UNCHANGED <<status, active, out, mulligan, progress, choice, attacked, awaitingDefenders, window>>
        /\ running' \in BOOLEAN /\ steps' \in {0, steps}
    BY <1>4 DEF handlePassPhase, combat, Continue
  <2> QED
    BY <1>1, <2>2, <2>3, TableGoesOn
<1>5. CASE handleDeclareAttackers(s)
  <2>1. PICK D \in SUBSET (Living \ {s}) :
           LET next == IF D = {} THEN "resolve_combat" ELSE "assign_blockers"
           IN  /\ attacked' = D /\ awaitingDefenders' = D
               /\ \/ phase' = next /\ UNCHANGED window
                  \/ /\ window' \in openReactionWindow(<<>>, next, out)
                     /\ phase' = "reaction_window"
    BY <1>5 DEF handleDeclareAttackers
  <2>2. active = s /\ choice = NoChoice
    BY <1>5 DEF handleDeclareAttackers, MayAttack, MayAct
  <2>3. Sound(window', out) /\ phase' \in Phase
    <3> DEFINE next == IF D = {} THEN "resolve_combat" ELSE "assign_blockers"
    <3>1. next \in Interrupted /\ next \in Phase
      BY DEF Interrupted, Phase
    <3>2. \/ phase' = next /\ UNCHANGED window
          \/ /\ window' \in openReactionWindow(<<>>, next, out)
             /\ phase' = "reaction_window"
      BY <2>1
    <3> HIDE DEF next
    <3>3. <<>> \in Seq(Entry) /\ OwnedBy(<<>>, Seat \ out)
      BY EmptySeq DEF OwnedBy
    <3> QED
      BY <1>1, <3>1, <3>2, <3>3, OpenSound DEF Phase
  <2>4. Queued(queue', out)
    BY <1>1, <1>5, NoticedQueued DEF handleDeclareAttackers
  <2>5. UNCHANGED <<status, active, out, mulligan, progress, choice>>
        /\ running' \in BOOLEAN /\ steps' \in {0, steps}
    BY <1>5 DEF handleDeclareAttackers, Continue
  <2>6. /\ attacked' \in SUBSET Seat /\ awaitingDefenders' \in SUBSET Seat
        /\ (attacked' \cup awaitingDefenders') \cap (out \cup {active}) = {}
    BY <2>1, <2>2 DEF Living
  <2> QED
    BY <1>1, <2>2, <2>3, <2>4, <2>5, <2>6, NoChoiceTable, TableGoesOn
<1>6. CASE handleAssignBlockers(s)
  <2>1. /\ UNCHANGED <<status, phase, active, out, mulligan, progress, choice, queue, attacked, window>>
        /\ awaitingDefenders' = awaitingDefenders \ {s}
        /\ running' \in BOOLEAN /\ steps' \in {0, steps}
    BY <1>6 DEF handleAssignBlockers, Continue
  <2> QED
    BY <1>1, <2>1, TableGoesOn
<1> QED
  BY <1>2, <1>3, <1>4, <1>5, <1>6, MulliganTable, ReactionTable, SubmitChoiceTable DEF PlayerAction

LEMMA PumpTable ==
    ASSUME TableInv, FlowInv, pumpQueue
    PROVE  TableInv'
<1>1. /\ Queued(queue, out) /\ Sound(window, out) /\ 0 \notin out /\ phase \in Phase
      /\ out \in SUBSET Seat /\ active \in Seat /\ status \in Statuses /\ choice \in Choice
      /\ steps \in 0 .. maxResolutionSteps
      /\ progress \in {"starting", "started", "discarded"}
      /\ attacked \in SUBSET Seat /\ awaitingDefenders \in SUBSET Seat
      /\ (attacked \cup awaitingDefenders) \cap (out \cup {active}) = {}
  BY DEF TableInv, TypeOK, Seat, Statuses
<1>2. running /\ choice = NoChoice /\ queue # <<>>
  BY DEF pumpQueue, completeItem, askForEffect, executeEffect, Pumps, FlowInv
<1>3. /\ queue \in Seq(Item) /\ OwnedBy(queue, Seat \ out) /\ Len(queue) \in Nat
      /\ DOMAIN queue = 1 .. Len(queue) /\ 1 \in DOMAIN queue
      /\ Head(queue) = queue[1] /\ queue[1] \in Item /\ queue[1].owner \in Seat \ out
  <2>1. /\ queue \in Seq(Item) /\ OwnedBy(queue, Seat \ out)
    BY <1>1 DEF Queued
  <2>2. /\ Len(queue) \in Nat \ {0} /\ DOMAIN queue = 1 .. Len(queue)
    BY <1>2, <2>1, EmptySeq, LenProperties
  <2>3. Head(queue) = queue[1] /\ queue[1] \in Item
    BY <2>1, <2>2, LenProperties
  <2> QED
    BY <2>1, <2>2, <2>3 DEF OwnedBy
<1>4. CASE completeItem
  <2>1. /\ UNCHANGED <<status, phase, active, out, mulligan, progress, choice, attacked,
                       awaitingDefenders, window>>
        /\ queue' = Tail(queue) /\ running' \in BOOLEAN /\ steps' \in {0, steps}
    BY <1>4 DEF completeItem, combat, Continue
  <2>2. /\ Tail(queue) \in Seq(Item) /\ Len(Tail(queue)) = Len(queue) - 1
        /\ \A i \in 1 .. Len(Tail(queue)) : Tail(queue)[i] = queue[i + 1]
    BY <1>2, <1>3, HeadTailProperties
  <2>3. DOMAIN Tail(queue) = 1 .. Len(Tail(queue))
    BY <2>2, LenProperties
  <2>4. OwnedBy(Tail(queue), Seat \ out)
    BY <1>3, <2>2, <2>3 DEF OwnedBy
  <2>5. Queued(queue', out)
    BY <2>1, <2>2, <2>4 DEF Queued
  <2> QED
    BY <1>1, <1>2, <2>1, <2>5, NoChoiceTable, TableGoesOn
<1>5. CASE askForEffect
  <2>1. PICK s \in Living \ Head(queue).asked :
           choice' = Ask("effect", s, Head(queue).owner, NoSeat)
    BY <1>5 DEF askForEffect
  <2>2. choice' \in Choice /\ choice'.player \notin out /\ choice'.kind = "effect"
    BY <1>3, <2>1 DEF Living, Ask, Choice
  <2>3. /\ status' \in Statuses /\ running' \in BOOLEAN /\ steps' \in {0, steps}
        /\ UNCHANGED <<phase, active, out, mulligan, progress, queue, attacked,
                       awaitingDefenders, window>>
    BY <1>5 DEF askForEffect, Yield, combat, Statuses
  <2> QED
    BY <1>1, <2>2, <2>3, TableGoesOn
<1>6. CASE executeEffect
  <2> DEFINE item == [queue[1] EXCEPT !.left = @ - 1, !.asked = {}]
             done == [queue EXCEPT ![1].left = @ - 1, ![1].asked = {}]
  <2>1. Queued(done, out)
    <3>1. queue[1].left \in 0 .. MaxEffects /\ queue[1].left > 0
      BY <1>3, <1>6 DEF executeEffect, Item
    <3>2. queue[1].left - 1 \in 0 .. MaxEffects
      BY <3>1, FlowAssumption
    <3>3. item \in Item /\ item.owner = queue[1].owner
      BY <1>3, <3>2 DEF Item
    <3>4. done = [queue EXCEPT ![1] = item]
      OBVIOUS
    <3> HIDE DEF item, done
    <3>5. done \in Seq(Item) /\ DOMAIN done = DOMAIN queue
      BY <1>3, <3>3, <3>4, ExceptSeq, LenProperties
    <3>6. OwnedBy(done, Seat \ out)
      BY <1>3, <3>3, <3>4, <3>5 DEF OwnedBy
    <3> QED
      BY <3>5, <3>6 DEF Queued
  <2>2. UNCHANGED <<active, mulligan, progress>>
    BY <1>6 DEF executeEffect
  <2>3. CASE finishMatch /\ UNCHANGED <<out, combat, window>>
    <3>1. /\ status' = "complete" /\ phase' = "complete" /\ queue' = <<>>
          /\ choice' = NoChoice /\ running' = FALSE /\ steps' = 0
          /\ UNCHANGED <<attacked, awaitingDefenders, window, out>>
      BY <2>3 DEF finishMatch, Yield, combat
    <3> QED
      BY <1>1, <2>2, <3>1, NoChoiceTable, EmptyQueued, TableGoesOn DEF Statuses, Phase
  <2>4. ASSUME ~ Faults, NEW S \in SUBSET Living, NEW w \in Touched(window),
               runStateBasedChecks(S, settled(done, S), phase, removeFromReactionWindow(w, S), Counted)
        PROVE  TableInv'
    <3> DEFINE queues == settled(done, S)
               windows == removeFromReactionWindow(w, S)
    <3>1. \A q \in queues : Queued(q, out \cup S)
      <4> HIDE DEF done
      <4> QED
        BY <2>1, SettledQueued
    <3>2. \A v \in windows : Sound(v, out \cup S)
      BY <1>1, <2>4, TouchSound, RemoveSound
    <3>3. Counted \in 0 .. maxResolutionSteps
      BY <1>1, <2>4, FlowAssumption DEF Counted, Faults
    <3>4. S \in SUBSET Seat /\ runStateBasedChecks(S, queues, phase, windows, Counted)
      BY <2>4 DEF Living
    <3> HIDE DEF queues, windows
    <3> QED
      BY <1>1, <2>2, <3>1, <3>2, <3>3, <3>4, CheckedTable
  <2>5. \/ finishMatch /\ UNCHANGED <<out, combat, window>>
        \/ /\ ~ Faults
           /\ \E S \in SUBSET Living : \E w \in Touched(window) :
                 runStateBasedChecks(S, settled(done, S), phase, removeFromReactionWindow(w, S), Counted)
    BY <1>6 DEF executeEffect
  <2> HIDE DEF done
  <2> QED
    BY <2>3, <2>4, <2>5
<1> QED
  BY <1>4, <1>5, <1>6 DEF pumpQueue

LEMMA AdvanceTable ==
    ASSUME TableInv, FlowInv, advance
    PROVE  TableInv'
<1>1. /\ Queued(queue, out) /\ Sound(window, out) /\ 0 \notin out /\ phase \in Phase
      /\ out \in SUBSET Seat /\ active \in Seat /\ status \in Statuses /\ choice \in Choice
      /\ choice.player \notin out
      /\ steps \in 0 .. maxResolutionSteps
      /\ progress \in {"starting", "started", "discarded"}
      /\ mulligan \in [Seat -> {"pending", "submitted", "resolved"}]
      /\ attacked \in SUBSET Seat /\ awaitingDefenders \in SUBSET Seat
      /\ (attacked \cup awaitingDefenders) \cap (out \cup {active}) = {}
  BY DEF TableInv, TypeOK, Seat, Statuses
<1>2. running /\ choice = NoChoice /\ status # "complete" /\ queue = <<>>
  BY DEF advance, passOn, comeToRest, startDraw, performDraw, finalizeBlockers, resolveCombat,
     resumeReactionWindow, performTurnEnd, InPhase, Advances, FlowInv
<1>3. nextLivingPlayer(active, out) \in Seat
  BY <1>1, <1>2, NextLiving DEF FlowInv, Living
<1>4. ASSUME beginTurn(nextLivingPlayer(active, out), status, phase # "mulligan")
             \/ beginTurn(nextLivingPlayer(active, out), status, TRUE),
             UNCHANGED <<out, mulligan, window>>
      PROVE  TableInv'
  BY <1>1, <1>3, <1>4, TableTurn
<1>5. CASE comeToRest \/ startDraw
  <2>1. /\ UNCHANGED <<status, active, out, mulligan, progress, choice, queue, attacked,
                       awaitingDefenders, window>>
        /\ phase' \in {phase, "draw"} /\ running' \in BOOLEAN /\ steps' \in {0, steps}
    BY <1>5 DEF comeToRest, startDraw, combat, Continue, Yield
  <2> QED
    BY <1>1, <1>2, <2>1, NoChoiceTable, TableGoesOn DEF Phase
<1>6. ASSUME NEW S \in SUBSET Seat, NEW ph \in Phase,
             \/ runStateBasedChecks(S, settled(queue, S), ph,
                                    removeFromReactionWindow(window, S), steps)
             \/ runStateBasedChecks(S, settled(queue, S), ph,
                                    openReactionWindow(<<>>, "main_2", out \cup S), steps),
             UNCHANGED <<active, mulligan, progress>>
      PROVE  TableInv'
  <2> DEFINE queues == settled(queue, S)
             removed == removeFromReactionWindow(window, S)
             opened == openReactionWindow(<<>>, "main_2", out \cup S)
  <2>1. \A q \in queues : Queued(q, out \cup S)
    BY <1>1, SettledQueued
  <2>2. \A v \in removed : Sound(v, out \cup S)
    BY <1>1, RemoveSound
  <2>3. \A v \in opened : Sound(v, out \cup S)
    <3>1. "main_2" \in Interrupted
      BY DEF Interrupted, MAIN_PHASES
    <3>2. <<>> \in Seq(Entry) /\ OwnedBy(<<>>, Seat \ (out \cup S))
      BY EmptySeq DEF OwnedBy
    <3> QED
      BY <1>1, <3>1, <3>2, OpenSound
  <2>4. \/ runStateBasedChecks(S, queues, ph, removed, steps)
        \/ runStateBasedChecks(S, queues, ph, opened, steps)
    BY <1>6
  <2> HIDE DEF queues, removed, opened
  <2> QED
    BY <1>1, <1>2, <1>6, <2>1, <2>2, <2>3, <2>4, CheckedTable
<1>7. CASE performDraw
  <2>1. PICK S \in SUBSET {active} :
           runStateBasedChecks(S, settled(queue, S), "main_1",
                               removeFromReactionWindow(window, S), steps)
    BY <1>7 DEF performDraw
  <2>2. S \in SUBSET Seat /\ "main_1" \in Phase /\ UNCHANGED <<active, mulligan, progress>>
    BY <1>1, <1>7 DEF performDraw, Phase, MAIN_PHASES
  <2> QED
    BY <1>6, <2>1, <2>2
<1>8. CASE resolveCombat
  <2>1. PICK S \in SUBSET attacked :
           \/ runStateBasedChecks(S, settled(queue, S), "main_2",
                                  removeFromReactionWindow(window, S), steps)
           \/ runStateBasedChecks(S, settled(queue, S), "reaction_window",
                                  openReactionWindow(<<>>, "main_2", out \cup S), steps)
    BY <1>8 DEF resolveCombat
  <2>2. /\ S \in SUBSET Seat /\ "main_2" \in Phase /\ "reaction_window" \in Phase
        /\ UNCHANGED <<active, mulligan, progress>>
    BY <1>1, <1>8 DEF resolveCombat, Phase, MAIN_PHASES
  <2> QED
    BY <1>6, <2>1, <2>2
<1>9. CASE finalizeBlockers
  <2>1. Queued(queue', out)
    BY <1>1, <1>9, NoticedQueued DEF finalizeBlockers
  <2>2. \/ phase' = "resolve_combat" /\ UNCHANGED window
        \/ /\ window' \in openReactionWindow(<<>>, "resolve_combat", out)
           /\ phase' = "reaction_window"
    BY <1>9 DEF finalizeBlockers
  <2>3. "resolve_combat" \in Interrupted /\ <<>> \in Seq(Entry) /\ OwnedBy(<<>>, Seat \ out)
    BY EmptySeq DEF Interrupted, OwnedBy
  <2>4. Sound(window', out) /\ phase' \in Phase
    BY <1>1, <2>2, <2>3, OpenSound DEF Phase
  <2>5. /\ UNCHANGED <<status, active, out, mulligan, progress, choice, attacked, awaitingDefenders>>
        /\ running' \in BOOLEAN /\ steps' \in {0, steps}
    BY <1>9 DEF finalizeBlockers, combat, Continue
  <2> QED
    BY <1>1, <1>2, <2>1, <2>4, <2>5, NoChoiceTable, TableGoesOn
<1>10. CASE resumeReactionWindow
  <2>1. window.mode = "closed" /\ phase = "reaction_window"
    BY <1>10 DEF resumeReactionWindow, InPhase
  <2>2. /\ UNCHANGED <<status, active, out, mulligan, progress, choice, attacked, awaitingDefenders>>
        /\ running' \in BOOLEAN /\ steps' \in {0, steps}
    BY <1>10 DEF resumeReactionWindow, combat, Continue
  <2>3. CASE window.pending = <<>>
    <3>1. window' = NoWindow /\ phase' = window.resume /\ UNCHANGED queue
      BY <1>10, <2>3 DEF resumeReactionWindow
    <3>2. phase' \in Phase
      BY <1>1, <2>1, <3>1 DEF Sound, Interrupted, Phase
    <3> QED
      BY <1>1, <1>2, <2>2, <3>1, <3>2, NoWindowSound, NoChoiceTable, TableGoesOn
  <2>4. CASE window.pending # <<>>
    <3> DEFINE last == window.pending[Len(window.pending)]
               rest == SubSeq(window.pending, 1, Len(window.pending) - 1)
    <3>1. /\ window' = [window EXCEPT !.pending = rest]
          /\ UNCHANGED phase
          /\ \/ UNCHANGED queue
             \/ \E n \in 1 .. MaxEffects : queue' = Append(queue, NewItem(last.owner, n))
      BY <1>10, <2>4 DEF resumeReactionWindow
    <3>2. /\ window \in Window /\ window.pending \in Seq(Entry)
          /\ OwnedBy(window.pending, Seat \ out)
      BY <1>1 DEF Sound, Window
    <3>3. /\ Len(window.pending) \in Nat \ {0}
          /\ DOMAIN window.pending = 1 .. Len(window.pending)
          /\ \A i \in DOMAIN window.pending : window.pending[i] \in Entry
      BY <2>4, <3>2, EmptySeq, LenProperties
    <3>4. last.owner \in Seat \ out
      BY <3>2, <3>3 DEF OwnedBy
    <3>5. /\ rest \in Seq(Entry) /\ Len(rest) = Len(window.pending) - 1
          /\ \A i \in 1 .. Len(rest) : rest[i] = window.pending[i]
      <4>1. Len(window.pending) - 1 \in Nat
        BY <3>3
      <4> QED
        BY <3>3, <4>1, SubSeqProperties
    <3>6. DOMAIN rest = 1 .. Len(rest)
      BY <3>5, LenProperties
    <3>7. OwnedBy(rest, Seat \ out)
      BY <3>2, <3>3, <3>5, <3>6 DEF OwnedBy
    <3> HIDE DEF rest, last
    <3>8. Sound(window', out)
      BY <1>1, <2>1, <3>1, <3>2, <3>5, <3>7 DEF Sound, Window
    <3>9. Queued(queue', out)
      <4>1. ASSUME NEW n \in 1 .. MaxEffects, queue' = Append(queue, NewItem(last.owner, n))
            PROVE  Queued(queue', out)
        <5> DEFINE owner == last.owner
        <5>1. owner \in Seat \ out /\ queue' = Append(queue, NewItem(owner, n))
          BY <3>4, <4>1
        <5> HIDE DEF owner
        <5> QED
          BY <1>1, <5>1, NewItemQueued
      <4> QED
        BY <1>1, <3>1, <4>1
    <3> QED
      BY <1>1, <1>2, <2>2, <3>1, <3>8, <3>9, NoChoiceTable, TableGoesOn
  <2> QED
    BY <2>3, <2>4
<1>11. CASE performTurnEnd
  <2>1. CASE /\ choice' = Ask("discard", active, NoSeat, NoSeat)
             /\ status' = "waiting_for_choice"
             /\ Yield
             /\ UNCHANGED <<phase, active, progress, queue, combat>>
    <3>1. choice' \in Choice /\ choice'.player = active /\ choice'.kind = "discard"
      BY <1>1, <2>1 DEF Ask, Choice
    <3>2. active \notin out /\ UNCHANGED <<out, mulligan, window>>
      BY <1>11 DEF performTurnEnd, InPhase
    <3>3. UNCHANGED <<attacked, awaitingDefenders>> /\ running' \in BOOLEAN /\ steps' \in {0, steps}
      BY <2>1 DEF combat, Yield
    <3> QED
      BY <1>1, <2>1, <3>1, <3>2, <3>3, TableGoesOn DEF Statuses
  <2>2. CASE beginTurn(nextLivingPlayer(active, out), status, TRUE)
    BY <1>4, <1>11, <2>2 DEF performTurnEnd
  <2> QED
    BY <1>11, <2>1, <2>2 DEF performTurnEnd
<1>12. CASE passOn
  BY <1>4, <1>12 DEF passOn
<1> QED
  BY <1>5, <1>7, <1>8, <1>9, <1>10, <1>11, <1>12 DEF advance

LEMMA NextTable == TableInv /\ FlowInv /\ [Next]_vars => TableInv'
<1> SUFFICES ASSUME TableInv, FlowInv, [Next]_vars PROVE TableInv'
  OBVIOUS
<1>1. CASE UNCHANGED vars
  BY <1>1 DEF vars, TableInv, TypeOK, Sound, Queued
<1> QED
  BY <1>1, PlayerTable, PumpTable, AdvanceTable DEF Next, Engine, Finished

LEMMA TableInvariant == Spec => []TableInv
  BY InitTable, NextTable, FlowInvariant, PTL DEF Spec

(* What a rest is.                                                         *)

LEMMA InitRest == Init => RestInv
BY FlowAssumption DEF Init, RestInv, Seat, NeedsPlayer, NoWindow

(* Steps after which the engine goes on, or somebody is asked.             *)
LEMMA RestGoesOn ==
    ASSUME RestInv,
           status' = "mulligan" => status = "mulligan" /\ UNCHANGED mulligan,
           \/ choice' = NoChoice /\ status' \in {"mulligan", "playing"} /\ running'
           \/ choice'.player \in Seat /\ status' = "waiting_for_choice",
           phase' \notin {"mulligan", "complete"},
           phase' = "reaction_window" => window'.mode # "none"
    PROVE  RestInv'
<1>1. NoChoice.player \notin Seat
  BY DEF NoChoice, Ask, NoSeat, Seat
<1> QED
  BY <1>1 DEF RestInv

(* Without a choice, a match that is not over plays or deals hands.        *)
LEMMA NobodyAsked ==
    ASSUME TableInv, RestInv, choice = NoChoice, status # "complete"
    PROVE  status \in {"mulligan", "playing"}
BY DEF TableInv, TypeOK, RestInv

LEMMA RestTurn ==
    ASSUME TableInv, RestInv, NEW s, NEW st, NEW mayAsk, beginTurn(s, st, mayAsk),
           st \in {"mulligan", "playing"},
           st = "mulligan" => status = "mulligan" /\ UNCHANGED mulligan
    PROVE  RestInv'
<1>1. phase' = "turn_start"
  BY DEF beginTurn
<1>2. \/ choice' = NoChoice /\ status' = st /\ running'
      \/ \E t \in Living : choice' = Ask("ready", t, NoSeat, NoSeat) /\ status' = "waiting_for_choice"
  BY DEF beginTurn, runReadyStep, Continue
<1>3. \/ choice' = NoChoice /\ status' = st /\ running'
      \/ choice'.player \in Seat /\ status' = "waiting_for_choice"
  BY <1>2 DEF Ask, Living
<1> QED
  BY <1>1, <1>3, RestGoesOn

LEMMA NothingKept == \A S : cancelWorkOwnedBy(<<>>, S) = <<>>
<1> SUFFICES ASSUME NEW S PROVE cancelWorkOwnedBy(<<>>, S) = <<>>
  OBVIOUS
<1> DEFINE none == <<>>
<1>1. none \in Seq(Item) /\ {} \in SUBSET (DOMAIN none)
  BY EmptySeq
<1>2. Keeping(none, {}) \in Seq(Item) /\ Len(Keeping(none, {})) = 0
  BY <1>1, KeepingSeq, FS_EmptySet
<1>3. Keeping(none, {}) = <<>>
  BY <1>2, EmptySeq
<1>4. {i \in DOMAIN none : none[i].owner \notin S} = {}
  OBVIOUS
<1> QED
  BY <1>3, <1>4 DEF cancelWorkOwnedBy, NotOwnedBy

LEMMA CheckedRest ==
    ASSUME TableInv, RestInv, FlowInv, status # "complete",
           NEW S \in SUBSET Seat, NEW queues, NEW ph, NEW windows, NEW n,
           runStateBasedChecks(S, queues, ph, windows, n), UNCHANGED mulligan,
           ph # "complete",
           ph = "mulligan" => /\ phase = "mulligan"
                              /\ \A q \in queues : q = <<>>
                              /\ \A w \in windows : w = NoWindow,
           ph = "reaction_window" => \A w \in windows : Seat \ (out \cup S) # {} => w.mode # "none"
    PROVE  RestInv'
<1>1. CASE S # {} /\ Over(out')
  BY <1>1 DEF runStateBasedChecks, finishMatch, Yield, RestInv
<1>2. CASE ~ (S # {} /\ Over(out'))
  <2>1. /\ out' = out \cup S /\ window' \in windows /\ queue' \in queues /\ phase' = ph
        /\ CancelChoice(S)
        /\ choice' = NoChoice => running'
    BY <1>2 DEF runStateBasedChecks
  <2>2. Seat \ (out \cup S) # {}
    <3>1. CASE S = {}
      BY <3>1 DEF FlowInv, Living
    <3>2. CASE ~ Over(out')
      BY <2>1, <3>2, SomeoneLeft
    <3> QED
      BY <1>2, <3>1, <3>2
  <2>3. NoChoice.player \notin Seat
    BY DEF NoChoice, Ask, NoSeat, Seat
  <2>4. \/ /\ choice' = NoChoice /\ running' /\ status' \in {"mulligan", "playing"}
           /\ status' = "mulligan" => status = "mulligan"
           /\ status = "mulligan" => status' = "mulligan"
        \/ choice'.player \in Seat /\ status' = "waiting_for_choice" /\ status = "waiting_for_choice"
    <3>1. CASE choice = NoChoice
      BY <2>1, <2>3, <3>1, NobodyAsked DEF CancelChoice
    <3>2. CASE choice # NoChoice
      BY <2>1, <3>2 DEF CancelChoice, RestInv
    <3> QED
      BY <3>1, <3>2
  <2>5. CASE ph = "mulligan"
    <3>1. status = "mulligan" /\ queue' = <<>> /\ window' = NoWindow
      BY <2>1, <2>5 DEF RestInv
    <3>2. status' = "mulligan" /\ choice' = NoChoice /\ running'
      BY <2>4, <3>1
    <3> QED
      BY <2>1, <2>5, <3>1, <3>2 DEF RestInv
  <2>6. CASE ph # "mulligan"
    <3>1. phase' \notin {"mulligan", "complete"}
      BY <2>1, <2>6
    <3>2. phase' = "reaction_window" => window'.mode # "none"
      BY <2>1, <2>2
    <3> QED
      BY <2>4, <3>1, <3>2, RestGoesOn
  <2> QED
    BY <2>5, <2>6
<1> QED
  BY <1>1, <1>2

(* A window that opens is there.                                           *)
LEMMA OpenSome ==
    ASSUME NEW subject, NEW resume, NEW gone, NEW w \in openReactionWindow(subject, resume, gone)
    PROVE  w.mode # "none"
<1>1. PICK armed \in (SUBSET (Seat \ gone)) \ {{}} :
         w = advancePriority(draftWindow(armed, subject, resume, gone))
  BY DEF openReactionWindow
<1> QED
  BY <1>1 DEF advancePriority, closeWindow, draftWindow

LEMMA CommitRest ==
    ASSUME TableInv, RestInv, status # "complete", phase \in MAIN_PHASES,
           NEW s \in Seat, NEW st \in {status, "playing"}, st = "playing" \/ choice = NoChoice,
           requestCostSelection(s) \/ commitPlay(s, st) \/ commitActivation(s, st),
           UNCHANGED mulligan
    PROVE  RestInv'
<1>1. st \in {"mulligan", "playing"} /\ (st = "mulligan" => status = "mulligan")
  BY NobodyAsked
<1>2. phase \notin {"mulligan", "complete", "reaction_window"}
  BY DEF MAIN_PHASES
<1>3. CASE requestCostSelection(s)
  <2>1. choice'.player \in Seat /\ status' = "waiting_for_choice" /\ UNCHANGED phase
    BY <1>3 DEF requestCostSelection, Ask
  <2> QED
    BY <1>2, <2>1, RestGoesOn
<1>4. CASE commitPlay(s, st) \/ commitActivation(s, st)
  <2>1. choice' = NoChoice /\ status' = st /\ running'
    BY <1>4 DEF commitPlay, commitActivation, Continue
  <2>2. \/ UNCHANGED phase
        \/ phase' = "reaction_window" /\ window'.mode # "none"
    BY <1>4, OpenSome DEF commitPlay, commitActivation
  <2> QED
    BY <1>1, <1>2, <2>1, <2>2, RestGoesOn
<1> QED
  BY <1>3, <1>4

LEMMA MulliganRest ==
    ASSUME TableInv, RestInv, NEW s \in Seat, handleMulligan(s)
    PROVE  RestInv'
<1>1. /\ status = "mulligan" /\ choice = NoChoice /\ mulligan[s] = "pending"
      /\ mulligan \in [Seat -> {"pending", "submitted"}]
  BY DEF handleMulligan, MayMulligan, MayAct, RestInv
<1>2. CASE \A t \in Seat \ {s} : mulligan[t] = "submitted"
  <2>1. beginTurn(IF 1 \in out THEN nextLivingPlayer(1, out) ELSE 1, "playing", FALSE)
    BY <1>2 DEF handleMulligan
  <2> QED
    BY <2>1, RestTurn
<1>3. CASE ~ \A t \in Seat \ {s} : mulligan[t] = "submitted"
  <2>1. /\ mulligan' = [mulligan EXCEPT ![s] = "submitted"]
        /\ UNCHANGED <<status, phase, choice, queue, window>>
    BY <1>3 DEF handleMulligan
  <2>2. PICK t \in Seat \ {s} : mulligan[t] = "pending"
    BY <1>1, <1>3
  <2>3. mulligan' \in [Seat -> {"pending", "submitted"}] /\ mulligan'[t] = "pending"
    BY <1>1, <2>1, <2>2
  <2> QED
    BY <1>1, <2>1, <2>3 DEF RestInv
<1> QED
  BY <1>2, <1>3

LEMMA TerminationRest ==
    ASSUME TableInv, FlowInv, RestInv, NEW s \in Seat, handleTermination(s)
    PROVE  RestInv'
<1> DEFINE queues == {cancelWorkOwnedBy(queue, {s})}
           windows == removeFromReactionWindow(window, {s})
<1>1. status # "complete" /\ Sound(window, out) /\ {s} \in SUBSET Seat
  BY DEF handleTermination, MaySpeak, AtRest, TableInv
<1>2. runStateBasedChecks({s}, queues, phase, windows, steps) /\ UNCHANGED mulligan
  BY DEF handleTermination
<1>3. phase = "mulligan" => (\A q \in queues : q = <<>>) /\ (\A w \in windows : w = NoWindow)
  <2> SUFFICES ASSUME phase = "mulligan"
               PROVE  (\A q \in queues : q = <<>>) /\ (\A w \in windows : w = NoWindow)
    OBVIOUS
  <2>1. queue = <<>> /\ window = NoWindow
    BY DEF RestInv
  <2> QED
    BY <2>1, NothingKept DEF removeFromReactionWindow, NoWindow
<1>4. phase = "reaction_window" =>
         \A w \in windows : Seat \ (out \cup {s}) # {} => w.mode # "none"
  <2> SUFFICES ASSUME phase = "reaction_window", NEW w \in windows, Seat \ (out \cup {s}) # {}
               PROVE  w.mode # "none"
    OBVIOUS
  <2>1. window.mode # "none"
    BY <1>1 DEF RestInv
  <2> QED
    BY <1>1, <2>1, RemoveSound
<1>5. phase # "complete"
  BY <1>1 DEF RestInv
<1> HIDE DEF queues, windows
<1> QED
  BY <1>1, <1>2, <1>3, <1>4, <1>5, CheckedRest

LEMMA SubmitChoiceRest ==
    ASSUME TableInv, RestInv, NEW s \in Seat, handleSubmitChoice(s)
    PROVE  RestInv'
<1>1. /\ status # "complete" /\ choice.player = s /\ UNCHANGED mulligan
  BY DEF handleSubmitChoice, MayChoose, MaySpeak, AtRest
<1>2. choice # NoChoice
  BY <1>1, NoChoiceTable DEF Seat
<1>3. status = "waiting_for_choice" /\ phase \notin {"mulligan", "complete"}
  BY <1>1, <1>2 DEF RestInv
<1>4. phase = "reaction_window" => window.mode # "none"
  BY <1>1 DEF RestInv
<1>5. CASE runReadyStep("playing", TRUE) /\ UNCHANGED <<phase, window>>
  <2>1. \/ choice' = NoChoice /\ status' = "playing" /\ running'
        \/ choice'.player \in Seat /\ status' = "waiting_for_choice"
    BY <1>5 DEF runReadyStep, Continue, Ask, Living
  <2> QED
    BY <1>3, <1>4, <1>5, <2>1, RestGoesOn
<1>6. CASE /\ choice.kind = "cost"
           /\ requestCostSelection(s) \/ commitPlay(s, "playing") \/ commitActivation(s, "playing")
  <2>1. phase \in MAIN_PHASES
    BY <1>6 DEF TableInv
  <2> QED
    BY <1>1, <1>6, <2>1, CommitRest
<1>7. CASE status' = "playing" /\ choice' = NoChoice /\ Continue /\ UNCHANGED <<phase, window>>
  BY <1>3, <1>4, <1>7, RestGoesOn DEF Continue
<1> QED
  BY <1>5, <1>6, <1>7 DEF handleSubmitChoice

LEMMA PlayerRest ==
    ASSUME TableInv, FlowInv, RestInv, NEW s \in Seat, PlayerAction(s)
    PROVE  RestInv'
<1>1. ASSUME MayAct(s), UNCHANGED <<status, mulligan, choice>>, running',
             phase' \notin {"mulligan", "complete"},
             phase' = "reaction_window" => window'.mode # "none"
      PROVE  RestInv'
  <2>1. choice = NoChoice /\ status # "complete"
    BY <1>1 DEF MayAct, MaySpeak, AtRest
  <2> QED
    BY <1>1, <2>1, NobodyAsked, RestGoesOn
<1>2. CASE handlePlayCard(s) \/ handleActivateAbility(s)
  <2>1. status # "complete" /\ choice = NoChoice /\ phase \in MAIN_PHASES /\ UNCHANGED mulligan
    BY <1>2 DEF handlePlayCard, handleActivateAbility, requireMainPhase, MayAct, MaySpeak, AtRest
  <2>2. requestCostSelection(s) \/ commitPlay(s, status) \/ commitActivation(s, status)
    BY <1>2 DEF handlePlayCard, handleActivateAbility
  <2> QED
    BY <2>1, <2>2, CommitRest
<1>3. CASE handlePassPhase(s)
  BY <1>1, <1>3 DEF handlePassPhase, MayPass, Continue
<1>4. CASE handleDeclareAttackers(s)
  <2>1. \/ phase' \in {"resolve_combat", "assign_blockers"}
        \/ phase' = "reaction_window" /\ window'.mode # "none"
    BY <1>4, OpenSome DEF handleDeclareAttackers
  <2>2. MayAct(s) /\ UNCHANGED <<status, mulligan, choice>> /\ running'
    BY <1>4 DEF handleDeclareAttackers, MayAttack, Continue
  <2> QED
    BY <1>1, <2>1, <2>2
<1>5. CASE handleAssignBlockers(s)
  BY <1>1, <1>5 DEF handleAssignBlockers, MayBlock, Continue
<1>6. CASE handleReaction(s)
  <2>1. window.mode = "open" /\ MayAct(s) /\ UNCHANGED <<status, phase, mulligan, choice>> /\ running'
    BY <1>6 DEF handleReaction, MayReact, Continue
  <2>2. window'.mode # "none"
    BY <1>6, ReactionTable
  <2>3. phase \notin {"mulligan", "complete"}
    BY <2>1 DEF RestInv, NoWindow, MayAct, MaySpeak, AtRest
  <2> QED
    BY <1>1, <2>1, <2>2, <2>3
<1> QED
  BY <1>2, <1>3, <1>4, <1>5, <1>6, MulliganRest, TerminationRest, SubmitChoiceRest DEF PlayerAction

LEMMA PumpRest ==
    ASSUME TableInv, FlowInv, RestInv, pumpQueue
    PROVE  RestInv'
<1>1. /\ running /\ choice = NoChoice /\ status \in {"mulligan", "playing"} /\ status # "complete"
      /\ phase \notin {"mulligan", "complete"}
      /\ phase = "reaction_window" => window.mode # "none"
      /\ Sound(window, out) /\ UNCHANGED mulligan
  <2>1. running /\ queue # <<>> /\ UNCHANGED mulligan
    BY DEF pumpQueue, completeItem, askForEffect, executeEffect, Pumps
  <2>2. choice = NoChoice /\ status # "complete"
    BY <2>1 DEF FlowInv
  <2> QED
    BY <2>1, <2>2, NobodyAsked DEF RestInv, TableInv
<1>2. CASE completeItem
  <2>1. UNCHANGED <<status, phase, choice, window>> /\ running'
    BY <1>2 DEF completeItem, Continue
  <2> QED
    BY <1>1, <2>1, RestGoesOn
<1>3. CASE askForEffect
  <2>1. choice'.player \in Seat /\ status' = "waiting_for_choice" /\ UNCHANGED <<phase, window>>
    BY <1>3 DEF askForEffect, Ask, Living
  <2> QED
    BY <1>1, <2>1, RestGoesOn
<1>4. CASE executeEffect
  <2> DEFINE done == [queue EXCEPT ![1].left = @ - 1, ![1].asked = {}]
  <2>1. CASE finishMatch
    BY <2>1 DEF finishMatch, Yield, RestInv
  <2>2. ASSUME NEW S \in SUBSET Living, NEW w \in Touched(window),
               runStateBasedChecks(S, settled(done, S), phase, removeFromReactionWindow(w, S), Counted)
        PROVE  RestInv'
    <3> DEFINE queues == settled(done, S)
               windows == removeFromReactionWindow(w, S)
    <3>1. Sound(w, out) /\ w.mode = window.mode
      BY <1>1, TouchSound
    <3>2. phase = "reaction_window" =>
             \A v \in windows : Seat \ (out \cup S) # {} => v.mode # "none"
      <4> SUFFICES ASSUME phase = "reaction_window", NEW v \in windows, Seat \ (out \cup S) # {}
                   PROVE  v.mode # "none"
        OBVIOUS
      <4> QED
        BY <1>1, <3>1, RemoveSound
    <3>3. S \in SUBSET Seat /\ runStateBasedChecks(S, queues, phase, windows, Counted)
      BY <2>2 DEF Living
    <3> HIDE DEF queues, windows
    <3> QED
      BY <1>1, <3>2, <3>3, CheckedRest
  <2>3. \/ finishMatch
        \/ \E S \in SUBSET Living : \E w \in Touched(window) :
              runStateBasedChecks(S, settled(done, S), phase, removeFromReactionWindow(w, S), Counted)
    BY <1>4 DEF executeEffect
  <2> HIDE DEF done
  <2> QED
    BY <2>1, <2>2, <2>3
<1> QED
  BY <1>2, <1>3, <1>4 DEF pumpQueue

LEMMA AdvanceRest ==
    ASSUME TableInv, FlowInv, RestInv, advance
    PROVE  RestInv'
<1>1. /\ running /\ choice = NoChoice /\ status \in {"mulligan", "playing"} /\ status # "complete"
      /\ queue = <<>> /\ UNCHANGED mulligan /\ Sound(window, out) /\ out \in SUBSET Seat
      /\ active \in Seat /\ attacked \in SUBSET Seat
  <2>1. running /\ queue = <<>> /\ UNCHANGED mulligan
    BY DEF advance, passOn, comeToRest, startDraw, performDraw, finalizeBlockers, resolveCombat,
       resumeReactionWindow, performTurnEnd, InPhase, Advances
  <2>2. choice = NoChoice /\ status # "complete"
    BY <2>1 DEF FlowInv
  <2> QED
    BY <2>1, <2>2, NobodyAsked DEF TableInv, TypeOK
<1>2. ASSUME NEW s, NEW mayAsk, beginTurn(s, status, mayAsk)
      PROVE  RestInv'
  BY <1>1, <1>2, RestTurn
<1>3. ASSUME UNCHANGED <<status, choice>>, running', phase' \notin {"mulligan", "complete"},
             phase' = "reaction_window" => window'.mode # "none"
      PROVE  RestInv'
  BY <1>1, <1>3, RestGoesOn
<1>4. CASE comeToRest
  <2>1. /\ UNCHANGED <<status, phase, active, out, mulligan, choice, queue, window, awaitingDefenders>>
        /\ active \notin out /\ NeedsPlayer
    BY <1>4 DEF comeToRest, combat
  <2>2. NeedsPlayer'
    BY <2>1 DEF NeedsPlayer, AllAnswered
  <2> QED
    BY <1>1, <2>1, <2>2 DEF RestInv
<1>5. CASE startDraw
  BY <1>3, <1>5 DEF startDraw, Continue
<1>6. CASE performDraw
  <2>1. PICK S \in SUBSET {active} :
           runStateBasedChecks(S, settled(queue, S), "main_1",
                               removeFromReactionWindow(window, S), steps)
    BY <1>6 DEF performDraw
  <2> DEFINE queues == settled(queue, S)
             windows == removeFromReactionWindow(window, S)
  <2>2. runStateBasedChecks(S, queues, "main_1", windows, steps) /\ S \in SUBSET Seat
    BY <1>1, <2>1
  <2> HIDE DEF queues, windows
  <2> QED
    BY <1>1, <2>2, CheckedRest
<1>7. CASE resolveCombat
  <2>1. PICK S \in SUBSET attacked :
           \/ runStateBasedChecks(S, settled(queue, S), "main_2",
                                  removeFromReactionWindow(window, S), steps)
           \/ runStateBasedChecks(S, settled(queue, S), "reaction_window",
                                  openReactionWindow(<<>>, "main_2", out \cup S), steps)
    BY <1>7 DEF resolveCombat
  <2> DEFINE queues == settled(queue, S)
             removed == removeFromReactionWindow(window, S)
             opened == openReactionWindow(<<>>, "main_2", out \cup S)
  <2>2. S \in SUBSET Seat
    BY <1>1
  <2>3. \A w \in opened : w.mode # "none"
    BY OpenSome
  <2>4. \/ runStateBasedChecks(S, queues, "main_2", removed, steps)
        \/ runStateBasedChecks(S, queues, "reaction_window", opened, steps)
    BY <2>1
  <2> HIDE DEF queues, removed, opened
  <2>5. CASE runStateBasedChecks(S, queues, "main_2", removed, steps)
    BY <1>1, <2>2, <2>5, CheckedRest
  <2>6. CASE runStateBasedChecks(S, queues, "reaction_window", opened, steps)
    BY <1>1, <2>2, <2>3, <2>6, CheckedRest
  <2> QED
    BY <2>4, <2>5, <2>6
<1>8. CASE finalizeBlockers
  <2>1. \/ phase' = "resolve_combat"
        \/ phase' = "reaction_window" /\ window'.mode # "none"
    BY <1>8, OpenSome DEF finalizeBlockers
  <2>2. UNCHANGED <<status, choice>> /\ running'
    BY <1>8 DEF finalizeBlockers, Continue
  <2> QED
    BY <1>3, <2>1, <2>2
<1>9. CASE resumeReactionWindow
  <2>1. /\ window.mode = "closed" /\ phase = "reaction_window"
        /\ UNCHANGED <<status, choice>> /\ running'
    BY <1>9 DEF resumeReactionWindow, InPhase, Continue
  <2>2. CASE window.pending = <<>>
    <3>1. phase' = window.resume /\ window.resume \in Interrupted
      BY <1>1, <1>9, <2>1, <2>2 DEF resumeReactionWindow, Sound
    <3> QED
      BY <1>3, <2>1, <3>1 DEF Interrupted, MAIN_PHASES
  <2>3. CASE window.pending # <<>>
    <3>1. phase' = phase /\ window'.mode = window.mode
      BY <1>1, <1>9, <2>3 DEF resumeReactionWindow, Sound, Window
    <3> QED
      BY <1>3, <2>1, <3>1
  <2> QED
    BY <2>2, <2>3
<1>10. CASE performTurnEnd
  <2>1. CASE /\ choice' = Ask("discard", active, NoSeat, NoSeat)
             /\ status' = "waiting_for_choice"
             /\ UNCHANGED phase
    <3>1. choice'.player \in Seat /\ phase = "turn_end"
      BY <1>1, <1>10, <2>1 DEF Ask, performTurnEnd, InPhase
    <3> QED
      BY <2>1, <3>1, RestGoesOn
  <2>2. CASE beginTurn(nextLivingPlayer(active, out), status, TRUE)
    BY <1>2, <2>2
  <2> QED
    BY <1>10, <2>1, <2>2 DEF performTurnEnd
<1>11. CASE passOn
  <2>1. beginTurn(nextLivingPlayer(active, out), status, phase # "mulligan")
    BY <1>11 DEF passOn
  <2> QED
    BY <1>2, <2>1
<1> QED
  BY <1>4, <1>5, <1>6, <1>7, <1>8, <1>9, <1>10, <1>11 DEF advance

LEMMA NextRest == TableInv /\ FlowInv /\ RestInv /\ [Next]_vars => RestInv'
<1> SUFFICES ASSUME TableInv, FlowInv, RestInv, [Next]_vars PROVE RestInv'
  OBVIOUS
<1>1. CASE UNCHANGED vars
  BY <1>1 DEF vars, RestInv, NeedsPlayer, AllAnswered
<1> QED
  BY <1>1, PlayerRest, PumpRest, AdvanceRest DEF Next, Engine, Finished

LEMMA RestInvariant == Spec => []RestInv
  BY InitRest, NextRest, FlowInvariant, TableInvariant, PTL DEF Spec

(* Who is offered what, at rest.                                           *)
LEMMA AcceptedIs ==
    ASSUME NEW s
    PROVE  /\ Accepted(s) \subseteq {"choice", "mulligan", "reaction", "pass", "attack", "block"}
           /\ "choice" \in Accepted(s) <=> MayChoose(s)
           /\ "mulligan" \in Accepted(s) <=> MayMulligan(s)
           /\ "reaction" \in Accepted(s) <=> MayReact(s)
           /\ "pass" \in Accepted(s) <=> MayPass(s)
           /\ "attack" \in Accepted(s) <=> MayAttack(s)
           /\ "block" \in Accepted(s) <=> MayBlock(s)
BY DEF Accepted, Accepts

LEMMA HolderPlays ==
    ASSUME TableInv, window.mode # "none"
    PROVE  reactionPriorityHolder \in Seat \ out
<1>1. /\ window.order \in Seq(Seat) /\ window.index \in Nat /\ window.index < Len(window.order)
      /\ Members(window.order) = Seat \ out
  BY DEF TableInv, Sound, Window
<1> QED
  BY <1>1, MembersSome DEF reactionPriorityHolder

LEMMA SomebodyMoves ==
    ASSUME TableInv, RestInv, AtRest, ~ HandNeverComes, ~ WindowLeftBehind, ~ CannotBePaid
    PROVE  \E s \in Seat : Offered(s) \cap Accepted(s) # {}
<1>1. CASE choice # NoChoice
  <2> DEFINE s == choice.player
  <2>1. s \in Seat \ out
    BY <1>1 DEF RestInv, TableInv
  <2>2. MayChoose(s)
    BY <2>1 DEF MayChoose, MaySpeak, CannotBePaid
  <2>3. "choice" \in Offered(s) \cap Accepted(s)
    BY <1>1, <2>1, <2>2, AcceptedIs DEF Offered
  <2> QED
    BY <2>1, <2>3
<1>2. CASE choice = NoChoice /\ status = "mulligan"
  <2>1. PICK s \in Seat : mulligan[s] = "pending"
    BY <1>2 DEF RestInv
  <2>2. s \notin out
    BY <1>2, <2>1 DEF HandNeverComes
  <2>3. MayMulligan(s)
    BY <1>2, <2>1, <2>2 DEF MayMulligan, MayAct, MaySpeak
  <2>4. "mulligan" \in Offered(s) \cap Accepted(s)
    BY <1>2, <2>1, <2>2, <2>3, AcceptedIs DEF Offered
  <2> QED
    BY <2>4
<1>3. CASE choice = NoChoice /\ status = "playing"
  <2>1. /\ queue = <<>> /\ active \in Seat \ out /\ NeedsPlayer
        /\ phase \notin {"mulligan", "complete"} /\ status # "mulligan"
        /\ phase = "reaction_window" => window.mode # "none"
        /\ window.mode \in {"none", "open", "closed"}
    BY <1>3 DEF AtRest, RestInv, TableInv, TypeOK, Window
  <2>2. CASE phase = "reaction_window"
    <3> DEFINE s == reactionPriorityHolder
    <3>1. window.mode = "open"
      BY <2>1, <2>2 DEF NeedsPlayer, MAIN_PHASES
    <3>2. s \in Seat \ out
      BY <3>1, HolderPlays
    <3>3. MayReact(s)
      BY <1>3, <3>1, <3>2 DEF MayReact, MayAct, MaySpeak
    <3>4. "reaction" \in Offered(s) \cap Accepted(s)
      BY <1>3, <2>1, <3>1, <3>2, <3>3, AcceptedIs DEF Offered
    <3> QED
      BY <3>2, <3>4
  <2>3. CASE phase # "reaction_window"
    <3>1. window.mode = "none"
      BY <2>3 DEF WindowLeftBehind
    <3>2. \A s \in Seat \ out : MayAct(s)
      BY <1>3 DEF MayAct, MaySpeak
    <3>3. CASE phase \in MAIN_PHASES
      <4>1. "pass" \in Offered(active) \cap Accepted(active)
        BY <1>3, <2>1, <3>1, <3>2, <3>3, AcceptedIs DEF Offered, MayPass
      <4> QED
        BY <2>1, <4>1
    <3>4. CASE phase = "declare_attackers"
      <4>1. "attack" \in Offered(active) \cap Accepted(active)
        BY <1>3, <2>1, <3>1, <3>2, <3>4, AcceptedIs DEF Offered, MayAttack
      <4> QED
        BY <2>1, <4>1
    <3>5. CASE phase = "assign_blockers" /\ ~ AllAnswered
      <4>1. PICK s \in awaitingDefenders : s \in Seat \ out
        BY <3>5 DEF AllAnswered, TableInv, TypeOK
      <4>2. "block" \in Offered(s) \cap Accepted(s)
        BY <1>3, <2>1, <3>1, <3>2, <3>5, <4>1, AcceptedIs DEF Offered, MayBlock
      <4> QED
        BY <4>1, <4>2
    <3> QED
      BY <2>1, <2>3, <3>3, <3>4, <3>5 DEF NeedsPlayer
  <2> QED
    BY <2>2, <2>3
<1> QED
  BY <1>1, <1>2, <1>3, NobodyAsked DEF AtRest

LEMMA OffersAreTaken ==
    ASSUME TableInv, RestInv, AtRest, ~ TurnBeforeHands, ~ WindowLeftBehind, ~ CannotBePaid,
           NEW s \in Seat
    PROVE  Offered(s) = Accepted(s)
<1>1. CASE s \in out
  <2>1. /\ ~ MayChoose(s) /\ ~ MayMulligan(s) /\ ~ MayReact(s) /\ ~ MayPass(s)
        /\ ~ MayAttack(s) /\ ~ MayBlock(s)
    BY <1>1 DEF MayChoose, MayMulligan, MayReact, MayPass, MayAttack, MayBlock, MayAct, MaySpeak
  <2>2. Offered(s) = {}
    BY <1>1 DEF Offered
  <2> QED
    BY <2>1, <2>2, AcceptedIs
<1>2. CASE s \notin out /\ choice # NoChoice
  <2>1. /\ ~ MayMulligan(s) /\ ~ MayReact(s) /\ ~ MayPass(s) /\ ~ MayAttack(s) /\ ~ MayBlock(s)
        /\ MayChoose(s) <=> choice.player = s
    BY <1>2 DEF MayChoose, MayMulligan, MayReact, MayPass, MayAttack, MayBlock, MayAct, MaySpeak,
       CannotBePaid
  <2>2. Offered(s) = IF choice.player = s THEN {"choice"} ELSE {}
    BY <1>2 DEF Offered
  <2> QED
    BY <2>1, <2>2, AcceptedIs
<1>3. CASE s \notin out /\ choice = NoChoice
  <2>1. MayAct(s) /\ ~ MayChoose(s)
    BY <1>3, NoChoiceTable DEF MayAct, MaySpeak, MayChoose, Seat
  <2>2. CASE status = "mulligan"
    <3>1. phase = "mulligan" /\ window.mode = "none"
      BY <2>2 DEF TurnBeforeHands, RestInv, NoWindow
    <3>2. /\ ~ MayReact(s) /\ ~ MayPass(s) /\ ~ MayAttack(s) /\ ~ MayBlock(s)
          /\ MayMulligan(s) <=> mulligan[s] = "pending"
      BY <2>1, <2>2, <3>1 DEF MayMulligan, MayReact, MayPass, MayAttack, MayBlock, MAIN_PHASES
    <3>3. Offered(s) = IF mulligan[s] = "pending" THEN {"mulligan"} ELSE {}
      BY <1>3, <2>2 DEF Offered
    <3> QED
      BY <2>1, <3>2, <3>3, AcceptedIs
  <2>3. CASE status # "mulligan"
    <3>1. queue = <<>> /\ ~ MayMulligan(s) /\ window.mode \in {"none", "open", "closed"}
      BY <1>3, <2>3, NobodyAsked DEF AtRest, MayMulligan, RestInv, TableInv, TypeOK, Window
    <3>2. CASE window.mode = "none"
      <4>1. /\ ~ MayReact(s)
            /\ MayPass(s) <=> active = s /\ phase \in MAIN_PHASES /\ queue = <<>>
            /\ MayAttack(s) <=> active = s /\ phase = "declare_attackers"
            /\ MayBlock(s) <=> phase = "assign_blockers" /\ s \in awaitingDefenders
        BY <2>1, <3>1, <3>2 DEF MayReact, MayPass, MayAttack, MayBlock
      <4>2. Offered(s) = (IF MayPass(s) THEN {"pass"} ELSE {})
                         \cup (IF MayAttack(s) THEN {"attack"} ELSE {})
                         \cup (IF MayBlock(s) THEN {"block"} ELSE {})
        BY <1>3, <2>3, <3>2, <4>1 DEF Offered
      <4> QED
        BY <2>1, <3>1, <4>1, <4>2, AcceptedIs
    <3>3. CASE window.mode # "none"
      <4>1. phase = "reaction_window"
        BY <3>3 DEF WindowLeftBehind
      <4>2. /\ ~ MayPass(s) /\ ~ MayAttack(s) /\ ~ MayBlock(s)
            /\ MayReact(s) <=> window.mode = "open" /\ reactionPriorityHolder = s
        BY <2>1, <4>1 DEF MayReact, MayPass, MayAttack, MayBlock, MAIN_PHASES
      <4>3. Offered(s) = IF MayReact(s) THEN {"reaction"} ELSE {}
        BY <1>3, <2>3, <3>1, <3>3, <4>2 DEF Offered
      <4> QED
        BY <2>1, <3>1, <4>2, <4>3, AcceptedIs
    <3> QED
      BY <3>2, <3>3
  <2> QED
    BY <2>2, <2>3
<1> QED
  BY <1>1, <1>2, <1>3

-----------------------------------------------------------------------------
(* Whatever is played, drawn, lost or conceded, the match is in one of the *)
(* shapes its state can have: the holder of priority is a place in the     *)
(* window's order, the safeguard's count is within its limit (TypeOK).     *)
THEOREM TypeCorrect == Spec => []TypeOK
<1>1. TableInv => TypeOK
  BY DEF TableInv
<1> QED
  BY <1>1, TableInvariant, PTL

(* Until the match is over, nothing waits for, resolves for, attacks or is *)
(* decided by a seat that has lost: its queued work, its pending cards, its*)
(* place in the window and in combat went with it (cancelWorkOwnedBy,      *)
(* removeFromReactionWindow, runStateBasedChecks).                         *)
THEOREM WorkOfTheLiving == Spec => []OnlyTheLiving
<1>1. TableInv => OnlyTheLiving
  <2> SUFFICES ASSUME TableInv PROVE OnlyTheLiving
    OBVIOUS
  <2>1. /\ Sound(window, out) /\ Queued(queue, out) /\ choice.player \notin out
        /\ (attacked \cup awaitingDefenders) \cap (out \cup {active}) = {}
    BY DEF TableInv
  <2>2. Members(window.order) \cap out = {}
    BY <2>1 DEF Sound, NoWindow, Members
  <2> QED
    BY <2>1, <2>2 DEF OnlyTheLiving, Sound, Queued, OwnedBy
<1> QED
  BY <1>1, TableInvariant, PTL

(* Whoever loses, leaves or times out, a match that gives control back and *)
(* is not over offers some seat a move that its handler takes - or is      *)
(* stranded in one of the three named ways (handleTermination, advance).   *)
THEOREM NobodyElseStalls == Spec => []NoOtherStall
<1>1. TableInv /\ RestInv => NoOtherStall
  BY SomebodyMoves DEF NoOtherStall
<1> QED
  BY <1>1, TableInvariant, RestInvariant, PTL

(* At rest every seat is offered exactly the moves its handlers take, but  *)
(* in the three named exceptions (legalActions against the handlers'       *)
(* preconditions).                                                         *)
THEOREM OffersAreExact == Spec => []OffersMatch
<1>1. TableInv /\ RestInv => OffersMatch
  BY OffersAreTaken DEF OffersMatch
<1> QED
  BY <1>1, TableInvariant, RestInvariant, PTL

-----------------------------------------------------------------------------
(* Priority in an open Reaction window is with a seat that has not         *)
(* answered in it, whoever loses, leaves, draws or discards meanwhile      *)
(* (advancePriority, removeFromReactionWindow).                            *)
THEOREM PriorityMoves == Spec => []HolderMayAnswer
<1>1. FlowInv => HolderMayAnswer
  BY DEF FlowInv, Good, HolderMayAnswer, reactionPriorityHolder
<1> QED
  BY <1>1, FlowInvariant, PTL

(* Which steps give the turn to another seat.                              *)
LEMMA OnlyTurnsPass ==
    ASSUME FlowInv, [Next]_vars, active' # active, status # "mulligan"
    PROVE  /\ phase = "turn_end" \/ active \in out
           /\ running /\ queue = <<>>
           /\ active' = nextLivingPlayer(active, out)
<1>1. passOn \/ performTurnEnd
  BY DEF Next, Engine, pumpQueue, advance, completeItem, askForEffect, executeEffect, comeToRest,
     startDraw, performDraw, finalizeBlockers, resolveCombat, resumeReactionWindow, Finished,
     PlayerAction, handleTermination, handleMulligan, MayMulligan, handleSubmitChoice,
     handlePlayCard, handleActivateAbility, handlePassPhase, handleDeclareAttackers,
     handleAssignBlockers, handleReaction, vars
<1> QED
  BY <1>1 DEF passOn, performTurnEnd, InPhase, Advances, beginTurn

(* Once the opening hands are settled, a turn passes only from its end or  *)
(* from a seat that is out, with nothing pending, to the next seat in the  *)
(* circle that is still in the match (performTurnEnd, advance).            *)
THEOREM TurnsPassRound == Spec => TurnPasses
<1>1. ASSUME FlowInv, [Next]_vars, active' # active, status # "mulligan"
      PROVE  /\ phase = "turn_end" \/ active \in out
             /\ queue = <<>> /\ choice = NoChoice
             /\ active' \notin out
             /\ \A k \in 1 .. N : Clockwise(active, k) = active' =>
                   \A j \in 1 .. (k - 1) : Clockwise(active, j) \in out
  <2>1. /\ phase = "turn_end" \/ active \in out
        /\ running /\ queue = <<>>
        /\ active' = nextLivingPlayer(active, out)
    BY <1>1, OnlyTurnsPass
  <2>2. choice = NoChoice /\ active \in Seat /\ Seat \ out # {}
    BY <1>1, <2>1 DEF FlowInv, Living
  <2> QED
    BY <2>1, <2>2, NextLiving
<1>2. FlowInv /\ [Next]_vars =>
         [active' # active /\ status # "mulligan" =>
            /\ phase = "turn_end" \/ active \in out
            /\ queue = <<>> /\ choice = NoChoice
            /\ active' \notin out
            /\ \A k \in 1 .. N : Clockwise(active, k) = active' =>
                  \A j \in 1 .. (k - 1) : Clockwise(active, j) \in out]_vars
  BY <1>1
<1> QED
  BY <1>2, FlowInvariant, PTL DEF Spec, TurnPasses

-----------------------------------------------------------------------------
(* Every chain of effects ends.                                            *)

LEMMA StopsAre == \A ph : Stops(ph) \in 0 .. 5
BY DEF Stops

LEMMA LivingFinite == IsFiniteSet(Living) /\ Cardinality(Living) \in Nat
<1>1. N \in Int /\ 1 \in Int
  BY FlowAssumption
<1>2. IsFiniteSet(Seat)
  BY <1>1, FS_Interval DEF Seat
<1>3. Living \in SUBSET Seat
  BY DEF Living
<1> QED
  BY <1>2, <1>3, FS_Subset, FS_CardinalityType

FuelOK == Fuel \in Seq(Nat)

LEMMA FuelIs == TypeOK => FuelOK
<1> SUFFICES ASSUME TypeOK PROVE Fuel \in Seq(Nat)
  BY DEF FuelOK
<1>1. Cardinality(Living) \in Nat
  BY LivingFinite
<1>2. maxResolutionSteps - steps \in Nat
  BY FlowAssumption DEF TypeOK
<1>3. Ahead \in 0 .. 12
  BY StopsAre DEF Ahead
<1>4. Len(window.pending) \in Nat /\ Len(queue) \in Nat
  BY DEF TypeOK, Window
<1> QED
  BY <1>1, <1>2, <1>3, <1>4 DEF Fuel

(* Something was used up, and nothing more lasting was given back.         *)
Burned ==
    \/ Cardinality(Living') < Cardinality(Living)
    \/ /\ out' = out
       /\ \/ steps' > steps
          \/ /\ steps' = steps
             /\ \/ Ahead' < Ahead
                \/ /\ Ahead' = Ahead
                   /\ \/ Len(window'.pending) < Len(window.pending)
                      \/ /\ Len(window'.pending) = Len(window.pending)
                         /\ Len(queue') < Len(queue)

LEMMA BurnedIsLess ==
    ASSUME TypeOK, TypeOK', Burned
    PROVE  LexLess(Fuel', Fuel)
<1>1. /\ DOMAIN Fuel' = 1 .. 5
      /\ Fuel[1] = Cardinality(Living) /\ Fuel'[1] = Cardinality(Living')
      /\ Fuel[2] = maxResolutionSteps - steps /\ Fuel'[2] = maxResolutionSteps - steps'
      /\ Fuel[3] = Ahead /\ Fuel'[3] = Ahead'
      /\ Fuel[4] = Len(window.pending) /\ Fuel'[4] = Len(window'.pending)
      /\ Fuel[5] = Len(queue) /\ Fuel'[5] = Len(queue')
  BY DEF Fuel
<1>2. steps \in Nat /\ steps' \in Nat /\ maxResolutionSteps \in Nat
  BY FlowAssumption DEF TypeOK
<1>3. out' = out => Fuel'[1] = Fuel[1]
  BY <1>1 DEF Living
<1>4. CASE Fuel'[1] < Fuel[1]
  <2>1. \A k \in 1 .. (1 - 1) : Fuel'[k] = Fuel[k]
    OBVIOUS
  <2> QED
    BY <1>1, <1>4, <2>1 DEF LexLess
<1>5. CASE Fuel'[1] = Fuel[1] /\ Fuel'[2] < Fuel[2]
  <2>1. \A k \in 1 .. (2 - 1) : Fuel'[k] = Fuel[k]
    BY <1>5
  <2> QED
    BY <1>1, <1>5, <2>1 DEF LexLess
<1>6. CASE Fuel'[1] = Fuel[1] /\ Fuel'[2] = Fuel[2] /\ Fuel'[3] < Fuel[3]
  <2>1. \A k \in 1 .. (3 - 1) : Fuel'[k] = Fuel[k]
    BY <1>6
  <2> QED
    BY <1>1, <1>6, <2>1 DEF LexLess
<1>7. CASE Fuel'[1] = Fuel[1] /\ Fuel'[2] = Fuel[2] /\ Fuel'[3] = Fuel[3] /\ Fuel'[4] < Fuel[4]
  <2>1. \A k \in 1 .. (4 - 1) : Fuel'[k] = Fuel[k]
    BY <1>7
  <2> QED
    BY <1>1, <1>7, <2>1 DEF LexLess
<1>8. CASE /\ Fuel'[1] = Fuel[1] /\ Fuel'[2] = Fuel[2] /\ Fuel'[3] = Fuel[3]
           /\ Fuel'[4] = Fuel[4] /\ Fuel'[5] < Fuel[5]
  <2>1. \A k \in 1 .. (5 - 1) : Fuel'[k] = Fuel[k]
    BY <1>8
  <2> QED
    BY <1>1, <1>8, <2>1 DEF LexLess
<1>9. CASE Cardinality(Living') < Cardinality(Living)
  BY <1>1, <1>4, <1>9
<1>10. CASE out' = out /\ steps' > steps
  <2>1. \A m, a, b \in Nat : b > a => m - b < m - a
    OBVIOUS
  <2>2. maxResolutionSteps - steps' < maxResolutionSteps - steps
    BY <1>2, <1>10, <2>1
  <2>3. Fuel'[2] < Fuel[2]
    BY <1>1, <2>2
  <2> QED
    BY <1>3, <1>5, <1>10, <2>3
<1>11. CASE out' = out /\ steps' = steps
  <2>1. Fuel'[1] = Fuel[1] /\ Fuel'[2] = Fuel[2]
    BY <1>1, <1>3, <1>11
  <2>2. CASE Ahead' < Ahead
    BY <1>1, <1>6, <2>1, <2>2
  <2>3. CASE Ahead' = Ahead /\ Len(window'.pending) < Len(window.pending)
    BY <1>1, <1>7, <2>1, <2>3
  <2>4. CASE Ahead' = Ahead /\ Len(window'.pending) = Len(window.pending) /\ Len(queue') < Len(queue)
    BY <1>1, <1>8, <2>1, <2>4
  <2>5. \/ Cardinality(Living') < Cardinality(Living)
        \/ Ahead' < Ahead
        \/ Ahead' = Ahead /\ Len(window'.pending) < Len(window.pending)
        \/ Ahead' = Ahead /\ Len(window'.pending) = Len(window.pending) /\ Len(queue') < Len(queue)
    BY <1>2, <1>11 DEF Burned
  <2> QED
    BY <1>9, <2>2, <2>3, <2>4, <2>5
<1>12. \/ Cardinality(Living') < Cardinality(Living)
       \/ out' = out /\ steps' > steps
       \/ out' = out /\ steps' = steps
  BY DEF Burned
<1> QED
  BY <1>9, <1>10, <1>11, <1>12

(* A seat that falls is gone for good; without one, runStateBasedChecks    *)
(* leaves the phase, the step and the window it was given.                 *)
LEMMA ChecksBurn ==
    ASSUME NEW S \in SUBSET Living, NEW queues, NEW ph, NEW windows, NEW n,
           runStateBasedChecks(S, queues, ph, windows, n), running'
    PROVE  \/ Cardinality(Living') < Cardinality(Living)
           \/ out' = out /\ phase' = ph /\ steps' = n
<1>1. ~ (S # {} /\ Over(out')) /\ phase' = ph /\ steps' = n /\ out' = out \cup S
  BY DEF runStateBasedChecks, finishMatch, Yield
<1>2. CASE S = {}
  BY <1>1, <1>2
<1>3. CASE S # {}
  <2>1. Living' \subseteq Living /\ Living' # Living
    BY <1>1, <1>3 DEF Living
  <2>2. IsFiniteSet(Living)
    BY LivingFinite
  <2>3. Cardinality(Living') <= Cardinality(Living) /\ Cardinality(Living') # Cardinality(Living)
    BY <2>1, <2>2, FS_Subset
  <2>4. Cardinality(Living') \in Nat /\ Cardinality(Living) \in Nat
    BY <2>1, <2>2, FS_Subset, FS_CardinalityType
  <2> QED
    BY <2>3, <2>4
<1> QED
  BY <1>2, <1>3

LEMMA PumpBurns ==
    ASSUME TypeOK, pumpQueue, running'
    PROVE  Burned
<1>1. steps \in Nat /\ queue \in Seq(Item)
  BY FlowAssumption DEF TypeOK
<1>2. CASE completeItem
  <2>1. Len(Tail(queue)) < Len(queue)
    BY <1>1, <1>2 DEF completeItem, Pumps
  <2> QED
    BY <1>2, <2>1 DEF completeItem, Continue, Burned, Ahead
<1>3. CASE executeEffect
  <2>1. PICK S \in SUBSET Living : \E queues, windows :
           runStateBasedChecks(S, queues, phase, windows, Counted)
    BY <1>3 DEF executeEffect, finishMatch, Yield
  <2> QED
    BY <1>1, <2>1, ChecksBurn DEF Burned, Counted
<1> QED
  BY <1>2, <1>3 DEF pumpQueue, askForEffect, Yield

(* A window leaves for the phase it was opened with.                       *)
LEMMA OpenResumes ==
    ASSUME NEW subject, NEW resume, NEW gone, NEW w \in openReactionWindow(subject, resume, gone)
    PROVE  w.resume = resume
<1>1. PICK armed : w = advancePriority(draftWindow(armed, subject, resume, gone))
  BY DEF openReactionWindow
<1> DEFINE d == draftWindow(armed, subject, resume, gone)
<1>2. IsWindow(d) /\ d.resume = resume
  BY DEF IsWindow, Fields, draftWindow
<1> HIDE DEF d
<1>3. w.resume = d.resume
  BY <1>1, <1>2 DEF advancePriority, closeWindow, IsWindow, Fields, d
<1> QED
  BY <1>2, <1>3

(* The rank of each step of the loop of advance.                           *)
LEMMA TurnBurns ==
    ASSUME active \in out \/ phase = "turn_end", active' \notin out',
           phase' = "turn_start"
    PROVE  Ahead' < Ahead
BY DEF Ahead, Stops

LEMMA AdvanceBurns ==
    ASSUME TypeOK, TableInv, FlowInv, advance, running'
    PROVE  Burned
<1>0. running
  BY DEF advance, passOn, comeToRest, startDraw, performDraw, finalizeBlockers, resolveCombat,
     resumeReactionWindow, performTurnEnd, InPhase, Advances
<1>1. active \in Seat /\ steps \in Nat /\ Living # {}
  <2>1. active \in Seat /\ Living # {}
    BY <1>0 DEF FlowInv
  <2>2. steps \in Nat
    BY FlowAssumption DEF TypeOK
  <2> QED
    BY <2>1, <2>2
<1>2. nextLivingPlayer(active, out) \notin out
  BY <1>1, NextLiving DEF Living
<1>3. ASSUME NEW st, NEW mayAsk, beginTurn(nextLivingPlayer(active, out), st, mayAsk),
             active \in out \/ phase = "turn_end", out' = out
      PROVE  Burned
  <2>1. /\ active' \notin out' /\ phase' = "turn_start" /\ steps' = steps
    BY <1>2, <1>3 DEF beginTurn, runReadyStep, Continue, Yield
  <2> QED
    BY <1>3, <2>1, TurnBurns DEF Burned
<1>4. CASE passOn \/ performTurnEnd
  BY <1>3, <1>4 DEF passOn, performTurnEnd, InPhase, Yield
<1>5. CASE startDraw
  BY <1>5 DEF startDraw, InPhase, Continue, Burned, Ahead, Stops
<1>6. CASE performDraw
  <2>1. PICK S \in SUBSET {active} :
           runStateBasedChecks(S, settled(queue, S), "main_1",
                               removeFromReactionWindow(window, S), steps)
    BY <1>6 DEF performDraw
  <2>2. S \in SUBSET Living /\ active' = active /\ active \notin out /\ phase = "draw"
    BY <1>1, <1>6 DEF performDraw, InPhase, Living
  <2>3. Cardinality(Living') < Cardinality(Living) \/ (out' = out /\ phase' = "main_1" /\ steps' = steps)
    BY <2>1, <2>2, ChecksBurn
  <2> QED
    BY <2>2, <2>3 DEF Burned, Ahead, Stops
<1>7. CASE finalizeBlockers
  <2>1. \/ phase' = "resolve_combat"
        \/ phase' = "reaction_window" /\ window'.resume = "resolve_combat"
    BY <1>7, OpenResumes DEF finalizeBlockers
  <2> QED
    BY <1>7, <2>1 DEF finalizeBlockers, InPhase, Continue, Burned, Ahead, Stops
<1>8. CASE resolveCombat
  <2>1. PICK S \in SUBSET attacked :
          \/ runStateBasedChecks(S, settled(queue, S), "main_2",
                                 removeFromReactionWindow(window, S), steps)
          \/ runStateBasedChecks(S, settled(queue, S), "reaction_window",
                                 openReactionWindow(<<>>, "main_2", out \cup S), steps)
    BY <1>8 DEF resolveCombat
  <2>2. S \in SUBSET Living /\ active' = active /\ active \notin out /\ phase = "resolve_combat"
    BY <1>8 DEF resolveCombat, InPhase, TableInv, TypeOK, Living
  <2>3. CASE runStateBasedChecks(S, settled(queue, S), "main_2",
                                 removeFromReactionWindow(window, S), steps)
    <3>1. Cardinality(Living') < Cardinality(Living) \/ (out' = out /\ phase' = "main_2" /\ steps' = steps)
      BY <2>2, <2>3, ChecksBurn
    <3> QED
      BY <2>2, <3>1 DEF Burned, Ahead, Stops
  <2>4. CASE runStateBasedChecks(S, settled(queue, S), "reaction_window",
                                 openReactionWindow(<<>>, "main_2", out \cup S), steps)
    <3>1. \/ Cardinality(Living') < Cardinality(Living)
          \/ out' = out /\ phase' = "reaction_window" /\ steps' = steps
      BY <2>2, <2>4, ChecksBurn
    <3>2. window'.resume = "main_2"
      BY <2>4, OpenResumes DEF runStateBasedChecks
    <3> QED
      BY <2>2, <3>1, <3>2 DEF Burned, Ahead, Stops
  <2> QED
    BY <2>1, <2>3, <2>4
<1>9. CASE resumeReactionWindow
  <2>1. /\ steps' = steps /\ out' = out /\ active' = active /\ active \notin out
        /\ phase = "reaction_window" /\ window.mode = "closed"
    BY <1>9 DEF resumeReactionWindow, InPhase, Continue
  <2>2. CASE window.pending = <<>>
    <3>1. phase' = window.resume /\ window.resume \in Interrupted
      BY <1>9, <2>1, <2>2 DEF resumeReactionWindow, TableInv, Sound
    <3> QED
      BY <2>1, <3>1 DEF Burned, Ahead, Stops, Interrupted, MAIN_PHASES
  <2>3. CASE window.pending # <<>>
    <3>1. /\ phase' = phase
          /\ window' = [window EXCEPT !.pending = SubSeq(@, 1, Len(@) - 1)]
      BY <1>9, <2>3 DEF resumeReactionWindow
    <3>2. window \in Window /\ window.pending \in Seq(Entry)
      BY DEF TypeOK, Window
    <3>3. window'.pending = SubSeq(window.pending, 1, Len(window.pending) - 1)
          /\ window'.resume = window.resume
      BY <3>1, <3>2 DEF Window
    <3>4. Len(window'.pending) < Len(window.pending)
      BY <2>3, <3>2, <3>3
    <3>5. Ahead' = Ahead
      BY <2>1, <3>1, <3>3 DEF Ahead
    <3> QED
      BY <2>1, <3>4, <3>5 DEF Burned
  <2> QED
    BY <2>2, <2>3
<1> QED
  BY <1>4, <1>5, <1>6, <1>7, <1>8, <1>9 DEF advance, comeToRest, Yield

(* Whatever sets off what, for any number of seats and any cards: each     *)
(* turn of the loops uses up seats, steps of the safeguard, stops of the   *)
(* turn, waiting cards or queued work, in that order, and none of them     *)
(* below nothing; so no call of applyAction goes on for ever (pumpQueue,   *)
(* advance, checkSafeguards).                                              *)
THEOREM EveryChainEnds == Spec => EngineRunsDown
<1>1. ASSUME TableInv, TableInv', FlowInv, [Next]_vars, running, running', vars' # vars
      PROVE  Fuel' \in Seq(Nat) /\ LexLess(Fuel', Fuel)
  <2>1. TypeOK /\ TypeOK'
    BY <1>1 DEF TableInv
  <2>2. TypeOK' => FuelOK'
    BY FuelIs, PTL
  <2>3. pumpQueue \/ advance
    BY <1>1 DEF Next, Engine, Finished, PlayerAction, handleTermination, handleMulligan, MayMulligan,
       handleSubmitChoice, handlePlayCard, handleActivateAbility, handlePassPhase,
       handleDeclareAttackers, handleAssignBlockers, handleReaction, MayChoose, requireMainPhase,
       MayPass, MayAttack, MayBlock, MayReact, MayAct, MaySpeak, AtRest
  <2> QED
    BY <1>1, <2>1, <2>2, <2>3, PumpBurns, AdvanceBurns, BurnedIsLess DEF FuelOK
<1>2. TableInv /\ TableInv' /\ FlowInv /\ [Next]_vars =>
         [running /\ running' => Fuel' \in Seq(Nat) /\ LexLess(Fuel', Fuel)]_vars
  BY <1>1
<1> QED
  BY <1>2, FlowInvariant, TableInvariant, PTL DEF Spec, EngineRunsDown
=====
