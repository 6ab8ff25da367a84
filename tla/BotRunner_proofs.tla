--------------------------- MODULE BotRunner_proofs ---------------------------
(* What the runner guarantees for any number of bots, any categories and   *)
(* delays, any ceiling and any moves of the others.                        *)
EXTENDS BotRunner, WellFoundedInduction, TLAPS

Before == {ss \in Nat \X Nat : ss[1] < ss[2]}

(* Counting seats down ends.                                               *)
LEMMA BeforeWellFounded == IsWellFoundedOn(Before, Nat)
  BY NatLessThanWellFounded, Zenon DEF OpToRel, Before

(* Seats are scanned in order: a non-empty set of them has a first.        *)
LEMMA FirstIn ==
    ASSUME NEW S, S \subseteq Nat, S # {}
    PROVE  First(S) \in S
  <1>1. PICK x \in S : \A y \in S : ~ (<<y, x>> \in Before)
    BY WFMin, BeforeWellFounded
  <1>2. ASSUME NEW y \in S PROVE x <= y
    <2>1. x \in Nat /\ y \in Nat  OBVIOUS
    <2>2. y < x => <<y, x>> \in Before  BY <2>1 DEF Before
    <2>3. QED  BY <1>1, <2>1, <2>2
  <1>3. QED  BY <1>2 DEF First

(* A seat at rest: its wait is running if it is owed a decision, and it    *)
(* has none otherwise.                                                     *)
Settled(b, off, dly, hlt) ==
    IF Asked(b, off, hlt)
    THEN dly[b] = Waiting(off[b]) /\ <<b, off[b]>> \in Slow
    ELSE dly[b] = NoDelay

(* Between the last scan of a pump and the next wake every seat is at rest.*)
AtRest ==
    pump \in {"idle", "returned"} /\ ~ stopped /\ ~ woken =>
        \A b \in Bot : Settled(b, offered, delay, halted)

(* A wait is only ever started for a delay that is not 0.                  *)
SlowWaits(dly) == \A b \in Bot : dly[b].mode = "waiting" => <<b, dly[b].category>> \in Slow

(* The seat being asked may still answer.                                  *)
AskedMayAnswer ==
    pump = "deciding" => ask.bot \notin halted /\ decisions[ask.bot] < decisionLimit

(* The end of the match stopped the runner and called off every wait.      *)
OverIsStopped == over => stopped /\ delay = [b \in Bot |-> NoDelay]

IInv == TypeOK /\ SlowWaits(delay) /\ AskedMayAnswer /\ OverIsStopped

(* The shapes of a wait.                                                   *)
LEMMA Delays ==
    /\ NoDelay \in Delay
    /\ \A c \in Category : Waiting(c) \in Delay /\ Waiting(c).mode = "waiting"
                             /\ Waiting(c).category = c
    /\ \A d \in Delay : d = NoDelay \/ (d.mode \in {"waiting", "expired"} /\ d.category \in Category)
    /\ \A d \in Delay : d.mode = "waiting" => d = Waiting(d.category) /\ d.category \in Category
    /\ NoDelay.mode = "none"
  BY DEF Delay, NoDelay, Waiting

(* A scan gives each seat a wait, one that is owed.                        *)
LEMMA ReconciledType ==
    ASSUME NEW off \in Offers, NEW dly \in [Bot -> Delay], NEW hlt, NEW b \in Bot, SlowWaits(dly)
    PROVE  LET d == Reconciled(b, off, dly, hlt)
           IN  /\ d \in Delay
               /\ d.mode = "waiting" => /\ Asked(b, off, hlt)
                                        /\ d = Waiting(off[b])
                                        /\ <<b, off[b]>> \in Slow
               /\ ~ Asked(b, off, hlt) => d = NoDelay
  <1>1. off[b] \in Category \cup {"none"} /\ dly[b] \in Delay  BY DEF Offers
  <1>2. CASE ~ Asked(b, off, hlt)  BY <1>2, Delays DEF Reconciled
  <1>3. CASE Asked(b, off, hlt) /\ dly[b] # NoDelay /\ ~ WrongWait(b, off, dly)
    <2>1. Reconciled(b, off, dly, hlt) = dly[b]  BY <1>3 DEF Reconciled
    <2>2. dly[b].mode = "waiting" => dly[b].category = off[b]  BY <1>3 DEF WrongWait
    <2>3. QED  BY <1>1, <1>3, <2>1, <2>2, Delays DEF SlowWaits
  <1>4. CASE Asked(b, off, hlt) /\ (dly[b] = NoDelay \/ WrongWait(b, off, dly))
    <2>1. off[b] \in Category  BY <1>1, <1>4 DEF Asked
    <2>2. Reconciled(b, off, dly, hlt) = IF <<b, off[b]>> \in Slow THEN Waiting(off[b]) ELSE NoDelay
      BY <1>4 DEF Reconciled
    <2>3. QED  BY <1>4, <2>1, <2>2, Delays
  <1>5. QED  BY <1>2, <1>3, <1>4

(* What one pass of the loop leaves behind.                                *)
LEMMA LoopLeaves ==
    ASSUME RunnerAssumption, NEW off \in Offers, NEW dly \in [Bot -> Delay], NEW hlt \in SUBSET Bot,
           SlowWaits(dly), decisions' \in [Bot -> 0 .. decisionLimit], TypeOK,
           Loop(off, dly, hlt)
    PROVE  /\ delay' \in [Bot -> Delay] /\ halted' \in SUBSET Bot /\ woken' \in BOOLEAN
           /\ SlowWaits(delay')
           /\ ask' \in [bot : Bot, category : Category, moved : BOOLEAN]
           /\ pump' \in {"deciding", "returned"}
           /\ pump' = "deciding" => /\ ask'.bot \notin halted'
                                    /\ decisions'[ask'.bot] < decisionLimit
           /\ pump' = "returned" => \A b \in Bot : Settled(b, off, delay', halted')
  <1> DEFINE ready == {b \in Bot : Actionable(b, off, dly, hlt)}
             able == {b \in ready : decisions'[b] < decisionLimit}
             next == First(able)
             spent == {b \in ready \ able : able # {} => b < next}
             taken == spent \cup (IF able = {} THEN {} ELSE {next})
  <1>1. /\ woken' = FALSE
        /\ halted' = hlt \cup spent
        /\ delay' = [b \in Bot |-> IF b \in taken THEN NoDelay ELSE Reconciled(b, off, dly, hlt)]
        /\ IF able = {}
           THEN pump' = "returned" /\ ask' = [ask EXCEPT !.moved = FALSE]
           ELSE /\ pump' = "deciding"
                /\ ask' = [bot |-> next, category |-> ServedCategory(next, off, dly),
                           moved |-> FALSE]
    BY DEF Loop
  <1>2. ready \subseteq Bot /\ able \subseteq ready /\ spent \subseteq ready /\ spent \cap able = {}
    OBVIOUS
  <1>3. able # {} => next \in able
    BY <1>2, FirstIn DEF RunnerAssumption
  <1> HIDE DEF ready, able, next, spent, taken
  <1>4. delay' \in [Bot -> Delay]
    BY <1>1, ReconciledType, Delays
  <1>5. SlowWaits(delay')
    <2> SUFFICES ASSUME NEW b \in Bot, delay'[b].mode = "waiting"
                 PROVE  <<b, delay'[b].category>> \in Slow
      BY DEF SlowWaits
    <2>1. delay'[b] = Reconciled(b, off, dly, hlt)  BY <1>1, Delays
    <2>2. delay'[b] = Waiting(off[b]) /\ <<b, off[b]>> \in Slow  BY <2>1, ReconciledType
    <2>3. QED  BY <2>2 DEF Waiting
  <1>6. CASE able = {}
    <2>1. pump' = "returned" /\ ask' = [ask EXCEPT !.moved = FALSE]  BY <1>1, <1>6
    <2>2. ask' \in [bot : Bot, category : Category, moved : BOOLEAN]  BY <2>1 DEF TypeOK
    <2>3. ASSUME NEW b \in Bot PROVE Settled(b, off, delay', halted')
      <3>1. spent = ready  BY <1>6 DEF spent
      <3>2. taken = ready  BY <1>6, <3>1 DEF taken
      <3>3. CASE b \in ready
        <4>1. delay'[b] = NoDelay /\ b \in halted'  BY <1>1, <3>1, <3>2, <3>3
        <4>2. QED  BY <4>1 DEF Settled, Asked
      <3>4. CASE b \notin ready
        <4>1. delay'[b] = Reconciled(b, off, dly, hlt)  BY <1>1, <3>2, <3>4
        <4>2. b \in halted' <=> b \in hlt  BY <1>1, <3>1, <3>4
        <4>3. Asked(b, off, halted') <=> Asked(b, off, hlt)  BY <4>2 DEF Asked
        <4>4. Asked(b, off, hlt) => delay'[b].mode = "waiting"  BY <3>4, <4>1 DEF ready, Actionable
        <4>5. QED  BY <4>1, <4>3, <4>4, ReconciledType DEF Settled
      <3>5. QED  BY <3>3, <3>4
    <2>4. QED  BY <1>1, <1>2, <1>4, <1>5, <2>1, <2>2, <2>3
  <1>7. CASE able # {}
    <2>1. next \in able /\ next \in Bot /\ next \notin spent  BY <1>2, <1>3, <1>7
    <2>2. Actionable(next, off, dly, hlt) /\ decisions'[next] < decisionLimit  BY <2>1 DEF able, ready
    <2>3. next \notin hlt /\ off[next] \in Category
      <3>1. off[next] \in Category \cup {"none"}  BY <2>1 DEF Offers
      <3>2. QED  BY <2>2, <3>1 DEF Actionable, Asked
    <2>4. ServedCategory(next, off, dly) \in Category
      <3>1. dly[next] \in Delay  BY <2>1
      <3>2. dly[next].mode = "expired" => dly[next].category \in Category  BY <3>1, Delays
      <3>3. QED  BY <2>3, <3>2 DEF ServedCategory
    <2>5. /\ pump' = "deciding"
          /\ ask' = [bot |-> next, category |-> ServedCategory(next, off, dly), moved |-> FALSE]
      BY <1>1, <1>7
    <2>6. ask'.bot = next /\ ask' \in [bot : Bot, category : Category, moved : BOOLEAN]
      BY <2>1, <2>4, <2>5
    <2>7. next \notin halted'  BY <1>1, <2>1, <2>3
    <2>8. QED  BY <1>1, <1>2, <1>4, <1>5, <2>2, <2>5, <2>6, <2>7
  <1>8. QED  BY <1>6, <1>7

(* What a wake leaves behind, whether it runs the loop or is remembered.   *)
LEMMA WakeLeaves ==
    ASSUME RunnerAssumption, IInv, NEW off \in Offers, NEW dly \in [Bot -> Delay],
           NEW moved \in BOOLEAN, SlowWaits(dly), UNCHANGED decisions, wake(off, dly, moved)
    PROVE  /\ delay' \in [Bot -> Delay] /\ halted' \in SUBSET Bot /\ woken' \in BOOLEAN
           /\ SlowWaits(delay')
           /\ ask' \in [bot : Bot, category : Category, moved : BOOLEAN]
           /\ pump' \in {"new", "idle", "deciding", "yielding", "returned"}
           /\ pump' = "deciding" => /\ ask'.bot \notin halted'
                                    /\ decisions'[ask'.bot] < decisionLimit
           /\ pump \in {"new", "idle"} /\ ~ stopped /\ pump' \in {"idle", "returned"} =>
                  \A b \in Bot : Settled(b, off, delay', halted')
           /\ ~ stopped /\ pump \notin {"new", "idle"} => woken'
  <1>1. TypeOK /\ AskedMayAnswer  BY DEF IInv
  <1>2. decisions' \in [Bot -> 0 .. decisionLimit] /\ halted \in SUBSET Bot  BY <1>1 DEF TypeOK
  <1>3. CASE ~ stopped /\ pump \in {"new", "idle"}
    <2>1. Loop(off, dly, halted)  BY <1>3 DEF wake
    <2>2. QED  BY <1>1, <1>2, <1>3, <2>1, LoopLeaves
  <1>4. CASE ~ (~ stopped /\ pump \in {"new", "idle"})
    <2>1. /\ woken' = (woken \/ ~ stopped)
          /\ delay' = dly
          /\ ask' = [ask EXCEPT !.moved = @ \/ moved]
          /\ UNCHANGED <<halted, pump>>
      BY <1>4 DEF wake
    <2>2. ask = [bot |-> ask.bot, category |-> ask.category, moved |-> ask.moved]
          /\ ask.bot \in Bot /\ ask.category \in Category /\ ask.moved \in BOOLEAN
      BY <1>1 DEF TypeOK
    <2>3. ask' = [bot |-> ask.bot, category |-> ask.category, moved |-> ask.moved \/ moved]
      BY <2>1, <2>2
    <2>4. ask'.bot = ask.bot /\ ask' \in [bot : Bot, category : Category, moved : BOOLEAN]
      BY <2>2, <2>3
    <2>5. woken' \in BOOLEAN  BY <2>1
    <2>6. QED  BY <1>1, <1>2, <1>4, <2>1, <2>4, <2>5 DEF TypeOK, AskedMayAnswer
  <1>5. QED  BY <1>3, <1>4

(* Called off, a table of waits has none of any kind.                      *)
LEMMA NoneLeft ==
    /\ [b \in Bot |-> NoDelay] \in [Bot -> Delay]
    /\ SlowWaits([b \in Bot |-> NoDelay])
  BY Delays DEF SlowWaits

LEMMA InitIInv == Init => IInv /\ AtRest
  <1> SUFFICES ASSUME Init PROVE IInv /\ AtRest  OBVIOUS
  <1>1. First(Bot) \in Bot  BY RunnerAssumption, FirstIn DEF RunnerAssumption
  <1>2. (CHOOSE c \in Category : TRUE) \in Category  BY RunnerAssumption DEF RunnerAssumption
  <1> DEFINE first == First(Bot)
             some == CHOOSE c \in Category : TRUE
  <1> HIDE DEF first, some
  <1>3. ask \in [bot : Bot, category : Category, moved : BOOLEAN]
    <2>1. ask \in [bot : {first}, category : {some}, moved : {FALSE}]  BY DEF Init, first, some
    <2>2. first \in Bot /\ some \in Category  BY <1>1, <1>2 DEF first, some
    <2>3. QED  BY <2>1, <2>2
  <1>4. decisions \in [Bot -> 0 .. decisionLimit]  BY RunnerAssumption DEF Init, RunnerAssumption
  <1>5. TypeOK
    <2>1. /\ offered \in Offers /\ over = FALSE /\ delay = [b \in Bot |-> NoDelay]
          /\ halted \subseteq Bot /\ pump = "new" /\ woken = FALSE /\ stopped = FALSE
      BY DEF Init
    <2>2. QED  BY <1>3, <1>4, <2>1, NoneLeft DEF TypeOK
  <1>6. QED  BY <1>5, NoneLeft DEF Init, IInv, AtRest, AskedMayAnswer, OverIsStopped

(* The counter of the seat that answered.                                  *)
LEMMA CountedType ==
    ASSUME RunnerAssumption, TypeOK, AskedMayAnswer, pump = "deciding", Counted
    PROVE  decisions' \in [Bot -> 0 .. decisionLimit]
  <1>1. ask.bot \in Bot /\ decisions[ask.bot] \in 0 .. decisionLimit  BY DEF TypeOK
  <1>2. decisions[ask.bot] + 1 \in 0 .. decisionLimit
    BY <1>1 DEF AskedMayAnswer, RunnerAssumption
  <1>3. QED  BY <1>2 DEF Counted, TypeOK

(* Every step keeps the invariant.                                         *)
LEMMA StepIInv == IInv /\ [Next]_vars => IInv'
  <1> SUFFICES ASSUME IInv, [Next]_vars PROVE IInv'  OBVIOUS
  <1>0. /\ RunnerAssumption /\ TypeOK /\ SlowWaits(delay) /\ AskedMayAnswer /\ OverIsStopped
    BY RunnerAssumption DEF IInv
  <1>1. CASE Start
    <2>1. offered \in Offers /\ delay \in [Bot -> Delay]  BY <1>0 DEF TypeOK
    <2>2. UNCHANGED <<decisions, offered, over, stopped>> /\ wake(offered, delay, FALSE)
      BY <1>1 DEF Start
    <2>3. pump = "new"  BY <1>1 DEF Start
    <2>4. over => delay' = [b \in Bot |-> NoDelay]
      BY <1>0, <2>2 DEF OverIsStopped, wake
    <2>5. QED
      BY <1>0, <2>1, <2>2, <2>4, WakeLeaves DEF IInv, TypeOK, AskedMayAnswer, OverIsStopped
  <1>2. CASE BoardMoves
    <2>1. ~ over /\ UNCHANGED decisions  BY <1>2 DEF BoardMoves
    <2>2. CASE over' = TRUE /\ offered' = NoOffer /\ stop /\ ask' = [ask EXCEPT !.moved = TRUE]
               /\ UNCHANGED <<halted, pump, woken>>
      <3>1. ask = [bot |-> ask.bot, category |-> ask.category, moved |-> ask.moved]
            /\ ask.bot \in Bot /\ ask.category \in Category
        BY <1>0 DEF TypeOK
      <3>2. ask' = [bot |-> ask.bot, category |-> ask.category, moved |-> TRUE]
        BY <2>2, <3>1
      <3>3. NoOffer \in Offers  BY DEF NoOffer, Offers
      <3>4. stopped' = TRUE /\ delay' = [b \in Bot |-> NoDelay]  BY <2>2 DEF stop
      <3>5. QED
        BY <1>0, <2>1, <2>2, <3>1, <3>2, <3>3, <3>4, NoneLeft
        DEF IInv, TypeOK, AskedMayAnswer, OverIsStopped
    <2>3. CASE over' = FALSE /\ offered' \in Offers /\ UNCHANGED stopped /\ wake(offered', delay, TRUE)
      <3>1. delay \in [Bot -> Delay]  BY <1>0 DEF TypeOK
      <3>2. QED
        BY <1>0, <2>1, <2>3, <3>1, WakeLeaves DEF IInv, TypeOK, AskedMayAnswer, OverIsStopped
    <2>4. QED  BY <1>2, <2>2, <2>3 DEF BoardMoves
  <1>3. CASE \E b \in Bot : Expire(b)
    <2>1. PICK b \in Bot : Expire(b)  BY <1>3
    <2>2. offered \in Offers /\ delay \in [Bot -> Delay]  BY <1>0 DEF TypeOK
    <2>3. delay[b].mode = "waiting" /\ delay[b] = Waiting(delay[b].category)
          /\ delay[b].category \in Category
      BY <2>1, <2>2, Delays DEF Expire
    <2> DEFINE dly == [delay EXCEPT ![b] = [mode |-> "expired", category |-> @.category]]
    <2>4. dly = [delay EXCEPT ![b] = [mode |-> "expired", category |-> delay[b].category]]
      OBVIOUS
    <2>5. [mode |-> "expired", category |-> delay[b].category] \in Delay  BY <2>3 DEF Delay
    <2>6. dly \in [Bot -> Delay] /\ SlowWaits(dly)
      BY <1>0, <2>2, <2>4, <2>5 DEF SlowWaits
    <2>7. UNCHANGED <<decisions, offered, over, stopped>> /\ wake(offered, dly, FALSE)
      BY <2>1 DEF Expire
    <2>8. ~ over
      BY <1>0, <2>3, Delays DEF OverIsStopped
    <2> HIDE DEF dly
    <2>9. QED
      BY <1>0, <2>2, <2>6, <2>7, <2>8, WakeLeaves DEF IInv, TypeOK, AskedMayAnswer, OverIsStopped
  <1>4. CASE FallbackThrows
    <2>1. CASE stopped
      BY <1>0, <1>4, <2>1 DEF FallbackThrows, IInv, TypeOK, AskedMayAnswer, OverIsStopped
    <2>2. CASE ~ stopped
      <3>1. Loop(offered, delay, halted \cup {ask.bot})
            /\ UNCHANGED <<offered, over, stopped, decisions>>
        BY <1>4, <2>2 DEF FallbackThrows, Halts
      <3>2. offered \in Offers /\ delay \in [Bot -> Delay] /\ halted \cup {ask.bot} \in SUBSET Bot
            /\ decisions' \in [Bot -> 0 .. decisionLimit]
        BY <1>0, <3>1 DEF TypeOK
      <3>3. QED
        BY <1>0, <2>2, <3>1, <3>2, LoopLeaves DEF IInv, TypeOK, AskedMayAnswer, OverIsStopped
    <2>3. QED  BY <2>1, <2>2
  <1>5. CASE Cancelled \/ StaleDecision \/ Throws \/ Finally
    <2>1. /\ UNCHANGED <<offered, over, delay, decisions, halted, ask, woken>>
          /\ pump' \in {"yielding", "returned", "idle"}
          /\ stopped' = stopped \/ stopped' = TRUE
      BY <1>5 DEF Cancelled, StaleDecision, Throws, Finally, seats
    <2>2. TypeOK'  BY <1>0, <2>1 DEF TypeOK
    <2>3. SlowWaits(delay') /\ AskedMayAnswer'  BY <1>0, <2>1 DEF AskedMayAnswer
    <2>4. OverIsStopped'
      <3>1. over' => over /\ delay' = [b \in Bot |-> NoDelay]  BY <1>0, <2>1 DEF OverIsStopped
      <3>2. over' => stopped
        BY <1>0, <3>1 DEF OverIsStopped
      <3>3. stopped => stopped'
        <4>1. CASE stopped' = stopped  BY <4>1
        <4>2. CASE stopped' = TRUE  BY <4>2
        <4>3. QED  BY <2>1, <4>1, <4>2
      <3>4. QED  BY <3>1, <3>2, <3>3 DEF OverIsStopped
    <2>5. QED  BY <2>2, <2>3, <2>4 DEF IInv
  <1>6. CASE Refused
    <2>1. pump = "deciding" /\ ~ stopped /\ Counted /\ UNCHANGED <<offered, over, stopped>>
          /\ Loop(offered, delay, halted \cup {ask.bot})
      BY <1>6 DEF Refused, Halts
    <2>2. offered \in Offers /\ delay \in [Bot -> Delay] /\ halted \cup {ask.bot} \in SUBSET Bot
      BY <1>0 DEF TypeOK
    <2>3. decisions' \in [Bot -> 0 .. decisionLimit]  BY <1>0, <2>1, CountedType
    <2>4. QED
      BY <1>0, <2>1, <2>2, <2>3, LoopLeaves DEF IInv, TypeOK, AskedMayAnswer, OverIsStopped
  <1>7. CASE Submit
    <2>1. /\ pump' = "yielding" /\ UNCHANGED <<halted, ask, woken>>
          /\ decisions' \in [Bot -> 0 .. decisionLimit]
      BY <1>0, <1>7, CountedType DEF Submit
    <2>2. /\ over' \in BOOLEAN /\ offered' \in Offers /\ stopped' \in BOOLEAN
          /\ delay' \in [Bot -> Delay] /\ SlowWaits(delay')
          /\ over' => stopped' /\ delay' = [b \in Bot |-> NoDelay]
      <3>1. CASE over' = TRUE /\ offered' = NoOffer /\ stop
        BY <3>1, NoneLeft DEF stop, NoOffer, Offers
      <3>2. CASE over' = FALSE /\ offered' \in Offers /\ UNCHANGED <<delay, stopped>>
        BY <1>0, <3>2 DEF TypeOK
      <3>3. QED  BY <1>7, <3>1, <3>2 DEF Submit
    <2>3. QED  BY <1>0, <2>1, <2>2 DEF IInv, TypeOK, AskedMayAnswer, OverIsStopped
  <1>8. CASE Yielded
    <2>1. CASE stopped
      BY <1>0, <1>8, <2>1 DEF Yielded, IInv, TypeOK, AskedMayAnswer, OverIsStopped
    <2>2. CASE ~ stopped
      <3>1. Loop(offered, delay, halted) /\ UNCHANGED <<offered, over, stopped, decisions>>
        BY <1>8, <2>2 DEF Yielded
      <3>2. offered \in Offers /\ delay \in [Bot -> Delay] /\ halted \in SUBSET Bot
            /\ decisions' \in [Bot -> 0 .. decisionLimit]
        BY <1>0, <3>1 DEF TypeOK
      <3>3. QED
        BY <1>0, <2>2, <3>1, <3>2, LoopLeaves DEF IInv, TypeOK, AskedMayAnswer, OverIsStopped
    <2>3. QED  BY <2>1, <2>2
  <1>9. CASE UNCHANGED vars
    BY <1>0, <1>9 DEF vars, seats, IInv, TypeOK, AskedMayAnswer, OverIsStopped
  <1>10. QED
    BY <1>1, <1>2, <1>3, <1>4, <1>5, <1>6, <1>7, <1>8, <1>9 DEF Next, Pump, Resume

(* ... and leaves every seat at rest that the pump left there, or the wake *)
(* that disturbed it is remembered.                                        *)
LEMMA StepAtRest == IInv /\ AtRest /\ [Next]_vars => AtRest'
  <1> SUFFICES ASSUME IInv, AtRest, [Next]_vars,
                      pump' \in {"idle", "returned"}, ~ stopped', ~ woken'
               PROVE  \A b \in Bot : Settled(b, offered', delay', halted')
    BY DEF AtRest
  <1>0. /\ RunnerAssumption /\ TypeOK /\ SlowWaits(delay) /\ AskedMayAnswer /\ OverIsStopped
        /\ offered \in Offers /\ delay \in [Bot -> Delay] /\ halted \in SUBSET Bot
    BY RunnerAssumption DEF IInv, TypeOK
  <1>1. CASE Start
    <2>1. pump = "new" /\ UNCHANGED <<decisions, offered, over, stopped>>
          /\ wake(offered, delay, FALSE)
      BY <1>1 DEF Start
    <2>2. QED  BY <1>0, <2>1, WakeLeaves
  <1>2. CASE BoardMoves
    <2>1. /\ UNCHANGED decisions /\ offered' \in Offers /\ UNCHANGED stopped
          /\ wake(offered', delay, TRUE)
      BY <1>2 DEF BoardMoves, stop
    <2>2. QED  BY <1>0, <2>1, WakeLeaves
  <1>3. CASE \E b \in Bot : Expire(b)
    <2>1. PICK b \in Bot : Expire(b)  BY <1>3
    <2>2. delay[b].mode = "waiting" /\ delay[b] = Waiting(delay[b].category)
          /\ delay[b].category \in Category
      BY <1>0, <2>1, Delays DEF Expire
    <2> DEFINE dly == [delay EXCEPT ![b] = [mode |-> "expired", category |-> @.category]]
    <2>3. dly = [delay EXCEPT ![b] = [mode |-> "expired", category |-> delay[b].category]]
      OBVIOUS
    <2>4. [mode |-> "expired", category |-> delay[b].category] \in Delay  BY <2>2 DEF Delay
    <2>5. dly \in [Bot -> Delay] /\ SlowWaits(dly)
      BY <1>0, <2>3, <2>4 DEF SlowWaits
    <2>6. UNCHANGED <<decisions, offered, stopped>> /\ wake(offered, dly, FALSE)
      BY <2>1 DEF Expire
    <2> HIDE DEF dly
    <2>7. QED  BY <1>0, <2>5, <2>6, WakeLeaves
  <1>4. CASE FallbackThrows \/ Refused
    <2>1. Loop(offered, delay, halted \cup {ask.bot}) /\ UNCHANGED offered
      BY <1>4 DEF FallbackThrows, Refused, Halts
    <2>2. halted \cup {ask.bot} \in SUBSET Bot  BY <1>0 DEF TypeOK
    <2>3. decisions' \in [Bot -> 0 .. decisionLimit]
      BY <1>0, <1>4, CountedType DEF FallbackThrows, Refused, TypeOK
    <2>4. QED  BY <1>0, <2>1, <2>2, <2>3, LoopLeaves
  <1>5. CASE Cancelled \/ StaleDecision \/ Throws \/ Submit
    BY <1>5 DEF Cancelled, StaleDecision, Throws, Submit
  <1>6. CASE Finally
    BY <1>6 DEF Finally, AtRest, seats
  <1>7. CASE Yielded
    <2>1. Loop(offered, delay, halted) /\ UNCHANGED <<offered, decisions>>
      BY <1>7 DEF Yielded
    <2>2. decisions' \in [Bot -> 0 .. decisionLimit]  BY <1>0, <2>1 DEF TypeOK
    <2>3. QED  BY <1>0, <2>1, <2>2, LoopLeaves
  <1>8. CASE UNCHANGED vars
    BY <1>8 DEF vars, seats, AtRest
  <1>9. QED
    BY <1>1, <1>2, <1>3, <1>4, <1>5, <1>6, <1>7, <1>8 DEF Next, Pump, Resume

(* THEOREM: the waits, counters and the pump keep their types: no seat is  *)
(* ever asked past its decision ceiling (bot-runner.ts #pump).             *)
THEOREM TypeCorrect == Spec => []TypeOK
  <1>1. Init => IInv  BY InitIInv
  <1>2. IInv => TypeOK  BY DEF IInv
  <1>3. QED  BY <1>1, <1>2, StepIInv, PTL DEF Spec

(* The pump never comes to rest on a seat that is owed a decision and whose*)
(* wait is not running, unless a wake was heard between its return and its *)
(* `.finally`, and then that wake is still on record (#pump, wake).        *)
THEOREM OwedWaiting == Spec => []OwedIsWaiting
  <1>1. Init => IInv /\ AtRest  BY InitIInv
  <1>2. IInv /\ AtRest /\ [Next]_vars => IInv' /\ AtRest'  BY StepIInv, StepAtRest
  <1>3. ASSUME AtRest, pump = "idle", ~ WakeLost, NEW b \in Bot, Owed(b) PROVE delay[b].mode = "waiting"
    <2>1. Settled(b, offered, delay, halted) /\ Asked(b, offered, halted)
      BY <1>3 DEF AtRest, Owed, WakeLost
    <2>2. QED  BY <2>1 DEF Settled, Waiting
  <1>4. IInv /\ AtRest => OwedIsWaiting  BY <1>3 DEF OwedIsWaiting
  <1>5. QED  BY <1>1, <1>2, <1>4, PTL DEF Spec

(* ... and a wait that is running at rest is for the decision now offered, *)
(* under its own budget, and none runs once the match is over              *)
(* (#nextActionable, #cancelAllDelays).                                    *)
THEOREM WaitsOwed == Spec => []WaitsAreOwed
  <1>1. Init => IInv /\ AtRest  BY InitIInv
  <1>2. IInv /\ AtRest /\ [Next]_vars => IInv' /\ AtRest'  BY StepIInv, StepAtRest
  <1>3. ASSUME IInv, AtRest, NEW b \in Bot, delay[b].mode = "waiting"
        PROVE  /\ ~ over
               /\ pump = "idle" /\ ~ stopped /\ ~ WakeLost =>
                      delay[b].category = offered[b] /\ <<b, offered[b]>> \in Slow
    <2>1. ~ over  BY <1>3, Delays DEF IInv, OverIsStopped
    <2>2. ASSUME pump = "idle", ~ stopped, ~ WakeLost
          PROVE  delay[b].category = offered[b] /\ <<b, offered[b]>> \in Slow
      <3>1. Settled(b, offered, delay, halted)  BY <1>3, <2>2 DEF AtRest, WakeLost
      <3>2. delay[b] # NoDelay  BY <1>3, Delays
      <3>3. QED  BY <3>1, <3>2 DEF Settled, Waiting
    <2>3. QED  BY <2>1, <2>2
  <1>4. IInv /\ AtRest => WaitsAreOwed  BY <1>3 DEF WaitsAreOwed
  <1>5. QED  BY <1>1, <1>2, <1>4, PTL DEF Spec

(* A step that counts a decision is the answer of the seat that was asked. *)
LEMMA OnlyAskedDecides ==
    ASSUME IInv, [Next]_vars, decisions' # decisions
    PROVE  ~ stopped /\ ~ ask.moved /\ pump = "deciding" /\ Counted
  BY DEF Next, Pump, Resume, Start, BoardMoves, Expire, FallbackThrows, Halts, Cancelled,
         StaleDecision, Refused, Submit, Yielded, Throws, Finally, vars, seats

(* A seat that was halted, and every seat of a stopped runner, submits     *)
(* nothing more (#pump, #halt, stop).                                      *)
THEOREM Silent == Spec => SilentWhenDone
  <1>1. Init => IInv  BY InitIInv
  <1>2. ASSUME IInv, [Next]_vars, NEW b \in Bot, stopped \/ b \in halted
        PROVE  decisions'[b] = decisions[b]
    <2>1. CASE decisions' = decisions  BY <2>1
    <2>2. CASE decisions' # decisions
      <3>1. ~ stopped /\ pump = "deciding" /\ Counted  BY <1>2, <2>2, OnlyAskedDecides
      <3>2. b # ask.bot  BY <1>2, <3>1 DEF IInv, AskedMayAnswer
      <3>3. QED  BY <1>2, <3>1, <3>2 DEF Counted, IInv, TypeOK
    <2>3. QED  BY <2>1, <2>2
  <1>3. IInv /\ [Next]_vars =>
            [\A b \in Bot : stopped \/ b \in halted => decisions'[b] = decisions[b]]_vars
    BY <1>2
  <1>4. QED  BY <1>1, <1>3, StepIInv, PTL DEF Spec, SilentWhenDone

(* No decision is counted for a board that moved after it was asked for    *)
(* (#pump: the version compared after the await).                          *)
THEOREM SeenBoard == Spec => ActsOnSeenBoard
  <1>1. Init => IInv  BY InitIInv
  <1>2. IInv /\ [Next]_vars => [decisions' # decisions => ~ ask.moved]_vars
    BY OnlyAskedDecides
  <1>3. QED  BY <1>1, <1>2, StepIInv, PTL DEF Spec, ActsOnSeenBoard

=============================================================================
