------------------------------ MODULE BotRunner ------------------------------
(* The live bot runner of one match (bot-runner.ts): one pump for every    *)
(* bot seat, which scans the board, keeps each seat's pacing wait, asks a  *)
(* pilot, and submits what it answers if the board has not moved.          *)
(*                                                                         *)
(* The pump runs from one await to the next without interruption, so it is *)
(* one action per await; between them the board moves under it, waits run  *)
(* out and the match ends.  After its last scan there is one more gap:     *)
(* `wake` learns that the pump returned only a few microtasks later.  A    *)
(* message may fall into that gap, since the ws server hands over all the  *)
(* messages of one chunk in one tick; a timer has a tick of its own.       *)
EXTENDS Integers, FiniteSets

CONSTANTS
    Bot,                 \* the bot seats, numbered in seat order
    Category,            \* BotDecisionCategory
    Slow,                \* the <<seat, category>> pairs whose delay is not 0
    decisionLimit        \* BotRunnerOptions.decisionLimit

ASSUME RunnerAssumption ==
    /\ Bot \subseteq Nat /\ Bot # {}
    /\ Category # {} /\ "none" \notin Category
    /\ Slow \subseteq Bot \X Category
    /\ decisionLimit \in Nat

VARIABLES
    offered,             \* the category of the decision the engine offers each
                         \* seat, "none" where hasBotDecision is false
    over,                \* the match is complete
    delay,               \* BotSeatRuntime.delay
    decisions,           \* BotSeatRuntime.decisions
    halted,              \* the seats whose `halted` is set
    pump,                \* where #pump is; "idle" when #running is false
    ask,                 \* the decision being made
    woken,               \* #woken
    stopped              \* #stopped

seats == <<delay, decisions, halted>>
vars == <<offered, over, seats, pump, ask, woken, stopped>>

NoDelay == [mode |-> "none", category |-> "none"]
Waiting(cat) == [mode |-> "waiting", category |-> cat]
Delay == {NoDelay} \cup [mode : {"waiting", "expired"}, category : Category]

Offers == [Bot -> Category \cup {"none"}]
NoOffer == [b \in Bot |-> "none"]

TypeOK ==
    /\ offered \in Offers
    /\ over \in BOOLEAN
    /\ delay \in [Bot -> Delay]
    /\ decisions \in [Bot -> 0 .. decisionLimit]
    /\ halted \subseteq Bot
    /\ pump \in {"new", "idle", "deciding", "yielding", "returned"}
    /\ ask \in [bot : Bot, category : Category, moved : BOOLEAN]
    /\ woken \in BOOLEAN /\ stopped \in BOOLEAN

-----------------------------------------------------------------------------
(* The scan: #nextActionable, of a board that offers `off`, over waits     *)
(* `dly` and the seats `hlt` that are no longer asked.                     *)

(* Is the seat asked at all?  A seat that is out is offered nothing.       *)
Asked(b, off, hlt) == b \notin hlt /\ off[b] # "none"

(* Mutant: a wait is kept whatever it was for.                             *)
MutWrongWait(b, off, dly) == FALSE

(* A wait for another budget is for the wrong number.                      *)
WrongWait(b, off, dly) == dly[b].mode = "waiting" /\ dly[b].category # off[b]

(* The wait of b after the scan.                                           *)
Reconciled(b, off, dly, hlt) ==
    IF ~ Asked(b, off, hlt) THEN NoDelay
    ELSE IF dly[b] # NoDelay /\ ~ WrongWait(b, off, dly) THEN dly[b]
    ELSE IF <<b, off[b]>> \in Slow THEN Waiting(off[b])
    ELSE NoDelay

(* May b act right now?                                                    *)
Actionable(b, off, dly, hlt) ==
    /\ Asked(b, off, hlt)
    /\ Reconciled(b, off, dly, hlt).mode # "waiting"

(* The category the answer is counted under: that of the wait that was     *)
(* served, or of the offer where there was none.                           *)
ServedCategory(b, off, dly) == IF dly[b].mode = "expired" THEN dly[b].category ELSE off[b]

First(S) == CHOOSE b \in S : \A c \in S : b <= c

(* The loop of #pump from the top of an iteration to its next await: scan, *)
(* halt the seats found at their ceiling, and ask the first that may act.  *)
Loop(off, dly, hlt) ==
    LET ready == {b \in Bot : Actionable(b, off, dly, hlt)}
        able == {b \in ready : decisions'[b] < decisionLimit}
        next == First(able)
        spent == {b \in ready \ able : able # {} => b < next}
        taken == spent \cup (IF able = {} THEN {} ELSE {next})
    IN  /\ woken' = FALSE
        /\ halted' = hlt \cup spent
        /\ delay' = [b \in Bot |-> IF b \in taken THEN NoDelay
                                   ELSE Reconciled(b, off, dly, hlt)]
        /\ IF able = {}
           THEN pump' = "returned" /\ ask' = [ask EXCEPT !.moved = FALSE]
           ELSE /\ pump' = "deciding"
                /\ ask' = [bot |-> next, category |-> ServedCategory(next, off, dly),
                           moved |-> FALSE]

(* wake, with the waits `dly` and the offers `off` of this moment; a       *)
(* decision being made is overtaken if the board `moved`.                  *)
wake(off, dly, moved) ==
    IF ~ stopped /\ pump \in {"new", "idle"}
    THEN Loop(off, dly, halted)
    ELSE /\ woken' = (woken \/ ~ stopped)
         /\ delay' = dly
         /\ ask' = [ask EXCEPT !.moved = @ \/ moved]
         /\ UNCHANGED <<halted, pump>>

(* stop: no further work, and no wait left counting.                       *)
stop == stopped' = TRUE /\ delay' = [b \in Bot |-> NoDelay]

-----------------------------------------------------------------------------
Init ==
    /\ offered \in Offers
    /\ over = FALSE
    /\ delay = [b \in Bot |-> NoDelay]
    /\ decisions = [b \in Bot |-> 0]
    /\ halted \in SUBSET Bot                      \* pilot_unavailable
    /\ pump = "new"
    /\ ask \in [bot : {First(Bot)}, category : {CHOOSE c \in Category : TRUE}, moved : {FALSE}]
    /\ woken = FALSE /\ stopped = FALSE

(* startMatch: the first opportunity of the match.                         *)
Start ==
    /\ pump = "new"
    /\ UNCHANGED <<decisions, offered, over, stopped>>
    /\ wake(offered, delay, FALSE)

(* A person acts, leaves or is timed out: the board moves, and the bots    *)
(* are woken, or stopped by the end of the match.                          *)
BoardMoves ==
    /\ pump # "new" /\ ~ over
    /\ UNCHANGED decisions
    /\ \/ /\ over' = TRUE /\ offered' = NoOffer
          /\ stop
          /\ ask' = [ask EXCEPT !.moved = TRUE]
          /\ UNCHANGED <<halted, pump, woken>>
       \/ /\ over' = FALSE /\ offered' \in Offers
          /\ UNCHANGED stopped
          /\ wake(offered', delay, TRUE)

(* Mutant: the timer only marks the wait.                                  *)
MutExpire(b) ==
    /\ pump # "returned" /\ delay[b].mode = "waiting"
    /\ delay' = [delay EXCEPT ![b].mode = "expired"]
    /\ UNCHANGED <<offered, over, decisions, halted, pump, ask, woken, stopped>>

(* The timer of b's wait: a macrotask of its own.                          *)
Expire(b) ==
    /\ pump # "returned" /\ delay[b].mode = "waiting"
    /\ UNCHANGED <<decisions, offered, over, stopped>>
    /\ wake(offered, [delay EXCEPT ![b] = [mode |-> "expired", category |-> @.category]], FALSE)

-----------------------------------------------------------------------------
(* #pump, resumed after `await decideSafely`.                              *)

Counted == decisions' = [decisions EXCEPT ![ask.bot] = @ + 1]

(* The seat is not asked again, and the loop goes on.                      *)
Halts ==
    /\ UNCHANGED <<offered, over, stopped>>
    /\ Loop(offered, delay, halted \cup {ask.bot})

(* Even the substituted pilot threw.                                       *)
FallbackThrows ==
    /\ pump = "deciding"
    /\ UNCHANGED decisions
    /\ IF stopped
       THEN /\ pump' = "returned" /\ halted' = halted \cup {ask.bot}
            /\ UNCHANGED <<offered, over, stopped, delay, woken, ask>>
       ELSE Halts

Cancelled ==
    /\ pump = "deciding" /\ stopped
    /\ pump' = "returned"
    /\ UNCHANGED <<offered, over, seats, ask, woken, stopped>>

StaleDecision ==
    /\ pump = "deciding" /\ ~ stopped /\ ask.moved
    /\ pump' = "yielding"
    /\ UNCHANGED <<offered, over, seats, ask, woken, stopped>>

(* forbidden_action, engine_rejected or duplicate_action.                  *)
Refused ==
    /\ pump = "deciding" /\ ~ stopped /\ ~ ask.moved
    /\ Counted
    /\ Halts

(* The engine takes the action; it may end the match, which stops the      *)
(* runner from inside its own submission.                                  *)
Submit ==
    /\ pump = "deciding" /\ ~ stopped /\ ~ ask.moved
    /\ Counted
    /\ pump' = "yielding"
    /\ \/ over' = TRUE /\ offered' = NoOffer /\ stop
       \/ over' = FALSE /\ offered' \in Offers /\ UNCHANGED <<delay, stopped>>
    /\ UNCHANGED <<halted, ask, woken>>

(* The yield between decisions is over.                                    *)
Yielded ==
    /\ pump = "yielding"
    /\ UNCHANGED <<decisions, offered, over, stopped>>
    /\ IF stopped
       THEN pump' = "returned" /\ UNCHANGED <<delay, halted, ask, woken>>
       ELSE Loop(offered, delay, halted)

(* Anything the pump calls throws: the runner stops, its waits stay.       *)
Throws ==
    /\ pump \in {"deciding", "yielding"}
    /\ pump' = "returned"
    /\ stopped' = TRUE
    /\ UNCHANGED <<offered, over, seats, ask, woken>>

(* The pump's promise settles: #running is false.                          *)
Finally ==
    /\ pump = "returned"
    /\ pump' = "idle"
    /\ UNCHANGED <<offered, over, seats, ask, woken, stopped>>

Resume == FallbackThrows \/ Cancelled \/ StaleDecision \/ Refused \/ Submit
Pump == Resume \/ Yielded \/ Throws \/ Finally

Next == Start \/ BoardMoves \/ (\E b \in Bot : Expire(b)) \/ Pump

Spec == Init /\ [][Next]_vars

(* A pilot answers, microtasks and macrotasks run, timers fire.            *)
Fairness == WF_vars(Start) /\ WF_vars(Pump) /\ \A b \in Bot : WF_vars(Expire(b))

LiveSpec == Spec /\ Fairness

-----------------------------------------------------------------------------
(* Properties.                                                             *)

Owed(b) == ~ stopped /\ Asked(b, offered, halted)

(* A wake was heard by a pump that had already returned, and nothing has   *)
(* scanned the board since.                                                *)
WakeLost == pump = "idle" /\ woken

(* wake: when the pump is at rest, every seat that is owed a decision has  *)
(* its wait running, unless the last wake was lost.                        *)
OwedIsWaiting ==
    pump = "idle" /\ ~ WakeLost => \A b \in Bot : Owed(b) => delay[b].mode = "waiting"

(* #nextActionable, #cancelAllDelays: at rest, a wait that is running is   *)
(* for the decision now offered, under its own budget, unless the last     *)
(* wake was lost; and once the match is over nothing counts down towards   *)
(* it.                                                                     *)
WaitsAreOwed ==
    \A b \in Bot : delay[b].mode = "waiting" =>
        /\ ~ over
        /\ pump = "idle" /\ ~ stopped /\ ~ WakeLost =>
               delay[b].category = offered[b] /\ <<b, offered[b]>> \in Slow

(* wake: "every newly eligible decision is scheduled exactly once", without*)
(* an exception.                                                           *)
EligibleIsScheduled ==
    pump = "idle" => \A b \in Bot : Owed(b) => delay[b].mode = "waiting"

(* #pump: a seat that was halted, and every seat of a stopped runner,      *)
(* submits nothing more.                                                   *)
SilentWhenDone ==
    [][\A b \in Bot : stopped \/ b \in halted => decisions'[b] = decisions[b]]_vars

(* #pump: an answer to the previous board is never an answer to this one.  *)
ActsOnSeenBoard == [][decisions' # decisions => ~ ask.moved]_vars

(* A seat that is owed a decision makes it, loses it, is no longer asked or*)
(* has its wake lost ...                                                   *)
AnsweredOrLost ==
    \A b \in Bot : \A n \in 0 .. decisionLimit :
        (Owed(b) /\ decisions[b] = n) ~> ~ (Owed(b) /\ decisions[b] = n) \/ WakeLost

(* ... once the others pause, however often they have moved before.        *)
OwedIsAnswered == <>[][~ BoardMoves]_vars => AnsweredOrLost

(* committedByCategory: "the category of the opportunity this decision     *)
(* answered".                                                              *)
CategoryIsAnswered ==
    pump = "deciding" /\ ~ ask.moved => ask.category = offered[ask.bot]

=============================================================================
