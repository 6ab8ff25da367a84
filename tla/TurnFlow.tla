------------------------------ MODULE TurnFlow ------------------------------
(* The turn and phase machine of the rules engine: applyAction and the     *)
(* handlers that move the match, advance, the effect queue, the bounded    *)
(* Reaction windows, combat's waiting defenders and the elimination of     *)
(* seats.                                                                  *)
(*                                                                         *)
(* applyAction is one synchronous call.  It is split here into the handler *)
(* (a player action, taken at rest) and the turns of the loop in advance   *)
(* and pumpQueue (engine steps, taken while `running`); no player acts     *)
(* between them.  Cards are abstracted to what they can do to the flow: an *)
(* effect may cost seats the match, ask a seat, counter a pending card, set*)
(* off triggers, or none of these.  Seats are numbered clockwise from the  *)
(* starting one.                                                           *)
EXTENDS Naturals, Sequences, FiniteSets

CONSTANTS
    N,                   \* seats dealt in, 2 to 4
    MaxQueue,            \* bound: items waiting in the queue
    MaxEffects,          \* bound: effects of one item
    maxResolutionSteps   \* config.maxResolutionSteps

ASSUME FlowAssumption ==
    /\ N \in Nat /\ N >= 2
    /\ MaxQueue \in Nat \ {0} /\ MaxEffects \in Nat \ {0}
    /\ maxResolutionSteps \in Nat

VARIABLES
    status, phase,       \* state.status, state.phase
    active,              \* activePlayerId
    out,                 \* the seats that lost and were cleaned up
    mulligan,            \* players[s].mulligan.status
    progress,            \* how far the turn's own bookkeeping has come
    choice,              \* pendingChoice
    queue,               \* the resolution queue, a FIFO of items
    attacked,            \* combat.attacks, as the seats attacked
    awaitingDefenders,   \* combat.awaitingDefenders
    window,              \* reactionWindow
    running,             \* inside applyAction, between two turns of a loop
    steps                \* stepsSinceInput

combat == <<attacked, awaitingDefenders>>
vars == <<status, phase, active, out, mulligan, progress, choice, queue, attacked,
          awaitingDefenders, window, running, steps>>

Seat == 1 .. N
NoSeat == 0
Living == Seat \ out
MAIN_PHASES == {"main_1", "main_2"}
Phase == {"mulligan", "turn_start", "draw", "declare_attackers", "assign_blockers",
          "resolve_combat", "reaction_window", "turn_end", "complete"} \cup MAIN_PHASES

Item == [owner : Seat, left : 0 .. MaxEffects, asked : SUBSET Seat]
Entry == [owner : Seat, countered : BOOLEAN]

(* player: who is asked.  owner: whose effect asks.  target: the seat a    *)
(* paid action depends on (the only targets or the payment are its cards). *)
Choice == [kind : {"none", "discard", "ready", "cost", "effect"},
           player : Seat \cup {NoSeat}, owner : Seat \cup {NoSeat},
           target : Seat \cup {NoSeat}]
Ask(kind, s, owner, target) == [kind |-> kind, player |-> s, owner |-> owner, target |-> target]
NoChoice == Ask("none", NoSeat, NoSeat, NoSeat)

(* answered: who passed, or played the one Reaction a window allows.       *)
(* armed: who holds a Reaction that the window admits.                     *)
Window == [mode : {"none", "open", "closed"}, order : Seq(Seat), index : Nat,
           answered : SUBSET Seat, armed : SUBSET Seat, pending : Seq(Entry),
           resume : Phase]
NoWindow == [mode |-> "none", order |-> <<>>, index |-> 0, answered |-> {}, armed |-> {},
             pending |-> <<>>, resume |-> "complete"]

TypeOK ==
    /\ status \in {"mulligan", "playing", "waiting_for_choice", "complete"}
    /\ phase \in Phase
    /\ active \in Seat
    /\ out \subseteq Seat
    /\ mulligan \in [Seat -> {"pending", "submitted", "resolved"}]
    /\ progress \in {"starting", "started", "discarded"}
    /\ choice \in Choice
    /\ queue \in Seq(Item)
    /\ attacked \subseteq Seat /\ awaitingDefenders \subseteq Seat
    /\ window \in Window
    /\ window.mode # "none" => window.index < Len(window.order)
    /\ running \in BOOLEAN
    /\ steps \in 0 .. maxResolutionSteps

(* The seats of an order.                                                  *)
Members(order) == {order[i] : i \in DOMAIN order}

(* What is left of a sequence at the places I, in its order.               *)
Keeping(seq, I) ==
    LET Place(k) == CHOOSE i \in I : Cardinality({j \in I : j <= i}) = k
    IN  [k \in 1 .. Cardinality(I) |-> seq[Place(k)]]

-----------------------------------------------------------------------------
(* derive.ts: the circle of seats.                                         *)

Clockwise(s, k) == ((s - 1 + k) % N) + 1

(* Mutant: whoever sits next.                                              *)
MutNextSeat(s, gone) == Clockwise(s, 1)

(* The next seat after s that is not gone, s itself if it is the last.     *)
nextLivingPlayer(s, gone) ==
    LET k == CHOOSE k \in 1 .. N :
                 /\ Clockwise(s, k) \notin gone
                 /\ \A j \in 1 .. (k - 1) : Clockwise(s, j) \in gone
    IN  Clockwise(s, k)

activeFirstOrder(gone) ==
    LET circle == [k \in 1 .. N |-> Clockwise(active, k - 1)]
    IN  Keeping(circle, {k \in 1 .. N : circle[k] \notin gone})

-----------------------------------------------------------------------------
(* reactions.ts: the one round of priority.                                *)

Offer(w, i) == w.order[(i % Len(w.order)) + 1]
canAct(w, s) == s \notin w.answered /\ s \in w.armed

closeWindow(w) == [w EXCEPT !.mode = "closed", !.armed = {}]

(* From the seat at the index on, the next one that can act; else close.   *)
advancePriority(w) ==
    LET able == {k \in 0 .. (Len(w.order) - 1) : canAct(w, Offer(w, w.index + k))}
    IN  IF able = {} THEN closeWindow(w)
        ELSE LET step == CHOOSE k \in able : \A j \in able : k <= j
             IN  [w EXCEPT !.index = (@ + step) % Len(w.order)]

(* The seat that holds priority, where one does.                           *)
reactionPriorityHolder == window.order[window.index + 1]

(* The windows openReactionWindow can leave when nobody of `gone` plays on:*)
(* none is opened unless some seat could use it.                           *)
draftWindow(armed, subject, resume, gone) ==
    [mode |-> "open", order |-> activeFirstOrder(gone), index |-> 0, answered |-> {},
     armed |-> armed, pending |-> subject, resume |-> resume]
openReactionWindow(subject, resume, gone) ==
    IF window.mode # "none" THEN {}
    ELSE {advancePriority(draftWindow(armed, subject, resume, gone)) :
             armed \in (SUBSET (Seat \ gone)) \ {{}}}

(* What of a sequence of items, or of pending cards, is not of the seats S.*)
NotOwnedBy(seq, S) == Keeping(seq, {i \in DOMAIN seq : seq[i].owner \notin S})

Without(w, S) ==
    LET order == Keeping(w.order, {i \in DOMAIN w.order : w.order[i] \notin S})
    IN  [w EXCEPT !.order = order, !.answered = @ \ S,
                  !.pending = NotOwnedBy(@, S),
                  !.index = IF @ >= Len(order) THEN 0 ELSE @]

(* Mutant: priority is left where it was.                                  *)
MutKeepsPriority(w, S) ==
    IF w.mode = "none" \/ S = {} THEN {w}
    ELSE LET v == Without(w, S)
         IN  IF v.order = <<>> THEN {NoWindow}
             ELSE IF v.mode = "closed" THEN {v}
             ELSE {[v EXCEPT !.armed = armed] : armed \in SUBSET Members(v.order)}

(* The windows w may become when the seats S drop out of it.  Cards leave  *)
(* with them, so who can still answer is open.                             *)
removeFromReactionWindow(w, S) ==
    IF w.mode = "none" \/ S = {} THEN {w}
    ELSE LET v == Without(w, S)
         IN  IF v.order = <<>> THEN {NoWindow}
             ELSE IF v.mode = "closed" THEN {v}
             ELSE {advancePriority([v EXCEPT !.armed = armed]) : armed \in SUBSET Members(v.order)}

(* What an effect may do to a window: counter the topmost card still       *)
(* waiting (counterTarget), and change who holds what.                     *)
counterTarget(w) ==
    {i \in DOMAIN w.pending : /\ ~ w.pending[i].countered
                             /\ \A j \in DOMAIN w.pending : j > i => w.pending[j].countered}
Countered(w) == {[w EXCEPT !.pending[i].countered = TRUE] : i \in counterTarget(w)}
Rearmed(w) ==
    IF w.mode = "open" THEN {[w EXCEPT !.armed = armed] : armed \in SUBSET Members(w.order)}
    ELSE {w}
Touched(w) == UNION {Rearmed(v) : v \in {w} \cup Countered(w)}

-----------------------------------------------------------------------------
(* queue.ts and state-based.ts.                                            *)

NewItem(s, n) == [owner |-> s, left |-> n, asked |-> {}]

(* collectTriggers: what a settled step adds to the queue q - abilities of *)
(* seats still in the match, set off by units (deployed, attacking,        *)
(* blocking, defeated, surviving) or by a turn starting or ending.         *)
Noticed(q, gone) ==
    {q} \cup IF Len(q) >= MaxQueue THEN {}
             ELSE {Append(q, NewItem(s, n)) : s \in Seat \ gone, n \in 1 .. MaxEffects}

Over(gone) == Cardinality(Seat \ gone) <= 1

(* Control goes back to whoever sent the action: the loop safeguard counts *)
(* from zero again at the next one.                                        *)
Yield == running' = FALSE /\ steps' = 0
Continue == running' = TRUE /\ UNCHANGED steps

finishMatch ==
    /\ status' = "complete" /\ phase' = "complete"
    /\ queue' = <<>> /\ choice' = NoChoice
    /\ Yield

CancelChoice(S) ==
    IF choice.player \in S
    THEN /\ choice' = NoChoice
         /\ status' = IF status = "waiting_for_choice" THEN "playing" ELSE status
    ELSE UNCHANGED <<choice, status>>

(* Mutant: only items that have not begun are dropped.                     *)
MutCancelsWaiting(q, S) ==
    Keeping(q, {i \in DOMAIN q : q[i].owner \notin S \/ q[i].asked # {}})

cancelWorkOwnedBy(q, S) == NotOwnedBy(q, S)

(* settle, where the seats S have just lost and the queue is q: their work *)
(* goes, and what happened sets off abilities of those left.               *)
settled(q, S) == Noticed(cancelWorkOwnedBy(q, S), out \cup S)

(* runStateBasedChecks when the seats S have just lost: eliminations leave *)
(* one of `queues` and one of `windows`, then the match ends if at most one*)
(* seat is left, or goes on in phase ph, the loop at step n.  A choice     *)
(* still pending keeps the loop from going on.                             *)
runStateBasedChecks(S, queues, ph, windows, n) ==
    /\ out' = out \cup S
    /\ awaitingDefenders' = awaitingDefenders \ S
    /\ attacked' = attacked \ S
    /\ window' \in windows
    /\ IF S # {} /\ Over(out') THEN finishMatch
       ELSE /\ CancelChoice(S)
            /\ queue' \in queues
            /\ phase' = ph
            /\ IF choice' = NoChoice THEN running' = TRUE /\ steps' = n ELSE Yield

-----------------------------------------------------------------------------
(* flow.ts: the start of a turn.                                           *)

Init ==
    /\ status = "mulligan" /\ phase = "mulligan"
    /\ active = 1
    /\ out = {}
    /\ mulligan = [s \in Seat |-> "pending"]
    /\ progress = "starting"
    /\ choice = NoChoice
    /\ queue = <<>>
    /\ attacked = {} /\ awaitingDefenders = {}
    /\ window = NoWindow
    /\ running = FALSE /\ steps = 0

(* The Ready Step, from its start or from an answer on: it asks a seat     *)
(* whether to keep something exhausted, or finishes and the turn starts.   *)
runReadyStep(st, mayAsk) ==
    /\ queue' \in Noticed(queue, out)
    /\ \/ /\ progress' = "started"
          /\ choice' = NoChoice /\ status' = st
          /\ Continue
       \/ /\ mayAsk
          /\ progress' = "starting"
          /\ \E s \in Living : choice' = Ask("ready", s, NoSeat, NoSeat)
          /\ status' = "waiting_for_choice"
          /\ Yield

beginTurn(s, st, mayAsk) ==
    /\ active' = s
    /\ phase' = "turn_start"
    /\ attacked' = {} /\ awaitingDefenders' = {}
    /\ runReadyStep(st, mayAsk)

-----------------------------------------------------------------------------
(* engine.ts: who may act, and how.                                        *)

(* applyAction and dispatch: the engine is not in another action, the match*)
(* is on, the seat is in it, and nobody is being asked anything.           *)
AtRest == ~ running /\ status # "complete"
MaySpeak(s) == AtRest /\ s \notin out
MayAct(s) == MaySpeak(s) /\ choice = NoChoice

MayMulligan(s) == MayAct(s) /\ status = "mulligan" /\ mulligan[s] = "pending"
requireMainPhase(s) == MayAct(s) /\ active = s /\ phase \in MAIN_PHASES /\ queue = <<>>
MayPass(s) == MayAct(s) /\ active = s /\ phase \in MAIN_PHASES
MayAttack(s) == MayAct(s) /\ active = s /\ phase = "declare_attackers"

(* Mutant: an attacked seat may answer again.                              *)
MutMayBlock(s) == MayAct(s) /\ phase = "assign_blockers" /\ s \in attacked
MayBlock(s) == MayAct(s) /\ phase = "assign_blockers" /\ s \in awaitingDefenders
MayReact(s) == MayAct(s) /\ window.mode = "open" /\ reactionPriorityHolder = s

(* An answer is taken unless what it pays for can no longer be done.       *)
MayChoose(s) == MaySpeak(s) /\ choice.player = s /\ choice.target \notin out

(* Mutant: the loss is recorded, and the match waits where it was.         *)
MutLeavesItThere(s) ==
    /\ MaySpeak(s)
    /\ out' = out \cup {s}
    /\ awaitingDefenders' = awaitingDefenders \ {s}
    /\ attacked' = attacked \ {s}
    /\ window' \in removeFromReactionWindow(window, {s})
    /\ IF Over(out') THEN finishMatch
       ELSE CancelChoice({s}) /\ queue' = cancelWorkOwnedBy(queue, {s}) /\ UNCHANGED phase /\ Yield
    /\ UNCHANGED <<active, mulligan, progress>>

(* concede and server_timeout.  Repeated for a seat already out, they      *)
(* change nothing.  What the departure does to the board is not settled:   *)
(* it sets off nothing.                                                    *)
handleTermination(s) ==
    /\ MaySpeak(s)
    /\ runStateBasedChecks({s}, {cancelWorkOwnedBy(queue, {s})}, phase,
                           removeFromReactionWindow(window, {s}), steps)
    /\ UNCHANGED <<active, mulligan, progress>>

(* The last submission resolves them all and starts the first turn.        *)
handleMulligan(s) ==
    /\ MayMulligan(s)
    /\ IF \A t \in Seat \ {s} : mulligan[t] = "submitted"
       THEN /\ mulligan' = [t \in Seat |-> "resolved"]
            /\ beginTurn(IF 1 \in out THEN nextLivingPlayer(1, out) ELSE 1, "playing", FALSE)
       ELSE /\ mulligan' = [mulligan EXCEPT ![s] = "submitted"]
            /\ UNCHANGED <<status, phase, active, progress, choice, queue, combat, running, steps>>
    /\ UNCHANGED <<out, window>>

(* A play that needs its cost chosen is asked for it and spends nothing.   *)
requestCostSelection(s) ==
    /\ \E t \in {NoSeat} \cup (Living \ {s}) : choice' = Ask("cost", s, NoSeat, t)
    /\ status' = "waiting_for_choice"
    /\ Yield
    /\ UNCHANGED <<phase, queue, window>>

(* The commitment of a play: a spell waits under a window if one opens;    *)
(* otherwise the card's effects, if it has any, are queued behind what     *)
(* paying for it set off, before what its arrival sets off.                *)
commitPlay(s, st) ==
    /\ status' = st /\ choice' = NoChoice
    /\ Continue
    /\ \/ /\ window' \in openReactionWindow(<<[owner |-> s, countered |-> FALSE]>>, phase, out)
          /\ phase' = "reaction_window"
          /\ queue' \in Noticed(queue, out)
       \/ /\ \E q \in Noticed(queue, out) :
                \/ queue' \in Noticed(q, out)
                \/ \E n \in 1 .. MaxEffects : queue' \in Noticed(Append(q, NewItem(s, n)), out)
          /\ UNCHANGED <<phase, window>>

(* The commitment of an activation: its effects are queued; what paying for*)
(* it did is not settled.                                                  *)
commitActivation(s, st) ==
    /\ status' = st /\ choice' = NoChoice
    /\ Continue
    /\ \E n \in 1 .. MaxEffects : queue' = Append(queue, NewItem(s, n))
    /\ UNCHANGED <<phase, window>>

(* play_card, with the Commander's deployment.                             *)
handlePlayCard(s) ==
    /\ requireMainPhase(s)
    /\ requestCostSelection(s) \/ commitPlay(s, status)
    /\ UNCHANGED <<active, out, mulligan, progress, combat>>

handleActivateAbility(s) ==
    /\ requireMainPhase(s)
    /\ requestCostSelection(s) \/ commitActivation(s, status)
    /\ UNCHANGED <<active, out, mulligan, progress, combat>>

handlePassPhase(s) ==
    /\ MayPass(s)
    /\ \/ phase = "main_1" /\ phase' = "declare_attackers" /\ UNCHANGED queue
       \/ phase = "main_2" /\ phase' = "turn_end" /\ queue' \in Noticed(queue, out)
    /\ Continue
    /\ UNCHANGED <<status, active, out, mulligan, progress, choice, combat, window>>

(* Blocks are awaited of the seats attacked; nobody attacked, none.        *)
handleDeclareAttackers(s) ==
    /\ MayAttack(s)
    /\ \E D \in SUBSET (Living \ {s}) :
          LET next == IF D = {} THEN "resolve_combat" ELSE "assign_blockers"
          IN  /\ attacked' = D /\ awaitingDefenders' = D
              /\ \/ phase' = next /\ UNCHANGED window
                 \/ /\ window' \in openReactionWindow(<<>>, next, out)
                    /\ phase' = "reaction_window"
    /\ queue' \in Noticed(queue, out)
    /\ Continue
    /\ UNCHANGED <<status, active, out, mulligan, progress, choice>>

handleAssignBlockers(s) ==
    /\ MayBlock(s)
    /\ awaitingDefenders' = awaitingDefenders \ {s}
    /\ Continue
    /\ UNCHANGED <<status, phase, active, out, mulligan, progress, choice, queue, attacked, window>>

(* pass_reaction and play_reaction: either is the seat's one answer, and   *)
(* priority moves on.  In a window left behind, hands and Energy have      *)
(* changed since.                                                          *)
handleReaction(s) ==
    /\ MayReact(s)
    /\ \E w \in IF phase = "reaction_window" THEN {window} ELSE Rearmed(window) :
       LET next == [w EXCEPT !.answered = @ \cup {s}, !.index = (@ + 1) % Len(w.order)]
           played == [next EXCEPT !.pending = Append(@, [owner |-> s, countered |-> FALSE])]
       IN  \/ window' = advancePriority(next)
           \/ s \in w.armed /\ window' = advancePriority(played)
    /\ Continue
    /\ UNCHANGED <<status, phase, active, out, mulligan, progress, choice, queue, combat>>

(* The item that asked, where its owner is still in the match.             *)
Answered(s) ==
    IF choice.owner \in out THEN queue
    ELSE [queue EXCEPT ![1].asked = @ \cup {s}]

handleSubmitChoice(s) ==
    /\ MayChoose(s)
    /\ \/ /\ choice.kind = "ready"
          /\ runReadyStep("playing", TRUE)
          /\ UNCHANGED <<phase, window>>
       \/ /\ choice.kind = "cost"
          /\ \/ requestCostSelection(s)
             \/ commitPlay(s, "playing")
             \/ commitActivation(s, "playing")
          /\ UNCHANGED progress
       \/ /\ choice.kind \in {"discard", "effect"}
          /\ status' = "playing" /\ choice' = NoChoice
          /\ progress' = IF choice.kind = "discard" THEN "discarded" ELSE progress
          /\ queue' = IF choice.kind = "effect" THEN Answered(s) ELSE queue
          /\ Continue
          /\ UNCHANGED <<phase, window>>
    /\ UNCHANGED <<active, out, mulligan, combat>>

-----------------------------------------------------------------------------
(* queue.ts, pumpQueue: one item at a time, from the front.                *)

Pumps == running /\ queue # <<>>

(* An item whose effects are done leaves the queue.                        *)
completeItem ==
    /\ Pumps /\ Head(queue).left = 0
    /\ queue' = Tail(queue)
    /\ Continue
    /\ UNCHANGED <<status, phase, active, out, mulligan, progress, choice, combat, window>>

(* An effect asks a seat, once per seat, and stays to be executed again.   *)
askForEffect ==
    /\ Pumps /\ Head(queue).left > 0
    /\ \E s \in Living \ Head(queue).asked :
          choice' = Ask("effect", s, Head(queue).owner, NoSeat)
    /\ status' = "waiting_for_choice"
    /\ Yield
    /\ UNCHANGED <<phase, active, out, mulligan, progress, queue, combat, window>>

(* Mutant: the safeguard does not count.                                   *)
MutCounted == steps
Counted == steps + 1

(* checkSafeguards: too many effects without a player end the match.       *)
Faults == Counted > maxResolutionSteps

(* An effect is carried out: seats may lose by it, a pending card may be   *)
(* countered, hands change.                                                *)
executeEffect ==
    /\ Pumps /\ Head(queue).left > 0
    /\ LET done == [queue EXCEPT ![1].left = @ - 1, ![1].asked = {}]
       IN  IF Faults
           THEN finishMatch /\ UNCHANGED <<out, combat, window>>
           ELSE \E S \in SUBSET Living : \E w \in Touched(window) :
                   runStateBasedChecks(S, settled(done, S), phase, removeFromReactionWindow(w, S), Counted)
    /\ UNCHANGED <<active, mulligan, progress>>

-----------------------------------------------------------------------------
(* flow.ts, advance: the phases move on by themselves until a player is    *)
(* needed.                                                                 *)

Advances == running /\ queue = <<>>
InPhase(ph) == Advances /\ active \notin out /\ phase = ph

(* The active seat is out: its turn passes at once.                        *)
passOn ==
    /\ Advances /\ active \in out
    /\ beginTurn(nextLivingPlayer(active, out), status, phase # "mulligan")
    /\ UNCHANGED <<out, mulligan, window>>

AllAnswered == awaitingDefenders = {}

(* A player is needed: an open phase, a defender, a seat with priority.    *)
NeedsPlayer ==
    \/ phase \in {"mulligan", "declare_attackers"} \cup MAIN_PHASES
    \/ phase = "assign_blockers" /\ ~ AllAnswered
    \/ phase = "reaction_window" /\ window.mode # "closed"
comeToRest ==
    /\ Advances /\ active \notin out
    /\ NeedsPlayer
    /\ Yield
    /\ UNCHANGED <<status, phase, active, out, mulligan, progress, choice, queue, combat, window>>

startDraw ==
    /\ InPhase("turn_start")
    /\ phase' = "draw"
    /\ Continue
    /\ UNCHANGED <<status, active, out, mulligan, progress, choice, queue, combat, window>>

(* A draw from an empty deck loses the match.                              *)
performDraw ==
    /\ InPhase("draw")
    /\ \E S \in SUBSET {active} :
          runStateBasedChecks(S, settled(queue, S), "main_1",
                              removeFromReactionWindow(window, S), steps)
    /\ UNCHANGED <<active, mulligan, progress>>

(* Everybody attacked has answered: blocks are public, damage follows.     *)
finalizeBlockers ==
    /\ InPhase("assign_blockers") /\ AllAnswered
    /\ queue' \in Noticed(queue, out)
    /\ \/ phase' = "resolve_combat" /\ UNCHANGED window
       \/ /\ window' \in openReactionWindow(<<>>, "resolve_combat", out)
          /\ phase' = "reaction_window"
    /\ Continue
    /\ UNCHANGED <<status, active, out, mulligan, progress, choice, combat>>

(* Damage of all the attacks at once; the seats that fall, fall together.  *)
(* A window after combat is drafted among those left.                      *)
resolveCombat ==
    /\ InPhase("resolve_combat")
    /\ \E S \in SUBSET attacked :
          \/ runStateBasedChecks(S, settled(queue, S), "main_2",
                                 removeFromReactionWindow(window, S), steps)
          \/ /\ ~ Over(out \cup S)
             /\ runStateBasedChecks(S, settled(queue, S), "reaction_window",
                                    openReactionWindow(<<>>, "main_2", out \cup S), steps)
    /\ UNCHANGED <<active, mulligan, progress>>

(* Out of a closed window one card resolves at a time, the last first;     *)
(* with none left the phase it interrupted goes on.                        *)
resumeReactionWindow ==
    /\ InPhase("reaction_window") /\ window.mode = "closed"
    /\ IF window.pending = <<>>
       THEN /\ window' = NoWindow /\ phase' = window.resume
            /\ UNCHANGED queue
       ELSE LET last == window.pending[Len(window.pending)]
            IN  /\ window' = [window EXCEPT !.pending = SubSeq(@, 1, Len(@) - 1)]
                /\ IF last.countered THEN UNCHANGED queue
                   ELSE \E n \in 1 .. MaxEffects : queue' = Append(queue, NewItem(last.owner, n))
                /\ UNCHANGED phase
    /\ Continue
    /\ UNCHANGED <<status, active, out, mulligan, progress, choice, combat>>

(* The hand is cut down first, which asks its owner; then the turn passes. *)
performTurnEnd ==
    /\ InPhase("turn_end")
    /\ \/ /\ progress # "discarded"
          /\ choice' = Ask("discard", active, NoSeat, NoSeat)
          /\ status' = "waiting_for_choice"
          /\ Yield
          /\ UNCHANGED <<phase, active, progress, queue, combat>>
       \/ beginTurn(nextLivingPlayer(active, out), status, TRUE)
    /\ UNCHANGED <<out, mulligan, window>>

-----------------------------------------------------------------------------
PlayerAction(s) ==
    \/ handleTermination(s) \/ handleMulligan(s) \/ handleSubmitChoice(s)
    \/ handlePlayCard(s) \/ handleActivateAbility(s) \/ handlePassPhase(s)
    \/ handleDeclareAttackers(s) \/ handleAssignBlockers(s) \/ handleReaction(s)

pumpQueue == completeItem \/ askForEffect \/ executeEffect
advance ==
    \/ passOn \/ comeToRest \/ startDraw \/ performDraw \/ finalizeBlockers
    \/ resolveCombat \/ resumeReactionWindow \/ performTurnEnd
Engine == pumpQueue \/ advance

(* A match that is over stays as it is.                                    *)
Finished == status = "complete" /\ UNCHANGED vars

Next == Engine \/ Finished \/ \E s \in Seat : PlayerAction(s)

Spec == Init /\ [][Next]_vars

(* advance and pumpQueue are loops of one call.                            *)
LiveSpec == Spec /\ WF_vars(Engine)

-----------------------------------------------------------------------------
(* legal-actions.ts: what a seat is offered at rest.                       *)

Offered(s) ==
    IF s \in out THEN {}
    ELSE IF choice # NoChoice THEN IF choice.player = s THEN {"choice"} ELSE {}
    ELSE IF status = "mulligan" THEN IF mulligan[s] = "pending" THEN {"mulligan"} ELSE {}
    ELSE IF window.mode = "open" THEN IF reactionPriorityHolder = s THEN {"reaction"} ELSE {}
    ELSE IF window.mode = "closed" THEN {}
    ELSE (IF active = s /\ phase \in MAIN_PHASES /\ queue = <<>> THEN {"pass"} ELSE {})
         \cup (IF active = s /\ phase = "declare_attackers" THEN {"attack"} ELSE {})
         \cup (IF phase = "assign_blockers" /\ s \in awaitingDefenders THEN {"block"} ELSE {})

(* What the handlers take.                                                 *)
Accepts(k, s) ==
    CASE k = "choice" -> MayChoose(s)
      [] k = "mulligan" -> MayMulligan(s)
      [] k = "reaction" -> MayReact(s)
      [] k = "pass" -> MayPass(s)
      [] k = "attack" -> MayAttack(s)
      [] k = "block" -> MayBlock(s)
Accepted(s) ==
    {k \in {"choice", "mulligan", "reaction", "pass", "attack", "block"} : Accepts(k, s)}

-----------------------------------------------------------------------------
(* Properties.                                                             *)

(* cancelWorkOwnedBy, removeFromCombat, removeFromReactionWindow: nothing  *)
(* waits for, resolves for, or is decided by a seat that is out.           *)
OnlyTheLiving ==
    status # "complete" =>
        /\ choice.player \notin out
        /\ \A i \in DOMAIN queue : queue[i].owner \notin out
        /\ (attacked \cup awaitingDefenders) \cap (out \cup {active}) = {}
        /\ Members(window.order) \cap out = {}
        /\ \A i \in DOMAIN window.pending : window.pending[i].owner \notin out

(* advancePriority: priority in an open window is with a seat that has not *)
(* answered in it yet, whoever left meanwhile.                             *)
HolderMayAnswer == window.mode = "open" => reactionPriorityHolder \notin window.answered

(* removeFromReactionWindow: "priority moves on rather than stalling on a  *)
(* seat that can no longer answer" - a seat that holds priority and stays  *)
(* keeps it when another leaves.                                           *)
PriorityKept ==
    [][window.mode = "open" /\ window'.mode = "open" /\ out' # out
       /\ canAct(window', reactionPriorityHolder) /\ phase = "reaction_window"
          => reactionPriorityHolder' = reactionPriorityHolder]_vars

(* The known ways to strand a match: an opening hand that will never come; *)
(* a window whose turn is over; an action that can no longer be paid for.  *)
HandNeverComes == status = "mulligan" /\ \E s \in out : mulligan[s] = "pending"
WindowLeftBehind == window.mode # "none" /\ phase # "reaction_window"
CannotBePaid == choice.target \in out

(* handleTermination: "the remaining seats must not be stranded on a turn  *)
(* that can no longer be taken" - somebody is offered a move.              *)
SomeoneIsOffered == AtRest => \E s \in Seat : Offered(s) # {}

(* advance: "rather than stalling on a turn nobody is left to take" - once *)
(* the turns have begun, somebody is always offered a move.                *)
PlayGoesOn == AtRest /\ status = "playing" => \E s \in Seat : Offered(s) # {}

(* handleTermination: ... and there is no way to strand a match but the    *)
(* three.                                                                  *)
NoOtherStall == AtRest => \/ \E s \in Seat : Offered(s) \cap Accepted(s) # {}
                          \/ HandNeverComes \/ WindowLeftBehind \/ CannotBePaid

(* legalActions: a seat is offered exactly what its handlers would take,   *)
(* short of these and of a turn played before the opening hands.           *)
TurnBeforeHands == status = "mulligan" /\ phase # "mulligan"
OffersMatch ==
    AtRest => \/ \A s \in Seat : Offered(s) = Accepted(s)
              \/ TurnBeforeHands \/ WindowLeftBehind \/ CannotBePaid

(* performTurnEnd, advance: a turn passes to the next seat in the circle,  *)
(* and only from its end or from a seat that is out, with nothing pending. *)
TurnPasses ==
    [][active' # active /\ status # "mulligan" =>
           /\ phase = "turn_end" \/ active \in out
           /\ queue = <<>> /\ choice = NoChoice
           /\ active' \notin out
           /\ \A k \in 1 .. N : Clockwise(active, k) = active' =>
                 \A j \in 1 .. (k - 1) : Clockwise(active, j) \in out]_vars

(* finishReadyStep: a player acts in a turn only after its Ready Step.     *)
ReadiedFirst == AtRest /\ phase \in MAIN_PHASES => progress # "starting"

(* resolveMulligans: no turn is played before the opening hands are        *)
(* settled.                                                                *)
HandsSettledFirst == ~ TurnBeforeHands

(* How many stops the loop of advance can still make by itself: a window   *)
(* comes before the phase it interrupted, a turn nobody takes before all.  *)
Stops(ph) == CASE ph = "turn_end" -> 5 [] ph = "turn_start" -> 4 [] ph = "draw" -> 3
               [] ph = "assign_blockers" -> 2 [] ph = "resolve_combat" -> 1 [] OTHER -> 0
Ahead == IF active \in out THEN 12
         ELSE IF phase = "reaction_window" THEN 2 * Stops(window.resume) + 1
         ELSE 2 * Stops(phase)

(* What the engine has left to use up, the most lasting first.             *)
Fuel == <<Cardinality(Living), maxResolutionSteps - steps, Ahead,
          Len(window.pending), Len(queue)>>
LexLess(f, g) == \E i \in DOMAIN f : f[i] < g[i] /\ \A k \in 1 .. (i - 1) : f[k] = g[k]

(* checkSafeguards, advance: whatever sets off what, every turn of the     *)
(* loops uses up something that nothing but a player gives back, so the    *)
(* engine cannot go on for ever.                                           *)
EngineRunsDown ==
    [][running /\ running' => Fuel' \in Seq(Nat) /\ LexLess(Fuel', Fuel)]_vars

(* ... and gives control back.                                             *)
ComesToRest == running ~> ~ running

=============================================================================
