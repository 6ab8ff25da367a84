---------------------------- MODULE MatchServer ----------------------------
(* The authoritative match server, seen from one lobby: the seats, the     *)
(* connections that hold them, readiness and start, the running match, the *)
(* disconnect windows and the end of the match (match-server.ts, lobby.ts).*)
(* Every handler is synchronous, so a handler is one action; what races is *)
(* their order: messages of several sockets, socket closures, timers and   *)
(* bot decisions.                                                          *)
(*                                                                         *)
(* Other lobbies of the server appear only as `Elsewhere`, the seat a      *)
(* connection may hold in one of them.  The rules engine is external: a    *)
(* match is who is still alive and whether it is over.                     *)
EXTENDS Integers, Sequences, FiniteSets

CONSTANTS
    Conn,                \* connections; one that is gone stands for a new one
    MAX_SEATS,           \* SEAT_IDS is 1..MAX_SEATS; seat 1 is the host's
    ActionId,            \* client action identities: numbers, like the bots'
    Pacing,              \* bot pacing budgets
    OneSeat,             \* do clients ask for a seat only when they hold none?
    MaxMatches,          \* matches one lobby is followed through
    MaxDecisions         \* decisions of one bot in one match

ASSUME SeatsAssumption == MAX_SEATS \in Nat /\ MAX_SEATS >= 2
ASSUME BoundsAssumption ==
    /\ ActionId \subseteq Nat
    /\ OneSeat \in BOOLEAN
    /\ MaxMatches \in Nat
    /\ MaxDecisions \in Nat

VARIABLES
    open,                \* sockets the transport holds open
    connections,         \* MatchServer.#connections, by identity
    attachments,         \* MatchServer.#attachments
    status,              \* Lobby.status, "none" before the lobby exists
    maxSeats,            \* Lobby.maxSeats
    controller,          \* Seat.controller, "empty" where there is no seat
    connectionId,        \* HumanSeat.connectionId
    deck,                \* Seat.deck and Seat.deckLegal
    ready,               \* Seat.ready
    timer,               \* HumanSeat.cancelDisconnectTimer: the match it was
                         \* armed in, 0 for none
    appliedActions,      \* Seat.appliedActions
    pacing,              \* Lobby.pacing
    lockedPacing,        \* Lobby.lockedPacing
    lastConcedeOrigin,   \* Lobby.lastConcedeOrigin
    state,               \* Lobby.state, as the engine's match
    runner,              \* the lobby's BotRunner
    records,             \* what was published of finished matches
    executed,            \* how often the engine took an action identity (history)
    present              \* seats held since the match started (history)

sockets == <<open, connections, attachments>>
table == <<maxSeats, controller, deck, ready>>
budgets == <<pacing, lockedPacing>>
play == <<appliedActions, lastConcedeOrigin, state, runner, records, executed>>
vars == <<sockets, table, budgets, play, status, connectionId, timer, present>>

MIN_SEATS == 2
SEAT_IDS == 1 .. MAX_SEATS
Host == 1
None == 0
Elsewhere == -1
NoConnection == "none"
NoPacing == "unlocked"

ASSUME ConnectionsAssumption == NoConnection \notin Conn

LobbyStatus == {"none", "waiting", "ready", "in_match", "finished", "closed"}
Origin == {"concede_action", "concede_leave", "disconnect_timeout", "rules_victory"}

TypeOK ==
    /\ open \subseteq Conn
    /\ connections \subseteq Conn
    /\ attachments \in [Conn -> SEAT_IDS \cup {None, Elsewhere}]
    /\ status \in LobbyStatus
    /\ maxSeats \in MIN_SEATS .. MAX_SEATS
    /\ controller \in [SEAT_IDS -> {"empty", "human", "bot"}]
    /\ connectionId \in [SEAT_IDS -> Conn \cup {NoConnection}]
    /\ deck \in [SEAT_IDS -> {"none", "illegal", "legal"}]
    /\ ready \in [SEAT_IDS -> BOOLEAN]
    /\ timer \in [SEAT_IDS -> 0 .. MaxMatches]
    /\ appliedActions \in [SEAT_IDS -> SUBSET Nat]
    /\ pacing \in Pacing
    /\ lockedPacing \in Pacing \cup {NoPacing}
    /\ lastConcedeOrigin \in Origin \cup {"none"}
    /\ state \in [game : 0 .. MaxMatches, alive : SUBSET SEAT_IDS, over : BOOLEAN,
                  reason : {"none", "concede", "timeout", "health_depleted"}]
    /\ runner \in [mode : {"absent", "running", "stopped"},
                   decisions : [SEAT_IDS -> 0 .. MaxDecisions],
                   halted : SUBSET SEAT_IDS]
    /\ records \in Seq([game : 1 .. MaxMatches, cause : Origin,
                        origin : Origin \cup {"unrecorded"}])
    /\ executed \in [SEAT_IDS -> [ActionId \cup 0 .. MaxDecisions -> Nat]]
    /\ present \subseteq SEAT_IDS

-----------------------------------------------------------------------------
(* lobby.ts: the seats of the lobby and the questions asked of them.       *)

Occupied == {s \in SEAT_IDS : controller[s] # "empty"}
Humans == {s \in SEAT_IDS : controller[s] = "human"}
Bots == {s \in SEAT_IDS : controller[s] = "bot"}
freeSeats == (1 .. maxSeats) \ Occupied
freeBotSeats == IF Cardinality(Bots) >= MAX_SEATS - 1 THEN {} ELSE freeSeats \ {Host}
First(S) == CHOOSE s \in S : \A t \in S : s <= t

Started(st) == st \in {"in_match", "finished"}

SeatReady(s, decks, rdy) == rdy[s] /\ decks[s] = "legal"

(* canStart, of a lobby in status st whose seats S have these decks.       *)
canStart(st, S, decks, rdy) ==
    /\ ~ Started(st)
    /\ Cardinality(S) >= MIN_SEATS
    /\ \A s \in S : SeatReady(s, decks, rdy)

Restated(st, S, decks, rdy) == IF canStart(st, S, decks, rdy) THEN "ready" ELSE "waiting"

(* restatus: nothing once the lobby has started.                           *)
restatus(S, decks, rdy) ==
    status' = IF Started(status) THEN status ELSE Restated(status, S, decks, rdy)

-----------------------------------------------------------------------------
(* The rules engine.                                                       *)

NoMatch == [game |-> 0, alive |-> {}, over |-> FALSE, reason |-> "none"]

Left(m, alive, reason) ==
    [m EXCEPT !.alive = alive, !.over = Cardinality(alive) <= 1,
              !.reason = IF Cardinality(alive) <= 1 THEN reason ELSE "none"]

(* concede and server_timeout: refused once the match is over, a repeated  *)
(* loss of one seat changes nothing.                                       *)
Lost(m, s, reason) == IF m.over \/ s \notin m.alive THEN m ELSE Left(m, m.alive \ {s}, reason)

(* What a legal play may leave: any survivors.                             *)
Plays(m) == {Left(m, alive, "health_depleted") : alive \in SUBSET m.alive}

MayPlay(m, s) == ~ m.over /\ s \in m.alive

-----------------------------------------------------------------------------
(* Output: the end of a match and the end of a lobby.                      *)

liveMatchTerminationOriginFor(reason, concedeOrigin) ==
    CASE reason = "concede" ->
           IF concedeOrigin = "none" THEN "concede_action" ELSE concedeOrigin
      [] reason = "timeout" -> "disconnect_timeout"
      [] OTHER -> "rules_victory"

Finishes(m) == m.over /\ status # "finished"

(* What is published of a match: its end, and the origin of the live-match *)
(* record, which only a two-seat match has.  `cause` is what truly ended it*)
publish(m, origin, cause) ==
    Append(records,
           [game |-> m.game, cause |-> cause,
            origin |-> IF Cardinality(Occupied) = 2
                       THEN liveMatchTerminationOriginFor(m.reason, origin)
                       ELSE "unrecorded"])

Stopped(r) == IF r.mode = "absent" THEN r ELSE [r EXCEPT !.mode = "stopped"]

(* Mutant: the runner is left to notice the end on its own.                *)
MutKeepsRunning(m, origin, cause, r) ==
    [status |-> IF Finishes(m) THEN "finished" ELSE status,
     runner |-> r,
     records |-> IF Finishes(m) THEN publish(m, origin, cause) ELSE records]

(* broadcastMatchState: a match just over finishes the lobby, stops its    *)
(* bots (r is the runner so far) and is published.                         *)
broadcastMatchState(m, origin, cause, r) ==
    [status |-> IF Finishes(m) THEN "finished" ELSE status,
     runner |-> IF Finishes(m) THEN Stopped(r) ELSE r,
     records |-> IF Finishes(m) THEN publish(m, origin, cause) ELSE records]

(* The tail of every accepted action: the engine's match m is stored, then *)
(* broadcast.                                                              *)
Broadcast(m, origin, cause, r) ==
    LET sent == broadcastMatchState(m, origin, cause, r)
    IN  /\ state' = m
        /\ status' = sent.status
        /\ runner' = sent.runner
        /\ records' = sent.records

NoRunner == [mode |-> "absent", decisions |-> [s \in SEAT_IDS |-> 0], halted |-> {}]

Running(m) == m.game > 0 /\ ~ m.over

(* Mutant: only the host is given a window.                                *)
MutHostWindow(c, s, st, m) ==
    /\ s \in SEAT_IDS /\ connectionId[s] = c
    /\ s = Host /\ st = "in_match" /\ Running(m)

(* disconnect: does the window of the seat c held open?                    *)
WindowOpens(c, s, st, m) ==
    /\ s \in SEAT_IDS /\ connectionId[s] = c
    /\ st = "in_match" /\ Running(m)

(* disconnect and closeIfAbandoned, after a broadcast left the lobby in    *)
(* status st with runner r and match m.                                    *)
disconnect(c, st, r, m) ==
    LET s == attachments[c]
        held == s \in SEAT_IDS /\ connectionId[s] = c
        ids == IF held THEN [connectionId EXCEPT ![s] = NoConnection] ELSE connectionId
        abandoned == /\ held /\ st # "in_match"
                     /\ \A h \in Humans : ids[h] = NoConnection
    IN  /\ connections' = connections \ {c}
        /\ attachments' = [attachments EXCEPT ![c] = None]
        /\ connectionId' = ids
        /\ timer' = IF WindowOpens(c, s, st, m) THEN [timer EXCEPT ![s] = m.game] ELSE timer
        /\ status' = IF abandoned THEN "closed" ELSE st
        /\ runner' = IF abandoned THEN NoRunner ELSE r

-----------------------------------------------------------------------------
(* Sockets and lobbies.                                                    *)

Init ==
    /\ open = {} /\ connections = {}
    /\ attachments = [c \in Conn |-> None]
    /\ status = "none"
    /\ maxSeats = MIN_SEATS
    /\ controller = [s \in SEAT_IDS |-> "empty"]
    /\ connectionId = [s \in SEAT_IDS |-> NoConnection]
    /\ deck = [s \in SEAT_IDS |-> "none"]
    /\ ready = [s \in SEAT_IDS |-> FALSE]
    /\ timer = [s \in SEAT_IDS |-> 0]
    /\ appliedActions = [s \in SEAT_IDS |-> {}]
    /\ pacing \in Pacing /\ lockedPacing = NoPacing
    /\ lastConcedeOrigin = "none"
    /\ state = NoMatch
    /\ runner = NoRunner
    /\ records = <<>>
    /\ executed = [s \in SEAT_IDS |-> [i \in ActionId \cup 0 .. MaxDecisions |-> 0]]
    /\ present = {}

(* A new socket: nothing still names it.                                   *)
connect(c) ==
    /\ c \notin open /\ \A s \in SEAT_IDS : connectionId[s] # c
    /\ open' = open \cup {c}
    /\ connections' = connections \cup {c}
    /\ UNCHANGED <<attachments, table, budgets, play, status, connectionId, timer, present>>

(* The socket closes, for any reason.                                      *)
Close(c) ==
    /\ c \in open
    /\ open' = open \ {c}
    /\ disconnect(c, status, runner, state)
    /\ UNCHANGED <<table, budgets, appliedActions, lastConcedeOrigin, state, records,
                   executed, present>>

MayEnter(c) == c \in open /\ (OneSeat => attachments[c] = None)

attach(c, s) ==
    /\ connections' = connections \cup {c}
    /\ connectionId' = [connectionId EXCEPT ![s] = c]
    /\ present' = IF status = "in_match" THEN present \cup {s} ELSE present

(* Another lobby seats c.  Only a seat held here makes that matter here.   *)
EnterElsewhere(c) ==
    /\ ~ OneSeat
    /\ c \in open /\ attachments[c] \in SEAT_IDS
    /\ connections' = connections \cup {c}
    /\ attachments' = [attachments EXCEPT ![c] = Elsewhere]
    /\ UNCHANGED <<open, table, budgets, play, status, connectionId, timer, present>>

createLobby(c, n) ==
    /\ status = "none"
    /\ MayEnter(c)
    /\ status' = "waiting"
    /\ maxSeats' = n
    /\ controller' = [controller EXCEPT ![Host] = "human"]
    /\ attachments' = [attachments EXCEPT ![c] = Host]
    /\ attach(c, Host)
    /\ UNCHANGED <<open, deck, ready, budgets, play, timer>>

(* Mutant: a new seat is given out while the match runs.                   *)
MutJoinsLate(c) ==
    /\ status \notin {"none", "closed"}
    /\ MayEnter(c)
    /\ freeSeats # {}
    /\ controller' = [controller EXCEPT ![First(freeSeats)] = "human"]
    /\ attachments' = [attachments EXCEPT ![c] = First(freeSeats)]
    /\ attach(c, First(freeSeats))
    /\ UNCHANGED <<open, maxSeats, deck, ready, budgets, play, status, timer>>

joinLobby(c) ==
    /\ status \in {"waiting", "ready"}
    /\ MayEnter(c)
    /\ freeSeats # {}
    /\ controller' = [controller EXCEPT ![First(freeSeats)] = "human"]
    /\ attachments' = [attachments EXCEPT ![c] = First(freeSeats)]
    /\ attach(c, First(freeSeats))
    /\ UNCHANGED <<open, maxSeats, deck, ready, budgets, play, status, timer>>

(* Mutants: a returning player gets a fresh seat record; the window is     *)
(* left running; the old socket keeps its seat.                            *)
MutFreshSeat(c, s) ==
    /\ status \notin {"none", "closed"}
    /\ MayEnter(c) /\ controller[s] = "human"
    /\ timer' = [timer EXCEPT ![s] = 0]
    /\ appliedActions' = [appliedActions EXCEPT ![s] = {}]
    /\ attachments' = [d \in Conn |-> IF d = c THEN s
                                      ELSE IF d = connectionId[s] THEN None ELSE attachments[d]]
    /\ attach(c, s)
    /\ UNCHANGED <<open, table, budgets, lastConcedeOrigin, state, runner, records, executed,
                   status>>
MutKeepsWindow(c, s) ==
    /\ status \notin {"none", "closed"}
    /\ MayEnter(c) /\ controller[s] = "human"
    /\ attachments' = [d \in Conn |-> IF d = c THEN s
                                      ELSE IF d = connectionId[s] THEN None ELSE attachments[d]]
    /\ attach(c, s)
    /\ UNCHANGED <<open, table, budgets, play, status, timer>>
MutStaleTab(c, s) ==
    /\ status \notin {"none", "closed"}
    /\ MayEnter(c) /\ controller[s] = "human"
    /\ timer' = [timer EXCEPT ![s] = 0]
    /\ attachments' = [attachments EXCEPT ![c] = s]
    /\ attach(c, s)
    /\ UNCHANGED <<open, table, budgets, play, status>>

(* reconnect with the token of seat s: its window is called off, and the   *)
(* newest socket wins over the one it still had.                           *)
reconnect(c, s) ==
    /\ status \notin {"none", "closed"}
    /\ MayEnter(c) /\ controller[s] = "human"
    /\ timer' = [timer EXCEPT ![s] = 0]
    /\ attachments' = [d \in Conn |-> IF d = c THEN s
                                      ELSE IF d = connectionId[s] THEN None ELSE attachments[d]]
    /\ attach(c, s)
    /\ UNCHANGED <<open, table, budgets, play, status>>

-----------------------------------------------------------------------------
(* The table before the match.                                             *)

Seated(c) == c \in open /\ attachments[c] \in SEAT_IDS

(* hostLobbyFor, and the same three checks of set_max_seats.               *)
HostOf(c) == Seated(c) /\ attachments[c] = Host /\ ~ Started(status)

setMaxSeats(c, n) ==
    /\ HostOf(c)
    /\ Cardinality(Occupied) <= n
    /\ maxSeats' = n
    /\ UNCHANGED <<sockets, controller, deck, ready, budgets, play, status, connectionId,
                   timer, present>>

addBot(c) ==
    /\ HostOf(c)
    /\ freeBotSeats # {}
    /\ LET s == First(freeBotSeats)
       IN  /\ controller' = [controller EXCEPT ![s] = "bot"]
           /\ deck' = [deck EXCEPT ![s] = "legal"]
           /\ ready' = [ready EXCEPT ![s] = TRUE]
           /\ restatus(Occupied \cup {s}, deck', ready')
    /\ UNCHANGED <<sockets, maxSeats, budgets, play, connectionId, timer, present>>

(* update_bot and reroll_bot: another configuration in the same seat.      *)
seatResolvedBot(c) ==
    /\ HostOf(c)
    /\ Bots # {}
    /\ restatus(Occupied, deck, ready)
    /\ UNCHANGED <<sockets, table, budgets, play, connectionId, timer, present>>

removeBot(c, s) ==
    /\ HostOf(c)
    /\ controller[s] = "bot"
    /\ controller' = [controller EXCEPT ![s] = "empty"]
    /\ deck' = [deck EXCEPT ![s] = "none"]
    /\ ready' = [ready EXCEPT ![s] = FALSE]
    /\ appliedActions' = [appliedActions EXCEPT ![s] = {}]
    /\ executed' = [executed EXCEPT ![s] = [i \in DOMAIN @ |-> 0]]
    /\ restatus(Occupied \ {s}, deck, ready)
    /\ UNCHANGED <<sockets, maxSeats, budgets, lastConcedeOrigin, state, runner, records,
                   connectionId, timer, present>>

setBotPacing(c, p) ==
    /\ HostOf(c)
    /\ pacing' = p
    /\ UNCHANGED <<sockets, table, lockedPacing, play, status, connectionId, timer, present>>

(* submit_deck and submit_precon.                                          *)
recordSubmission(c, legal) ==
    /\ Seated(c)
    /\ status # "in_match"
    /\ deck' = [deck EXCEPT ![attachments[c]] = IF legal THEN "legal" ELSE "illegal"]
    /\ ready' = [ready EXCEPT ![attachments[c]] = @ /\ legal]
    /\ UNCHANGED <<sockets, maxSeats, controller, budgets, play, status, connectionId,
                   timer, present>>

-----------------------------------------------------------------------------
(* The start.                                                              *)

(* A new runner for the bots dealt in; a table without bots keeps the one  *)
(* it had, if any.                                                         *)
startBots == IF Bots = {} THEN runner ELSE [NoRunner EXCEPT !.mode = "running"]

(* startMatch: the engine deals every seat in, or refuses and nothing      *)
(* moves but the status `st` already written.                              *)
startMatch(st) ==
    \/ /\ state.game < MaxMatches
       /\ state' = [NoMatch EXCEPT !.game = state.game + 1, !.alive = Occupied]
       /\ status' = "in_match"
       /\ lockedPacing' = pacing
       /\ runner' = startBots
       /\ present' = {s \in Humans : connectionId[s] # NoConnection}
    \/ /\ status' = st
       /\ UNCHANGED <<state, lockedPacing, runner, present>>

requestStart(c) ==
    /\ HostOf(c)
    /\ canStart(status, Occupied, deck, ready)
    /\ startMatch(status)
    /\ UNCHANGED <<sockets, table, pacing, appliedActions, lastConcedeOrigin, records,
                   executed, connectionId, timer>>

(* set_ready, and the start of a two-seat table by itself.                 *)
setReady(c, rdy) ==
    /\ Seated(c)
    /\ status # "in_match"
    /\ rdy => deck[attachments[c]] = "legal"
    /\ ready' = [ready EXCEPT ![attachments[c]] = rdy]
    /\ LET st == Restated(status, Occupied, deck, ready')
       IN  IF maxSeats = MIN_SEATS /\ canStart(st, Occupied, deck, ready')
           THEN startMatch(st)
           ELSE status' = st /\ UNCHANGED <<state, lockedPacing, runner, present>>
    /\ UNCHANGED <<sockets, maxSeats, controller, deck, pacing, appliedActions,
                   lastConcedeOrigin, records, executed, connectionId, timer>>

-----------------------------------------------------------------------------
(* The match.                                                              *)

Takes(s, id) ==
    /\ appliedActions' = [appliedActions EXCEPT ![s] = @ \cup {id}]
    /\ executed' = [executed EXCEPT ![s][id] = @ + 1]

(* submit_action up to the engine: a repeated identity and a stale view    *)
(* are answered with the current view, and change nothing.                 *)
Submits(c, id) ==
    /\ Seated(c)
    /\ state.game > 0
    /\ id \notin appliedActions[attachments[c]]

submitAction(c, id) ==
    /\ Submits(c, id)
    /\ MayPlay(state, attachments[c])
    /\ \E m \in Plays(state) : Broadcast(m, lastConcedeOrigin, "rules_victory", runner)
    /\ Takes(attachments[c], id)
    /\ UNCHANGED <<sockets, table, budgets, lastConcedeOrigin, connectionId, timer, present>>

submitConcede(c, id) ==
    /\ Submits(c, id)
    /\ lastConcedeOrigin' = "concede_action"
    /\ IF state.over
       THEN UNCHANGED <<appliedActions, state, runner, records, executed, status>>
       ELSE /\ Broadcast(Lost(state, attachments[c], "concede"), "concede_action",
                         "concede_action", runner)
            /\ Takes(attachments[c], id)
    /\ UNCHANGED <<sockets, table, budgets, connectionId, timer, present>>

(* Mutant: leaving does not say it was a concession by leaving.            *)
MutLeavesQuietly(c) ==
    /\ Seated(c)
    /\ UNCHANGED <<open, table, budgets, appliedActions, executed, present, lastConcedeOrigin>>
    /\ IF status = "in_match" /\ Running(state)
       THEN LET m == Lost(state, attachments[c], "concede")
                sent == broadcastMatchState(m, lastConcedeOrigin, "concede_leave", runner)
            IN  /\ state' = m /\ records' = sent.records
                /\ disconnect(c, sent.status, sent.runner, m)
       ELSE /\ disconnect(c, status, runner, state)
            /\ UNCHANGED <<state, records>>

(* leave: a concession while the match runs, then a disconnection.         *)
leave(c) ==
    /\ Seated(c)
    /\ UNCHANGED <<open, table, budgets, appliedActions, executed, present>>
    /\ IF status = "in_match" /\ Running(state)
       THEN LET m == Lost(state, attachments[c], "concede")
                sent == broadcastMatchState(m, "concede_leave", "concede_leave", runner)
            IN  /\ lastConcedeOrigin' = "concede_leave"
                /\ state' = m /\ records' = sent.records
                /\ disconnect(c, sent.status, sent.runner, m)
       ELSE /\ disconnect(c, status, runner, state)
            /\ UNCHANGED <<lastConcedeOrigin, state, records>>

(* Mutant: the loss is stored and shown, but not as the end of a match.    *)
MutTimesOutQuietly(s) ==
    /\ timer[s] > 0
    /\ timer' = [timer EXCEPT ![s] = 0]
    /\ state' = IF Running(state) THEN Lost(state, s, "timeout") ELSE state
    /\ UNCHANGED <<sockets, table, budgets, appliedActions, lastConcedeOrigin, executed,
                   connectionId, present, status, runner, records>>

(* The window of seat s runs out: timeOutSeat.                             *)
timeOutSeat(s) ==
    /\ timer[s] > 0
    /\ timer' = [timer EXCEPT ![s] = 0]
    /\ IF Running(state)
       THEN Broadcast(Lost(state, s, "timeout"), lastConcedeOrigin, "disconnect_timeout", runner)
       ELSE UNCHANGED <<state, status, runner, records>>
    /\ UNCHANGED <<sockets, table, budgets, appliedActions, lastConcedeOrigin, executed,
                   connectionId, present>>

(* One decision of the bot in seat s reaches applyBotAction, under the     *)
(* runner's next action identity.  A bot that is refused is not asked again*)
applyBotAction(s) ==
    LET id == runner.decisions[s]
        asked == [runner EXCEPT !.decisions[s] = @ + 1]
    IN  /\ runner.mode = "running"
        /\ controller[s] = "bot" /\ s \notin runner.halted
        /\ MayPlay(state, s)
        /\ id < MaxDecisions
        /\ \/ /\ id \notin appliedActions[s]
              /\ \E m \in Plays(state) :
                    Broadcast(m, lastConcedeOrigin, "rules_victory", asked)
              /\ Takes(s, id)
           \/ /\ runner' = [asked EXCEPT !.halted = @ \cup {s}]
              /\ UNCHANGED <<appliedActions, executed, state, status, records>>
        /\ UNCHANGED <<sockets, table, budgets, lastConcedeOrigin, connectionId, timer, present>>

-----------------------------------------------------------------------------
Enter(c) ==
    \/ \E n \in MIN_SEATS .. MAX_SEATS : createLobby(c, n)
    \/ joinLobby(c) \/ EnterElsewhere(c)
    \/ \E s \in SEAT_IDS : reconnect(c, s)

Arrange(c) ==
    \/ \E n \in MIN_SEATS .. MAX_SEATS : setMaxSeats(c, n)
    \/ addBot(c) \/ seatResolvedBot(c) \/ (\E s \in SEAT_IDS : removeBot(c, s))
    \/ \E p \in Pacing : setBotPacing(c, p)
    \/ \E legal \in BOOLEAN : recordSubmission(c, legal)

Play(c) ==
    \/ requestStart(c) \/ (\E rdy \in BOOLEAN : setReady(c, rdy))
    \/ \E id \in ActionId : submitAction(c, id) \/ submitConcede(c, id)
    \/ leave(c)

Next ==
    \/ \E c \in Conn : connect(c) \/ Close(c) \/ Enter(c) \/ Arrange(c) \/ Play(c)
    \/ \E s \in SEAT_IDS : timeOutSeat(s) \/ applyBotAction(s)

Spec == Init /\ [][Next]_vars

(* Timers fire.                                                            *)
LiveSpec == Spec /\ \A s \in SEAT_IDS : WF_vars(timeOutSeat(s))

-----------------------------------------------------------------------------
(* Properties.                                                             *)

(* attach, reconnect, disconnect: the seat a connection acts for is a      *)
(* person's seat of a living lobby that names this very connection, so no  *)
(* two sockets act for one seat and none for a lobby that was dropped.     *)
AttachedIsSeated ==
    \A c \in Conn :
        attachments[c] \in SEAT_IDS =>
            /\ status \notin {"none", "closed"}
            /\ controller[attachments[c]] = "human"
            /\ connectionId[attachments[c]] = c
            /\ c \in connections

(* The other direction: a seat shown as connected is acted for by the      *)
(* connection it names.                                                    *)
SeatIsAttached ==
    \A s \in SEAT_IDS : connectionId[s] # NoConnection => attachments[connectionId[s]] = s

(* timeOutSeat: a player who is connected is never timed out.              *)
ReturnedIsSafe == \A s \in SEAT_IDS : timer[s] > 0 => connectionId[s] = NoConnection

Away(s) ==
    status = "in_match" /\ s \in Humans \cap state.alive /\ connectionId[s] = NoConnection

(* disconnect: a player who drops out of a running match has a window of   *)
(* this match counting, whatever was reconnected or taken over before.     *)
WindowRuns == \A s \in present : Away(s) => timer[s] = state.game

(* match-server.ts, disconnect: "A disconnected player has a fixed window  *)
(* to come back" - every living player without a connection.               *)
AwayIsTimed == \A s \in SEAT_IDS : Away(s) => timer[s] > 0

(* ... and the window ends: the player is back, out, or the match is over. *)
AwayIsResolved == \A s \in SEAT_IDS : (s \in present /\ Away(s)) ~> ~ Away(s)

(* appliedActions: the engine takes an action identity of a seat at most   *)
(* once, across reconnections and takeovers.                               *)
AppliedOnce == \A s \in SEAT_IDS : \A id \in DOMAIN executed[s] : executed[s][id] <= 1

(* broadcastMatchState: each finished match is published once, when it is  *)
(* over and in the order played, however it ended.                         *)
PublishedOnce ==
    /\ Len(records) = IF Running(state) THEN state.game - 1 ELSE state.game
    /\ \A i \in DOMAIN records : records[i].game = i

(* publishLiveMatchRecord: the origin recorded is what ended the match.    *)
OriginIsTrue == \A i \in DOMAIN records : records[i].origin \in {"unrecorded", records[i].cause}

(* stopBots: no bot works outside a running match.                         *)
BotsStopWithMatch == runner.mode = "running" => status = "in_match" /\ Running(state)

(* canStart: "nobody is dragged in mid-setup" - whoever sits at a running  *)
(* match was ready with a legal deck when it started, and still is.        *)
TableWasReady ==
    status = "in_match" => /\ Cardinality(Occupied) >= MIN_SEATS
                           /\ \A s \in Occupied : SeatReady(s, deck, ready)

(* restatus: before the first match, a table shown as waiting cannot start.*)
WaitingCannotStart ==
    status = "waiting" /\ state.game = 0 => ~ canStart(status, Occupied, deck, ready)

(* restatus: "a lobby that says `ready` while the host cannot start is     *)
(* lying to its own header".                                               *)
ReadyCanStart == status = "ready" => canStart(status, Occupied, deck, ready)

(* closeIfAbandoned: a lobby is dropped once nobody is connected and       *)
(* nothing is in progress.                                                 *)
AbandonedCloses ==
    status \in {"waiting", "ready", "finished"} =>
        \E s \in Humans : connectionId[s] # NoConnection

(* lobby.ts, lockedPacing: what is refused once the lobby has started      *)
(* stays refused.                                                          *)
StartedStaysStarted == state.game > 0 => status \in {"in_match", "finished", "closed"}

(* setMaxSeats, freeSeats: no more players than the table has seats.       *)
FitsTable == Cardinality(Occupied) <= maxSeats

=============================================================================
