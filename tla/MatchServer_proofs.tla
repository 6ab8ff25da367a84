------------------------- MODULE MatchServer_proofs -------------------------
(***************************************************************************)
(* Proofs about MatchServer: the seats, the windows, the start, the end    *)
(* and the publication of matches, for any connections, table sizes,       *)
(* action identities and numbers of matches.                               *)
(***************************************************************************)
EXTENDS MatchServer, WellFoundedInduction, TLAPS, SequenceTheorems

-----------------------------------------------------------------------------
(* First: the seat a newcomer gets.                                        *)

Less == OpToRel(<, Nat)

LEMMA LessWellFounded == IsWellFoundedOn(Less, Nat)
  BY NatLessThanWellFounded, Zenon DEF OpToRel, Less

LEMMA FirstSeat ==
    ASSUME NEW S \in SUBSET SEAT_IDS, S # {}
    PROVE  First(S) \in S
<1>1. S \subseteq Nat
  BY SeatsAssumption DEF SEAT_IDS
<1>2. PICK s \in S : \A t \in S : ~ (<<t, s>> \in Less)
  BY <1>1, LessWellFounded, WFMin
<1>3. \A t, u \in Nat : t < u => <<t, u>> \in Less
  BY DEF Less, OpToRel
<1>4. \A t \in S : ~ (t < s)
  BY <1>1, <1>2, <1>3
<1>5. \A t \in S : s <= t
  <2> SUFFICES ASSUME NEW t \in S PROVE s <= t
    OBVIOUS
  <2>1. s \in Nat /\ t \in Nat /\ ~ (t < s)
    BY <1>1, <1>2, <1>4
  <2> QED
    BY <2>1
<1> QED
  BY <1>2, <1>5 DEF First

LEMMA SeatIds ==
    /\ SEAT_IDS \subseteq Nat \ {0}
    /\ Host \in SEAT_IDS
    /\ None \notin SEAT_IDS /\ Elsewhere \notin SEAT_IDS
BY SeatsAssumption DEF SEAT_IDS, Host, None, Elsewhere

-----------------------------------------------------------------------------
(* The sets of TypeOK, named.                                              *)
Match == [game : 0 .. MaxMatches, alive : SUBSET SEAT_IDS, over : BOOLEAN,
          reason : {"none", "concede", "timeout", "health_depleted"}]
Runner == [mode : {"absent", "running", "stopped"},
           decisions : [SEAT_IDS -> 0 .. MaxDecisions],
           halted : SUBSET SEAT_IDS]
Record == [game : 1 .. MaxMatches, cause : Origin, origin : Origin \cup {"unrecorded"}]
Seats == SEAT_IDS \cup {None, Elsewhere}

SocketsOK ==
    /\ open \subseteq Conn
    /\ connections \subseteq Conn
    /\ attachments \in [Conn -> Seats]
    /\ connectionId \in [SEAT_IDS -> Conn \cup {NoConnection}]
    /\ timer \in [SEAT_IDS -> 0 .. MaxMatches]
    /\ present \subseteq SEAT_IDS

TableOK ==
    /\ maxSeats \in MIN_SEATS .. MAX_SEATS
    /\ controller \in [SEAT_IDS -> {"empty", "human", "bot"}]
    /\ deck \in [SEAT_IDS -> {"none", "illegal", "legal"}]
    /\ ready \in [SEAT_IDS -> BOOLEAN]
    /\ pacing \in Pacing
    /\ lockedPacing \in Pacing \cup {NoPacing}

PlayOK ==
    /\ status \in LobbyStatus
    /\ appliedActions \in [SEAT_IDS -> SUBSET Nat]
    /\ lastConcedeOrigin \in Origin \cup {"none"}
    /\ state \in Match
    /\ runner \in Runner
    /\ records \in Seq(Record)
    /\ executed \in [SEAT_IDS -> [ActionId \cup 0 .. MaxDecisions -> Nat]]

LEMMA TypeParts == TypeOK <=> SocketsOK /\ TableOK /\ PlayOK
BY DEF TypeOK, SocketsOK, TableOK, PlayOK, Match, Runner, Record, Seats

LEMMA TypePartsNext == TypeOK' <=> SocketsOK' /\ TableOK' /\ PlayOK'
BY DEF TypeOK, SocketsOK, TableOK, PlayOK, Match, Runner, Record, Seats

-----------------------------------------------------------------------------
(* The engine's match, after a loss or a play.                             *)

LEMMA LeftFacts ==
    ASSUME NEW m \in Match, NEW alive \in SUBSET SEAT_IDS,
           NEW reason \in {"concede", "timeout", "health_depleted"}
    PROVE  /\ Left(m, alive, reason) \in Match
           /\ Left(m, alive, reason).game = m.game
           /\ Left(m, alive, reason).alive = alive
           /\ Left(m, alive, reason).over => Left(m, alive, reason).reason = reason
<1> DEFINE few == Cardinality(alive) <= 1
           why == IF few THEN reason ELSE "none"
<1>1. Left(m, alive, reason) = [m EXCEPT !.alive = alive, !.over = few, !.reason = why]
  BY DEF Left
<1>2. few \in BOOLEAN /\ (few => why = reason)
      /\ why \in {"none", "concede", "timeout", "health_depleted"}
  OBVIOUS
<1> HIDE DEF few, why
<1> QED
  BY <1>1, <1>2 DEF Match

LEMMA LostFacts ==
    ASSUME NEW m \in Match, ~ m.over, NEW s \in SEAT_IDS, NEW reason \in {"concede", "timeout"}
    PROVE  /\ Lost(m, s, reason) \in Match
           /\ Lost(m, s, reason).game = m.game
           /\ Lost(m, s, reason).alive = m.alive \ {s}
           /\ Lost(m, s, reason).over => Lost(m, s, reason).reason = reason
<1>1. CASE s \notin m.alive
  BY <1>1 DEF Lost
<1>2. CASE s \in m.alive
  <2>1. m.alive \ {s} \in SUBSET SEAT_IDS
    BY DEF Match
  <2>2. Lost(m, s, reason) = Left(m, m.alive \ {s}, reason)
    BY <1>2 DEF Lost
  <2> QED
    BY <2>1, <2>2, LeftFacts
<1> QED
  BY <1>1, <1>2

LEMMA PlaysFacts ==
    ASSUME NEW m \in Match, NEW n \in Plays(m)
    PROVE  /\ n \in Match
           /\ n.game = m.game
           /\ n.alive \subseteq m.alive
           /\ n.over => n.reason = "health_depleted"
<1>1. PICK alive \in SUBSET m.alive : n = Left(m, alive, "health_depleted")
  BY DEF Plays
<1>2. alive \in SUBSET SEAT_IDS
  BY <1>1 DEF Match
<1> QED
  BY <1>1, <1>2, LeftFacts

-----------------------------------------------------------------------------
(* What is sent of a match: with the reason that goes with its cause, the  *)
(* recorded origin is the cause.                                           *)
Explains(m, origin, cause) ==
    m.over => liveMatchTerminationOriginFor(m.reason, origin) = cause

Sent(m, cause, r, st, run, recs) ==
    /\ st = IF Finishes(m) THEN "finished" ELSE status
    /\ run = IF Finishes(m) THEN Stopped(r) ELSE r
    /\ ~ Finishes(m) => recs = records
    /\ Finishes(m) => \E rec \in Record : /\ recs = Append(records, rec)
                                          /\ rec.game = m.game
                                          /\ rec.origin \in {"unrecorded", rec.cause}

LEMMA SentFacts ==
    ASSUME PlayOK, NEW m \in Match, m.game > 0, NEW origin, NEW cause \in Origin, NEW r,
           Explains(m, origin, cause)
    PROVE  LET sent == broadcastMatchState(m, origin, cause, r)
           IN  Sent(m, cause, r, sent.status, sent.runner, sent.records)
<1> DEFINE sent == broadcastMatchState(m, origin, cause, r)
           rec == [game |-> m.game, cause |-> cause,
                   origin |-> IF Cardinality(Occupied) = 2
                              THEN liveMatchTerminationOriginFor(m.reason, origin)
                              ELSE "unrecorded"]
<1>1. /\ sent.status = IF Finishes(m) THEN "finished" ELSE status
      /\ sent.runner = IF Finishes(m) THEN Stopped(r) ELSE r
      /\ sent.records = IF Finishes(m) THEN publish(m, origin, cause) ELSE records
  BY DEF broadcastMatchState
<1>2. publish(m, origin, cause) = Append(records, rec)
  BY DEF publish
<1>3. ASSUME Finishes(m)
      PROVE  rec \in Record /\ rec.game = m.game /\ rec.origin \in {"unrecorded", rec.cause}
  <2>1. m.game \in 1 .. MaxMatches
    BY BoundsAssumption DEF Match
  <2>2. m.over => liveMatchTerminationOriginFor(m.reason, origin) = cause
    BY DEF Explains
  <2>3. rec.origin \in {"unrecorded", cause}
    BY <1>3, <2>2 DEF Finishes
  <2> QED
    BY <2>1, <2>3 DEF Record
<1> HIDE DEF sent, rec
<1>4. Sent(m, cause, r, sent.status, sent.runner, sent.records)
  BY <1>1, <1>2, <1>3 DEF Sent
<1> QED
  BY <1>4 DEF sent

-----------------------------------------------------------------------------
(* What the handlers have in common.                                       *)

(* The match moves on, or ends, under a runner with the mode it had.       *)
Moves(m, r, st, run, recs) ==
    /\ m \in Match /\ m.game = state.game /\ state.game > 0
    /\ ~ state.over /\ m.alive \subseteq state.alive
    /\ r \in Runner /\ r.mode = runner.mode
    /\ \E cause \in Origin : Sent(m, cause, r, st, run, recs)

LEMMA StoppedType ==
    ASSUME NEW r \in Runner
    PROVE  Stopped(r) \in Runner /\ Stopped(r).mode # "running"
BY DEF Stopped, Runner

LEMMA MovesType ==
    ASSUME PlayOK, NEW m, NEW r, NEW st, NEW run, NEW recs, Moves(m, r, st, run, recs)
    PROVE  st \in LobbyStatus /\ run \in Runner /\ recs \in Seq(Record)
<1>1. PICK cause \in Origin : Sent(m, cause, r, st, run, recs)
  BY DEF Moves
<1>2. st \in LobbyStatus /\ run \in Runner
  BY <1>1, StoppedType DEF Moves, Sent, PlayOK, LobbyStatus
<1>3. recs \in Seq(Record)
  BY <1>1, AppendProperties DEF Sent, PlayOK
<1> QED
  BY <1>2, <1>3

(* A connection is let go of, after a broadcast left st, r and m.          *)
LEMMA disconnectType ==
    ASSUME SocketsOK, NEW c \in Conn, NEW st \in LobbyStatus, NEW r \in Runner, NEW m \in Match,
           disconnect(c, st, r, m), open' \subseteq Conn, present' = present
    PROVE  SocketsOK' /\ status' \in LobbyStatus /\ runner' \in Runner
<1> DEFINE s == attachments[c]
           held == s \in SEAT_IDS /\ connectionId[s] = c
           ids == IF held THEN [connectionId EXCEPT ![s] = NoConnection] ELSE connectionId
           abandoned == /\ held /\ st # "in_match"
                        /\ \A h \in Humans : ids[h] = NoConnection
<1>1. /\ connections' = connections \ {c}
      /\ attachments' = [attachments EXCEPT ![c] = None]
      /\ connectionId' = ids
      /\ timer' = IF WindowOpens(c, s, st, m) THEN [timer EXCEPT ![s] = m.game] ELSE timer
      /\ status' = IF abandoned THEN "closed" ELSE st
      /\ runner' = IF abandoned THEN NoRunner ELSE r
  BY DEF disconnect
<1>2. NoRunner \in Runner
  BY BoundsAssumption DEF NoRunner, Runner
<1>3. status' \in LobbyStatus /\ runner' \in Runner
  BY <1>1, <1>2 DEF LobbyStatus
<1>4. ids \in [SEAT_IDS -> Conn \cup {NoConnection}]
  BY DEF SocketsOK
<1>5. m.game \in 0 .. MaxMatches
  BY DEF Match
<1>6. timer' \in [SEAT_IDS -> 0 .. MaxMatches]
  BY <1>1, <1>5 DEF SocketsOK
<1> HIDE DEF ids, abandoned, held
<1>7. attachments' \in [Conn -> Seats]
  BY <1>1 DEF SocketsOK, Seats
<1> QED
  BY <1>1, <1>3, <1>4, <1>6, <1>7 DEF SocketsOK

-----------------------------------------------------------------------------
(* Types.                                                                  *)

LEMMA InitType == Init => TypeOK
<1> SUFFICES ASSUME Init PROVE TypeOK
  OBVIOUS
<1>1. SocketsOK
  BY BoundsAssumption DEF Init, SocketsOK, Seats
<1>2. TableOK
  BY SeatsAssumption DEF Init, TableOK, MIN_SEATS
<1>3. NoMatch \in Match /\ NoRunner \in Runner
  BY BoundsAssumption DEF NoMatch, NoRunner, Match, Runner
<1>4. PlayOK
  BY <1>3 DEF Init, PlayOK, LobbyStatus
<1> QED
  BY <1>1, <1>2, <1>4, TypeParts

LEMMA FreeSeat ==
    ASSUME TableOK
    PROVE  /\ freeSeats # {} => First(freeSeats) \in freeSeats \cap SEAT_IDS
           /\ freeBotSeats # {} => First(freeBotSeats) \in freeSeats \cap SEAT_IDS
<1>1. freeSeats \in SUBSET SEAT_IDS
  BY SeatsAssumption DEF TableOK, freeSeats, SEAT_IDS, MIN_SEATS
<1>2. freeBotSeats \subseteq freeSeats
  BY DEF freeBotSeats
<1> QED
  BY <1>1, <1>2, FirstSeat

(* Sockets and lobbies.                                                    *)
LEMMA EnterType ==
    ASSUME TypeOK, NEW c \in Conn, connect(c) \/ Enter(c)
    PROVE  TypeOK'
<1>1. SocketsOK /\ TableOK /\ PlayOK
  BY TypeParts
<1>2. CASE connect(c)
  BY <1>1, <1>2, TypePartsNext
     DEF connect, SocketsOK, TableOK, PlayOK, table, budgets, play
<1>3. ASSUME NEW n \in MIN_SEATS .. MAX_SEATS, createLobby(c, n) PROVE TypeOK'
  <2>1. SocketsOK'
    <3>1. attachments' \in [Conn -> Seats] /\ connectionId' \in [SEAT_IDS -> Conn \cup {NoConnection}]
      BY <1>1, <1>3, SeatIds DEF createLobby, attach, SocketsOK, Seats
    <3>2. present' \subseteq SEAT_IDS
      BY <1>1, <1>3, SeatIds DEF createLobby, attach, SocketsOK
    <3> QED
      BY <1>1, <1>3, <3>1, <3>2 DEF createLobby, attach, SocketsOK
  <2>2. TableOK'
    BY <1>1, <1>3, SeatIds DEF createLobby, TableOK, budgets
  <2>3. PlayOK'
    BY <1>1, <1>3 DEF createLobby, PlayOK, play, LobbyStatus
  <2> QED
    BY <2>1, <2>2, <2>3, TypePartsNext
<1>4. CASE joinLobby(c)
  <2>1. First(freeSeats) \in freeSeats /\ First(freeSeats) \in SEAT_IDS
    BY <1>1, <1>4, FreeSeat DEF joinLobby
  <2>2. SocketsOK'
    BY <1>1, <1>4, <2>1 DEF joinLobby, attach, MayEnter, SocketsOK, Seats
  <2>3. TableOK'
    BY <1>1, <1>4, <2>1 DEF joinLobby, TableOK, budgets
  <2>4. PlayOK'
    BY <1>1, <1>4 DEF joinLobby, PlayOK, play
  <2> QED
    BY <2>2, <2>3, <2>4, TypePartsNext
<1>5. CASE EnterElsewhere(c)
  BY <1>1, <1>5, TypePartsNext
     DEF EnterElsewhere, SocketsOK, TableOK, PlayOK, table, budgets, play, Seats
<1>6. ASSUME NEW s \in SEAT_IDS, reconnect(c, s) PROVE TypeOK'
  <2>1. SocketsOK'
    BY <1>1, <1>6, BoundsAssumption DEF reconnect, attach, MayEnter, SocketsOK, Seats
  <2>2. TableOK' /\ PlayOK'
    BY <1>1, <1>6 DEF reconnect, TableOK, PlayOK, table, budgets, play
  <2> QED
    BY <2>1, <2>2, TypePartsNext
<1> QED
  BY <1>2, <1>3, <1>4, <1>5, <1>6 DEF Enter

(* The table before the match, and its start.                              *)
LEMMA ArrangeType ==
    ASSUME TypeOK, NEW c \in Conn, Arrange(c)
    PROVE  TypeOK'
<1>1. SocketsOK /\ TableOK /\ PlayOK
  BY TypeParts
<1>2. ASSUME NEW n \in MIN_SEATS .. MAX_SEATS, setMaxSeats(c, n) PROVE TypeOK'
  BY <1>1, <1>2, TypePartsNext
     DEF setMaxSeats, SocketsOK, TableOK, PlayOK, sockets, budgets, play
<1>3. CASE addBot(c)
  <2> DEFINE s == First(freeBotSeats)
  <2>1. /\ s \in SEAT_IDS
        /\ controller' = [controller EXCEPT ![s] = "bot"]
        /\ deck' = [deck EXCEPT ![s] = "legal"]
        /\ ready' = [ready EXCEPT ![s] = TRUE]
        /\ restatus(Occupied \cup {s}, deck', ready')
        /\ UNCHANGED <<sockets, maxSeats, budgets, play, connectionId, timer, present>>
    BY <1>1, <1>3, FreeSeat DEF addBot
  <2> HIDE DEF s
  <2>2. status' \in LobbyStatus
    BY <1>1, <2>1 DEF restatus, Restated, PlayOK, LobbyStatus
  <2> QED
    BY <1>1, <2>1, <2>2, TypePartsNext DEF SocketsOK, TableOK, PlayOK, sockets, budgets, play
<1>4. CASE seatResolvedBot(c)
  <2>1. status' \in LobbyStatus
    BY <1>1, <1>4 DEF seatResolvedBot, restatus, Restated, PlayOK, LobbyStatus
  <2> QED
    BY <1>1, <1>4, <2>1, TypePartsNext
       DEF seatResolvedBot, SocketsOK, TableOK, PlayOK, sockets, table, budgets, play
<1>5. ASSUME NEW s \in SEAT_IDS, removeBot(c, s) PROVE TypeOK'
  <2>1. status' \in LobbyStatus
    BY <1>1, <1>5 DEF removeBot, restatus, Restated, PlayOK, LobbyStatus
  <2>2. executed' \in [SEAT_IDS -> [ActionId \cup 0 .. MaxDecisions -> Nat]]
    BY <1>1, <1>5 DEF removeBot, PlayOK
  <2>3. SocketsOK' /\ TableOK'
    BY <1>1, <1>5 DEF removeBot, SocketsOK, TableOK, sockets, budgets
  <2>4. PlayOK'
    BY <1>1, <1>5, <2>1, <2>2 DEF removeBot, PlayOK
  <2> QED
    BY <2>3, <2>4, TypePartsNext
<1>6. ASSUME NEW p \in Pacing, setBotPacing(c, p) PROVE TypeOK'
  BY <1>1, <1>6, TypePartsNext
     DEF setBotPacing, SocketsOK, TableOK, PlayOK, sockets, table, play
<1>7. ASSUME NEW legal \in BOOLEAN, recordSubmission(c, legal) PROVE TypeOK'
  BY <1>1, <1>7, TypePartsNext
     DEF recordSubmission, Seated, SocketsOK, TableOK, PlayOK, sockets, budgets, play
<1> QED
  BY <1>2, <1>3, <1>4, <1>5, <1>6, <1>7 DEF Arrange

LEMMA startMatchType ==
    ASSUME TypeOK, NEW st \in LobbyStatus, startMatch(st)
    PROVE  /\ state' \in Match /\ status' \in LobbyStatus /\ runner' \in Runner
           /\ lockedPacing' \in Pacing \cup {NoPacing} /\ present' \subseteq SEAT_IDS
<1>1. SocketsOK /\ TableOK /\ PlayOK
  BY TypeParts
<1>2. CASE status' = st /\ UNCHANGED <<state, lockedPacing, runner, present>>
  BY <1>1, <1>2 DEF SocketsOK, TableOK, PlayOK
<1>3. CASE /\ state.game < MaxMatches
           /\ state' = [NoMatch EXCEPT !.game = state.game + 1, !.alive = Occupied]
           /\ status' = "in_match"
           /\ lockedPacing' = pacing
           /\ runner' = startBots
           /\ present' = {s \in Humans : connectionId[s] # NoConnection}
  <2>1. state' \in Match
    <3>1. state.game + 1 \in 0 .. MaxMatches
      BY <1>1, <1>3, BoundsAssumption DEF PlayOK, Match
    <3>2. Occupied \in SUBSET SEAT_IDS
      BY DEF Occupied
    <3> QED
      BY <1>3, <3>1, <3>2 DEF NoMatch, Match
  <2>2. NoRunner \in Runner /\ [NoRunner EXCEPT !.mode = "running"] \in Runner
    BY BoundsAssumption DEF NoRunner, Runner
  <2>3. runner' \in Runner
    BY <1>1, <1>3, <2>2 DEF startBots, PlayOK
  <2> QED
    BY <1>1, <1>3, <2>1, <2>3 DEF TableOK, Humans, LobbyStatus
<1> QED
  BY <1>2, <1>3 DEF startMatch

LEMMA StartType ==
    ASSUME TypeOK, NEW c \in Conn, requestStart(c) \/ \E rdy \in BOOLEAN : setReady(c, rdy)
    PROVE  TypeOK'
<1>1. SocketsOK /\ TableOK /\ PlayOK
  BY TypeParts
<1>2. CASE requestStart(c)
  <2>1. /\ state' \in Match /\ status' \in LobbyStatus /\ runner' \in Runner
        /\ lockedPacing' \in Pacing \cup {NoPacing} /\ present' \subseteq SEAT_IDS
    BY <1>1, <1>2, startMatchType DEF requestStart, PlayOK
  <2> QED
    BY <1>1, <1>2, <2>1, TypePartsNext
       DEF requestStart, SocketsOK, TableOK, PlayOK, sockets, table
<1>3. ASSUME NEW rdy \in BOOLEAN, setReady(c, rdy) PROVE TypeOK'
  <2> DEFINE st == Restated(status, Occupied, deck, ready')
  <2>1. st \in LobbyStatus
    BY DEF Restated, LobbyStatus
  <2>2. startMatch(st) \/ (status' = st /\ UNCHANGED <<state, lockedPacing, runner, present>>)
    BY <1>3 DEF setReady
  <2>3. /\ state' \in Match /\ status' \in LobbyStatus /\ runner' \in Runner
        /\ lockedPacing' \in Pacing \cup {NoPacing} /\ present' \subseteq SEAT_IDS
    <3>1. CASE startMatch(st)
      <4> HIDE DEF st
      <4> QED
        BY <2>1, <3>1, startMatchType
    <3>2. CASE status' = st /\ UNCHANGED <<state, lockedPacing, runner, present>>
      <4> HIDE DEF st
      <4> QED
        BY <1>1, <2>1, <3>2 DEF SocketsOK, TableOK, PlayOK
    <3> QED
      BY <2>2, <3>1, <3>2
  <2>4. ready' \in [SEAT_IDS -> BOOLEAN]
    BY <1>1, <1>3 DEF setReady, Seated, TableOK
  <2> QED
    BY <1>1, <1>3, <2>3, <2>4, TypePartsNext
       DEF setReady, SocketsOK, TableOK, PlayOK, sockets
<1> QED
  BY <1>2, <1>3

-----------------------------------------------------------------------------
(* The match: which handlers move it, and what else they do.               *)

Moved == \E m, r : state' = m /\ Moves(m, r, status', runner', records')

LEMMA BroadcastMoves ==
    ASSUME PlayOK, NEW m \in Match, NEW origin, NEW cause \in Origin, NEW r \in Runner,
           Broadcast(m, origin, cause, r), Explains(m, origin, cause),
           m.game = state.game, state.game > 0, ~ state.over, m.alive \subseteq state.alive,
           r.mode = runner.mode
    PROVE  Moved
<1> DEFINE sent == broadcastMatchState(m, origin, cause, r)
<1>1. Sent(m, cause, r, sent.status, sent.runner, sent.records)
  BY SentFacts
<1>2. state' = m /\ status' = sent.status /\ runner' = sent.runner /\ records' = sent.records
  BY DEF Broadcast
<1> HIDE DEF sent
<1> QED
  BY <1>1, <1>2 DEF Moved, Moves

LEMMA Origins == {"concede_action", "concede_leave", "disconnect_timeout", "rules_victory"} = Origin
BY DEF Origin

LEMMA submitActionMoves ==
    ASSUME PlayOK, NEW c, NEW id, submitAction(c, id)
    PROVE  Moved
<1>1. PICK m \in Plays(state) : Broadcast(m, lastConcedeOrigin, "rules_victory", runner)
  BY DEF submitAction
<1>2. /\ m \in Match /\ m.game = state.game /\ m.alive \subseteq state.alive
      /\ m.over => m.reason = "health_depleted"
      /\ runner \in Runner
  BY <1>1, PlaysFacts DEF PlayOK
<1>3. state.game > 0 /\ ~ state.over
  BY DEF submitAction, Submits, MayPlay
<1>4. Explains(m, lastConcedeOrigin, "rules_victory")
  BY <1>2 DEF Explains, liveMatchTerminationOriginFor
<1> QED
  BY <1>1, <1>2, <1>3, <1>4, BroadcastMoves, Origins

LEMMA submitConcedeMoves ==
    ASSUME PlayOK, NEW c \in Conn, NEW id, submitConcede(c, id)
    PROVE  \/ /\ Moved
              /\ Takes(attachments[c], id)
           \/ UNCHANGED <<appliedActions, state, runner, records, executed, status>>
<1> SUFFICES ASSUME ~ state.over PROVE Moved /\ Takes(attachments[c], id)
  BY DEF submitConcede
<1> DEFINE m == Lost(state, attachments[c], "concede")
<1>1. attachments[c] \in SEAT_IDS /\ state.game > 0
  BY DEF submitConcede, Submits, Seated
<1>2. /\ m \in Match /\ m.game = state.game /\ m.alive \subseteq state.alive
      /\ m.over => m.reason = "concede"
      /\ runner \in Runner
  BY <1>1, LostFacts DEF PlayOK
<1>3. Broadcast(m, "concede_action", "concede_action", runner) /\ Takes(attachments[c], id)
  BY DEF submitConcede
<1> HIDE DEF m
<1>4. Explains(m, "concede_action", "concede_action")
  BY <1>2 DEF Explains, liveMatchTerminationOriginFor
<1> QED
  BY <1>1, <1>2, <1>3, <1>4, BroadcastMoves, Origins

LEMMA timeOutSeatMoves ==
    ASSUME PlayOK, NEW s \in SEAT_IDS, timeOutSeat(s)
    PROVE  \/ Moved /\ s \notin state'.alive
           \/ ~ Running(state) /\ UNCHANGED <<state, status, runner, records>>
<1> SUFFICES ASSUME Running(state) PROVE Moved /\ s \notin state'.alive
  BY DEF timeOutSeat
<1> DEFINE m == Lost(state, s, "timeout")
<1>1. state.game > 0 /\ ~ state.over
  BY DEF Running
<1>2. /\ m \in Match /\ m.game = state.game /\ m.alive = state.alive \ {s}
      /\ m.over => m.reason = "timeout"
      /\ runner \in Runner
  BY <1>1, LostFacts DEF PlayOK
<1>3. Broadcast(m, lastConcedeOrigin, "disconnect_timeout", runner)
  BY DEF timeOutSeat
<1>4. state' = m
  BY <1>3 DEF Broadcast
<1> HIDE DEF m
<1>5. Explains(m, lastConcedeOrigin, "disconnect_timeout")
  BY <1>2 DEF Explains, liveMatchTerminationOriginFor
<1> QED
  BY <1>1, <1>2, <1>3, <1>4, <1>5, BroadcastMoves, Origins

LEMMA applyBotActionMoves ==
    ASSUME TypeOK, BotsStopWithMatch, NEW s \in SEAT_IDS, applyBotAction(s)
    PROVE  /\ runner.decisions[s] \in 0 .. MaxDecisions
           /\ \/ /\ Moved
                 /\ runner.decisions[s] \notin appliedActions[s]
                 /\ Takes(s, runner.decisions[s])
              \/ /\ runner' \in Runner /\ runner'.mode = runner.mode
                 /\ UNCHANGED <<appliedActions, executed, state, status, records>>
<1> DEFINE id == runner.decisions[s]
           asked == [runner EXCEPT !.decisions[s] = @ + 1]
<1>1. PlayOK
  BY TypeParts
<1>2. runner \in Runner /\ id \in 0 .. MaxDecisions /\ id < MaxDecisions
  BY <1>1 DEF PlayOK, Runner, applyBotAction
<1>3. asked \in Runner /\ asked.mode = runner.mode
  <2>1. id + 1 \in 0 .. MaxDecisions
    BY <1>2, BoundsAssumption
  <2> QED
    BY <1>2, <2>1 DEF Runner
<1>4. CASE /\ id \notin appliedActions[s]
           /\ \E m \in Plays(state) : Broadcast(m, lastConcedeOrigin, "rules_victory", asked)
           /\ Takes(s, id)
  <2>1. PICK m \in Plays(state) : Broadcast(m, lastConcedeOrigin, "rules_victory", asked)
    BY <1>4
  <2>2. /\ m \in Match /\ m.game = state.game /\ m.alive \subseteq state.alive
        /\ m.over => m.reason = "health_depleted"
    BY <1>1, <2>1, PlaysFacts DEF PlayOK
  <2>3. state.game > 0 /\ ~ state.over
    BY DEF applyBotAction, BotsStopWithMatch, Running
  <2>4. Explains(m, lastConcedeOrigin, "rules_victory")
    BY <2>2 DEF Explains, liveMatchTerminationOriginFor
  <2> HIDE DEF asked
  <2> QED
    BY <1>1, <1>2, <1>3, <1>4, <2>1, <2>2, <2>3, <2>4, BroadcastMoves, Origins
<1>5. CASE /\ runner' = [asked EXCEPT !.halted = @ \cup {s}]
           /\ UNCHANGED <<appliedActions, executed, state, status, records>>
  <2> HIDE DEF asked
  <2> QED
    BY <1>2, <1>3, <1>5 DEF Runner
<1> QED
  BY <1>4, <1>5 DEF applyBotAction

LEMMA MovedType ==
    ASSUME PlayOK, Moved
    PROVE  /\ state' \in Match /\ status' \in LobbyStatus /\ runner' \in Runner
           /\ records' \in Seq(Record)
BY MovesType DEF Moved, Moves

LEMMA TakesType ==
    ASSUME PlayOK, NEW s \in SEAT_IDS, NEW id \in ActionId \cup 0 .. MaxDecisions, Takes(s, id)
    PROVE  /\ appliedActions' \in [SEAT_IDS -> SUBSET Nat]
           /\ executed' \in [SEAT_IDS -> [ActionId \cup 0 .. MaxDecisions -> Nat]]
<1>1. id \in Nat
  BY BoundsAssumption
<1>2. appliedActions' \in [SEAT_IDS -> SUBSET Nat]
  BY <1>1 DEF Takes, PlayOK
<1>3. executed[s] \in [ActionId \cup 0 .. MaxDecisions -> Nat]
  BY DEF PlayOK
<1>4. [executed[s] EXCEPT ![id] = @ + 1] \in [ActionId \cup 0 .. MaxDecisions -> Nat]
  BY <1>3
<1>5. executed' = [executed EXCEPT ![s] = [executed[s] EXCEPT ![id] = @ + 1]]
  BY DEF Takes
<1> QED
  BY <1>2, <1>4, <1>5 DEF PlayOK

LEMMA SubmitType ==
    ASSUME TypeOK, NEW c \in Conn, NEW id \in ActionId, submitAction(c, id) \/ submitConcede(c, id)
    PROVE  TypeOK'
<1>1. SocketsOK /\ TableOK /\ PlayOK
  BY TypeParts
<1>2. attachments[c] \in SEAT_IDS
  BY DEF submitAction, submitConcede, Submits, Seated
<1>3. CASE submitAction(c, id)
  <2>1. Moved /\ Takes(attachments[c], id)
    BY <1>1, <1>3, submitActionMoves DEF submitAction
  <2>2. PlayOK'
    BY <1>1, <1>2, <1>3, <2>1, MovedType, TakesType DEF submitAction, PlayOK
  <2> QED
    BY <1>1, <1>3, <2>2, TypePartsNext
       DEF submitAction, SocketsOK, TableOK, sockets, table, budgets
<1>4. CASE submitConcede(c, id)
  <2>1. lastConcedeOrigin' \in Origin \cup {"none"}
    BY <1>4 DEF submitConcede, Origin
  <2>2. ASSUME Moved, Takes(attachments[c], id) PROVE PlayOK'
    BY <1>1, <1>2, <2>1, <2>2, MovedType, TakesType DEF PlayOK
  <2>3. ASSUME UNCHANGED <<appliedActions, state, runner, records, executed, status>>
        PROVE  PlayOK'
    BY <1>1, <2>1, <2>3 DEF PlayOK
  <2>4. PlayOK'
    BY <1>1, <1>4, <2>2, <2>3, submitConcedeMoves
  <2> QED
    BY <1>1, <1>4, <2>4, TypePartsNext
       DEF submitConcede, SocketsOK, TableOK, sockets, table, budgets
<1> QED
  BY <1>3, <1>4

LEMMA TimerAndBotType ==
    ASSUME TypeOK, BotsStopWithMatch, NEW s \in SEAT_IDS, timeOutSeat(s) \/ applyBotAction(s)
    PROVE  TypeOK'
<1>1. SocketsOK /\ TableOK /\ PlayOK
  BY TypeParts
<1>2. CASE timeOutSeat(s)
  <2>1. /\ state' \in Match /\ status' \in LobbyStatus /\ runner' \in Runner
        /\ records' \in Seq(Record)
    BY <1>1, <1>2, timeOutSeatMoves, MovedType DEF PlayOK
  <2>2. timer' \in [SEAT_IDS -> 0 .. MaxMatches]
    BY <1>1, <1>2, BoundsAssumption DEF timeOutSeat, SocketsOK
  <2>3. SocketsOK' /\ TableOK'
    BY <1>1, <1>2, <2>2 DEF timeOutSeat, SocketsOK, TableOK, sockets, table, budgets
  <2>4. PlayOK'
    BY <1>1, <1>2, <2>1 DEF timeOutSeat, PlayOK
  <2> QED
    BY <2>3, <2>4, TypePartsNext
<1>3. CASE applyBotAction(s)
  <2>1. SocketsOK' /\ TableOK'
    BY <1>1, <1>3 DEF applyBotAction, SocketsOK, TableOK, sockets, table, budgets
  <2> DEFINE id == runner.decisions[s]
  <2>2. lastConcedeOrigin' = lastConcedeOrigin
    BY <1>3 DEF applyBotAction
  <2>3. /\ id \in 0 .. MaxDecisions
        /\ \/ Moved /\ Takes(s, id)
           \/ /\ runner' \in Runner
              /\ UNCHANGED <<appliedActions, executed, state, status, records>>
    BY <1>3, applyBotActionMoves
  <2> HIDE DEF id
  <2>4. ASSUME Moved, Takes(s, id) PROVE PlayOK'
    BY <1>1, <2>2, <2>3, <2>4, MovedType, TakesType DEF PlayOK
  <2>5. ASSUME runner' \in Runner,
               UNCHANGED <<appliedActions, executed, state, status, records>>
        PROVE  PlayOK'
    BY <1>1, <2>2, <2>5 DEF PlayOK
  <2> QED
    BY <2>1, <2>3, <2>4, <2>5, TypePartsNext
<1> QED
  BY <1>2, <1>3

(* A player or a socket leaves: what is left of the match, of the lobby    *)
(* and of its runner when the connection is let go of.                     *)
Parts(c, st, r, m) ==
    /\ disconnect(c, st, r, m)
    /\ state' = m
    /\ st \in LobbyStatus /\ r \in Runner /\ m \in Match
    /\ \/ /\ m = state /\ st = status /\ r = runner /\ records' = records
       \/ /\ status = "in_match" /\ Running(state)
          /\ m.alive = state.alive \ {attachments[c]}
          /\ Moves(m, runner, st, r, records')

LEMMA LeaveParts ==
    ASSUME TypeOK, NEW c \in Conn, leave(c) \/ Close(c)
    PROVE  \E st, r, m : Parts(c, st, r, m)
<1>1. SocketsOK /\ TableOK /\ PlayOK
  BY TypeParts
<1>2. state \in Match /\ status \in LobbyStatus /\ runner \in Runner
  BY <1>1 DEF PlayOK
<1>3. CASE leave(c) /\ status = "in_match" /\ Running(state)
  <2> DEFINE m == Lost(state, attachments[c], "concede")
             sent == broadcastMatchState(m, "concede_leave", "concede_leave", runner)
  <2>1. attachments[c] \in SEAT_IDS /\ state.game > 0 /\ ~ state.over
    BY <1>3 DEF leave, Seated, Running
  <2>2. /\ m \in Match /\ m.game = state.game
        /\ m.alive = state.alive \ {attachments[c]}
        /\ m.over => m.reason = "concede"
    BY <1>2, <2>1, LostFacts
  <2>3. state' = m /\ records' = sent.records /\ disconnect(c, sent.status, sent.runner, m)
    BY <1>3 DEF leave
  <2> HIDE DEF m
  <2>4. Explains(m, "concede_leave", "concede_leave")
    BY <2>2 DEF Explains, liveMatchTerminationOriginFor
  <2>5. Sent(m, "concede_leave", runner, sent.status, sent.runner, sent.records)
    BY <1>1, <2>1, <2>2, <2>4, SentFacts, Origins
  <2> HIDE DEF sent
  <2>6. Moves(m, runner, sent.status, sent.runner, records')
    BY <1>2, <2>1, <2>2, <2>3, <2>5, Origins DEF Moves
  <2>7. sent.status \in LobbyStatus /\ sent.runner \in Runner
    BY <1>1, <2>6, MovesType
  <2> QED
    BY <1>3, <2>2, <2>3, <2>6, <2>7 DEF Parts
<1>4. CASE leave(c) /\ ~ (status = "in_match" /\ Running(state))
  BY <1>2, <1>4 DEF leave, Parts
<1>5. CASE Close(c)
  BY <1>2, <1>5 DEF Close, Parts
<1> QED
  BY <1>3, <1>4, <1>5

LEMMA LeaveType ==
    ASSUME TypeOK, NEW c \in Conn, leave(c) \/ Close(c)
    PROVE  TypeOK'
<1>1. SocketsOK /\ TableOK /\ PlayOK
  BY TypeParts
<1>2. PICK st, r, m : Parts(c, st, r, m)
  BY LeaveParts
<1>3. records' \in Seq(Record)
  BY <1>1, <1>2, MovesType DEF Parts, PlayOK
<1>4. open' \subseteq Conn /\ present' = present
  BY <1>1 DEF leave, Close, SocketsOK
<1>5. SocketsOK' /\ status' \in LobbyStatus /\ runner' \in Runner
  BY <1>1, <1>2, <1>4, disconnectType DEF Parts
<1>6. lastConcedeOrigin' \in Origin \cup {"none"}
  BY <1>1 DEF leave, Close, PlayOK, Origin
<1>7. TableOK' /\ PlayOK'
  BY <1>1, <1>2, <1>3, <1>5, <1>6
     DEF leave, Close, Parts, TableOK, PlayOK, table, budgets
<1> QED
  BY <1>5, <1>7, TypePartsNext

LEMMA NextType ==
    ASSUME TypeOK, BotsStopWithMatch, Next
    PROVE  TypeOK'
BY EnterType, ArrangeType, StartType, SubmitType, LeaveType, TimerAndBotType DEF Next, Play

-----------------------------------------------------------------------------
(* The invariant of the seats and of the match.                            *)

SeatInv ==
    /\ AttachedIsSeated
    /\ ReturnedIsSafe
    /\ \A s \in SEAT_IDS : timer[s] > 0 => controller[s] = "human"
    /\ \A s \in SEAT_IDS : controller[s] = "empty" => deck[s] = "none" /\ ~ ready[s]
    /\ \A s \in SEAT_IDS : ready[s] => deck[s] = "legal"
    /\ status = "none" => \A s \in SEAT_IDS : controller[s] = "empty"

MatchInv ==
    /\ status = "in_match" <=> Running(state)
    /\ status = "finished" => state.game > 0
    /\ BotsStopWithMatch
    /\ TableWasReady
    /\ WaitingCannotStart
    /\ WindowRuns

ServerInv == TypeOK /\ SeatInv /\ MatchInv

LEMMA InitServerInv == Init => ServerInv
<1> SUFFICES ASSUME Init PROVE ServerInv
  OBVIOUS
<1>1. TypeOK
  BY InitType
<1>2. SeatInv
  BY SeatIds DEF Init, SeatInv, AttachedIsSeated, ReturnedIsSafe
<1>3. MatchInv
  BY DEF Init, MatchInv, Running, NoMatch, NoRunner, BotsStopWithMatch, TableWasReady,
         WaitingCannotStart, WindowRuns
<1> QED
  BY <1>1, <1>2, <1>3 DEF ServerInv

(* A move leaves the match running, or finishes lobby and runner with it.  *)
LEMMA MovesFacts ==
    ASSUME ServerInv, NEW m, NEW r, NEW st, NEW run, NEW recs, Moves(m, r, st, run, recs)
    PROVE  /\ status = "in_match" /\ Running(state)
           /\ \/ st = "in_match" /\ Running(m) /\ run.mode = runner.mode
              \/ st = "finished" /\ ~ Running(m) /\ run.mode # "running" /\ m.game > 0
<1>1. Running(state) /\ status = "in_match"
  BY DEF Moves, Running, ServerInv, MatchInv
<1>2. PICK cause \in Origin : Sent(m, cause, r, st, run, recs)
  BY DEF Moves
<1>3. CASE m.over
  BY <1>1, <1>2, <1>3, StoppedType DEF Moves, Sent, Finishes, Running
<1>4. CASE ~ m.over
  BY <1>1, <1>2, <1>4 DEF Moves, Sent, Finishes, Running
<1> QED
  BY <1>1, <1>3, <1>4

(* Handlers that touch neither the match nor the lobby's status.           *)
LEMMA MatchUntouched ==
    ASSUME ServerInv, UNCHANGED <<status, state, runner, controller, deck, ready>>,
           WindowRuns'
    PROVE  MatchInv'
BY DEF ServerInv, MatchInv, BotsStopWithMatch, TableWasReady, WaitingCannotStart, canStart,
       Occupied, SeatReady

LEMMA ConnectKeeps ==
    ASSUME ServerInv, NEW c \in Conn, connect(c) \/ EnterElsewhere(c)
    PROVE  SeatInv' /\ MatchInv'
<1>1. /\ UNCHANGED <<table, play, status, connectionId, timer, present>>
      /\ connections \subseteq connections'
  BY DEF connect, EnterElsewhere
<1>2. \A d \in Conn : attachments'[d] \in {attachments[d], Elsewhere}
  BY TypeParts DEF connect, EnterElsewhere, ServerInv, SocketsOK
<1>3. AttachedIsSeated'
  BY <1>1, <1>2, SeatIds DEF ServerInv, SeatInv, AttachedIsSeated, table
<1>4. SeatInv'
  BY <1>1, <1>3 DEF ServerInv, SeatInv, ReturnedIsSafe, table
<1>5. WindowRuns'
  BY <1>1 DEF ServerInv, MatchInv, WindowRuns, Away, Humans, table, play
<1> QED
  BY <1>1, <1>4, <1>5, MatchUntouched DEF table, play

LEMMA CreateKeeps ==
    ASSUME ServerInv, NEW c \in Conn, NEW n \in MIN_SEATS .. MAX_SEATS, createLobby(c, n)
    PROVE  SeatInv' /\ MatchInv'
<1>1. /\ status = "none" /\ status' = "waiting"
      /\ controller' = [controller EXCEPT ![Host] = "human"]
      /\ attachments' = [attachments EXCEPT ![c] = Host]
      /\ connections' = connections \cup {c}
      /\ connectionId' = [connectionId EXCEPT ![Host] = c]
      /\ UNCHANGED <<deck, ready, play, timer>>
  BY DEF createLobby, attach
<1>2. SocketsOK /\ TableOK /\ PlayOK
  BY TypeParts DEF ServerInv
<1>3. \A s \in SEAT_IDS : controller[s] = "empty" /\ timer[s] = 0 /\ ~ ready[s]
  BY <1>1, <1>2, BoundsAssumption DEF ServerInv, SeatInv, SocketsOK, TableOK
<1>4. \A d \in Conn : attachments[d] \notin SEAT_IDS
  BY <1>1 DEF ServerInv, SeatInv, AttachedIsSeated
<1>5. /\ controller'[Host] = "human" /\ connectionId'[Host] = c
      /\ attachments'[c] = Host
      /\ \A d \in Conn \ {c} : attachments'[d] = attachments[d]
      /\ \A s \in SEAT_IDS \ {Host} : controller'[s] = controller[s]
  BY <1>1, <1>2, SeatIds DEF SocketsOK, TableOK
<1>6. AttachedIsSeated'
  BY <1>1, <1>4, <1>5, SeatIds DEF AttachedIsSeated
<1>7. SeatInv'
  BY <1>1, <1>3, <1>5, <1>6 DEF ServerInv, SeatInv, ReturnedIsSafe
<1>8. ~ canStart(status, Occupied, deck, ready)'
  BY <1>1, <1>3, <1>5, SeatIds DEF canStart, Occupied, SeatReady
<1>9. MatchInv'
  BY <1>1, <1>8 DEF ServerInv, MatchInv, play, BotsStopWithMatch, TableWasReady,
     WaitingCannotStart, WindowRuns, Away
<1> QED
  BY <1>7, <1>9

LEMMA JoinKeeps ==
    ASSUME ServerInv, NEW c \in Conn, joinLobby(c)
    PROVE  SeatInv' /\ MatchInv'
<1> DEFINE s == First(freeSeats)
<1>1. /\ status \in {"waiting", "ready"} /\ status' = status
      /\ controller' = [controller EXCEPT ![s] = "human"]
      /\ attachments' = [attachments EXCEPT ![c] = s]
      /\ connections' = connections \cup {c}
      /\ connectionId' = [connectionId EXCEPT ![s] = c]
      /\ UNCHANGED <<deck, ready, play, timer>>
  BY DEF joinLobby, attach
<1>2. SocketsOK /\ TableOK /\ PlayOK
  BY TypeParts DEF ServerInv
<1>3. s \in SEAT_IDS /\ controller[s] = "empty"
  BY <1>2, FreeSeat DEF joinLobby, freeSeats, Occupied
<1> HIDE DEF s
<1>4. timer[s] = 0 /\ ~ ready[s]
  BY <1>2, <1>3, BoundsAssumption DEF ServerInv, SeatInv, SocketsOK
<1>5. /\ controller'[s] = "human" /\ connectionId'[s] = c /\ attachments'[c] = s
      /\ \A d \in Conn \ {c} : attachments'[d] = attachments[d]
      /\ \A t \in SEAT_IDS \ {s} : /\ controller'[t] = controller[t]
                                   /\ connectionId'[t] = connectionId[t]
  BY <1>1, <1>2, <1>3 DEF SocketsOK, TableOK
<1>6. AttachedIsSeated'
  <2> SUFFICES ASSUME NEW d \in Conn, attachments'[d] \in SEAT_IDS
               PROVE  /\ status' \notin {"none", "closed"}
                      /\ controller'[attachments'[d]] = "human"
                      /\ connectionId'[attachments'[d]] = d
                      /\ d \in connections'
    BY DEF AttachedIsSeated
  <2>1. CASE d = c
    BY <1>1, <1>5, <2>1
  <2>2. CASE d # c
    <3>1. attachments[d] \in SEAT_IDS /\ attachments'[d] = attachments[d] /\ attachments[d] # s
      BY <1>3, <1>5, <2>2 DEF ServerInv, SeatInv, AttachedIsSeated
    <3> QED
      BY <1>1, <1>5, <3>1 DEF ServerInv, SeatInv, AttachedIsSeated
  <2> QED
    BY <2>1, <2>2
<1>7. SeatInv'
  BY <1>1, <1>4, <1>5, <1>6 DEF ServerInv, SeatInv, ReturnedIsSafe
<1>8. ~ canStart(status, Occupied, deck, ready)'
  BY <1>1, <1>3, <1>4, <1>5 DEF canStart, Occupied, SeatReady
<1>9. MatchInv'
  BY <1>1, <1>8 DEF ServerInv, MatchInv, play, BotsStopWithMatch, TableWasReady,
     WaitingCannotStart, WindowRuns, Away
<1> QED
  BY <1>7, <1>9

LEMMA ReconnectKeeps ==
    ASSUME ServerInv, NEW c \in Conn, NEW s \in SEAT_IDS, reconnect(c, s)
    PROVE  SeatInv' /\ MatchInv'
<1>1. /\ status \notin {"none", "closed"} /\ controller[s] = "human"
      /\ timer' = [timer EXCEPT ![s] = 0]
      /\ attachments' = [d \in Conn |-> IF d = c THEN s
                                        ELSE IF d = connectionId[s] THEN None ELSE attachments[d]]
      /\ connections' = connections \cup {c}
      /\ connectionId' = [connectionId EXCEPT ![s] = c]
      /\ present' = IF status = "in_match" THEN present \cup {s} ELSE present
      /\ UNCHANGED <<table, play, status>>
  BY DEF reconnect, attach
<1>2. SocketsOK /\ TableOK /\ PlayOK
  BY TypeParts DEF ServerInv
<1>3. /\ timer'[s] = 0 /\ connectionId'[s] = c /\ attachments'[c] = s
      /\ \A d \in Conn \ {c} : attachments'[d] \in SEAT_IDS =>
            attachments'[d] = attachments[d] /\ d # connectionId[s]
      /\ \A t \in SEAT_IDS \ {s} : timer'[t] = timer[t] /\ connectionId'[t] = connectionId[t]
  BY <1>1, <1>2, SeatIds DEF SocketsOK
<1>4. AttachedIsSeated'
  <2> SUFFICES ASSUME NEW d \in Conn, attachments'[d] \in SEAT_IDS
               PROVE  /\ status' \notin {"none", "closed"}
                      /\ controller'[attachments'[d]] = "human"
                      /\ connectionId'[attachments'[d]] = d
                      /\ d \in connections'
    BY DEF AttachedIsSeated
  <2>1. CASE d = c
    BY <1>1, <1>3, <2>1 DEF table
  <2>2. CASE d # c
    <3>1. /\ attachments[d] \in SEAT_IDS /\ attachments'[d] = attachments[d]
          /\ attachments[d] # s
      BY <1>3, <2>2 DEF ServerInv, SeatInv, AttachedIsSeated
    <3> QED
      BY <1>1, <1>3, <3>1 DEF ServerInv, SeatInv, AttachedIsSeated, table
  <2> QED
    BY <2>1, <2>2
<1>5. SeatInv'
  BY <1>1, <1>3, <1>4 DEF ServerInv, SeatInv, ReturnedIsSafe, table
<1>6. WindowRuns'
  <2> SUFFICES ASSUME NEW t \in present', Away(t)' PROVE timer'[t] = state'.game
    BY DEF WindowRuns
  <2>1. t # s
    BY <1>3, ConnectionsAssumption DEF Away
  <2>2. t \in present /\ t \in SEAT_IDS
    BY <1>1, <1>2, <2>1 DEF SocketsOK
  <2>3. Away(t)
    BY <1>1, <1>3, <2>1, <2>2 DEF Away, Humans, table, play
  <2> QED
    BY <1>1, <1>3, <2>1, <2>2, <2>3 DEF ServerInv, MatchInv, WindowRuns, play
<1> QED
  BY <1>1, <1>5, <1>6, MatchUntouched DEF table, play

(* The table: nobody's socket or window is touched.                        *)
LEMMA SeatsArranged ==
    ASSUME ServerInv, UNCHANGED <<sockets, connectionId, timer>>,
           status' \in {"none", "closed"} => status' = status,
           \A s \in SEAT_IDS : controller[s] = "human" => controller'[s] = "human",
           \A s \in SEAT_IDS : controller'[s] = "empty" => deck'[s] = "none" /\ ~ ready'[s],
           \A s \in SEAT_IDS : ready'[s] => deck'[s] = "legal",
           status' # "none"
    PROVE  SeatInv'
BY DEF ServerInv, SeatInv, AttachedIsSeated, ReturnedIsSafe, sockets

LEMMA MatchArranged ==
    ASSUME ServerInv, UNCHANGED <<state, runner>>, status # "in_match", ~ Started(status'),
           status' = "waiting" /\ state.game = 0 => ~ canStart(status, Occupied, deck, ready)'
    PROVE  MatchInv'
BY DEF ServerInv, MatchInv, BotsStopWithMatch, TableWasReady, WaitingCannotStart, WindowRuns,
       Away, Started

(* A host's seat is a living lobby's.                                      *)
LEMMA SeatedLives ==
    ASSUME ServerInv, NEW c \in Conn, Seated(c)
    PROVE  /\ status \notin {"none", "closed"}
           /\ attachments[c] \in SEAT_IDS /\ controller[attachments[c]] = "human"
BY DEF ServerInv, SeatInv, AttachedIsSeated, Seated

LEMMA RestatusFacts ==
    ASSUME NEW S, NEW decks, NEW rdy, ~ Started(status), restatus(S, decks, rdy)
    PROVE  /\ status' \in {"waiting", "ready"}
           /\ status' = "waiting" => ~ canStart(status', S, decks, rdy)
BY DEF restatus, Restated, Started, canStart

LEMMA ArrangeKeeps ==
    ASSUME ServerInv, NEW c \in Conn, Arrange(c)
    PROVE  SeatInv' /\ MatchInv'
<1>1. SocketsOK /\ TableOK /\ PlayOK
  BY TypeParts DEF ServerInv
<1>2. ASSUME NEW n \in MIN_SEATS .. MAX_SEATS, setMaxSeats(c, n) PROVE SeatInv' /\ MatchInv'
  <2>1. /\ UNCHANGED <<sockets, connectionId, timer, status, state, runner, controller, deck,
                       ready, present>>
        /\ HostOf(c)
    BY <1>2 DEF setMaxSeats, play
  <2>2. SeatInv'
    BY <2>1, SeatsArranged, SeatedLives DEF HostOf, ServerInv, SeatInv
  <2>3. WindowRuns'
    BY <2>1 DEF ServerInv, MatchInv, WindowRuns, Away, Humans
  <2> QED
    BY <2>1, <2>2, <2>3, MatchUntouched
<1>3. CASE addBot(c)
  <2> DEFINE s == First(freeBotSeats)
  <2>1. /\ s \in SEAT_IDS /\ controller[s] = "empty"
        /\ HostOf(c)
        /\ controller' = [controller EXCEPT ![s] = "bot"]
        /\ deck' = [deck EXCEPT ![s] = "legal"]
        /\ ready' = [ready EXCEPT ![s] = TRUE]
        /\ restatus(Occupied \cup {s}, deck', ready')
        /\ UNCHANGED <<sockets, connectionId, timer, state, runner>>
    BY <1>1, <1>3, FreeSeat DEF addBot, freeSeats, Occupied, play
  <2> HIDE DEF s
  <2>2. Occupied' = Occupied \cup {s}
    BY <1>1, <2>1 DEF Occupied, TableOK
  <2>3. /\ status' \in {"waiting", "ready"}
        /\ status' = "waiting" => ~ canStart(status, Occupied, deck, ready)'
    BY <2>1, <2>2, RestatusFacts DEF HostOf
  <2>4. SeatInv'
    <3>1. \A t \in SEAT_IDS : /\ controller[t] = "human" => controller'[t] = "human"
                              /\ controller'[t] = "empty" => deck'[t] = "none" /\ ~ ready'[t]
                              /\ ready'[t] => deck'[t] = "legal"
      BY <1>1, <2>1 DEF ServerInv, SeatInv, TableOK
    <3> QED
      BY <2>1, <2>3, <3>1, SeatsArranged
  <2> QED
    BY <2>1, <2>3, <2>4, MatchArranged DEF HostOf, Started
<1>4. CASE seatResolvedBot(c)
  <2>1. /\ HostOf(c) /\ restatus(Occupied, deck, ready)
        /\ UNCHANGED <<sockets, connectionId, timer, state, runner, controller, deck, ready>>
    BY <1>4 DEF seatResolvedBot, play, table
  <2>2. /\ status' \in {"waiting", "ready"}
        /\ status' = "waiting" => ~ canStart(status, Occupied, deck, ready)'
    BY <2>1, RestatusFacts DEF HostOf, Occupied
  <2>3. SeatInv'
    BY <2>1, <2>2, SeatsArranged DEF ServerInv, SeatInv
  <2> QED
    BY <2>1, <2>2, <2>3, MatchArranged DEF HostOf, Started
<1>5. ASSUME NEW s \in SEAT_IDS, removeBot(c, s) PROVE SeatInv' /\ MatchInv'
  <2>1. /\ HostOf(c) /\ controller[s] = "bot"
        /\ controller' = [controller EXCEPT ![s] = "empty"]
        /\ deck' = [deck EXCEPT ![s] = "none"]
        /\ ready' = [ready EXCEPT ![s] = FALSE]
        /\ restatus(Occupied \ {s}, deck, ready)
        /\ UNCHANGED <<sockets, connectionId, timer, state, runner>>
    BY <1>5 DEF removeBot
  <2>2. Occupied' = Occupied \ {s}
    BY <1>1, <2>1 DEF Occupied, TableOK
  <2>3. \A t \in Occupied \ {s} : deck'[t] = deck[t] /\ ready'[t] = ready[t]
    BY <1>1, <2>1 DEF Occupied, TableOK
  <2>4. /\ status' \in {"waiting", "ready"}
        /\ status' = "waiting" => ~ canStart(status', Occupied \ {s}, deck, ready)
    BY <2>1, RestatusFacts DEF HostOf
  <2>5. status' = "waiting" => ~ canStart(status, Occupied, deck, ready)'
    BY <2>2, <2>3, <2>4 DEF canStart, SeatReady
  <2>6. SeatInv'
    <3>1. \A t \in SEAT_IDS : /\ controller[t] = "human" => controller'[t] = "human"
                              /\ controller'[t] = "empty" => deck'[t] = "none" /\ ~ ready'[t]
                              /\ ready'[t] => deck'[t] = "legal"
      BY <1>1, <2>1 DEF ServerInv, SeatInv, TableOK
    <3> QED
      BY <2>1, <2>4, <3>1, SeatsArranged
  <2> QED
    BY <2>1, <2>4, <2>5, <2>6, MatchArranged DEF HostOf, Started
<1>6. ASSUME NEW p \in Pacing, setBotPacing(c, p) PROVE SeatInv' /\ MatchInv'
  <2>1. /\ UNCHANGED <<sockets, connectionId, timer, status, state, runner, controller, deck,
                       ready, present>>
        /\ HostOf(c)
    BY <1>6 DEF setBotPacing, play, table
  <2>2. SeatInv'
    BY <2>1, SeatsArranged, SeatedLives DEF HostOf, ServerInv, SeatInv
  <2>3. WindowRuns'
    BY <2>1 DEF ServerInv, MatchInv, WindowRuns, Away, Humans
  <2> QED
    BY <2>1, <2>2, <2>3, MatchUntouched
<1>7. ASSUME NEW legal \in BOOLEAN, recordSubmission(c, legal) PROVE SeatInv' /\ MatchInv'
  <2> DEFINE s == attachments[c]
  <2>1. /\ Seated(c) /\ status # "in_match"
        /\ deck' = [deck EXCEPT ![s] = IF legal THEN "legal" ELSE "illegal"]
        /\ ready' = [ready EXCEPT ![s] = @ /\ legal]
        /\ UNCHANGED <<sockets, connectionId, timer, status, state, runner, controller>>
    BY <1>7 DEF recordSubmission, play
  <2>2. /\ s \in SEAT_IDS /\ controller[s] = "human"
        /\ status \notin {"none", "closed"}
    BY <2>1, SeatedLives
  <2> HIDE DEF s
  <2>3. \A t \in SEAT_IDS : /\ ready'[t] => ready[t] /\ deck[t] = "legal" /\ deck'[t] = "legal"
                            /\ t # s => deck'[t] = deck[t] /\ ready'[t] = ready[t]
    BY <1>1, <2>1, <2>2 DEF ServerInv, SeatInv, TableOK
  <2>4. SeatInv'
    BY <2>1, <2>2, <2>3, SeatsArranged DEF ServerInv, SeatInv
  <2>5. status' = "waiting" /\ state.game = 0 => ~ canStart(status, Occupied, deck, ready)'
    <3>1. Occupied' = Occupied /\ Occupied \subseteq SEAT_IDS
      BY <2>1 DEF Occupied
    <3> QED
      BY <2>1, <2>3, <3>1 DEF ServerInv, MatchInv, WaitingCannotStart, canStart, SeatReady
  <2>6. MatchInv'
    BY <2>1, <2>5 DEF ServerInv, MatchInv, BotsStopWithMatch, TableWasReady,
       WaitingCannotStart, WindowRuns, Away
  <2> QED
    BY <2>4, <2>6
<1> QED
  BY <1>2, <1>3, <1>4, <1>5, <1>6, <1>7 DEF Arrange

(* The start: every seat dealt in is ready, and no window runs.            *)
LEMMA startMatchKeeps ==
    ASSUME ServerInv, NEW st \in {"waiting", "ready"}, startMatch(st), status # "in_match",
           canStart(st, Occupied, deck, ready'),
           st = "waiting" => state.game > 0,
           UNCHANGED <<sockets, controller, deck, connectionId, timer>>
    PROVE  status' \notin {"none", "closed"} /\ MatchInv'
<1>1. SocketsOK /\ TableOK /\ PlayOK
  BY TypeParts DEF ServerInv
<1>2. Occupied' = Occupied
  BY DEF Occupied
<1>3. CASE status' = st /\ UNCHANGED <<state, lockedPacing, runner, present>>
  BY <1>3 DEF ServerInv, MatchInv, BotsStopWithMatch, TableWasReady, WaitingCannotStart,
     WindowRuns, Away
<1>4. CASE /\ state.game < MaxMatches
           /\ state' = [NoMatch EXCEPT !.game = state.game + 1, !.alive = Occupied]
           /\ status' = "in_match"
           /\ lockedPacing' = pacing
           /\ runner' = startBots
           /\ present' = {s \in Humans : connectionId[s] # NoConnection}
  <2>1. state'.game > 0 /\ ~ state'.over
    BY <1>1, <1>4 DEF NoMatch, PlayOK, Match
  <2>2. TableWasReady'
    BY <1>2 DEF TableWasReady, canStart, SeatReady
  <2>3. WindowRuns'
    BY <1>4 DEF WindowRuns, Away
  <2> QED
    BY <1>4, <2>1, <2>2, <2>3 DEF MatchInv, Running, BotsStopWithMatch, WaitingCannotStart
<1> QED
  BY <1>3, <1>4 DEF startMatch

LEMMA StartKeeps ==
    ASSUME ServerInv, NEW c \in Conn, requestStart(c) \/ \E rdy \in BOOLEAN : setReady(c, rdy)
    PROVE  SeatInv' /\ MatchInv'
<1>1. SocketsOK /\ TableOK /\ PlayOK
  BY TypeParts DEF ServerInv
<1>2. CASE requestStart(c)
  <2>1. /\ HostOf(c) /\ canStart(status, Occupied, deck, ready) /\ startMatch(status)
        /\ UNCHANGED <<sockets, controller, deck, ready, connectionId, timer>>
    BY <1>2 DEF requestStart, table
  <2>2. status \in {"waiting", "ready"}
    BY <1>1, <2>1, SeatedLives DEF HostOf, Started, PlayOK, LobbyStatus
  <2>3. status = "waiting" => state.game > 0
    BY <1>1, <2>1 DEF ServerInv, MatchInv, WaitingCannotStart, PlayOK, Match
  <2>4. status' \notin {"none", "closed"} /\ MatchInv'
    BY <2>1, <2>2, <2>3, startMatchKeeps
  <2> QED
    BY <2>1, <2>4, SeatsArranged DEF ServerInv, SeatInv
<1>3. ASSUME NEW rdy \in BOOLEAN, setReady(c, rdy) PROVE SeatInv' /\ MatchInv'
  <2> DEFINE s == attachments[c]
             st == Restated(status, Occupied, deck, ready')
  <2>1. /\ Seated(c) /\ status # "in_match"
        /\ rdy => deck[s] = "legal"
        /\ ready' = [ready EXCEPT ![s] = rdy]
        /\ UNCHANGED <<sockets, controller, deck, connectionId, timer>>
        /\ \/ canStart(st, Occupied, deck, ready') /\ startMatch(st)
           \/ status' = st /\ UNCHANGED <<state, lockedPacing, runner, present>>
    BY <1>3 DEF setReady
  <2>2. s \in SEAT_IDS /\ controller[s] = "human" /\ status \notin {"none", "closed"}
    BY <2>1, SeatedLives
  <2>3. \A t \in SEAT_IDS : /\ ready'[t] => deck[t] = "legal"
                            /\ controller[t] = "empty" => ~ ready'[t]
    BY <1>1, <2>1, <2>2 DEF ServerInv, SeatInv, TableOK
  <2>4. /\ st \in {"waiting", "ready"}
        /\ st = "waiting" => ~ canStart(status, Occupied, deck, ready')
    BY DEF Restated
  <2>5. state.game = 0 => ~ Started(status)
    BY <1>1, <2>1 DEF ServerInv, MatchInv, Started
  <2> HIDE DEF s, st
  <2>6. Occupied' = Occupied
    BY <2>1 DEF Occupied
  <2>7. status' \notin {"none", "closed"} /\ MatchInv'
    <3>1. CASE canStart(st, Occupied, deck, ready') /\ startMatch(st)
      <4>1. st = "waiting" => state.game > 0
        BY <1>1, <2>4, <2>5, <3>1 DEF canStart, PlayOK, Match
      <4> QED
        BY <2>1, <2>4, <3>1, <4>1, startMatchKeeps
    <3>2. CASE status' = st /\ UNCHANGED <<state, lockedPacing, runner, present>>
      <4>1. status' = "waiting" /\ state.game = 0 => ~ canStart(status, Occupied, deck, ready)'
        BY <2>1, <2>4, <2>5, <2>6, <3>2 DEF canStart, SeatReady
      <4> QED
        BY <2>1, <2>4, <3>2, <4>1, MatchArranged DEF Started
    <3> QED
      BY <2>1, <3>1, <3>2
  <2>8. SeatInv'
    BY <2>1, <2>3, <2>7, SeatsArranged DEF ServerInv, SeatInv
  <2> QED
    BY <2>7, <2>8
<1> QED
  BY <1>2, <1>3

(* Plays, of people and bots: seats and windows stay, the dead stay dead.  *)
LEMMA PlayKeeps ==
    ASSUME ServerInv, UNCHANGED <<sockets, table, connectionId, timer, present>>,
           \/ Moved
           \/ UNCHANGED <<state, status>> /\ runner'.mode = runner.mode
    PROVE  SeatInv' /\ MatchInv'
<1>1. CASE Moved
  <2>1. PICK m, r : state' = m /\ Moves(m, r, status', runner', records')
    BY <1>1 DEF Moved
  <2>2. /\ status = "in_match"
        /\ \/ status' = "in_match" /\ Running(state') /\ runner'.mode = runner.mode
           \/ /\ status' = "finished" /\ ~ Running(state')
              /\ runner'.mode # "running" /\ state'.game > 0
    BY <2>1, MovesFacts
  <2>3. state'.game = state.game /\ state'.alive \subseteq state.alive
    BY <2>1 DEF Moves
  <2>4. SeatInv'
    BY <2>2, SeatsArranged DEF ServerInv, SeatInv, table
  <2>5. TableWasReady'
    BY <2>2 DEF ServerInv, MatchInv, TableWasReady, Occupied, SeatReady, table
  <2>6. WindowRuns'
    BY <2>2, <2>3 DEF ServerInv, MatchInv, WindowRuns, Away, Humans, table
  <2> QED
    BY <2>2, <2>4, <2>5, <2>6 DEF ServerInv, MatchInv, BotsStopWithMatch, WaitingCannotStart
<1>2. CASE UNCHANGED <<state, status>> /\ runner'.mode = runner.mode
  <2>1. SeatInv'
    BY <1>2 DEF ServerInv, SeatInv, AttachedIsSeated, ReturnedIsSafe, sockets, table
  <2>2. MatchInv'
    BY <1>2 DEF ServerInv, MatchInv, BotsStopWithMatch, TableWasReady, WaitingCannotStart,
       WindowRuns, Away, Occupied, Humans, SeatReady, canStart, table
  <2> QED
    BY <2>1, <2>2
<1> QED
  BY <1>1, <1>2

LEMMA SubmitKeeps ==
    ASSUME ServerInv, NEW c \in Conn, NEW id \in ActionId,
           submitAction(c, id) \/ submitConcede(c, id)
    PROVE  SeatInv' /\ MatchInv'
<1>1. PlayOK
  BY TypeParts DEF ServerInv
<1>2. UNCHANGED <<sockets, table, connectionId, timer, present>>
  BY DEF submitAction, submitConcede
<1>3. Moved \/ UNCHANGED <<state, runner, status>>
  BY <1>1, submitActionMoves, submitConcedeMoves
<1> QED
  BY <1>2, <1>3, PlayKeeps

LEMMA BotKeeps ==
    ASSUME ServerInv, NEW s \in SEAT_IDS, applyBotAction(s)
    PROVE  SeatInv' /\ MatchInv'
<1>1. UNCHANGED <<sockets, table, connectionId, timer, present>>
  BY DEF applyBotAction
<1>2. BotsStopWithMatch
  BY DEF ServerInv, MatchInv
<1>3. \/ Moved
      \/ UNCHANGED <<state, status>> /\ runner'.mode = runner.mode
  <2>1. TypeOK
    BY DEF ServerInv
  <2> QED
    BY <1>2, <2>1, applyBotActionMoves
<1> QED
  BY <1>1, <1>3, PlayKeeps

(* The window runs out: the seat it was for is no longer alive.            *)
LEMMA TimerKeeps ==
    ASSUME ServerInv, NEW s \in SEAT_IDS, timeOutSeat(s)
    PROVE  SeatInv' /\ MatchInv'
<1>1. SocketsOK /\ PlayOK
  BY TypeParts DEF ServerInv
<1>2. /\ UNCHANGED <<sockets, table, connectionId, present>>
      /\ timer' = [timer EXCEPT ![s] = 0]
  BY DEF timeOutSeat
<1>3. /\ timer'[s] = 0
      /\ \A t \in SEAT_IDS \ {s} : timer'[t] = timer[t]
  BY <1>1, <1>2 DEF SocketsOK
<1>4. CASE Moved /\ s \notin state'.alive
  <2>1. PICK m, r : state' = m /\ Moves(m, r, status', runner', records')
    BY <1>4 DEF Moved
  <2>2. /\ status = "in_match"
        /\ \/ status' = "in_match" /\ Running(state') /\ runner'.mode = runner.mode
           \/ /\ status' = "finished" /\ ~ Running(state')
              /\ runner'.mode # "running" /\ state'.game > 0
    BY <2>1, MovesFacts
  <2>3. state'.game = state.game /\ state'.alive \subseteq state.alive
    BY <2>1 DEF Moves
  <2>4. SeatInv'
    BY <1>2, <1>3, <2>2 DEF ServerInv, SeatInv, AttachedIsSeated, ReturnedIsSafe, sockets, table
  <2>5. TableWasReady'
    BY <1>2, <2>2 DEF ServerInv, MatchInv, TableWasReady, Occupied, SeatReady, table
  <2>6. WindowRuns'
    BY <1>1, <1>2, <1>3, <1>4, <2>2, <2>3
       DEF ServerInv, MatchInv, WindowRuns, Away, Humans, table, SocketsOK
  <2> QED
    BY <2>2, <2>4, <2>5, <2>6 DEF ServerInv, MatchInv, BotsStopWithMatch, WaitingCannotStart
<1>5. CASE ~ Running(state) /\ UNCHANGED <<state, status, runner, records>>
  <2>1. SeatInv'
    BY <1>2, <1>3, <1>5
       DEF ServerInv, SeatInv, AttachedIsSeated, ReturnedIsSafe, sockets, table
  <2>2. MatchInv'
    BY <1>2, <1>5 DEF ServerInv, MatchInv, BotsStopWithMatch, TableWasReady,
       WaitingCannotStart, WindowRuns, Away, Occupied, SeatReady, canStart, table
  <2> QED
    BY <2>1, <2>2
<1> QED
  BY <1>1, <1>4, <1>5, timeOutSeatMoves

(* What is left for disconnect agrees on whether the match still runs.     *)
LEMMA PartsFacts ==
    ASSUME ServerInv, NEW c \in Conn, NEW st, NEW r, NEW m, Parts(c, st, r, m)
    PROVE  /\ st = "in_match" <=> Running(m)
           /\ st = "in_match" => status = "in_match"
           /\ st \in {"none", "closed"} => st = status
           /\ st = "waiting" => st = status /\ m = state
           /\ st = "finished" => m.game > 0
           /\ r.mode = "running" => Running(m)
           /\ m.game = state.game /\ m.alive \subseteq state.alive
<1>1. CASE m = state /\ st = status /\ r = runner
  BY <1>1 DEF ServerInv, MatchInv, BotsStopWithMatch
<1>2. CASE Moves(m, runner, st, r, records')
  BY <1>2, MovesFacts DEF Moves, ServerInv, MatchInv, BotsStopWithMatch
<1> QED
  BY <1>1, <1>2 DEF Parts

(* The connection lets go of its seat, under a window while the match      *)
(* runs, and the lobby is dropped only when no person is left.             *)
LEMMA LetGo ==
    ASSUME ServerInv, NEW c \in Conn, NEW st, NEW r, NEW m, Parts(c, st, r, m)
    PROVE  /\ connections' = connections \ {c}
           /\ attachments'[c] = None
           /\ \A d \in Conn \ {c} : attachments'[d] = attachments[d]
           /\ \A t \in SEAT_IDS :
                 \/ /\ connectionId'[t] = connectionId[t] /\ timer'[t] = timer[t]
                    /\ attachments[c] # t
                 \/ /\ attachments[c] = t /\ connectionId'[t] = NoConnection
                    /\ timer'[t] = IF Running(m) THEN m.game ELSE timer[t]
           /\ \/ status' = st /\ runner' = r
              \/ /\ status' = "closed" /\ runner' = NoRunner /\ ~ Running(m)
                 /\ \A h \in Humans : connectionId'[h] = NoConnection
<1> DEFINE s == attachments[c]
<1>1. SocketsOK /\ disconnect(c, st, r, m)
  BY TypeParts DEF ServerInv, Parts
<1>2. connections' = connections \ {c} /\ attachments' = [attachments EXCEPT ![c] = None]
  BY <1>1 DEF disconnect
<1>3. st = "in_match" <=> Running(m)
  BY PartsFacts
<1>4. CASE s \in SEAT_IDS
  <2>1. connectionId[s] = c
    BY <1>4 DEF ServerInv, SeatInv, AttachedIsSeated
  <2>2. /\ connectionId' = [connectionId EXCEPT ![s] = NoConnection]
        /\ timer' = IF Running(m) THEN [timer EXCEPT ![s] = m.game] ELSE timer
    BY <1>1, <1>3, <1>4, <2>1 DEF disconnect, WindowOpens
  <2>3. \/ status' = st /\ runner' = r
        \/ /\ status' = "closed" /\ runner' = NoRunner /\ ~ Running(m)
           /\ \A h \in Humans : connectionId'[h] = NoConnection
    BY <1>1, <1>3, <1>4, <2>1 DEF disconnect
  <2> HIDE DEF s
  <2>4. \A t \in SEAT_IDS :
           \/ connectionId'[t] = connectionId[t] /\ timer'[t] = timer[t] /\ s # t
           \/ /\ s = t /\ connectionId'[t] = NoConnection
              /\ timer'[t] = IF Running(m) THEN m.game ELSE timer[t]
    BY <1>1, <1>4, <2>2 DEF SocketsOK
  <2> QED
    BY <1>1, <1>2, <2>3, <2>4 DEF SocketsOK, s
<1>5. CASE s \notin SEAT_IDS
  <2>1. UNCHANGED <<connectionId, timer>> /\ status' = st /\ runner' = r
    BY <1>1, <1>5 DEF disconnect, WindowOpens
  <2> QED
    BY <1>1, <1>2, <1>5, <2>1 DEF SocketsOK
<1> QED
  BY <1>4, <1>5

LEMMA LeaveKeeps ==
    ASSUME ServerInv, NEW c \in Conn, leave(c) \/ Close(c)
    PROVE  SeatInv' /\ MatchInv'
<1>1. SocketsOK /\ TableOK /\ PlayOK
  BY TypeParts DEF ServerInv
<1>2. PICK st, r, m : Parts(c, st, r, m)
  BY LeaveParts DEF ServerInv
<1>3. UNCHANGED <<table, present>> /\ state' = m
  BY <1>2 DEF leave, Close, Parts
<1>4. /\ st = "in_match" <=> Running(m)
      /\ st = "in_match" => status = "in_match"
      /\ st \in {"none", "closed"} => st = status
      /\ st = "waiting" => st = status /\ m = state
      /\ st = "finished" => m.game > 0
      /\ r.mode = "running" => Running(m)
      /\ m.game = state.game /\ m.alive \subseteq state.alive
  BY <1>2, PartsFacts
<1>5. /\ connections' = connections \ {c}
      /\ attachments'[c] = None
      /\ \A d \in Conn \ {c} : attachments'[d] = attachments[d]
      /\ \A t \in SEAT_IDS :
            \/ /\ connectionId'[t] = connectionId[t] /\ timer'[t] = timer[t]
               /\ attachments[c] # t
            \/ /\ attachments[c] = t /\ connectionId'[t] = NoConnection
               /\ timer'[t] = IF Running(m) THEN m.game ELSE timer[t]
  BY <1>2, LetGo
<1>6. \/ status' = st /\ runner' = r
      \/ /\ status' = "closed" /\ runner' = NoRunner /\ ~ Running(m)
         /\ \A h \in Humans : connectionId'[h] = NoConnection
  BY <1>2, LetGo
<1>7. AttachedIsSeated'
  <2> SUFFICES ASSUME NEW d \in Conn, attachments'[d] \in SEAT_IDS
               PROVE  /\ status' \notin {"none", "closed"}
                      /\ controller'[attachments'[d]] = "human"
                      /\ connectionId'[attachments'[d]] = d
                      /\ d \in connections'
    BY DEF AttachedIsSeated
  <2>1. d # c /\ attachments'[d] = attachments[d]
    BY <1>5, SeatIds
  <2>2. /\ attachments[d] \in SEAT_IDS /\ controller[attachments[d]] = "human"
        /\ connectionId[attachments[d]] = d /\ d \in connections
        /\ status \notin {"none", "closed"}
    BY <2>1 DEF ServerInv, SeatInv, AttachedIsSeated
  <2>3. attachments[c] # attachments[d]
    BY <2>1, <2>2 DEF ServerInv, SeatInv, AttachedIsSeated
  <2>4. connectionId'[attachments[d]] = d
    BY <1>5, <2>2, <2>3
  <2>5. status' \notin {"none", "closed"}
    BY <1>4, <1>6, <2>2, <2>4, ConnectionsAssumption DEF Humans
  <2> QED
    BY <1>3, <1>5, <2>1, <2>2, <2>4, <2>5 DEF table
<1>8. SeatInv'
  <2>1. \A t \in SEAT_IDS : timer'[t] > 0 => /\ connectionId'[t] = NoConnection
                                             /\ controller'[t] = "human"
    BY <1>3, <1>5 DEF ServerInv, SeatInv, AttachedIsSeated, ReturnedIsSafe, table
  <2>2. status' = "none" => status = "none"
    BY <1>4, <1>6
  <2> QED
    BY <1>3, <1>7, <2>1, <2>2 DEF ServerInv, SeatInv, ReturnedIsSafe, table
<1>9. WindowRuns'
  <2> SUFFICES ASSUME NEW t \in present', Away(t)' PROVE timer'[t] = state'.game
    BY DEF WindowRuns
  <2>1. status' = st /\ st = "in_match" /\ Running(m) /\ status = "in_match"
    BY <1>4, <1>6 DEF Away
  <2>2. t \in SEAT_IDS /\ t \in present
    BY <1>1, <1>3 DEF SocketsOK
  <2>3. CASE connectionId'[t] = connectionId[t] /\ timer'[t] = timer[t]
    <3>1. Away(t)
      BY <1>3, <1>4, <2>1, <2>3 DEF Away, Humans, table
    <3> QED
      BY <1>3, <1>4, <2>2, <2>3, <3>1 DEF ServerInv, MatchInv, WindowRuns
  <2> QED
    BY <1>3, <1>5, <2>1, <2>2, <2>3
<1>10. BotsStopWithMatch' /\ (status = "in_match" <=> Running(state))'
  BY <1>3, <1>4, <1>6 DEF BotsStopWithMatch, NoRunner
<1>11. TableWasReady' /\ WaitingCannotStart' /\ (status' = "finished" => state'.game > 0)
  <2>1. Occupied' = Occupied
    BY <1>3 DEF Occupied, table
  <2>2. TableWasReady'
    BY <1>3, <1>4, <1>6, <2>1
       DEF ServerInv, MatchInv, TableWasReady, SeatReady, table
  <2>3. status' = "waiting" => status = "waiting" /\ state' = state
    BY <1>3, <1>4, <1>6
  <2>4. WaitingCannotStart'
    BY <1>3, <2>1, <2>3
       DEF ServerInv, MatchInv, WaitingCannotStart, canStart, SeatReady, table
  <2>5. status' = "finished" => state'.game > 0
    BY <1>3, <1>4, <1>6
  <2> QED
    BY <2>2, <2>4, <2>5
<1> QED
  BY <1>8, <1>9, <1>10, <1>11 DEF MatchInv

LEMMA NextKeeps == ServerInv /\ [Next]_vars => ServerInv'
<1> SUFFICES ASSUME ServerInv, [Next]_vars PROVE ServerInv'
  OBVIOUS
<1>1. TypeOK /\ BotsStopWithMatch
  BY DEF ServerInv, MatchInv
<1>2. CASE Next
  <2>1. TypeOK'
    BY <1>1, <1>2, NextType
  <2>2. ASSUME NEW c \in Conn, Enter(c) PROVE SeatInv' /\ MatchInv'
    BY <2>2, ConnectKeeps, CreateKeeps, JoinKeeps, ReconnectKeeps DEF Enter
  <2>3. ASSUME NEW c \in Conn, Play(c) PROVE SeatInv' /\ MatchInv'
    BY <2>3, StartKeeps, SubmitKeeps, LeaveKeeps DEF Play
  <2>4. ASSUME NEW c \in Conn, connect(c) \/ Close(c) \/ Enter(c) \/ Arrange(c) \/ Play(c)
        PROVE  SeatInv' /\ MatchInv'
    BY <2>2, <2>3, <2>4, ConnectKeeps, LeaveKeeps, ArrangeKeeps
  <2>5. ASSUME NEW s \in SEAT_IDS, timeOutSeat(s) \/ applyBotAction(s)
        PROVE  SeatInv' /\ MatchInv'
    BY <2>5, TimerKeeps, BotKeeps
  <2>6. SeatInv' /\ MatchInv'
    BY <1>2, <2>4, <2>5 DEF Next
  <2> QED
    BY <2>1, <2>6 DEF ServerInv
<1>3. CASE UNCHANGED vars
  <2>1. TypeOK'
    BY <1>1, <1>3 DEF TypeOK, vars, sockets, table, budgets, play
  <2>2. UNCHANGED <<sockets, table, play, status, connectionId, timer, present>>
    BY <1>3 DEF vars
  <2>3. SeatInv'
    BY <2>2 DEF ServerInv, SeatInv, AttachedIsSeated, ReturnedIsSafe, sockets, table
  <2>4. WindowRuns'
    BY <2>2 DEF ServerInv, MatchInv, WindowRuns, Away, Humans, table, play
  <2>5. MatchInv'
    BY <2>2, <2>4, MatchUntouched DEF table, play
  <2> QED
    BY <2>1, <2>3, <2>5 DEF ServerInv
<1> QED
  BY <1>2, <1>3

LEMMA ServerInvariant == Spec => []ServerInv
<1>1. Init => ServerInv
  BY InitServerInv
<1> QED
  BY <1>1, NextKeeps, PTL DEF Spec

(* The lobby, its seats, timers, match, runner and published records keep  *)
(* their types, for any number of seats, connections and matches.          *)
THEOREM TypeCorrect == Spec => []TypeOK
<1>1. ServerInv => TypeOK
  BY DEF ServerInv
<1> QED
  BY <1>1, ServerInvariant, PTL

(* A connection acts for at most the person's seat that names it, in a     *)
(* lobby that was not dropped (attach, reconnect, disconnect).             *)
THEOREM OneSeatOneSocket == Spec => []AttachedIsSeated
<1>1. ServerInv => AttachedIsSeated
  BY DEF ServerInv, SeatInv
<1> QED
  BY <1>1, ServerInvariant, PTL

(* A window that counts is that of a seat nobody is connected to, so       *)
(* timeOutSeat never times out a player who came back.                     *)
THEOREM BackIsSafe == Spec => []ReturnedIsSafe
<1>1. ServerInv => ReturnedIsSafe
  BY DEF ServerInv, SeatInv
<1> QED
  BY <1>1, ServerInvariant, PTL

(* Whoever dropped out of a running match he was connected to has a window *)
(* of this match counting (disconnect).                                    *)
THEOREM DropStartsWindow == Spec => []WindowRuns
<1>1. ServerInv => WindowRuns
  BY DEF ServerInv, MatchInv
<1> QED
  BY <1>1, ServerInvariant, PTL

(* canStart guards both starts (requestStart, setReady), and nothing it    *)
(* asked for is taken back while the match runs.                           *)
THEOREM StartedReady == Spec => []TableWasReady
<1>1. ServerInv => TableWasReady
  BY DEF ServerInv, MatchInv
<1> QED
  BY <1>1, ServerInvariant, PTL

(* The status is written again wherever the answer of canStart could turn  *)
(* to yes (restatus, setReady), up to the first match.                     *)
THEOREM WaitingIsTrue == Spec => []WaitingCannotStart
<1>1. ServerInv => WaitingCannotStart
  BY DEF ServerInv, MatchInv
<1> QED
  BY <1>1, ServerInvariant, PTL

(* The runner is stopped by whichever handler ends the match: an action,   *)
(* a concession, a departure, a window (stopBots, closeIfAbandoned).       *)
THEOREM BotsStop == Spec => []BotsStopWithMatch
<1>1. ServerInv => BotsStopWithMatch
  BY DEF ServerInv, MatchInv
<1> QED
  BY <1>1, ServerInvariant, PTL

-----------------------------------------------------------------------------
(* What the engine took and what was published.                            *)

TakenOnce ==
    \A s \in SEAT_IDS : \A id \in ActionId \cup 0 .. MaxDecisions :
        executed[s][id] <= 1 /\ (executed[s][id] > 0 => id \in appliedActions[s])

HistoryInv == TakenOnce /\ PublishedOnce /\ OriginIsTrue

LEMMA InitHistory == Init => HistoryInv
BY DEF Init, HistoryInv, TakenOnce, PublishedOnce, OriginIsTrue, Running, NoMatch

LEMMA TakesOnce ==
    ASSUME PlayOK, TakenOnce, NEW s \in SEAT_IDS, NEW id \in ActionId \cup 0 .. MaxDecisions,
           id \notin appliedActions[s], Takes(s, id)
    PROVE  TakenOnce'
<1> SUFFICES ASSUME NEW t \in SEAT_IDS, NEW i \in ActionId \cup 0 .. MaxDecisions
             PROVE  executed'[t][i] <= 1 /\ (executed'[t][i] > 0 => i \in appliedActions'[t])
  BY DEF TakenOnce
<1>1. executed[s] \in [ActionId \cup 0 .. MaxDecisions -> Nat] /\ executed[s][id] \in Nat
  BY DEF PlayOK
<1>2. executed[s][id] = 0
  BY <1>1 DEF TakenOnce
<1>3. executed' = [executed EXCEPT ![s] = [executed[s] EXCEPT ![id] = 1]]
  BY <1>2 DEF Takes
<1>4. appliedActions'[t] = IF t = s THEN appliedActions[s] \cup {id} ELSE appliedActions[t]
  BY DEF Takes, PlayOK
<1>5. executed'[t] = IF t = s THEN [executed[s] EXCEPT ![id] = 1] ELSE executed[t]
  BY <1>3 DEF PlayOK
<1>6. executed[t][i] <= 1 /\ (executed[t][i] > 0 => i \in appliedActions[t])
  BY DEF TakenOnce
<1>7. CASE t = s /\ i = id
  BY <1>1, <1>4, <1>5, <1>7
<1>8. CASE t = s /\ i # id
  BY <1>1, <1>4, <1>5, <1>6, <1>8
<1>9. CASE t # s
  BY <1>4, <1>5, <1>6, <1>9
<1> QED
  BY <1>7, <1>8, <1>9

(* A match that ends is published, after all those before it.              *)
LEMMA MovesPublish ==
    ASSUME ServerInv, HistoryInv, NEW m, NEW r, NEW st, NEW run,
           Moves(m, r, st, run, records'), state' = m
    PROVE  PublishedOnce' /\ OriginIsTrue'
<1>1. PlayOK
  BY TypeParts DEF ServerInv
<1>2. status = "in_match" /\ Running(state)
  BY MovesFacts
<1>3. PICK cause \in Origin : Sent(m, cause, r, st, run, records')
  BY DEF Moves
<1>4. m.game = state.game /\ state.game \in Nat /\ state.game > 0 /\ m.over \in BOOLEAN
  BY <1>1, BoundsAssumption DEF Moves, Match, PlayOK
<1>5. Len(records) = state.game - 1 /\ records \in Seq(Record)
  BY <1>1, <1>2 DEF HistoryInv, PublishedOnce, PlayOK
<1>6. CASE ~ m.over
  <2>1. records' = records
    BY <1>3, <1>6 DEF Sent, Finishes
  <2> QED
    BY <1>2, <1>4, <1>6, <2>1 DEF HistoryInv, PublishedOnce, OriginIsTrue, Running
<1>7. CASE m.over
  <2>1. PICK rec \in Record : /\ records' = Append(records, rec)
                              /\ rec.game = m.game
                              /\ rec.origin \in {"unrecorded", rec.cause}
    BY <1>2, <1>3, <1>7 DEF Sent, Finishes
  <2>2. /\ Len(records') = state.game
        /\ DOMAIN records' = 1 .. state.game
        /\ \A i \in 1 .. state.game - 1 : records'[i] = records[i]
        /\ records'[state.game] = rec
    BY <1>4, <1>5, <2>1
  <2>3. DOMAIN records = 1 .. state.game - 1
    BY <1>4, <1>5
  <2>4. \A i \in DOMAIN records' : \/ i \in DOMAIN records /\ records'[i] = records[i]
                                   \/ i = state.game /\ records'[i] = rec
    BY <1>4, <2>2, <2>3
  <2>5. PublishedOnce'
    BY <1>4, <1>7, <2>1, <2>2, <2>4 DEF HistoryInv, PublishedOnce, Running
  <2>6. OriginIsTrue'
    BY <2>1, <2>4 DEF HistoryInv, OriginIsTrue
  <2> QED
    BY <2>5, <2>6
<1> QED
  BY <1>4, <1>6, <1>7

LEMMA HistoryUntouched ==
    ASSUME HistoryInv, UNCHANGED <<appliedActions, executed, state, records>>
    PROVE  HistoryInv'
BY DEF HistoryInv, TakenOnce, PublishedOnce, OriginIsTrue

LEMMA PublishedUntouched ==
    ASSUME HistoryInv, UNCHANGED <<state, records>>
    PROVE  PublishedOnce' /\ OriginIsTrue'
BY DEF HistoryInv, PublishedOnce, OriginIsTrue

LEMMA TakenUntouched ==
    ASSUME HistoryInv, UNCHANGED <<appliedActions, executed>>
    PROVE  TakenOnce'
BY DEF HistoryInv, TakenOnce

LEMMA MovedPublishes ==
    ASSUME ServerInv, HistoryInv, Moved
    PROVE  PublishedOnce' /\ OriginIsTrue'
BY MovesPublish DEF Moved

LEMMA removeBotHistory ==
    ASSUME ServerInv, HistoryInv, NEW c \in Conn, NEW s \in SEAT_IDS, removeBot(c, s)
    PROVE  HistoryInv'
<1>1. PlayOK
  BY TypeParts DEF ServerInv
<1>2. PublishedOnce' /\ OriginIsTrue'
  BY PublishedUntouched DEF removeBot
<1>3. \A t \in SEAT_IDS : \A i \in ActionId \cup 0 .. MaxDecisions :
         \/ executed'[t][i] = 0
         \/ /\ executed'[t][i] = executed[t][i]
            /\ appliedActions'[t] = appliedActions[t]
  BY <1>1 DEF removeBot, PlayOK
<1>4. TakenOnce'
  BY <1>3 DEF HistoryInv, TakenOnce
<1> QED
  BY <1>2, <1>4 DEF HistoryInv

LEMMA StartHistory ==
    ASSUME ServerInv, HistoryInv, NEW c \in Conn,
           requestStart(c) \/ \E rdy \in BOOLEAN : setReady(c, rdy)
    PROVE  HistoryInv'
<1>1. PlayOK
  BY TypeParts DEF ServerInv
<1>2. /\ status # "in_match"
      /\ UNCHANGED <<appliedActions, executed, records>>
      /\ \/ state' = state
         \/ state' = [NoMatch EXCEPT !.game = state.game + 1, !.alive = Occupied]
  BY DEF requestStart, HostOf, Started, setReady, startMatch
<1>3. state.game \in Nat /\ Len(records) = state.game
  BY <1>1, <1>2, BoundsAssumption
     DEF ServerInv, MatchInv, HistoryInv, PublishedOnce, PlayOK, Match
<1>4. CASE state' = [NoMatch EXCEPT !.game = state.game + 1, !.alive = Occupied]
  <2>1. Running(state') /\ state'.game = state.game + 1
    BY <1>3, <1>4 DEF Running, NoMatch
  <2>2. PublishedOnce' /\ OriginIsTrue'
    BY <1>2, <1>3, <2>1 DEF HistoryInv, PublishedOnce, OriginIsTrue
  <2> QED
    BY <1>2, <2>2, TakenUntouched DEF HistoryInv
<1> QED
  BY <1>2, <1>4, HistoryUntouched

LEMMA SubmitHistory ==
    ASSUME ServerInv, HistoryInv, NEW c \in Conn, NEW id \in ActionId,
           submitAction(c, id) \/ submitConcede(c, id)
    PROVE  HistoryInv'
<1>1. PlayOK
  BY TypeParts DEF ServerInv
<1>2. attachments[c] \in SEAT_IDS /\ id \notin appliedActions[attachments[c]]
  BY DEF submitAction, submitConcede, Submits, Seated
<1>3. \/ Moved /\ Takes(attachments[c], id)
      \/ UNCHANGED <<appliedActions, state, runner, records, executed, status>>
  BY <1>1, submitActionMoves, submitConcedeMoves DEF submitAction
<1>4. ASSUME Moved, Takes(attachments[c], id) PROVE HistoryInv'
  BY <1>1, <1>2, <1>4, TakesOnce, MovedPublishes DEF HistoryInv
<1> QED
  BY <1>3, <1>4, HistoryUntouched

LEMMA TimerAndBotHistory ==
    ASSUME ServerInv, HistoryInv, NEW s \in SEAT_IDS, timeOutSeat(s) \/ applyBotAction(s)
    PROVE  HistoryInv'
<1>1. PlayOK /\ TypeOK /\ BotsStopWithMatch
  BY TypeParts DEF ServerInv, MatchInv
<1>2. CASE timeOutSeat(s)
  <2>1. UNCHANGED <<appliedActions, executed>>
    BY <1>2 DEF timeOutSeat
  <2>2. PublishedOnce' /\ OriginIsTrue'
    BY <1>1, <1>2, timeOutSeatMoves, MovedPublishes, PublishedUntouched
  <2> QED
    BY <2>1, <2>2, TakenUntouched DEF HistoryInv
<1>3. CASE applyBotAction(s)
  <2> DEFINE id == runner.decisions[s]
  <2>1. /\ id \in 0 .. MaxDecisions
        /\ \/ Moved /\ id \notin appliedActions[s] /\ Takes(s, id)
           \/ UNCHANGED <<appliedActions, executed, state, records>>
    BY <1>1, <1>3, applyBotActionMoves
  <2> HIDE DEF id
  <2>2. ASSUME Moved, id \notin appliedActions[s], Takes(s, id) PROVE HistoryInv'
    BY <1>1, <2>1, <2>2, TakesOnce, MovedPublishes DEF HistoryInv
  <2> QED
    BY <2>1, <2>2, HistoryUntouched
<1> QED
  BY <1>2, <1>3

LEMMA LeaveHistory ==
    ASSUME ServerInv, HistoryInv, NEW c \in Conn, leave(c) \/ Close(c)
    PROVE  HistoryInv'
<1>1. PICK st, r, m : Parts(c, st, r, m)
  BY LeaveParts DEF ServerInv
<1>2. UNCHANGED <<appliedActions, executed>>
  BY DEF leave, Close
<1>3. PublishedOnce' /\ OriginIsTrue'
  BY <1>1, MovesPublish, PublishedUntouched DEF Parts
<1> QED
  BY <1>2, <1>3, TakenUntouched DEF HistoryInv

LEMMA NextHistory == ServerInv /\ HistoryInv /\ [Next]_vars => HistoryInv'
<1> SUFFICES ASSUME ServerInv, HistoryInv, [Next]_vars PROVE HistoryInv'
  OBVIOUS
<1>1. ASSUME NEW c \in Conn, connect(c) \/ Enter(c) PROVE HistoryInv'
  <2>1. UNCHANGED <<appliedActions, executed, state, records>>
    BY <1>1 DEF connect, Enter, createLobby, joinLobby, EnterElsewhere, reconnect, play
  <2> QED
    BY <2>1, HistoryUntouched
<1>2. ASSUME NEW c \in Conn, Arrange(c) PROVE HistoryInv'
  <2>1. \/ UNCHANGED <<appliedActions, executed, state, records>>
        \/ \E s \in SEAT_IDS : removeBot(c, s)
    BY <1>2 DEF Arrange, setMaxSeats, addBot, seatResolvedBot, setBotPacing,
       recordSubmission, play
  <2> QED
    BY <2>1, HistoryUntouched, removeBotHistory
<1>3. ASSUME NEW c \in Conn, Play(c) \/ Close(c) PROVE HistoryInv'
  BY <1>3, StartHistory, SubmitHistory, LeaveHistory DEF Play
<1>4. CASE UNCHANGED vars
  BY <1>4, HistoryUntouched DEF vars, play
<1>5. CASE Next
  BY <1>1, <1>2, <1>3, <1>5, TimerAndBotHistory DEF Next
<1> QED
  BY <1>4, <1>5

LEMMA HistoryInvariant == Spec => []HistoryInv
<1>1. Init => HistoryInv
  BY InitHistory
<1> QED
  BY <1>1, NextHistory, ServerInvariant, PTL DEF Spec

(* An action identity of a seat reaches the engine at most once, whatever  *)
(* reconnections, takeovers and retries repeat it (appliedActions).        *)
THEOREM TakesEachOnce == Spec => []AppliedOnce
<1>1. ServerInv /\ HistoryInv => AppliedOnce
  <2> SUFFICES ASSUME ServerInv, HistoryInv, NEW s \in SEAT_IDS, NEW id \in DOMAIN executed[s]
               PROVE  executed[s][id] <= 1
    BY DEF AppliedOnce
  <2>1. id \in ActionId \cup 0 .. MaxDecisions
    BY TypeParts DEF ServerInv, PlayOK
  <2> QED
    BY <2>1 DEF HistoryInv, TakenOnce
<1> QED
  BY <1>1, ServerInvariant, HistoryInvariant, PTL

(* Each match is published once, when it is over and in the order played,  *)
(* whichever of the five handlers ended it (broadcastMatchState).          *)
THEOREM PublishesEachOnce == Spec => []PublishedOnce
<1>1. HistoryInv => PublishedOnce
  BY DEF HistoryInv
<1> QED
  BY <1>1, HistoryInvariant, PTL

(* The origin recorded of a two-seat match is what ended it, although      *)
(* lastConcedeOrigin outlives the concession it was noted for.             *)
THEOREM OriginRecorded == Spec => []OriginIsTrue
<1>1. HistoryInv => OriginIsTrue
  BY DEF HistoryInv
<1> QED
  BY <1>1, HistoryInvariant, PTL

-----------------------------------------------------------------------------
(* Clients that ask for a seat only when they hold none.                   *)

(* c takes seat s, and whoever held it loses it.                           *)
LEMMA TakesSeat ==
    ASSUME ServerInv, SeatIsAttached, NEW c \in Conn, NEW s \in SEAT_IDS,
           attachments[c] = None,
           connectionId' = [connectionId EXCEPT ![s] = c],
           attachments'[c] = s,
           \A d \in Conn \ {c} : d # connectionId[s] => attachments'[d] = attachments[d]
    PROVE  SeatIsAttached'
<1>1. SocketsOK
  BY TypeParts DEF ServerInv
<1> SUFFICES ASSUME NEW t \in SEAT_IDS, connectionId'[t] # NoConnection
             PROVE  attachments'[connectionId'[t]] = t
  BY DEF SeatIsAttached
<1>2. CASE t = s
  BY <1>1, <1>2 DEF SocketsOK
<1>3. CASE t # s
  <2> DEFINE d == connectionId[t]
  <2>1. d \in Conn /\ connectionId'[t] = d /\ attachments[d] = t
    BY <1>1, <1>3 DEF SocketsOK, SeatIsAttached
  <2>2. d # c
    BY <2>1, SeatIds
  <2>3. d # connectionId[s]
    BY <1>3, <2>1, ConnectionsAssumption DEF SeatIsAttached
  <2> QED
    BY <2>1, <2>2, <2>3
<1> QED
  BY <1>2, <1>3

LEMMA SeatIsAttachedNext ==
    ASSUME OneSeat, ServerInv, SeatIsAttached, [Next]_vars
    PROVE  SeatIsAttached'
<1>1. SocketsOK /\ TableOK /\ PlayOK
  BY TypeParts DEF ServerInv
<1>2. ASSUME UNCHANGED <<attachments, connectionId>> PROVE SeatIsAttached'
  BY <1>2 DEF SeatIsAttached
<1>3. ASSUME NEW c \in Conn, NEW n \in MIN_SEATS .. MAX_SEATS, createLobby(c, n)
      PROVE  SeatIsAttached'
  <2>1. /\ attachments[c] = None
        /\ connectionId' = [connectionId EXCEPT ![Host] = c]
        /\ attachments' = [attachments EXCEPT ![c] = Host]
    BY <1>3 DEF createLobby, attach, MayEnter
  <2>2. attachments'[c] = Host /\ \A d \in Conn \ {c} : attachments'[d] = attachments[d]
    BY <1>1, <2>1 DEF SocketsOK
  <2> QED
    BY <2>1, <2>2, SeatIds, TakesSeat
<1>4. ASSUME NEW c \in Conn, joinLobby(c) PROVE SeatIsAttached'
  <2> DEFINE s == First(freeSeats)
  <2>1. /\ attachments[c] = None
        /\ connectionId' = [connectionId EXCEPT ![s] = c]
        /\ attachments' = [attachments EXCEPT ![c] = s]
    BY <1>4 DEF joinLobby, attach, MayEnter
  <2>2. s \in SEAT_IDS
    BY <1>1, <1>4, FreeSeat DEF joinLobby
  <2> HIDE DEF s
  <2>3. attachments'[c] = s /\ \A d \in Conn \ {c} : attachments'[d] = attachments[d]
    BY <1>1, <2>1 DEF SocketsOK
  <2> QED
    BY <2>1, <2>2, <2>3, TakesSeat
<1>5. ASSUME NEW c \in Conn, NEW s \in SEAT_IDS, reconnect(c, s) PROVE SeatIsAttached'
  <2>1. /\ attachments[c] = None
        /\ connectionId' = [connectionId EXCEPT ![s] = c]
        /\ attachments'[c] = s
        /\ \A d \in Conn \ {c} : d # connectionId[s] => attachments'[d] = attachments[d]
    BY <1>5 DEF reconnect, attach, MayEnter
  <2> QED
    BY <2>1, TakesSeat
<1>6. ASSUME NEW c \in Conn, Enter(c) PROVE SeatIsAttached'
  BY <1>3, <1>4, <1>5, <1>6 DEF Enter, EnterElsewhere
<1>7. ASSUME NEW c \in Conn, leave(c) \/ Close(c) PROVE SeatIsAttached'
  <2>1. PICK st, r, m : Parts(c, st, r, m)
    BY <1>7, LeaveParts DEF ServerInv
  <2>2. /\ \A d \in Conn \ {c} : attachments'[d] = attachments[d]
        /\ \A t \in SEAT_IDS :
              \/ connectionId'[t] = connectionId[t] /\ attachments[c] # t
              \/ connectionId'[t] = NoConnection
    BY <2>1, LetGo
  <2> QED
    BY <1>1, <2>2 DEF SeatIsAttached, SocketsOK
<1>8. ASSUME NEW c \in Conn,
             \/ connect(c) \/ Arrange(c)
             \/ requestStart(c) \/ (\E rdy \in BOOLEAN : setReady(c, rdy))
             \/ \E id \in ActionId : submitAction(c, id) \/ submitConcede(c, id)
      PROVE  SeatIsAttached'
  <2>1. UNCHANGED <<attachments, connectionId>>
    BY <1>8 DEF connect, Arrange, setMaxSeats, addBot, seatResolvedBot, removeBot, setBotPacing,
       recordSubmission, requestStart, setReady, submitAction, submitConcede, sockets
  <2> QED
    BY <1>2, <2>1
<1>9. ASSUME NEW s \in SEAT_IDS, timeOutSeat(s) \/ applyBotAction(s) PROVE SeatIsAttached'
  <2>1. UNCHANGED <<attachments, connectionId>>
    BY <1>9 DEF timeOutSeat, applyBotAction, sockets
  <2> QED
    BY <1>2, <2>1
<1>10. CASE UNCHANGED vars
  BY <1>2, <1>10 DEF vars, sockets
<1>11. CASE Next
  BY <1>6, <1>7, <1>8, <1>9, <1>11 DEF Next, Play
<1> QED
  BY <1>10, <1>11

(* A seat shown as connected is acted for by the connection it names, as   *)
(* long as clients enter lobbies with no seat in hand (attach).            *)
THEOREM SeatHasSocket == ASSUME OneSeat PROVE Spec => []SeatIsAttached
<1>1. Init => SeatIsAttached
  BY DEF Init, SeatIsAttached
<1>2. ServerInv /\ SeatIsAttached /\ [Next]_vars => SeatIsAttached'
  BY SeatIsAttachedNext
<1> QED
  BY <1>1, <1>2, ServerInvariant, PTL DEF Spec
=====
