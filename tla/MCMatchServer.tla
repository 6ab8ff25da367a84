--------------------------- MODULE MCMatchServer ---------------------------
(* One lobby, a few sockets, one or two action identities a client.        *)
EXTENDS MatchServer, TLC

CONSTANTS c1, c2, c3

TwoConns == {c1, c2}
ThreeConns == {c1, c2, c3}
ConnSymmetry == Permutations(Conn)
OneId == {0}
NoId == {}
Budget == {"default"}
TwoBudgets == {"default", "slow"}

(* What the next moves of seats and sockets depend on: not how a match     *)
(* ended, nor what was published of it.                                    *)
SeatsView ==
    <<sockets, table, budgets, status, connectionId, timer, present, runner, state.game,
      state.over, IF state.over THEN {} ELSE state.alive>>
=============================================================================
