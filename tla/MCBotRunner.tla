----------------------------- MODULE MCBotRunner -----------------------------
(* Up to three bots: the first always waits, the second only for a         *)
(* reaction, the third never.                                              *)
EXTENDS BotRunner

TwoBots == {1, 2}
ThreeBots == {1, 2, 3}
MCCategory == {"ordinary", "reaction"}
MCSlow == {<<1, "ordinary">>, <<1, "reaction">>, <<2, "reaction">>}
=============================================================================
