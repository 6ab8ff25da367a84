----------------------------- MODULE MCMatchStream -----------------------------
(* A comparison: three matches under one arm, one under the other.         *)
EXTENDS MatchStream, TLC

CONSTANTS m1, m2, m3, m4, w1, w2

MCMatch == {m1, m2, m3, m4}
MCSchedule == << <<m1, m2, m3>>, <<m4>> >>
MCWorker == {w1, w2}
Symmetric == Permutations(MCWorker)
=============================================================================
