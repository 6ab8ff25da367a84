--------------------------- MODULE MCAdminProcess ---------------------------
(* Four processes on two machines: p1 and p3 are handed the same pid on    *)
(* the same machine one after the other, p4 runs on the other machine.     *)
EXTENDS AdminProcess

CONSTANTS p1, p2, p3, p4, lab, other, j1, j2

MCProc == {p1, p2, p3, p4}
MCHost == {lab, other}
MCPid == 1..2
MCHostOf == [p \in MCProc |-> IF p = p4 THEN other ELSE lab]
MCPidOf == [p \in MCProc |-> IF p = p2 THEN 2 ELSE 1]
MCVerbs == {"pause", "resume"}
=============================================================================
