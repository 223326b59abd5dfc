---------------------------- MODULE MCEngineLive ----------------------------
(* Calls and runs begin in a fixed order, in place of a symmetry that       *)
(* liveness cannot use; only the first call sets both keys.                 *)
EXTENDS Engine

CONSTANTS a1, a2, a3, r1, r2, k2

InTurn ==
    /\ att[a2].pc # "idle" => att[a1].pc # "idle"
    /\ att[a3].pc # "idle" => att[a2].pc # "idle"
    /\ setter[a2][k2].state = "none" /\ setter[a3][k2].state = "none"
    /\ runs[r2] # "new" => runs[r1] # "new"

OrderedSpec == Init /\ [][Next /\ InTurn']_vars /\ Fairness
=============================================================================
