--------------------------- MODULE MCSqliteStore ----------------------------
(* A client and a second one, of the same process or of another.  The      *)
(* formats are alike, so the first client's is the first; so are the       *)
(* processes, and the first client's may crash.                            *)
EXTENDS SqliteStore

CONSTANTS c1, c2, c3, p1, p2, v1

Homes == [c \in Client |-> IF c = c3 THEN p2 ELSE p1]

Instance ==
    /\ format[c1] \in {None, v1}
    /\ phase[c2] \in {"new", "gone"} \/ phase[c3] = "new"
    /\ phase[c3] # "gone"
InstanceSpec == Init /\ [][Next /\ Instance']_svars /\ Fairness
=============================================================================
