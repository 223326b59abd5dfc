--------------------------- MODULE VersionRegister ---------------------------
(***************************************************************************)
(* What glyff promises of the versions of the domains of one session       *)
(* (docs/migration.md, "In-flight sessions across code changes"): each     *)
(* domain has at most one, the first that is claimed; a call is admitted   *)
(* when it carries that one and refused when it carries another; only a    *)
(* migration replaces it, together with the records, while no call runs.   *)
(***************************************************************************)
CONSTANTS
    Call,      \* calls of engraved functions
    Domain,
    Version,
    None       \* no version

VARIABLES
    recorded,  \* the version of each domain
    written,   \* the versions under which records of each domain are kept
    verdict    \* what became of each call

rvars == <<recorded, written, verdict>>

Undecided == [state |-> "none", dom |-> None, ver |-> None]
Over == [state |-> "over", dom |-> None, ver |-> None]
Decided == [state : {"admitted", "refused"}, dom : Domain, ver : Version]

RTypeOK ==
    /\ recorded \in [Domain -> Version \cup {None}]
    /\ written \in [Domain -> SUBSET Version]
    /\ verdict \in [Call -> Decided \cup {Undecided, Over}]

RInit ==
    /\ recorded = [d \in Domain |-> None]
    /\ written = [d \in Domain |-> {}]
    /\ verdict = [t \in Call |-> Undecided]

Claim(d, v) ==
    /\ recorded[d] = None
    /\ recorded' = [recorded EXCEPT ![d] = v]
    /\ UNCHANGED <<written, verdict>>

Decide(t, d, v) ==
    /\ verdict[t] = Undecided
    /\ recorded[d] # None
    /\ verdict' = [verdict EXCEPT ![t] =
                     [state |-> IF v = recorded[d] THEN "admitted" ELSE "refused",
                      dom |-> d, ver |-> v]]
    /\ UNCHANGED <<recorded, written>>

Keep(t) ==
    /\ verdict[t].state = "admitted"
    /\ written' = [written EXCEPT ![verdict[t].dom] = @ \cup {verdict[t].ver}]
    /\ UNCHANGED <<recorded, verdict>>

(* Calls end, before a verdict or after it; a crash ends several.          *)
End(S) ==
    /\ verdict' = [t \in Call |-> IF t \in S THEN Over ELSE verdict[t]]
    /\ UNCHANGED <<recorded, written>>

Replace(d, v) ==
    /\ \A t \in Call : verdict[t].state # "admitted"
    /\ recorded[d] # None
    /\ recorded' = [recorded EXCEPT ![d] = v]
    /\ written' = [written EXCEPT ![d] = IF @ = {} THEN {} ELSE {v}]
    /\ UNCHANGED verdict

RNext ==
    \/ \E S \in SUBSET Call : End(S)
    \/ \E t \in Call : Keep(t)
    \/ \E d \in Domain, v \in Version :
        Claim(d, v) \/ Replace(d, v) \/ \E t \in Call : Decide(t, d, v)

RSpec == RInit /\ [][RNext]_rvars

=============================================================================
