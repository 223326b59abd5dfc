SPECIFICATION FairSpec
CONSTANTS
    None = None
    Call = {t1, t2, t3}
    Context = {c1, c2}
    Domain = {d1}
    Version = {v1, v2}
INVARIANTS
    OneGeneration
    VerdictsStand
    ClaimsTakeTurns
PROPERTIES
    ActsAsRegister
    EveryEnsureEnds
CHECK_DEADLOCK FALSE
