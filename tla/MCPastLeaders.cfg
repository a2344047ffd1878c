CONSTANTS
    N = 4
    Stake <- UnitStake
    Rounds = 5
    Dags <- ContestedDags
    GcDepth = 5
    Dynamic = FALSE
    MaxRedeliveries = 0
SPECIFICATION Spec
INVARIANT
    PastLeadersCommitted
CHECK_DEADLOCK FALSE
