CONSTANTS
    N = 7
    Stake <- UnitStake
    Rounds = 5
    Dags <- ThinDags
    GcDepth = 3
    Dynamic = TRUE
    MaxRedeliveries = 0
SPECIFICATION Spec
INVARIANT
    SkippedFallbackLacksSupport
CHECK_DEADLOCK FALSE
