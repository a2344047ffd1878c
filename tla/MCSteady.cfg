CONSTANTS
    N = 4
    Stake <- UnitStake
    Rounds = 5
    Dags <- SteadyDags
    GcDepth = 2
    Dynamic = FALSE
    MaxRedeliveries = 1
SPECIFICATION Spec
INVARIANTS
    TypeOK
    RepeatsAreOvertaken
    ParentsFirst
    WholeHistory
    DirectCommitIsFinal
    NoMissedDecision
    LossOnlyBehindCleanup
CHECK_DEADLOCK FALSE
