CONSTANTS
    N = 7
    Stake <- UnitStake
    Rounds = 9
    Dags <- DynamicDags
    GcDepth = 3
    Dynamic = TRUE
    MaxRedeliveries = 1
SPECIFICATION Spec
INVARIANTS
    RepeatsAreOvertaken
    DirectCommitIsFinal
    NoMissedDecision
CHECK_DEADLOCK FALSE
