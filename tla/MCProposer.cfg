CONSTANTS
    N = 5
    Stake <- Weighted
    Me = 0
    Faults = 2
    Score <- Scores
    HeaderSize = 1
    StoredUpTo = 1
    MaxRound = 4
    MaxDigests = 2
SPECIFICATION LiveSpec
INVARIANTS
    TypeOK
    HeadersBuildOnQuorum
    HeaderOnlyWhenActive
    DigestsProposedOnce
    HappyPathWaits
PROPERTY
    RoundsAreLeft
CHECK_DEADLOCK FALSE
