CONSTANTS
    N = 3
    Stake <- UnevenStake
    MaxRound = 3
SPECIFICATION Spec
INVARIANTS
    TypeOK
    SupportIsInherited
    QuorumBelow
CHECK_DEADLOCK FALSE
