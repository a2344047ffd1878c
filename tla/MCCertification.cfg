CONSTANTS
    N = 4
    Stake <- UnitStake
    Headers <- TwinHeaders
    Byzantine = {3}
    GcRounds = {1, 2}
SPECIFICATION Spec
INVARIANTS
    TypeOK
    NoEquivocation
CHECK_DEADLOCK FALSE
