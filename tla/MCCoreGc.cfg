CONSTANTS
    N = 4
    Stake <- TwoHeavy
    Me = 0
    Parents <- Equivocation
    Others <- BackboneOthers
    Sent <- EquivocationSent
    WithPayload <- EquivocationPayload
    GcDepth = 0
    MaxDeliveries = 5
    MaxRestarts = 0
    None = None
SPECIFICATION Spec
INVARIANTS
    TypeOK
    VoteOncePerSlot
    ParentsGivenOnce
    NoStrandedHeader
PROPERTY
    DeliversCausally
CHECK_DEADLOCK FALSE
