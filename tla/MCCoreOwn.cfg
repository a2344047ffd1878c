CONSTANTS
    N = 4
    Stake <- TwoHeavy
    Me = 0
    Parents <- Own
    Others <- OwnOthers
    Sent <- OwnSent
    WithPayload <- OwnPayload
    GcDepth = 3
    MaxDeliveries = 3
    MaxRestarts = 1
    None = None
SPECIFICATION LiveSpec
INVARIANTS
    OwnVoteRefusedOnlyAfterLoss
    EveryCertificateAccounted
PROPERTIES
    ParkedCertificatesResume
    DeliversCausally
CHECK_DEADLOCK FALSE
