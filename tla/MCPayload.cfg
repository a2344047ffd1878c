CONSTANTS
    N = 4
    Stake <- EqualStake
    Me = 0
    Parents <- OneHeader
    Others = {}
    Sent <- TheHeader
    WithPayload <- TheHeader
    GcDepth = 50
    MaxDeliveries = 0
    MaxRestarts = 0
    None = None
    SyncRetryNodes = 1
    MailCapacity = 1
SPECIFICATION LiveSyncSpec
PROPERTY
    PayloadArrives
CHECK_DEADLOCK FALSE
