CONSTANTS
    N = 3
    Stake <- OneHeavy
    Me = 0
    Parents <- History
    Others <- Certified
    Sent <- LateHeaders
    WithPayload = {}
    GcDepth = 0
    MaxDeliveries = 5
    MaxRestarts = 0
    None = None
    Broadcasts <- LateCertificates
    Has <- Holders
    SyncRetryNodes = 1
    MailCapacity = 1
    MaxLosses = 1
SPECIFICATION LiveSyncSpec
INVARIANT
    RequestsMatchPending
PROPERTY
    ParentsFetched
CHECK_DEADLOCK FALSE
