CONSTANTS
    N = 3
    Stake <- HalfStake
    Me = 0
    BatchSize = 2
    Budgets <- Plans
    Idle = Idle
    GcDepth = 1
    MailCapacity = 1
    StoreCapacity = 2
    X = X
    Foreign = {X}
    Has <- OneHolder
    SyncRetryNodes = 1
SPECIFICATION LiveNodeSpec
INVARIANTS
    TypeOK
    AnnouncedAtQuorum
    NothingLost
    WaiterForEveryPending
PROPERTIES
    BatchesAnnounced
    TransactionsSealed
    PauseFollows
    BatchFetched
CHECK_DEADLOCK FALSE
