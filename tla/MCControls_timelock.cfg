SPECIFICATION Spec
CONSTANTS
    MaxTime = 3
    Hashes = {h1, h2}
    UpgradeVetoPeriod = 1
    VetoThresholdBps = 500
    MigrationBatch = 2
    MaxMeters = 3
    Admins = {a1, a2}
    NoAdmin = none
    Voters = {u1, u2}
    TransferTimelock = 1
    ExecutionWindow = 1
    TransferVetoBps = 5000
    DefaultActiveUsers = 4
    MaxActiveUsers = 3
    Resetters = {r1, r2}
    RequiredApprovals = 2
    QuorumsGiven = {1, 2}
    ApprovalsGiven <- OneListed
    NonceWindow = 2
    DesyncLimit = 1
    DesyncDay = 1
    MaxNonce = 1
    MaxDesyncs = 2
    TariffRates = {0, 1, 3}
    HoursInDay = 2
    SecondsInHour = 2
    NoticePeriod = 2
    MaxWindows = 2
    MaxProposals = 2
    VelocityMeters = {1, 2}
    Withdrawals = {1}
    Limits = {1, 2}
    DefaultLimit = 1
    DefaultGlobal = 2
    DayLength = 2
    MaxForgotten = 1
    OverrideEnds = {0, 2}
    w1 = w1
    w2 = w2
    w3 = w3
    w4 = w4
    Accounts = {a1, a2}
    NoAccount = none
    MaxSupply = 2
    Amounts = {1, 2}
    Upgraded = TRUE
    Orderly = TRUE
    MaxOperatorNonce = 2
    Wallets <- FourWallets
    WalletLists <- ListsOfWallets
    RequiredCounts = {1, 2}
    Thresholds = {0}
    WithdrawalAmounts <- AmountsWithdrawn
    Earnings = 3
    MinWallets = 3
    MaxWallets = 5
    MinThreshold = 2
    Expiry = 1
    MaxRequests = 2
    MaxHeld = 4
PROPERTIES
    TimelockIsKept
CHECK_DEADLOCK FALSE
