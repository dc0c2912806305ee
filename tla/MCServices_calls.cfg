SPECIFICATION Spec
CONSTANTS
    o1 = o1
    o2 = o2
    p1 = p1
    p2 = p2
    MaxTime = 2
    Owners = {o1, o2}
    CollateralTokens = {t1, t2}
    NoToken = none
    PostpaidMeters = {1, 2, 3}
    MeterOwner <- OwnerOfMeter
    MeterProvider <- ProviderOfMeter
    DebtAmounts = {1, 2}
    MarginBps = 8000
    SlashBps = 10000
    OtherFunds = 1
    MaxLocked = 2
    SlaNodes = {n1, n2, n3}
    Intervals <- ReportedIntervals
    Thresholds = {0, 1, 2}
    MinThreshold = 1
    SlaQuorum = 2
    MaxCredits = 2
    Callees = {utility, other}
    Functions = {get_goal}
    GasBudgets = {2}
    MaxCallGas = 2
    MaxCount = 2
    Targets = {0, 2}
    Deadlines = {1}
    SavingsReported = {0, 1, 2}
    GrantAmounts = {0, 2}
    EventAmounts = {1}
    Utility = utility
    GetGoal = get_goal
    VerificationGas = 2
    MonthlyMaxima = {0, 1}
    FirstMaximum = 2
    MonthLength = 2
    Endowment = 3
    Devices = {d1, d2}
    DeviceMeters = {1, 2}
    Persons = {o1, p1}
    MeterOperator = p1
    EnergyRates = {0, 1, 2}
    Durations = {0, 1, 2}
    GridFees = {0, 5000, 10001}
    BatteryCaps <- Caps
    ConsumerFunds = 3
    ProposalIds = {i1, i2}
    Windows = {0, 1, 2}
    MinWindow = 1
    MaxWindow = 1
    MaxProposed = 2
    PrivateMeters = {1, 2}
    ReportUnits = {1, 2}
    MaxReports = 2
    Bits = 4
    Limb = 4
    Rates = {0, 3, 9, 15}
    IntervalLengths = {0, 1, 3}
    Precisions = {0, 1, 2, 5, 15}
    ScaleFactor = 6
    MaxPrecision = 5
    MaxIntervals = 7
    BufferOwners = {p1, p2}
    BufferTokens = {xlm, usd}
    NativeToken = xlm
    BufferAmounts = {1, 2}
    MinBuffer = 1
    MaxBuffer = 2
    InitialHoldings = 11
    MaxHoldings = 12
    MinDrain = 1
    DrainCooldown = 2
    RouteAmounts = {8, 12}
    RouteThresholds <- RoutingThresholds
    DefaultThreshold = 3
    LargeRoute = 8
    LedgerNumbers = {71, 90, 198}
INVARIANTS
    GuarantorInv
    SlaInv
    GrantInv
    DeviceInv
    FundsInv
    ProposalInv
    PrivacyInv
    RateInv
PROPERTIES
    SlashEndsService
CHECK_DEADLOCK FALSE
