SPECIFICATION Spec
CONSTANTS
    Accounts = {a1, a2, a3}
    Signers = {u1}
    Prices = {0, 3, 15}
    DecimalPlaces = {1}
    MaxPriceAge = 0
    MaxOracleAge = 1
    Upgraded = TRUE
    MaxTime = 2
    InitialFunds = 5
    Amounts = {5}
    Minimums = {0, 3}
    FeeRates = {0, 1000, 20000}
    MaxFeeRate = 1000
    Whole = 10000
    DecimalDenominator = 10
    FallbackRate = 10
    MaxDepth = 2
SYMMETRY AccountSymmetry
INVARIANTS
    TypeOK
    OneInFlight
    FeesAreFair
PROPERTY ImplementsPayments
CHECK_DEADLOCK FALSE
