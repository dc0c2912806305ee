SPECIFICATION Spec
CONSTANTS
    Meters = {m1}
    Rates = {1}
    Amounts = {2}
    Units = {2}
    Drips = {1}
    MaxDrip = 1
    HourlyRates = {1}
    ReferralReward = 1
    DebtThreshold <- Floor
    TaxRates = {0}
    Fees = {1}
    Whole = 2
    HourLength = 2
    Interval = 2
    MaxIntervals = 1
    MaxDelta = 2
    TimestampDelay = 1
    PeakTimes = {2}
    UpdateWindow = 1
    DisputeWindow = 2
    MaxTime = 3
    MaxFunds = 2
INVARIANTS TypeOK ActiveIsServiceable TimeIsChargedOnce ReadingsWithinAllowance
PROPERTIES TimeClaimsStopAtFloor
CHECK_DEADLOCK FALSE
