SPECIFICATION Spec
CONSTANTS
    Streams = {s1}
    Providers = {p1}
    Rates = {1, 2}
    Amounts = {1}
    Caps = {2}
    FeeSettings = {1}
    BufferSeconds = 1
    FeeDenominator = 2
    CacheTtl = 1
    HeartbeatTtl = 3
    GatedOps = {"update_flow_rate", "pause_stream"}
    MaxTime = 3
    MaxCredited = 3
INVARIANTS
    FundsConserved
    ActiveIsFunded
PROPERTIES
    FleetGrowsWithinCap
    ImplementsEscrow
CHECK_DEADLOCK FALSE
