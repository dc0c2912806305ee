SPECIFICATION Spec
CONSTANTS
    Streams = {s1}
    Providers = {p1}
    Rates = {1, 2}
    Amounts = {1}
    Caps = {2}
    FeeSettings = {1}
    BufferSeconds = 1
    FeeDenominator = 2
    CacheTtl = 1
    HeartbeatTtl = 3
    GatedOps = {}
    MaxTime = 4
    MaxCredited = 5
PROPERTY NeverOvercharged
CHECK_DEADLOCK FALSE
