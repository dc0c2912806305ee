SPECIFICATION Spec
CONSTANTS
    Checks = {c1, c2}
    Threshold = 3
    ExtendTo = 4
    Lifetime = 5
    AutoThreshold = 2
    Allocations = {0, 1}
    ExtensionCost = 1
    MaxFund = 1
PROPERTIES
    LowIsExtended
CHECK_DEADLOCK FALSE
