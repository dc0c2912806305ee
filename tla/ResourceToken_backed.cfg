SPECIFICATION TokenSpec
CONSTANTS
    Accounts = {a1, a2}
    NoAccount = none
    MaxSupply = 2
    Amounts = {1, 2}
    Upgraded = TRUE
    Orderly = FALSE
    MaxTime = 2
    MaxOperatorNonce = 2
INVARIANT SupplyIsBacked
CHECK_DEADLOCK FALSE
