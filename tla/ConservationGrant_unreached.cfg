SPECIFICATION GrantSpec
CONSTANTS
    MaxTime = 2
    Callees = {utility}
    Functions = {get_goal}
    GasBudgets = {1, 2}
    MaxCallGas = 2
    MaxCount = 2
    Targets = {0, 2}
    Deadlines = {1}
    SavingsReported = {0, 1, 2}
    GrantAmounts = {0, 2}
    EventAmounts = {1}
    Utility = utility
    GetGoal = get_goal
    VerificationGas = 2
    MonthlyMaxima = {0, 1}
    FirstMaximum = 2
    MonthLength = 2
    Endowment = 3
INVARIANTS
    GrantsAreEarned
CHECK_DEADLOCK FALSE
