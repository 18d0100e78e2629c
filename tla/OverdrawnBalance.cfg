SPECIFICATION BankSpec
CONSTANTS
    MaxAmount = 3
    MaxEdits = 2
    MaxOpens = 2
    MaxLosses = 0
    None = None
INVARIANT WithdrawalsWithinBalance
CHECK_DEADLOCK FALSE
