SPECIFICATION CustomerSpec
CONSTANTS
    Amounts = {0, 5000}
    Threshold = 5000
    MaxSubmits = 2
    MaxCalls = 2
    MaxTimers = 1
    MaxVisits = 2
    MaxRequests = 4
    MaxAttempts = 2
    MaxOpens = 2
    MaxMail = 2
    MaxClocks = 2
CHECK_DEADLOCK FALSE
INVARIANTS ReceiptIsBacked ButtonsDoNotOverlap  SuccessWasCharged
PROPERTIES SpinnerEnds ApprovalsAreTold
