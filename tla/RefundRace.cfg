\* Two refunds of one payment at the same time.
CONSTANTS
    t1 = t1
    t2 = t2
    m1 = m1
    m2 = m2
    Tx = {t1}
    Merchant = {m1}
    Owner <- MCOwner1
    Amount <- MCAmount1
    Handler = {h1, h2}
    RefundAmount = {2}
    RefundKey = {}
    NoKey = NoKey
    MaxFaults = 0
SPECIFICATION Spec
INVARIANTS
    RefundsWithinAmount
CHECK_DEADLOCK FALSE
