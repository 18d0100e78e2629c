\* One request at a time and nothing fails: the code keeps the contract.
CONSTANTS
    t1 = t1
    t2 = t2
    m1 = m1
    m2 = m2
    Tx = {t1, t2}
    Merchant = {m1, m2}
    Owner <- MCOwner
    Amount <- MCAmount
    Handler = {h1}
    RefundAmount = {0, 1, 2, 3}
    RefundKey = {k1}
    NoKey = NoKey
    MaxFaults = 0
SPECIFICATION Spec
PROPERTIES
    ImplementsContract
CHECK_DEADLOCK FALSE
