\* Three concurrent requests on one payment, one fault, refunds with and without
\* a key, in part and by too much.
CONSTANTS
    t1 = t1
    t2 = t2
    m1 = m1
    m2 = m2
    Tx = {t1}
    Merchant = {m1, m2}
    Owner <- MCOwner1
    Amount <- MCAmount1
    Handler = {h1, h2, h3}
    RefundAmount = {1, 3}
    RefundKey = {k1}
    NoKey = NoKey
    MaxFaults = 1
SYMMETRY HandlerSymmetry
SPECIFICATION Spec
INVARIANTS
    RefundOnlyCaptured
    BlockedStaysBlocked
    SuccessIsComplete
    EventsFollowCommits
CHECK_DEADLOCK FALSE
