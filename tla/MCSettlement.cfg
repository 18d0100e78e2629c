\* One API process, three transactions of two merchants, one fault anywhere.
\* Payments are refunded by the admin: to the worker a merchant refund is the
\* same change of a status.
CONSTANTS
    t1 = t1
    t2 = t2
    t3 = t3
    m1 = m1
    m2 = m2
    Tx = {t1, t2, t3}
    Merchant = {m1, m2}
    Owner <- MCOwner
    Amount <- MCAmount
    Handler = {h1}
    RefundAmount = {}
    RefundKey = {}
    NoKey = NoKey
    MaxFaults = 1
    Worker = {w1}
SPECIFICATION FairSettlementSpec
INVARIANTS
    BatchesPayCaptures
    LinksMatchBatch
    ExtraBatchesNeedFaults
PROPERTIES
    SuccessIsSettled
CHECK_DEADLOCK FALSE
