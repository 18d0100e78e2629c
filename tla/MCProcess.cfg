\* Three callers of two providers, breakers that trip at three failures as the
\* code configures them: late failures of earlier calls included.  Two
\* dashboards and three captures of two merchants, buffers of one: full channels
\* and slow dashboards are reached.
CONSTANTS
    Provider = {razorpay, stripe}
    Caller = {c1, c2, c3}
    NoCall = NoCall
    MaxFailures = 3
    Dashboard = {d1, d2}
    Capture = {p1, p2, p3}
    Merchant = {m1, m2}
    SuperAdmin = SuperAdmin
    SendSize = 1
    BroadcastSize = 1
SPECIFICATION ProcessSpec
INVARIANTS
    BreakerStatesHold
PROPERTIES
    OpenIsProbed
    HubServesEverybody
CHECK_DEADLOCK FALSE
