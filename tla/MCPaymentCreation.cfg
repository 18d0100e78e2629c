\* Two requests for one or two orders, three providers, one fault.
CONSTANTS
    Razorpay = razorpay
    Stripe = stripe
    Npci = npci
    Unconfigured = Unconfigured
    Provider = {razorpay, stripe, npci}
    Caller = {r1, r2}
    NoCall = NoCall
    MaxFailures = 1
    Order = {o1, o2}
    NoOrder = NoOrder
    MaxFaults = 1
SPECIFICATION FairCreationSpec
INVARIANTS
    MoneyIsRecorded
PROPERTIES
    RepeatIsAnswered
    EveryRequestIsAnswered
CHECK_DEADLOCK FALSE
