SPECIFICATION ConsoleSpec
CONSTANTS
    Merchants = {m1}
    m1 = m1
    MaxVersion = 1
    MaxCalls = 2
    MaxFaults = 1
    Rows = {r1, r2, r3}
    Methods = {card, upi}
    Picks = {p1, p2}
    Runs = {pay1, pay2, pay3}
    MaxAmount = 3
    MaxPayments = 4
    PageLimit = 3
    Polls = {poll1, poll2}
    MaxQuestions = 2
    Presses = {press1, press2, press3}
    MaxSaves = 3
    MaxNews = 1
    MaxLoads = 3
    MaxEdits = 2
    MaxOpens = 2
    MaxLosses = 1
    None = None
CHECK_DEADLOCK FALSE
INVARIANTS
    ContentIsForCleared
    QuietListIsRight
    WithinOneVisit
    MethodsAsShown
    SecondFactorIsConfirmed
    OverlapNeedsEdit
    
    TwiceNeedsAnother
PROPERTIES
    ValidSessionEndsFromOutside
    UselessSessionLeaves
    
    NoLateFigures
    
