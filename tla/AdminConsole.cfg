SPECIFICATION Spec
CONSTANTS
    Merchants = {m1}
    Switches = {fraud, maintenance}
    Fees = {f1, f2}
    DefaultFees = f1
    Scopes = {{"merchants"}, {"settings"}, {"disputes"}, {"risk"}, {"settlements"}}
    MaxChanges = 2
    MaxOthers = 1
    MaxVisits = 2
    MaxReads = 2
    MaxFaults = 1
    None = None
INVARIANTS
    QuietPageIsRight
PROPERTIES
    MerchantsCatchUp
CHECK_DEADLOCK FALSE
