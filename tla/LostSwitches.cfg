SPECIFICATION Spec
CONSTANTS
    Merchants = {m1}
    Switches = {fraud, maintenance}
    Fees = {f1, f2}
    DefaultFees = f1
    Scopes = {{"settings"}}
    MaxChanges = 2
    MaxOthers = 0
    MaxVisits = 2
    MaxReads = 1
    MaxFaults = 0
    None = None
PROPERTY SwitchesKept
CHECK_DEADLOCK FALSE
