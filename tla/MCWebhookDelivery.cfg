\* Two dispatchers and an engine at work on one event, one retry or failure.
CONSTANTS
    k1 = k1
    k2 = k2
    Event = {1}
    Hook = {k1}
    Wants <- MCWants
    Dispatcher = {d1, d2}
    Engine = {g1}
    Slot = {s1}
    MaxAttempts = 3
    BatchSize = 1
    EngineLimit = 1
    QueueSize = 1
    MaxTrouble = 1
SPECIFICATION FairSpec
INVARIANTS
    EngineNeverFirst
    DeliveredWasAccepted
    GivenUpAfterMaxAttempts
PROPERTIES
    EventsComeToRest
