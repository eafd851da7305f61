SPECIFICATION FairSpec
CONSTANTS
    m1 = m1
    m2 = m2
    Page0 = Page0
    Disconnect = Disconnect
    Garbage = Garbage
    Nothing = Nothing
    Messages = {m1, m2}
    PipeCap = 2
    MaxFaults = 2
    MaxStops = 2
INVARIANTS
    FlagsTruthful
    InOrder
    Accounted
PROPERTIES
    Recovers
    MovesOn
CHECK_DEADLOCK FALSE
