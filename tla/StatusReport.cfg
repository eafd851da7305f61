SPECIFICATION FairSpec
CONSTANTS
    Page0 = Page0
    Disconnect = Disconnect
    Garbage = Garbage
    Nothing = Nothing
    MailSize = 2
    PipeCap = 2
    MaxFaults = 1
    MaxStops = 1
    MaxChanges = 3
INVARIANTS
    Conserved
PROPERTIES
    ImplementsLossyChannel
    NothingStuck
CHECK_DEADLOCK FALSE
