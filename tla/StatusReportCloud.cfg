SPECIFICATION FairSpec
CONSTANTS
    Page0 = Page0
    Disconnect = Disconnect
    Garbage = Garbage
    Nothing = Nothing
    MailSize = 3
    PipeCap = 3
    MaxFaults = 0
    MaxStops = 0
    MaxChanges = 3
PROPERTIES
    CloudLearns
