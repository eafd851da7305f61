SPECIFICATION CardSpec
CONSTANTS
    MaxMoves = 5
    MaxRefusals = 2
INVARIANTS
    OneAnswer
    StatusTrue
    DeafSaysSo
PROPERTIES
    PullIsNoticed
    PutInIsUsable
CHECK_DEADLOCK FALSE
