SPECIFICATION Spec
CONSTANTS
    Size = 2
    Blank = "RETURN"
    Characters = {"1", "3"}
    MacLen = 2
    LineSize = 4
    FieldSize = 3
    MaxKeys = 7
    MaxSessions = 2
INVARIANTS
    CountsAgree
    NeverBehind
    AsTyped
    SavesAreTyped
CHECK_DEADLOCK FALSE
