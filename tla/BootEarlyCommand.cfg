SPECIFICATION Spec
CONSTANTS
    Runs = {"main", "shell"}
    Tries = 1
    MaxCommands = 1
    MaxDrops = 0
INVARIANTS
    NeverHalts
CHECK_DEADLOCK FALSE
