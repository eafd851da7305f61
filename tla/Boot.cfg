CONSTANTS
    Runs = {"main", "shell"}
    Tries = 2
    MaxCommands = 3
    MaxDrops = 2
SPECIFICATION Spec
INVARIANTS
    HaltsEarlyOnly
    OnePacketEach
PROPERTIES
    CommandServed
    RunEnds
CHECK_DEADLOCK FALSE
