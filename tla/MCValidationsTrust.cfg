SPECIFICATION Spec
CONSTANTS
    History <- Forks
    Depth = 256
    MaxSupport = 2
    Node = {v1}
    UNL = {}
    CURRENT_WALL = 2
    CURRENT_LOCAL = 1
    CURRENT_EARLY = 1
    SET_EXPIRES = 0
    SignTimes = {1, 2}
    Keep = {}
    MaxClock = 2
    MaxEvents = 4
INVARIANT OnlyTrusted
