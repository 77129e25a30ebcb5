SPECIFICATION MCSpec
CONSTANTS
    Instances = {i1}
    Inputs = {"PLAY", "PAUSE", "SEEK", "SWITCH", "NEXT", "REST"}
    MaxCommands = 3
    MaxFaults = 1
    NONE = NONE
    Sockets = {s1, s2}
    MaxReports = 2
    Handlers = {h1, h2}
INVARIANT RowFollowsCache
PROPERTY InOrder SpellEnds
CHECK_DEADLOCK FALSE
