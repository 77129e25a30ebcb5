SPECIFICATION RoomSpec
CONSTANTS
    Instances = {i1}
    Inputs = {"PLAY"}
    MaxCommands = 1
    MaxFaults = 0
    NONE = NONE
    Sockets = {s1, s2}
    MaxReports = 2
    Handlers = {h1, h2}
INVARIANT ServerResumes
CHECK_DEADLOCK FALSE
