SPECIFICATION RoomSpec
CONSTANTS
    Instances = {i1}
    Inputs = {"PLAY", "PAUSE", "SEEK"}
    MaxCommands = 2
    MaxFaults = 1
    NONE = NONE
    Sockets = {s1, s2}
    MaxReports = 2
    Handlers = {h1, h2}
INVARIANT RoomTypeOK WaitersAgree PersonClearsMark
PROPERTY InOrderSteps
SYMMETRY Symmetry
CHECK_DEADLOCK FALSE
