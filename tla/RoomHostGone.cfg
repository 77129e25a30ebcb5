SPECIFICATION Spec
CONSTANTS
    Users = {u1, u2}
    Instances = {i1}
    Tabs = {t1, t2}
    Slots = {k1, k2}
    Operations = {}
    MAX_CO_HOSTS = 1
    MaxInputs = 2
    MaxRooms = 1
    NONE = NONE
PROPERTY HostMovesOn
CHECK_DEADLOCK FALSE
