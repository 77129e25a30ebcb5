SPECIFICATION MCSpec
CONSTANTS
    Users = {u1, u2, u3}
    Instances = {i1, i2}
    Tabs = {t1}
    Slots = {k1, k2}
    Operations = {"settings", "addCo", "removeCo", "transfer", "event", "members", "delete", "adminDelete", "create", "fault"}
    MAX_CO_HOSTS = 1
    MaxInputs = 3
    MaxRooms = 2
    NONE = NONE
    MediaInstances = {i1, i2}
    MediaSlots = {k1, k2}
    LastEpisode = 2
    MAX_QUEUE_LENGTH = 2
    MaxMediaInputs = 3
INVARIANT RoomsTypeOK CoHostsInBounds ControlFollowsRow ListedAreConnected MediaFollowsRow
PROPERTY HandedOverOnce PresentHostKeeps AdvancesInOrder
SYMMETRY Symmetry
CHECK_DEADLOCK FALSE
