SPECIFICATION MCSpec
CONSTANTS
    MAX_RETRIES = 1
    i1 = i1
    i2 = i2
    r1 = r1
    r2 = r2
    Servers = {i1, i2}
    Requests = {r1, r2}
    Contexts = {"search"}
    Origins = {"vsmov", "kkphim"}
    Pins = {"whatever", "vsmov"}
    L1_MAX_ENTRIES = 1
    Keys = {r1, r2}
    MaxPending = 1
    MaxReactions = 4
    MaxFaults = 2
    SignIns = {r1, r2}
    OAuthStates = {"s1", "s2"}
    Guards = {i1, i2}
    Calls = {r1, r2}
    LIMIT = 2
    MaxCalls = 4
    Reports = {r1, r2}
    End = 3
    ListKeys = {"k1", "k2"}
    Toggles = {r1, r2}
    MaxLinks = 4
    Viewers = {"v1", "v2", "v3", "v4"}
    Starts = {0, 3, 7}
    Ends = {5, 9, 12}
    SKIP_MAX_LENGTH_SEC = 9
INVARIANT ServicesTypeOK
INVARIANT NotFoundEverywhere
INVARIANT FreshEnough
INVARIANT LoadsAreShared
INVARIANT PinnedSourceAnswers
INVARIANT Conserved
INVARIANT Bounded
INVARIANT HeldBack
INVARIANT OneSignInPerState
INVARIANT LimitKept
INVARIANT SegmentIsBacked
PROPERTY ResumesWhereItWas
PROPERTY LinkStays
SYMMETRY Symmetry
CHECK_DEADLOCK FALSE
