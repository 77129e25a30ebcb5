CONSTANTS
    NONE = NONE
    u1 = u1
    b1 = b1
    r1 = r1
    r2 = r2
    t1 = t1
    t2 = t2
    t3 = t3
    t4 = t4
    t5 = t5
    Users = {u1}
    Browsers = {b1}
    Requests = {r1,r2}
    Tokens = {t1,t2,t3,t4,t5}
    Legacy = {}
    Operations = {"find", "issueRoot"}
    MaxOutages = 0
    ConcurrentTabs = TRUE
SPECIFICATION Spec
SYMMETRY Symmetry
PROPERTY RotatedStaysUsable
