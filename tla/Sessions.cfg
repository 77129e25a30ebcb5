CONSTANTS
    NONE = NONE
    u1 = u1
    u2 = u2
    b1 = b1
    b2 = b2
    r1 = r1
    r2 = r2
    t1 = t1
    t2 = t2
    t3 = t3
    t4 = t4
    l1 = l1
    Users = {u1,u2}
    Browsers = {b1,b2}
    Requests = {r1,r2}
    Tokens = {t1,t2,t3,t4,l1}
    Legacy = {l1}
    Operations = {"find", "issueRoot", "logoutFind", "deleteAll"}
    MaxOutages = 1
    ConcurrentTabs = FALSE
SPECIFICATION MCSpec
SYMMETRY Symmetry
INVARIANT TypeOK CookieUsable
PROPERTY UnauthorizedMeansDead RotatedStaysUsable OneDeviceOnly
