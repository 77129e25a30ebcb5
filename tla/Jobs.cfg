SPECIFICATION MCSpec
CONSTANTS
    Viewers = {v1, v2}
    Servers = {s1, s2}
    REMIND_BEFORE = 2
    LATE_REMINDER = 4
    STARTING_WINDOW = 2
    BATCH_SIZE = 1
    ScheduledAt = 2
    MaxTick = 1
    MaxTime = 8
    MaxRequests = 2
    MaxFaults = 1
    Hosts = {h1, h2}
    Slugs = {a}
    Films = {}
    LastRelease = 3
    MAX_SLUGS_PER_TICK = 1
    MaxViews = 1
    MaxMishaps = 1
    DAY = 3
    VN_OFFSET = 1
    LOOKBACK = 30
    LastMinute = 36
    MaxSightings = 3
    People = {v1, v2}
    Browsers = {b1, b2}
    MaxSubscriptions = 3
    MaxSends = 2
INVARIANT JobsTypeOK RemindedOnce StartAnnouncedOnce AnnouncedOncePerEpisode ReleaseHistory
INVARIANT PredictsTheNextRelease PushesReachTheirHolder
CHECK_DEADLOCK FALSE
