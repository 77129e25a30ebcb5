SPECIFICATION NewEpisodesSpec
CONSTANTS
    Hosts = {h1}
    Slugs = {a}
    Films = {}
    LastRelease = 2
    MAX_SLUGS_PER_TICK = 1
    MaxViews = 3
    MaxMishaps = 0
INVARIANT EventsAreNewEpisodes
CHECK_DEADLOCK FALSE
