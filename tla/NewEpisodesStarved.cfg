SPECIFICATION NewEpisodesSpec
CONSTANTS
    Hosts = {h1}
    Slugs = {a, f}
    Films = {f}
    LastRelease = 1
    MAX_SLUGS_PER_TICK = 1
    MaxViews = 0
    MaxMishaps = 0
PROPERTY SeriesGetTheirTurn
CHECK_DEADLOCK FALSE
