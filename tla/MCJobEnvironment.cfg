SPECIFICATION FairSpec
CONSTANTS
    Tasks = {t1}
    Backends = {"docker", "kubernetes", "host"}
    SweepConfig = TRUE
    BindWorkdir = TRUE
    Scripts = {TRUE, FALSE}
    ExternalCache = TRUE
    CacheContainer = TRUE
    MaxFaults = 2
    MaxCrashes = 1
INVARIANT TeardownLeavesNothing
PROPERTIES SweepSparesLive TaskEnds OrphansReclaimed
