SPECIFICATION Spec
CONSTANTS
    Jobs <- MCJobs
    RepoOf <- MCRepoOf
    ReadsOf <- MCReadsOf
    KeyOf <- MCKeyOf
    RestoresOf <- MCRestoresOf
    PrefixPairs = {}
    ApiOf <- MCApiOf
    PartsOf <- MCPartsOf
    SizedJobs = {"b"}
    TouchStale = 1
    UrlTTL = 1
    StallTimeout = 1
    Retention = 1
    RepoSizeLimit = 0
    SizeLimit = 2
    Threads = {t1, t2}
    MaxId = 2
    MaxMishaps = 1
    OverlapCommits = FALSE
SYMMETRY MCSymmetry
INVARIANT StoredIsSound
PROPERTY SavesAreSound
