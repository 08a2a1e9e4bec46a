SPECIFICATION FairFetchSpec
CONSTANTS
    j1 = j1 j2 = j2 j3 = j3 p1 = p1 p2 = p2 c1 = c1 c2 = c2
    Jobs = {j1, j2, j3}
    Procs = {p1, p2}
    ProcOf <- MCProcOf
    Commits = {c1, c2}
    Modes = {"online", "offline", "pinned"}
    None = None
    Attempts = 2
    MaxEvents = 2
PROPERTIES FetchedIsIntact ReadersUndisturbed FetchedIsCurrent FetchEnds
CHECK_DEADLOCK FALSE
