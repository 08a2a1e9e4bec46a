SPECIFICATION FairSpec
CONSTANTS
    d1 = d1
    d2 = d2
    t1 = t1
    Deliveries = {d1, d2}
    Tasks = {t1}
    TaskOf <- MCTaskOf
    Capacity = 2
    HealthEnabled = TRUE
INVARIANTS AdmissionIsRight ShutdownIsOrderly OnceIsSpent
PROPERTIES NoFetchWhileUnhealthy PollerProgress
