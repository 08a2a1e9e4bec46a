SPECIFICATION Spec
CONSTANTS
    Outputs = {"o1"}
    LogBatchSize = 2
    Attempts = 2
    MaxRecords = 1
    MaxRows = 1
    MaxLate = 1
    LogLoss = TRUE
    JobResults = {"success"}
    Verdicts = {}
    Endings = {}
INVARIANTS LogIsWhole StateIsReported
PROPERTY LogStreamSpec
