SPECIFICATION FairSpec
CONSTANTS
    Outputs = {}
    LogBatchSize = 2
    Attempts = 2
    MaxRecords = 0
    MaxRows = 1
    MaxLate = 0
    LogLoss = FALSE
    JobResults = {}
    Verdicts = {"cancelled"}
    Endings = {"expired"}
PROPERTY ReporterProgress
