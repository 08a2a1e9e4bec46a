SPECIFICATION Spec
CONSTANTS
    Steps <- MCSteps
    Jobs <- MCJobs
    Timed = {"first"}
    Files <- MCFiles
    Allow = FALSE
    MaxErrors = 1
INVARIANTS OutputIsComplete CommandsObeyed FilesAppliedOnce
PROPERTY InterruptedStepEnds
