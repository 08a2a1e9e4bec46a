SPECIFICATION Spec
CONSTANTS
    Setups <- MCSetups
    Fallback = TRUE
    Width = 2
    MaxFaults = 1
    Uploaders = {"u1", "u2"}
    Overwrites = {"u2"}
    BlocksOf <- MCBlocksOf
    Concurrency = 2
    MaxTries = 2
    DownloadTries = 2
INVARIANTS DownloadIsIntact UploadIsRecorded
PROPERTY TransfersEnd
