SPECIFICATION ShownSpec
CONSTANTS
    StepCount = 2
    MaxFaults = 3
INVARIANTS RowsTile ResultsAgree
PROPERTIES ResultsStick
