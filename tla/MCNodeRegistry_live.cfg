SPECIFICATION LiveSpec
CONSTANTS
    n1 = n1
    Nodes = {n1}
    Loads = {0, 1}
    LoadStep = 1
    WriteThreshold = 1
    Timeout = 4
    SnapshotInterval = 3
    MaxDelay = 0
    MaxAge = 5
    Never = Never
    NoLoad = NoLoad
    NoRecord = NoRecord
    Faults = {"partition", "agent"}
PROPERTIES ReturnsToService IsGivenUp
