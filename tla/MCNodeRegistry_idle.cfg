SPECIFICATION LiveSpec
CONSTANTS
    n1 = n1
    Nodes = {n1}
    Loads = {0}
    LoadStep = 1
    WriteThreshold = 1
    Timeout = 2
    SnapshotInterval = 2
    MaxDelay = 0
    MaxAge = 4
    Never = Never
    NoLoad = NoLoad
    NoRecord = NoRecord
    Faults = {}
PROPERTIES BecomesCandidate
