SPECIFICATION Spec
CONSTANTS
    n1 = n1
    Nodes = {n1}
    Loads = {0}
    LoadStep = 0
    WriteThreshold = 1
    Timeout = 6
    SnapshotInterval = 4
    MaxDelay = 1
    MaxAge = 8
    Never = Never
    NoLoad = NoLoad
    NoRecord = NoRecord
    Faults = {"controller", "store"}
INVARIANTS TypeOK SkippedIsListed NodesInv SteadyInv
PROPERTIES SteadyIsNotSilent ImplementsController
