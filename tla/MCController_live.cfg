SPECIFICATION FairSpec
CONSTANTS
    Services = {s1}
    Nodes = {n1}
    NoNode = NoNode
    NoService = NoService
    MaxRestartAttempts = 1
    Grace = 1
    Cooldown = 0
    Faults = {"store", "crash"}
    MaxTime = 1
    MaxGeneration = 1
    MaxRestartCount = 1
PROPERTIES
    RoundsEnd LockReleased QueuedIsRetried
