SPECIFICATION SilentSpec
CONSTANTS
    Services = {s1}
    Nodes = {n1, n2}
    NoNode = NoNode
    NoService = NoService
    MaxRestartAttempts = 0
    Grace = 0
    Cooldown = 0
    Faults = {}
    MaxTime = 0
    MaxGeneration = 1
    MaxRestartCount = 0
PROPERTIES
    FailedNodeIsLeft
