SPECIFICATION RSpec
CONSTANTS
    Services = {s1}
    Nodes = {n1, n2}
    NoNode = NoNode
    NoService = NoService
    MaxRestartAttempts = 1
    Grace = 0
    Cooldown = 0
    Faults = {"timeout"}
    MaxTime = 0
    NoFile = NoFile
    ActiveService = s1
    IngressFaults = {"read", "reload", "nginx"}
    MaxGeneration = 1
    MaxRestartCount = 2
SYMMETRY Symmetry
INVARIANTS
    RestartsTheWantedInstance DownIsQueued  ObservedNodeIsPlacement FileIsTrue DivergenceIsRecorded RoutingInv 
PROPERTIES
    ImplementsLifecycle
