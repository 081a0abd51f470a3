SPECIFICATION Spec
CONSTANTS
    Services = {s1}
    Nodes = {n1, n2}
    NoNode = NoNode
    NoService = NoService
    MaxRestartAttempts = 1
    Grace = 1
    Cooldown = 0
    Faults = {"store", "crash"}
    MaxTime = 0
    MaxGeneration = 1
    MaxRestartCount = 2
SYMMETRY Symmetry
INVARIANTS
    TypeOK RunningIsPlaced FailedIsRecoverable RestartBudget RecoverySlotReleased
    PlacementNodeKnown RoundAwaits ControllerInv
PROPERTIES
    PlacedAfterDeploy StoppedOnlyRedeployed StepsRunOut
