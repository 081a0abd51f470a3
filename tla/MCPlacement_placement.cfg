SPECIFICATION Spec
CONSTANTS
    n1 = n1
    n2 = n2
    a = a
    b = b
    NoNode = NoNode
    NoSnapshot = NoSnapshot
    NoPort = NoPort
    NoRecord = NoRecord
    NoContainer = NoContainer
    Nodes = {n1, n2}
    Services = {a, b}
    Full = 1
    Rank <- MCRank
    PortBase <- MCPortBase
    PortMax <- MCPortMax
    HashOf <- MCHash
    MinimumOf <- MCMinimum
    Explicit <- MCExplicit
    States <- MCStates
    Faults = {"exit", "early", "agent"}
INVARIANTS TypeOK   
