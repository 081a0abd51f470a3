SPECIFICATION Spec
CONSTANTS
    s1 = s1
    s2 = s2
    a1 = a1
    a2 = a2
    NoRecord = NoRecord
    NoAddress = NoAddress
    Services = {s1}
    Addresses = {a1}
    MaxId = 2
    MaxCommands = 1
    Faults = {}
PROPERTIES AlreadyRunningRuns
