SPECIFICATION Spec
CONSTANTS
    s1 = s1
    s2 = s2
    Services = {s1, s2}
    Faults = {}
PROPERTIES CrashIsReported
