SPECIFICATION Spec
CONSTANTS
    Tasks = {t1, t2, t3}
    Capacities = {1, 2}
    Workers = 2
    MaxCalls = 4
INVARIANT
    GenerationsSerialised
