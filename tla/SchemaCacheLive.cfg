\* Liveness: no symmetry, two threads, three calls.
CONSTANTS
    t1 = t1
    t2 = t2
    t3 = t3
    Threads = {t1, t2}
    NoThread = NoThread
    Ttls = {0, 1}
    MaxClock = 2
    MaxCalls = 3
    MaxLoads = 3
SPECIFICATION FairSpec
\* Every call has returned and the clock has reached its bound.
CHECK_DEADLOCK FALSE
PROPERTY EveryCallEnds
