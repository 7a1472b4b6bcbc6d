\* Safety: three threads and four calls, so that a call can run entirely inside
\* another thread's load or refresh, and a later one can observe what it left.
CONSTANTS
    t1 = t1
    t2 = t2
    t3 = t3
    Threads = {t1, t2, t3}
    NoThread = NoThread
    Ttls = {0, 1}
    MaxClock = 2
    MaxCalls = 4
    MaxLoads = 4
SPECIFICATION Spec
SYMMETRY ThreadSymmetry
\* Every call has returned and the clock has reached its bound.
CHECK_DEADLOCK FALSE
INVARIANTS TypeOK SingleFlight FreshWhenChecked RefreshSeesNewLoad
INVARIANTS LoadsOnlyWhenStale OwnErrorsOnlyAfterDrop
PROPERTY ImplementsAtomicCache
