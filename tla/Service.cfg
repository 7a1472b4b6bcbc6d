CONSTANTS
    k1 = k1
    k2 = k2
    k3 = k3
    t1 = t1
    t2 = t2
    Callers = {k1, k2, k3}
    Loads <- MCLoads
    Tenants = {t1, t2}
    NoTenant = NoTenant
    TenantOf <- MCTenantOf
    Connections = {c1, c2}
    PoolSize = 1
    Nobody = Nobody
    Publishes = TRUE
    CostEnabled = TRUE
    MaxAttempts = 2
    MaxRows = 2
    MaxBytes = 3
    Answers <- MCAnswers
    RetryAttempts = 2
    RepairAttempts = 1
    NativeSchema = FALSE
    Window = 2
    Skew = 1
    MaxNow = 3
SPECIFICATION FairSpec
PROPERTY EveryRequestEnds
CHECK_DEADLOCK FALSE
INVARIANTS RunsAsItsTenant IdleIsClean FetchedExactly LimiterHolds ModelCallsBounded
