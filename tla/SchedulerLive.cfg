SPECIFICATION FairSpec
CONSTANTS
    i1 = i1 i2 = i2 i3 = i3 b1 = b1 b2 = b2 b3 = b3
    t1 = t1 t2 = t2
    d1 = d1 d2 = d2
    Requests = {i1, i3, b1}
    Loads <- Busy
    Tenants = {t1, t2}
    Deployments = {d1}
    Workers = {w1, w2}
    None = None
    LaneOf <- Lane
    TenantOf <- Tenant
    DeploymentOf <- OneDeployment
    Capacity <- Capacities
    InFlightCap = 1
PROPERTIES
    SchedulerProgress
CHECK_DEADLOCK FALSE
