CONSTANTS
    e1 = e1
    d1 = d1
    NoDeployment = NoDeployment
    Engines = {e1}
    Deployments = {d1}
    DeploymentOf <- OneMember
    Lease = 9
    RenewDivisor = 3
    DefaultInterval = 2
    SweepInterval = 3
    CallTime = 1
    Faults = {"lost", "late", "exit", "down", "store", "drain"}

SPECIFICATION FairSpec
INVARIANTS
    TypeOK
    LeaseSafe
PROPERTIES
    DrainKept
    ViewConverges
