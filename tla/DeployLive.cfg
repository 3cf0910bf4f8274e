SPECIFICATION FairSpec
CONSTANTS
    MaxSlots = 3
    MaxCreates = 1
    Machines = {m1, m2, m3}
    Callers = {c1, c2}
    None = None
    Scenarios <- Endings
PROPERTIES
    ProvisionEnds
    DestroyConverges
CHECK_DEADLOCK FALSE
