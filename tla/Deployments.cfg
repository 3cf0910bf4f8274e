SPECIFICATION Spec
CONSTANTS
    MaxSlots = 3
    MaxCreates = 3
    Machines = {m1, m2, m3}
    Callers = {c1, c2}
    None = None
    Scenarios <- Circumstances
SYMMETRY Symmetry
INVARIANTS
    DeploymentSafe
    RecordHonest
PROPERTIES
    ForwardOnly
CHECK_DEADLOCK FALSE
