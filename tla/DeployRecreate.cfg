SPECIFICATION Spec
CONSTANTS
    MaxSlots = 3
    MaxCreates = 2
    Machines = {m1, m2, m3, m4}
    Callers = {c1, c2}
    None = None
    Scenarios <- Recreating
SYMMETRY Symmetry
INVARIANTS
    Released
CHECK_DEADLOCK FALSE
