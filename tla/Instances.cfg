SPECIFICATION Spec
CONSTANTS
    Ids = {i1, i2}
    Machines = {m1, m2}
    Callers = {c1, c2, c3}
    None = None
    Scenarios <- Circumstances
    Adoptable = {"booting", "running"}
SYMMETRY Symmetry
INVARIANTS
    TypeOK
    OwnMachine
    RentalSafe
PROPERTIES
    TerminatesOwn
