SPECIFICATION FairSpec
CONSTANTS
    Ids = {i1}
    Machines = {m1, m2}
    Callers = {c1, c2}
    None = None
    Scenarios <- Interruptions
    Adoptable = {"booting", "running"}
PROPERTIES
    SelfHeal
