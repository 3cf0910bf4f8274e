SPECIFICATION FairSpec
CONSTANTS
    Items = {a, b, c}
    Servicers = {s1, s2, s3}
    Capacity = 2

    
PROPERTIES
    ImplementsBacklog
    
CHECK_DEADLOCK FALSE
