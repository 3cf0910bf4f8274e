SPECIFICATION Spec
CONSTANTS
    MaxPods = 2
    Procs = {"serve", "cli"}
    Threads = {"deploy", "reaper", "command"}
    ProcOf <- StoreProcOf
    Images = {"a", "b"}
    Models = {"m1", "m2"}
INVARIANTS
    
    AdmissionSound
    
    
    
    
    RunPodSafe
    VastSafe
    LambdaSafe
    StoreSafe
    
    HostSafe
    StagingSafe
    PinsSafe
PROPERTIES
    RunPodPhaseClimbs
CHECK_DEADLOCK FALSE
