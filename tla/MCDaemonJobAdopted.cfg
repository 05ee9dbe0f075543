CONSTANTS
    n1 = n1
    n2 = n2
    None = None
    Nodes <- OneNode
    FirstNodes <- OneAtFirst
    MaxUid = 2
    MaxJobs = 2
    Budget <- Recreation
    Mixes <- RecreationMixes
SPECIFICATION Spec
INVARIANT CompleteHasRun
CHECK_DEADLOCK FALSE
