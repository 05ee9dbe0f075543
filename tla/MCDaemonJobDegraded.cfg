CONSTANTS
    n1 = n1
    n2 = n2
    None = None
    Nodes <- OneNode
    FirstNodes <- OneAtFirst
    MaxUid = 1
    MaxJobs = 1
    Budget <- Quiet
    Mixes <- QuietMixes
SPECIFICATION Spec
INVARIANT DegradedIsTrue
CHECK_DEADLOCK FALSE
