CONSTANTS
    n1 = n1
    n2 = n2
    None = None
    Nodes <- OneNode
    FirstNodes <- OneAtFirst
    MaxUid = 1
    MaxJobs = 2
    Budget <- JobDeleted
    Mixes <- JobDeletedMixes
SPECIFICATION Spec
INVARIANT CompleteIsCurrent
CHECK_DEADLOCK FALSE
