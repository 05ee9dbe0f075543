CONSTANTS
    n1 = n1
    n2 = n2
    None = None
    Nodes <- TwoNodes
    FirstNodes <- OneAtFirst
    MaxUid = 1
    MaxJobs = 1
    Budget <- Deletion
    Mixes <- DeletionMixes
SPECIFICATION FairSpec
PROPERTIES ImplementsFinalizer DeletionCompletes ComesToRest
CHECK_DEADLOCK FALSE
