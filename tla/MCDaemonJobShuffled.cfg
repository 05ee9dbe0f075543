CONSTANTS
    n1 = n1
    n2 = n2
    None = None
    Nodes <- TwoNodes
    FirstNodes <- OneAtFirst
    MaxUid = 1
    MaxJobs = 1
    Budget <- NodeJoins
    Mixes <- NodeJoinMixes
SPECIFICATION FairSpec
PROPERTY ComesToRestInAnyOrder
CHECK_DEADLOCK FALSE
