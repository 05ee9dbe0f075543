CONSTANTS
    n1 = n1
    n2 = n2
    None = None
    Nodes <- OneNode
    FirstNodes <- NoneAtFirst
    MaxUid = 1
    MaxJobs = 1
    Budget <- NodeJoins
    Mixes <- NodeJoinMixes
SPECIFICATION Spec
PROPERTY SparesExistingNodes
CHECK_DEADLOCK FALSE
