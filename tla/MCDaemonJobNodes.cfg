CONSTANTS
    n1 = n1
    n2 = n2
    None = None
    Nodes <- TwoNodes
    FirstNodes <- SomeAtFirst
    MaxUid = 1
    MaxJobs = 1
    Budget <- NodeMoves
    Mixes <- NodeMixes
SPECIFICATION Spec
INVARIANTS OrphansAtRest StateAtRest
PROPERTIES CompleteIsTrue BindingUnlessLagging
SYMMETRY NodeSymmetry
CHECK_DEADLOCK FALSE
