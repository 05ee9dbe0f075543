CONSTANTS
    n1 = n1
    n2 = n2
    l1 = l1
    None = None
    Nodes <- TwoNodes
    Labels <- OneLabel
    MaxUid = 1
    MaxTemplates = 2
    Budget <- NodeMoves
SPECIFICATION Spec
INVARIANTS EveryNodeHasItsCronJob OneCronJobPerNode StatusAtRest
SYMMETRY NodeSymmetry
CHECK_DEADLOCK FALSE
