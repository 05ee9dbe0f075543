CONSTANTS
    n1 = n1
    n2 = n2
    l1 = l1
    None = None
    Nodes <- OneNode
    Labels <- OneLabel
    MaxUid = 2
    MaxTemplates = 1
    Budget <- Lifecycle
SPECIFICATION FairSpec
INVARIANTS EveryNodeHasItsCronJob
PROPERTIES PutsNothingBack DeletionCompletes ComesToRest
CHECK_DEADLOCK FALSE
