CONSTANTS
    n1 = n1
    n2 = n2
    None = None
    Nodes <- OneNode
    FirstNodes <- NoneAtFirst
    MaxUid = 2
    MaxJobs = 3
    Budget <- Faults
    Mixes <- FaultMixes
SPECIFICATION Spec
INVARIANTS ProtectedInv Protected BroadcastsCounted OneBroadcastPerIncarnation ResourcesAtRest
PROPERTIES CreatedUnderFinalizer BindingGoneUnlessLagging
CHECK_DEADLOCK FALSE
