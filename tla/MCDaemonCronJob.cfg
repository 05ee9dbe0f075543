CONSTANTS
    n1 = n1
    None = None
    Nodes <- OneNode
    MaxUid = 2
    MaxCronJobs = 2
    MaxTicks = 1
    Labelled = {TRUE, FALSE}
    ConcurrencyPolicy = "Allow"
    Budgets <- Everything
SPECIFICATION FairSpec
INVARIANTS ProtectedInv ReadyAtRest
PROPERTIES ImplementsFinalizer BindingUnlessLagging DeletionCompletes ComesToRest LeavesNothing
CHECK_DEADLOCK FALSE
