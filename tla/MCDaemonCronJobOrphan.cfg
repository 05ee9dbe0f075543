CONSTANTS
    n1 = n1
    None = None
    Nodes <- OneNode
    MaxUid = 1
    MaxCronJobs = 1
    MaxTicks = 1
    Labelled = {TRUE}
    ConcurrencyPolicy = "Allow"
    Budgets <- NodeLeaves
SPECIFICATION Spec
INVARIANT OrphansAtRest
CHECK_DEADLOCK FALSE
