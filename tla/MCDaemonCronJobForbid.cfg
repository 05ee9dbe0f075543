CONSTANTS
    n1 = n1
    None = None
    Nodes <- OneNode
    MaxUid = 1
    MaxCronJobs = 1
    MaxTicks = 2
    Labelled = {TRUE}
    ConcurrencyPolicy = "Forbid"
    Budgets <- TwoTicks
SPECIFICATION Spec
INVARIANT NoOverlap
CHECK_DEADLOCK FALSE
