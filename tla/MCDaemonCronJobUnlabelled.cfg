CONSTANTS
    n1 = n1
    None = None
    Nodes <- OneNode
    MaxUid = 1
    MaxCronJobs = 1
    MaxTicks = 1
    Labelled = {TRUE, FALSE}
    ConcurrencyPolicy = "Allow"
    Budgets <- Creation
SPECIFICATION FairSpec
PROPERTY GetsCronJob
CHECK_DEADLOCK FALSE
