CONSTANTS
    n1 = n1
    n2 = n2
    l1 = l1
    None = None
    Nodes <- OneNode
    Labels <- OneLabel
    MaxUid = 1
    MaxTemplates = 2
    Budget <- Edits
SPECIFICATION Spec
INVARIANT TemplateAtRest
CHECK_DEADLOCK FALSE
