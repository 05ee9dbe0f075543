CONSTANTS
    a1 = a1
    a2 = a2
    a3 = a3
    a4 = a4
    e1 = e1
    e2 = e2
    Ackers <- ThreeAckers
    Executors <- OneExecutor
    maxAck = 2
SPECIFICATION FairSpec
PROPERTY QuorumReleases
CHECK_DEADLOCK FALSE
