CONSTANTS
    a1 = a1
    a2 = a2
    a3 = a3
    a4 = a4
    e1 = e1
    e2 = e2
    Ackers <- FourAckers
    Executors <- TwoExecutors
    maxAck = 2
SPECIFICATION FairSpec
INVARIANTS RoundInv NoEarlyReturn AcksAreInside
PROPERTIES QuorumExecutes ImplementsRounds
CHECK_DEADLOCK FALSE
