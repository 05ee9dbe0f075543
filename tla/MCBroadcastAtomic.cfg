CONSTANTS
    n1 = n1
    n2 = n2
    None = None
    Nodes <- MCNodes
    Jobs <- MCJobs
    Keys <- MCNodes
    WorkerKey <- MCWorkerKey
SPECIFICATION Spec
PROPERTY AtomicApply
