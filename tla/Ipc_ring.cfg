SPECIFICATION FairSpec
CONSTANTS
    Process = {p1}
    Thread = {t1, t2}
    Pid = {p1, p2}
    Data = {d1}
    DataSize = {1, 2}
    MIRIX_IPC_MAX_DATA_SIZE = 1
    CAPACITY = 3
    Sem = {s1}
    NULL = NULL
INVARIANTS
    QueueWellFormed
    ShiftIsLoop
PROPERTIES
    ImplementsQueue
    SendReturns
    PendingIsReceived
