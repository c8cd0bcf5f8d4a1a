SPECIFICATION SyscallSpec
CONSTANTS
    Process = {p1, p2}
    Thread = {t1}
    Pid = {p1, p2}
    Data = {d1}
    DataSize = {1}
    MIRIX_IPC_MAX_DATA_SIZE = 1
    CAPACITY = 1
    Sem = {s1}
    NULL = NULL
PROPERTIES
    SentIsReceived
