SPECIFICATION HardwareSpec
CONSTANTS
    MAX_THREADS = 3
    Mutex = {m1}
    Value = {v1}
    NULL = NULL
PROPERTY
    ReadyIsDispatched
