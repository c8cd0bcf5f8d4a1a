SPECIFICATION FairSpec
CONSTANTS
    MAX_THREADS = 3
    Mutex = {m1}
    Value = {v1}
    NULL = NULL
INVARIANTS
    DispatchedIsRunning
    MutualExclusion
    BlockedHasWaker
    NoLostWakeup
    JoinSound
    QueuedOnce
PROPERTIES
    StuckForever
    ReadyIsDispatched
    JoinReturns
    FreeMutexIsTaken
