\* Kernels started by either entry point, one after the other; LazyFS by itself;
\* a scheduler with four slots and a quantum of two ticks.
SPECIFICATION AllSpec
CONSTANTS
    MaxFd = 6
    Launches <- SameLowest
    N_MODULES = 2
    Entries = {"main", "legacy"}
    max_processes = 4
    quantum_ticks = 2
    Pid = {1, 2}
INVARIANTS
    RunningIsReady
    CleanStop
    BackingFdIsBackingFile
    OnlyBackingFile
    RunnableIsProcess
    BoundedWait
    SearchIsLoop
PROPERTIES
    ExitShutsDown
    RunnableIsScheduled
