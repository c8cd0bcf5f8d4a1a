\* Three threads, with and without overlapping calls.
SPECIFICATION Spec
CONSTANTS
    Thread = {t1, t2, t3}
    MAX_FILES = 2
    MAX_HOST = 3
SYMMETRY Symmetry
INVARIANTS
    ExclusiveSlots
    OwnFilesOnly
    SerialKeepsFile
    
CHECK_DEADLOCK FALSE
