\* A close of one thread overlaps an open of another.
SPECIFICATION Spec
CONSTANTS
    Thread = {t1, t2}
    MAX_FILES = 2
    MAX_HOST = 2
INVARIANT
    DescriptorKeepsFile
CHECK_DEADLOCK FALSE
