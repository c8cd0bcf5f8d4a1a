\* Launches that differ in the lowest free descriptor.
SPECIFICATION FsSpec
CONSTANTS
    MaxFd = 7
    Launches <- AnyLaunch
INVARIANT
    BackingFdIsBackingFile
CHECK_DEADLOCK FALSE
