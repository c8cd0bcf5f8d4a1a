\* Three threads, one page, four messages: the object is terminated, mapped
\* again and deleted while requests are in progress.  An object nobody refers to
\* any more is the end.
SPECIFICATION Spec
CONSTANTS
    Thread = {t1, t2, t3}
    Page = {0}
    MaxUrefs = 2
    MaxVersion = 2
    MaxMessage = 4
SYMMETRY Symmetry
INVARIANTS
    
    TerminateWaits
    RightsBalance
    FreeIsLast
    WaitersHaveWakers
CHECK_DEADLOCK FALSE
