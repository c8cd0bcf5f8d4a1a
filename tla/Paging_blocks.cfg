\* Pages 1 and 4 of objects that are created with one or four pages: the map is
\* direct, becomes indirect, and is extended.  Two threads and the one that
\* destroys partitions; the locks that the code leaves locked may stop them all.
\* For kalloc, two threads, two pages of four units and blocks of one unit, of
\* two, and of a page.
SPECIFICATION PagingSpec
CONSTANTS
    Worker = {w1, w2}
    Pager = {g1}
    Offset = {1, 4}
    Capacity <- TwoAndOne
    PAGEMAP_ENTRIES = 2
    MaxDoubled = 8
    Sizes = {1, 4}
    Destroyer = Destroyer
    Nobody = Nobody
    Late = FALSE
    Caller = {c1, c2}
    Requests = {1, 2, 3}
    PageSize = 4
    Top = 12
SYMMETRY Symmetry
INVARIANTS
    
    
    
    BlocksDisjoint
    SpaceAccounted
CHECK_DEADLOCK FALSE
