\* A partition may be destroyed while a request works on a block of it.
SPECIFICATION PagingSpec
CONSTANTS
    Worker = {w1, w2}
    Pager = {g1}
    Offset = {1, 4}
    Capacity <- TwoAndOne
    PAGEMAP_ENTRIES = 2
    MaxDoubled = 8
    Sizes = {1, 4}
    Destroyer = Destroyer
    Nobody = Nobody
    Late = TRUE
    Caller = {c1, c2}
    Requests = {1, 2, 3}
    PageSize = 4
    Top = 12
SYMMETRY Symmetry
INVARIANT
    NoRefsLeft
CHECK_DEADLOCK FALSE
