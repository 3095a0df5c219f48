CONSTANTS
    Cursors = {c1, c2}
    First = First
    NoCursor = NoCursor
    NoList = NoList
    MaxPages = 4
SPECIFICATION FairSpec
CHECK_DEADLOCK FALSE
INVARIANTS
    ItemsFollowCursors
    RequestsBounded
    SalvageReported
PROPERTIES
    AcceptedListsComplete
    PassEnds
