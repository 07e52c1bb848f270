SPECIFICATION FairSpec
CONSTANTS
    Chars = {1}
    Camps = {"campA"}
    MaxItems = 4
    RecentCap = 2
    Scheds = {"live"}
    CampOf <- CampOfAll
    Width = 1
    Known <- KnownAll
    MaxEvents = 0
INVARIANTS
    DispatchInOrder
    ReorderKeepsEveryItem
PROPERTIES
    WorkEnds
CHECK_DEADLOCK FALSE
