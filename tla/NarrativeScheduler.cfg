SPECIFICATION Spec
CONSTANTS
    Chars = {1, 2}
    Camps = {"campA"}
    MaxItems = 3
    RecentCap = 2
    Scheds = {live, lazy}
    CampOf <- CampOfAll
    Width = 2
    Known <- KnownAll
    MaxEvents = 1
SYMMETRY Interchangeable
INVARIANTS OneGenerationPerCharacter QueuePageTruthful ProseNeverLost
CHECK_DEADLOCK FALSE
