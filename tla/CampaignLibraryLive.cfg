SPECIFICATION FairSpec
CONSTANTS
    Machines = {a, b}
    Homes = {a}
    Ids = {c1}
    Old = {c1}
    Pts = {p}
    Adopters = {}
    MaxRequests = 1
    Upsets = {"crash", "sidecar", "provider", "lock", "tombstone", "upgrade"}
    MaxUpsets = 0
    NoRow = NoRow
    NoPt = NoPt
    Idle = Idle
PROPERTIES KeptUnlessDeleted BrokenCardsHeal LibrariesConverge
CHECK_DEADLOCK FALSE
