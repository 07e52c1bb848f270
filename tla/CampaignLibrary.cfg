SPECIFICATION Spec
CONSTANTS
    Machines = {a, b}
    Homes = {a}
    Ids = {c1}
    Old = {}
    Pts = {p}
    Adopters = {h}
    MaxRequests = 2
    Upsets = {"crash", "sidecar", "provider", "lock", "tombstone", "upgrade"}
    MaxUpsets = 1
    NoRow = NoRow
    NoPt = NoPt
    Idle = Idle
INVARIANTS DeletionStands SealedIsTold
CHECK_DEADLOCK FALSE
