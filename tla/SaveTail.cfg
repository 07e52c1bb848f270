SPECIFICATION FairSpec
CONSTANTS
    Pts = {"own", "other"}
    NoPt = NoPt
    NoSave = NoSave
    Pin = "own"
    Scripts <- MixedScripts
    MaxDate = 3
    MaxSeq = 3
    PipeCap = 1
    CacheMax = 1
    MaxCrashes = 1
    Faults = {"event", "import", "copy", "unlink", "parse", "persist", "registry"}
INVARIANTS RecordedOnce OnePlaythrough NothingLost
PROPERTIES RecoveryEnds CatchesUp
CHECK_DEADLOCK FALSE
