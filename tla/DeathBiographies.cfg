SPECIFICATION FairSpec
CONSTANTS
    Chars = {c1}
    NoChar = NoChar
    MaxToggles = 3
    MaxCrashes = 2
    MaxQueued = 6
    Upsets = {"torn", "generate", "commit", "drain"}
INVARIANTS NoDeathForgotten
PROPERTIES PauseHonoured RestartRecovers
CHECK_DEADLOCK FALSE
