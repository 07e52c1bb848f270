SPECIFICATION FairSpec
CONSTANTS
    Camps = {a, b}
    MaxTails = 3
    NoCamp = NoCamp
    MaxPlays = 2
    MaxAdopts = 1
    Upsets = {"teardown", "halt", "fail"}
INVARIANTS NeverUntailed NoSupersededScheduler
PROPERTIES TailFollowsPlayer TeardownEnds
CHECK_DEADLOCK FALSE
