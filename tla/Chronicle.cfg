CONSTANTS
  None = None
  Junk = Junk
  Char = {a, b, d}
  Tracked = {a, b}
  MaxMoves = 3
  LifestyleOf <- MCLifestyleOf
  Interesting = {"stele"}
  Pregnant = "pregnant"
  ClusterMin = 3
  ClusterWindow = 1
SPECIFICATION Spec
INVARIANTS DeathTold HoldingsTold NothingInvented NoSaveRefused LinesTrue BriefingTrue
PROPERTIES RealmTrue TitlesRemembered
CHECK_DEADLOCK FALSE
