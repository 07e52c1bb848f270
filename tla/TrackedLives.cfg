SPECIFICATION Spec
CONSTANTS
  Chars = {p, k, g, v}
  Founder = p
  Count = v
  Titles <- MCTitles
  Tier <- MCTier
  Liege <- MCLiege
  Holder0 <- MCHolder0
  Putters = {h}
  UserRole = "rival"
  MaxMoves = 2
  MaxCalls = 2
  NoRow = NoRow
  NoOne = NoOne
  Unset = Unset
  Idle = Idle
INVARIANT KinTracked
PROPERTY MarksSurvive
CHECK_DEADLOCK FALSE
