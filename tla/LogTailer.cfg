SPECIFICATION LogSpec
CONSTANTS
  Events = {a, b, c}
  Malformed = {c}
  Invalid = {b}
  ScopeTimeout = 4
  MaxNoise = 1
  MaxFaults = 2
  None = None
INVARIANTS TagsAccounted RightOwner
CHECK_DEADLOCK FALSE
