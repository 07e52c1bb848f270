CONSTANTS
  Kinds = {"ingest", "logs"}
  Buffer = 4
  Ring = 2
  MaxErrors = 2
  InOrder = TRUE
  MaxSaves = 1
  MaxLines = 3
  MaxFaults = 1
  MaxVisits = 2
  MaxStarts = 2
  None = None
SPECIFICATION Spec
INVARIANTS FramesAccounted LogComplete
PROPERTY StripSettles
CHECK_DEADLOCK FALSE
