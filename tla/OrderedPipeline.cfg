SPECIFICATION FairPSpec
CONSTANTS
    Width = 3
    QueueCap = 3
    MaxPuts = 8
INVARIANT Conveyed
PROPERTIES DeliversInOrder
CHECK_DEADLOCK FALSE
