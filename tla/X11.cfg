SPECIFICATION FairSpec
CONSTANTS
  None = None
  Capacity = 2
  Plans <- Connections
INVARIANTS Framed Untouched
PROPERTY Reaped
CHECK_DEADLOCK FALSE
