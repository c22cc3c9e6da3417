SPECIFICATION FairSpec
CONSTANTS
  None = None
  ClientId = {i1, i2}
  ServerId = {o1}
  Capacity = 2
  Plans <- Connections
INVARIANTS TypeOK Identified FdsFollow
PROPERTIES ChannelSpec Relayed Reaped
CHECK_DEADLOCK FALSE
