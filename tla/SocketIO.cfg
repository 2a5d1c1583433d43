SPECIFICATION FairSpec
CONSTANTS
  MaxEmits = 2
  MaxDown = 1
  MaxEngines = 3
  WithBuffer = {1}
INVARIANTS
  TypeOK
  OneConnection
  GivenOnce
  HeardOnce
  AcksMatch
PROPERTIES
  StaysDisconnected
  Reconnects
  BufferIsSent
CHECK_DEADLOCK FALSE
