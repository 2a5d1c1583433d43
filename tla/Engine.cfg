SPECIFICATION Spec
CONSTANTS
  MaxUp = 3
  MaxDown = 2
  Binaries = {2}
  Throwing = {1}
INVARIANTS
  TypeOK
  SendFindsOpenTransport
  AlwaysPolling
  NoLostWakeup
PROPERTIES
  SwitchIsQuiet
  DeliversUp
  DeliversDown
CHECK_DEADLOCK FALSE
