SPECIFICATION Spec
CONSTANTS
  NReq = 4
  RAM_DEPTH = 3
  MaxHits = 3
  MaxTotal = 5
  MaxResets = 1
  Zeros = 0
  Timestamp <- MCTimestamp
  Word <- MCWord
  DataWord <- MCWord
INVARIANTS
  TypeOK
  NeverWedged
  PulseBeginsWithHit
  PulsesInOrder
  NothingStale
