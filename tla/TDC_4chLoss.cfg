SPECIFICATION Spec
CONSTANTS
  NReq = 4
  RAM_DEPTH = 5
  MaxHits = 1
  MaxTotal = 2
  MaxResets = 0
  Zeros = 0
  Timestamp <- MCTimestamp
  Word <- MCWord
  DataWord <- MCWord
INVARIANT NoHitLost
