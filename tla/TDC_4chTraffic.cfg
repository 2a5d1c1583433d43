SPECIFICATION TrafficSpec
CONSTANTS
  NReq = 3
  RAM_DEPTH = 3
  MaxHits = 1
  MaxTotal = 0
  MaxResets = 0
  Zeros = 0
  Timestamp <- MCTimestamp
  Word <- MCWord
  DataWord <- MCWord
PROPERTY NoStarvation
