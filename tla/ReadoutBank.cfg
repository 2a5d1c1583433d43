SPECIFICATION Spec
CONSTANTS
  BRAM_WORDS = 2
  MISSED_MOD = 2
  MaxWords = 1
  MaxResets = 0
  READS = 1
  MaxExits = 0
INVARIANT ReadsFilledBank
