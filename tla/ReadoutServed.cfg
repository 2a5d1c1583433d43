SPECIFICATION FairSpec
CONSTANTS
  BRAM_WORDS = 1
  MISSED_MOD = 2
  MaxWords = 0
  MaxResets = 1
  READS = 2
  MaxExits = 2
PROPERTY TriggerServed
