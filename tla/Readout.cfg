SPECIFICATION Spec
CONSTANTS
  BRAM_WORDS = 2
  MISSED_MOD = 2
  MaxWords = 2
  MaxResets = 1
  READS = 1
  MaxExits = 1
INVARIANTS
  TypeOK
  SelectionHolds
  OneReadoutPerTrigger
  HandedBankQuiet
  FreshBank
  HandedBankHoldsWords
