SPECIFICATION Spec
CONSTANTS
  Word = {w1, w2}
  RAM_DEPTH = 4
INVARIANT TypeOK
PROPERTY ImplementsFifo
