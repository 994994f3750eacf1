SPECIFICATION Spec
CONSTANTS
  NumElements = 2
  AutoFlush = 0
  MaxBatch = 1
  MaxElements = 1
  MaxSignals = 2
INVARIANT
  ResetCarriedOut
