SPECIFICATION Spec
CONSTANTS
  Kinds <- MCKinds
  MaxBlocks = 3
  MaxPorts = 2
  MaxEntries = 3
INVARIANT
  EveryBlockExecuted
