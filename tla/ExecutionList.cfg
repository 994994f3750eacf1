SPECIFICATION Spec
CONSTANTS
  Kinds <- MCKinds
  MaxBlocks = 3
  MaxPorts = 2
  MaxEntries = 4
INVARIANTS
  TypeOK
  JunctionsConsistent
  ScheduledOnce
  OrderValid
  LeftOutOnlyBehindLoops
  LoopNeverReported
PROPERTY
  SetupEnds
