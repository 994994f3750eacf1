SPECIFICATION RunSpec
CONSTANTS
  Kinds <- MCKinds
  MaxBlocks = 3
  MaxPorts = 1
  MaxEntries = 3
  Value = {0, 1}
  InitialState = 0
  CalcOutput <- MCCalcOutput
  UpdateState <- MCUpdateState
  ResetOutput <- MCResetOutput
INVARIANTS
  RunTypeOK
  OutputsSettled
PROPERTY
  FlowSpec
