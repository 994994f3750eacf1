SPECIFICATION Spec
CONSTANTS
  MaxSlots = 3
  MaxLoads = 2
  Kinds <- AllKinds
INVARIANTS
  TypeOK
  CurrentIsAlive
  ParametersOutlive
  NoParametersLeaked
  InactiveStatesReset
  UpdatedAfterOutputs
PROPERTY
  SwitchReturns
