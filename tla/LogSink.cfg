SPECIFICATION Spec
CONSTANTS
  NumElements = 2
  AutoFlush = 0
  MaxBatch = 2
  MaxElements = 4
  MaxSignals = 2
INVARIANTS
  TypeOK
  NoTornElement
  InOrder
  NothingLeftBehind
  ControlAfterData
PROPERTIES
  ChannelSpec
  DelReturns
  FlushDelivers
