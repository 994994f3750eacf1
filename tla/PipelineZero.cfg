CONSTANTS
  NumElements = 1
  ElementsToRead = 1
  MaxSteps = 2
  MaxWritten = 1
  Batches <- AllBatches
  Signals <- AllSignals
SPECIFICATION Spec
PROPERTY
  PendingUntilReceived
