CONSTANTS
  NumElements = 3
  ElementsToRead = 2
  MaxSteps = 3
  MaxWritten = 9
  Batches <- AllBatches
  Signals <- AllSignals
SPECIFICATION Spec
INVARIANTS
  TypeOK
PROPERTIES
  QueueSpec
  NotificationServed
