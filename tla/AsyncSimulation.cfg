SPECIFICATION Spec
CONSTANTS
  Parts = 2
  Rewritten = {2}
  MaxTriggers = 3
INVARIANTS
  TypeOK
  ResultOfLatestTrigger
  NoCopyDuringComputation
  StartsFromReset
PROPERTIES
  TriggerServed
  DestructReturns
