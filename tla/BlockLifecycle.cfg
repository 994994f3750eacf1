SPECIFICATION Spec
CONSTANTS
  NumBlocks = 4
INVARIANTS
  TypeOK
  ProvidersAlive
  DestructedOnce
  OnlyInitialisedUsed
  NothingLeftBehind
