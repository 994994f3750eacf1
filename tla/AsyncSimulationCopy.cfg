SPECIFICATION Spec
CONSTANTS
  Parts = 2
  Rewritten = {2}
  MaxTriggers = 2
INVARIANT
  CopiesOnlyFinished
