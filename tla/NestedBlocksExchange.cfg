SPECIFICATION Spec
CONSTANTS
  MaxSlots = 2
  MaxLoads = 1
  Kinds = {"nested"}
INVARIANT
  OutputsFirst
