SPECIFICATION Spec
CONSTANTS
  Base = 3
  Limit = 17
  Requests = {2}
  MapGrowth = 3
INVARIANTS
  TypeOK
  MapKnowsStacks
PROPERTIES
  AllocatorSpec
  ReusesFreedStacks
