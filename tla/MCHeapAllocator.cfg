SPECIFICATION FairSpec
CONSTANTS
  Base = 0
  Limit = 20
  Requests = {1, 2, 4}
  Permanent <- FirstBlock
  Garbage <- FreeGarbage
INVARIANTS
  TypeOK
  ChunksFillTheHeap
  HeadersMatchFooters
PROPERTIES
  AllocatorSpec
  GrowsOnlyWhenFull
  CallsReturn
