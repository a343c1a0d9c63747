SPECIFICATION FairSpec
CONSTANTS
  Readers = {terminal}
  Other = other
  Null = Null
  Count = 4
  Slack = 3
  MaxCodes = 9
  Prefixes <- MCPrefixes
  Nodes <- MCNodes
INVARIANTS
  TypeOK
  PopsInOrder
PROPERTY WokenByNextKey
CHECK_DEADLOCK FALSE
