SPECIFICATION FairSpec
CONSTANTS
  Readers = {terminal}
  Other = other
  Null = Null
  Count = 4
  Slack = 3
  MaxCodes = 1
  Prefixes = {}
  Nodes <- MCNodes
PROPERTY AvailableKeyIsReturned
CHECK_DEADLOCK FALSE
