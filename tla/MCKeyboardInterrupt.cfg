SPECIFICATION FairSpec
CONSTANTS
  Readers = {terminal}
  Other = other
  Null = Null
  Count = 4
  Slack = 3
  MaxCodes = 9
  Prefixes = {}
  Nodes <- MCNodes
PROPERTY InterruptReturns
CHECK_DEADLOCK FALSE
