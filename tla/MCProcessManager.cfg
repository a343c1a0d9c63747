SPECIFICATION FairSpec
CONSTANTS
  MaxPid = 5
  Creators <- MCCreators
  Exiters <- MCExiters
  Null = Null
INVARIANTS
  TypeOK
  NothingUnloadedRuns
  NoDanglingPointer
  RegistersBelong
  ListInCreationOrder
PROPERTIES
  CooperativeSchedulerSpec
  YieldReturns
  ReadyRuns
