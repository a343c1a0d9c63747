SPECIFICATION FairSpec
CONSTANTS
  NoVector = NoVector
  Lines <- MCLines
  Configs <- MCConfigs
  Stale <- MCStale
  SelfTests <- MCSelfTests
  KeyCodes <- MCKeyCodes
  MaxKeys = 2
  RegionTypes = {"RAM", "Reserved"}
INVARIANTS
  TypeOK
  KeyboardInterruptsReachTheDriver
  FaultsCanBeHandled
  NothingIsBuiltTwice
PROPERTIES
  KeysAreRead
  LoadReturns
