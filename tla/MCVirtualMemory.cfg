SPECIFICATION Spec
CONSTANTS
  NumPages = 40
  ListPages = 1
  Fan = 4
  PageWords = 2
  Regions <- MCRegions
  First <- MCFirst
  High <- MCHigh
  Requests <- MCRequests
  Stray <- MCStray
INVARIANTS
  NoSharedPage
  ReservedCanBeTouched
PROPERTY TranslationsAreStable
CHECK_DEADLOCK FALSE
