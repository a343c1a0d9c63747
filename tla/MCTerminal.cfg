SPECIFICATION TerminalSpec
CONSTANTS
  Width = 4
  Height = 2
  MAX_STR_INPUT = 3
  Contents <- MCContents
  Codes <- MCCodes
  MaxKeyed = 7
  EXIT_COMMAND <- MCExit
  SNAKES_COMMAND <- MCSnakes
  PROMPT <- MCPrompt
  UNKNOWN_COMMAND <- MCUnknown
  BUFFER_FULL <- MCFull
  TURN_OFF <- MCTurnOff
INVARIANTS
  TerminalTypeOK
  InputIsOverlay
  EchoIsLine
CHECK_DEADLOCK FALSE
