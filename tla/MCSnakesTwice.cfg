SPECIFICATION Spec
CONSTANTS
  Cols = 4
  Rows = 3
  Starts <- MCStarts
  MaxCommands = 2
INVARIANT EachSnakeHasItsProcess
