SPECIFICATION Spec
CONSTANTS
  Cols = 4
  Rows = 3
  Starts <- MCStarts
  MaxCommands = 1
INVARIANTS
  TypeOK
  SnakesApart
  FoodIsFree
  NoTrails
