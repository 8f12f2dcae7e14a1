SPECIFICATION Spec
CONSTANTS
  MaxTurns = 6
  MaxCrashes = 2
  NoTurn = NoTurn
INVARIANTS TypeOK Alignment
PROPERTIES IdsAscend CountIsId
CHECK_DEADLOCK FALSE
