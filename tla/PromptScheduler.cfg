SPECIFICATION FairSpec
CONSTANTS
  MaxPrompts = 3
  MaxOthers = 1
  MaxCompactions = 1
INVARIANTS EachInOnePlace OneTurnAtATime InOrder LaunchAnswered
PROPERTIES PromptsSettle
CHECK_DEADLOCK FALSE
