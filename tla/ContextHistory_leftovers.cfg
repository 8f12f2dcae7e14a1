CONSTANTS
    MaxSteps = 2
    MaxCalls = 2
    MaxMessages = 2
    MaxCompactions = 1
SPECIFICATION HistorySpec
INVARIANTS HeldSurvive
CHECK_DEADLOCK FALSE
