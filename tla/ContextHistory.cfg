CONSTANTS
    MaxSteps = 2
    MaxCalls = 2
    MaxMessages = 3
    MaxCompactions = 1
SPECIFICATION HistorySpec
INVARIANTS RequestsAnswerCalls MessagesKept
CHECK_DEADLOCK FALSE
