CONSTANTS
    MaxCalls = 3
    Keys <- AllKeys
    AccessOf <- Declared
    PlanWrites = {"edit"}
    MaxSteps = 2
SPECIFICATION FairSpec
INVARIANTS ConflictsSerialized DuplicatesShareOneRun
PROPERTY BatchEnds
CHECK_DEADLOCK FALSE
