CONSTANTS
    MaxCalls = 3
    Keys <- AllKeys
    AccessOf <- Declared
    PlanWrites = {"edit"}
    MaxSteps = 2
SPECIFICATION Spec
INVARIANT DuplicatesVetoed
CHECK_DEADLOCK FALSE
