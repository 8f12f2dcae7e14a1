CONSTANTS
    Tasks = {t1}
    MaxCrashes = 2
    MaxUndos = 2
    MaxFailures = 3
    MaxCancels = 1
SPECIFICATION FairSpec
INVARIANTS ToldOnce
PROPERTIES RecordedEndIsFinal EndIsTold
CHECK_DEADLOCK FALSE
