SPECIFICATION ServerFairSpec
CONSTANTS
    MaxStarts = 3
    MaxIds = 3
INVARIANTS OpenIsOwned  NotShared
PROPERTY StoppedTaskEnds
CHECK_DEADLOCK FALSE
