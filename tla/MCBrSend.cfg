SPECIFICATION FairSpec
CONSTANTS
    Control = Control
    App = App
    Posters = {Control, App}
    PidOf <- MCPidOf
    PriorityOf <- MCPriorityOf
    ControlPosters = {Control}
    Loops = {l1, l2}
    MaxPosts = 2
    QueueLimit = 3
    BufferLen = 2
    MaxQuits = 1
    StartMayFail = TRUE
INVARIANTS NoLostWakeup NoStranded FinishedInOrder
PROPERTIES QueuedIsFinished PostReturns
CHECK_DEADLOCK FALSE
