SPECIFICATION FairSpec
CONSTANTS
    Client = Client
    Server = Server
    MaxAcquire = 2
    MaxRelease = 2
    MaxOccupy = 0
    OverRelease = FALSE
    LinkLoss = FALSE
CHECK_DEADLOCK FALSE
INVARIANT ClosingMeansUnused
PROPERTIES
    ClosingEnds
    UnusedIsClosed
    ParkedIsAnswered
