SPECIFICATION Spec
CONSTANTS
    Client = Client
    Server = Server
    MaxAcquire = 1
    MaxRelease = 2
    MaxOccupy = 1
    OverRelease = TRUE
    LinkLoss = TRUE
CHECK_DEADLOCK FALSE
INVARIANTS
    Accounting
    NoStaleTimeout
    ClosingIsTimed
