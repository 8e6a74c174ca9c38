SPECIFICATION FairSpec
CONSTANTS
    a1 = a1
    a2 = a2
    r1 = r1
    r2 = r2
    r3 = r3
    Addrs = {a1}
    Requests = {r1, r2}
    AddrOf <- MCAddrOf
    MaxConnections = 2
    MaxPends = 1
    MaxResets = 1
    MaxBreaks = 0
    MaxNegotiations = 0
    MaxCollisions = 1
    StartMayFail = TRUE
PROPERTIES WaitEnds
INVARIANTS RequestKept EventFindsConnection
CHECK_DEADLOCK FALSE
