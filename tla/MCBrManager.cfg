SPECIFICATION Spec
CONSTANTS
    a1 = a1
    a2 = a2
    r1 = r1
    r2 = r2
    r3 = r3
    Addrs = {a1, a2}
    Requests = {r1, r3}
    AddrOf <- MCAddrOf
    MaxConnections = 2
    MaxPends = 1
    MaxResets = 0
    MaxBreaks = 1
    MaxNegotiations = 1
    MaxCollisions = 1
    StartMayFail = FALSE
INVARIANTS ConnectingIsTimed NoStaleTimeout WaitIsWoken GrantsCounted
SYMMETRY Swap
CHECK_DEADLOCK FALSE
