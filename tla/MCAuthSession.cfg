CONSTANTS
    Links = {"wifi", "bt"}
    MaxFaults = 1
SPECIFICATION FairSpec
INVARIANTS
    RolesAgree
    NoStall
    PassedIsShared
    
PROPERTY SessionDecided
CHECK_DEADLOCK FALSE
