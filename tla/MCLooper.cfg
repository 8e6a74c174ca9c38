CONSTANTS
  Posters = {p1, p2}
  What = {1, 2}
  MaxDelay = 2
  MaxTime = 3
  MaxPosts = 3
  MaxRemoves = 1
SPECIFICATION FairSpec
INVARIANTS NoOversleep 
PROPERTIES HandledInOrder PostedIsHandled DeinitDestroys
CHECK_DEADLOCK FALSE
