CONSTANTS
  Pids = {a, b}
  Inner = Inner
  Capacity = 1
  Callers = {c1, c2}
  MaxItems = 3
  MaxStartFails = 1
  MaxSpurious = 1
SPECIFICATION FairSpec
INVARIANTS NoStranded FairShare
PROPERTY DeliverReturns
CHECK_DEADLOCK FALSE
