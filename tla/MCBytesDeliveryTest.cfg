CONSTANTS
  Pids = {a}
  Inner = Inner
  Capacity = 1
  Callers = {c1}
  MaxItems = 2
  MaxStartFails = 0
  MaxSpurious = 0
SPECIFICATION Spec
INVARIANT NothingDropped
CHECK_DEADLOCK FALSE
