CONSTANTS
  Producers = {p1, p2}
  Consumers = {c1, c2}
  Item = {a, b}
  NULL = NULL
  Size = 4
  Modulus = 8
  Start = 5
  MaxHead = 9
SPECIFICATION Spec
SYMMETRY Symmetry
INVARIANT WaitHasOwner
 
CHECK_DEADLOCK FALSE
