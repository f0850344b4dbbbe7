\* Clients that never overlap a creation with a load, and a server that answers.
CONSTANTS
  Ids = {i1, i2, i3}
  Threads = {t1, t2}
  Loaders = {l1, l2}
  Free = Free
  LoadsExclusive = TRUE
  Faults = {}
  MaxCalls = 4
SYMMETRY Symmetry
SPECIFICATION Spec
INVARIANTS KeysListed
PROPERTIES ImplementsKeyIndex
CHECK_DEADLOCK FALSE
