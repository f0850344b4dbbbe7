\* Two clients, overlapping loads, and a server that refuses and loses replies.
\* Liveness is checked too, so no symmetry is used.
CONSTANTS
  Ids = {i1, i2}
  Threads = {t1, t2}
  Loaders = {l1, l2}
  Free = Free
  LoadsExclusive = FALSE
  Faults = {"refused", "lost"}
  MaxCalls = 3
SPECIFICATION FairSpec
INVARIANTS TypeOK NoGhostKeys LockOwned
PROPERTIES CallsReturn LoadsEnd
CHECK_DEADLOCK FALSE
