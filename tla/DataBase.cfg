\* Two clients that open a collection before they share it, and keep openings
\* apart from switches; the server may fail.
CONSTANTS
  Names = {n1, n2}
  Objects = {o1, o2}
  Threads = {t1, t2}
  Drivers = {d1, d2}
  Nil = Nil
  Loader = Loader
  OpensExclusive = TRUE
  SwitchExclusive = TRUE
  ServerFails = TRUE
  MaxCalls = 3
SPECIFICATION FairSpec
INVARIANTS TypeOK NoForeignKeys
PROPERTIES CallsReturn
CHECK_DEADLOCK FALSE
