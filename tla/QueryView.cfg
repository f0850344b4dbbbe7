\* Clients that keep calls on one record apart; every server call may fail, before,
\* after or amid its work.
CONSTANTS
  Docs = {d1, d2}
  Ids = {i1, i2}
  None = None
  NoQuery = NoQuery
  old = old
  new = new
  Vals <- MCVals
  Queries <- MCQueries
  Serial = TRUE
  Fails = TRUE
  MaxCalls = 4
  MaxPending = 2
SYMMETRY Symmetry
SPECIFICATION Spec
INVARIANTS TypeOK NoStaleLines OwnWritesShown
CHECK_DEADLOCK FALSE
