\* Two careful clients on one vertex and two edge collections.
CONSTANTS
  v1 = v1  v2 = v2  e1 = e1  e2 = e2
  A = A  p = p  q = q
  Vertices = {v1, v2}
  Edges = {e1, e2}
  VertexCollections = {A}
  EdgeCollections = {p, q}
  Home <- Labels
  FirstEdges = p
  Threads = {t1, t2}
  None = None
  Careful = TRUE
  EdgesLinked = FALSE
  Faults = {"refused", "lost", "false"}
  MaxCalls = 3
SPECIFICATION Spec
INVARIANTS TypeOK NoDangling
PROPERTIES ImplementsGraph
SYMMETRY Symmetry
CHECK_DEADLOCK FALSE
