\* Walks from edges in both directions.
CONSTANTS
  Vertices = {v1, v2}
  Edges = {e1, e2}
  NoEdge = NoEdge
  Starts <- EdgeStarts
  ReadsFail = FALSE
SPECIFICATION Spec
INVARIANTS AllVisited
