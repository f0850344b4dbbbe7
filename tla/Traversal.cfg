\* Every walk from vertices, and those from edges along one direction.
CONSTANTS
  Vertices = {v1, v2, v3}
  Edges = {e1, e2, e3}
  NoEdge = NoEdge
  Starts <- SoundStarts
  ReadsFail = TRUE
SYMMETRY Symmetry
SPECIFICATION Spec
INVARIANTS TypeOK AllVisited NothingElse ReportedOnce EdgeAfterEnds
PROPERTIES WalkEnds
