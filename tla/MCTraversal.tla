---------------------------- MODULE MCTraversal -----------------------------
(* Instances of Traversal for TLC: every graph over three vertices, and     *)
(* the kinds of walk to start on it.                                        *)
EXTENDS Traversal, TLC

Types == SUBSET {"in", "out"}

\* Walks from vertices, and walks from edges that follow one direction at most.
SoundStarts == ({"vertex"} \X Types) \cup ({"edge"} \X (Types \ {{"in", "out"}}))

\* Walks from edges in both directions.
EdgeStarts == {<<"edge", {"in", "out"}>>}

Symmetry == Permutations(Vertices) \cup Permutations(Edges)
=============================================================================
