-------------------------- MODULE MCVertexDocument --------------------------
(* Instances of VertexDocument for TLC: two vertices of one label, and two  *)
(* edges, each in the collection of its own label.                           *)
EXTENDS VertexDocument, TLC

CONSTANTS v1, v2, e1, e2, A, p, q

\* The collection of each id.
Labels == v1 :> A @@ v2 :> A @@ e1 :> p @@ e2 :> q

\* The clients are alike, and so are the vertices.
Symmetry == {p1 @@ p2 : p1 \in Permutations(Threads), p2 \in Permutations(Vertices)}
=============================================================================
