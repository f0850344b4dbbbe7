--------------------------- MODULE PropertyGraph ----------------------------
(***************************************************************************)
(* What DBVertexDocument and DBEdgeDocument promise together: a graph in   *)
(* which every edge links records that are there.  A vertex goes when no   *)
(* edge is connected to it any more.                                       *)
(***************************************************************************)
CONSTANTS Vertices, Edges

VARIABLES
  vertices,  \* vertices there are
  ends       \* the records each edge links; {} for an edge there is not

Linked == UNION {ends[e] : e \in Edges}

Init == /\ vertices \in SUBSET Vertices
        /\ ends \in [Edges -> SUBSET vertices]

AddVertex == \E v \in Vertices \ vertices :
               vertices' = vertices \cup {v} /\ UNCHANGED ends

Connect == \E e \in Edges, u, w \in vertices :
             /\ ends[e] = {}
             /\ ends' = [ends EXCEPT ![e] = {u, w}]
             /\ UNCHANGED vertices

Cut == \E gone \in SUBSET Edges :
         /\ ends' = [e \in Edges |-> IF e \in gone THEN {} ELSE ends[e]]
         /\ UNCHANGED vertices

Drop == \E gone \in SUBSET vertices :
          /\ gone \cap Linked = {}
          /\ vertices' = vertices \ gone
          /\ UNCHANGED ends

Next == AddVertex \/ Connect \/ Cut \/ Drop

Spec == Init /\ [][Next]_<<vertices, ends>>
=============================================================================
