------------------------ MODULE VertexDocumentProofs ------------------------
(***************************************************************************)
(* Proofs about the graph documents, for any graph, any collections and    *)
(* any number of careful clients: no edge outlives a vertex it links,      *)
(* unless the server kept it, and the documents implement the abstract     *)
(* graph.                                                                  *)
(***************************************************************************)
EXTENDS VertexDocument, TLAPS

USE IdAssumption, HomeAssumption, FlagAssumption, CallAssumption

(***************************************************************************)
(* Type correctness                                                        *)
(***************************************************************************)
LEMMA InitTypeOK == Init => TypeOK
<1> SUFFICES ASSUME Init PROVE TypeOK
  OBVIOUS
<1>1. ends \in [Edges -> SUBSET Records]
  BY DEF Init, Records
<1> QED BY <1>1 DEF Init, TypeOK, Records

\* A client's call keeps every type.
LEMMA BeginTypeOK ==
  ASSUME TypeOK, NEW t \in Threads, Begin(t)
  PROVE  TypeOK'
<1> USE DEF TypeOK, Call, Goto, store, lists, call, Records, Lists, ListedIn
<1>1. CASE CreateVertex(t)        BY <1>1 DEF CreateVertex
<1>2. CASE CreateEdge(t)          BY <1>2 DEF CreateEdge, Linkable, Stored, StoredEdges
<1>3. CASE DeleteEdgeDocument(t)  BY <1>3 DEF DeleteEdgeDocument, StoredEdges
<1>4. CASE DeleteDocument(t)      BY <1>4 DEF DeleteDocument, Collections
<1>5. ASSUME NEW c \in Collections, Reload(t, c) PROVE TypeOK'
  BY <1>5 DEF Reload, Clear
<1>6. ASSUME NEW c \in Collections, RemoveByKeys(t, c) PROVE TypeOK'
  BY <1>6 DEF RemoveByKeys
<1> QED BY <1>1, <1>2, <1>3, <1>4, <1>5, <1>6 DEF Begin

\* A step of removeByKeys keeps every type.
LEMMA BulkTypeOK ==
  ASSUME TypeOK, NEW t \in Threads, Bulk(t)
  PROVE  TypeOK'
<1> USE DEF TypeOK, Goto, store, lists, Records, Gone, Finish
<1>1. CASE RemoveRecords(t)  BY <1>1 DEF RemoveRecords
<1>2. CASE RemoveThrows(t)   BY <1>2 DEF RemoveThrows
<1>3. CASE ReloadRemoved(t)
  <2>1. loads' = [loads EXCEPT ![doc[t]] = @ + 1] /\ opened' = opened /\ listed' \subseteq listed
    BY <1>3 DEF ReloadRemoved, Clear
  <2>2. loads' \in [Collections -> Nat]
    <3>1. CASE doc[t] \in Collections  BY <2>1, <3>1
    <3>2. CASE doc[t] \notin Collections  BY <2>1, <3>2
    <3> QED BY <3>1, <3>2
  <2> QED BY <1>3, <2>1, <2>2 DEF ReloadRemoved
<1> QED BY <1>1, <1>2, <1>3 DEF Bulk

\* A step of a removal keeps every type.
LEMMA CascadeTypeOK ==
  ASSUME TypeOK, NEW t \in Threads, Cascade(t)
  PROVE  TypeOK'
<1> USE DEF TypeOK, Goto, Open, store, lists, Records, Lists, Collections
<1>1. CASE BeforeRemove(t)        BY <1>1 DEF BeforeRemove, EdgesOf
<1>2. CASE NextEdge(t)            BY <1>2 DEF NextEdge
<1>3. CASE CascadeThrows(t)       BY <1>3 DEF CascadeThrows, Finish
<1>4. CASE DeleteEdge(t)          BY <1>4 DEF DeleteEdge
<1>5. CASE DeleteEdgeKept(t)
  <2>1. idedge[t] \in Edges
    BY <1>5 DEF DeleteEdgeKept
  <2> QED BY <1>5, <2>1 DEF DeleteEdgeKept
<1>6. CASE DeleteEdgeThrows(t)    BY <1>6 DEF DeleteEdgeThrows, Finish
<1>7. CASE DeleteVertex(t)        BY <1>7 DEF DeleteVertex, Finish
<1>8. CASE DeleteVertexThrows(t)  BY <1>8 DEF DeleteVertexThrows, Finish
<1> QED BY <1>1, <1>2, <1>3, <1>4, <1>5, <1>6, <1>7, <1>8 DEF Cascade

\* Every variable has its type in every reachable state.
THEOREM TypeCorrect == Spec => []TypeOK
<1>1. TypeOK /\ [Next]_vars => TypeOK'
  <2> SUFFICES ASSUME TypeOK, [Next]_vars PROVE TypeOK'
    OBVIOUS
  <2>1. ASSUME NEW c \in Collections, NewDocument(c) PROVE TypeOK'
    BY <2>1 DEF NewDocument, Open, TypeOK, store, call
  <2>2. ASSUME NEW c \in Collections, LoadEnd(c) PROVE TypeOK'
    BY <2>2 DEF LoadEnd, Stored, StoredEdges, TypeOK, Records, store, call
  <2>3. CASE UNCHANGED vars
    BY <2>3 DEF vars, store, lists, call, TypeOK
  <2> QED BY <2>1, <2>2, <2>3, BeginTypeOK, BulkTypeOK, CascadeTypeOK DEF Next
<1> QED BY <1>1, InitTypeOK, PTL DEF Spec

(***************************************************************************)
(* A removal covers every edge of its vertex                               *)
(*                                                                         *)
(* NoDangling is not inductive: when the vertex goes, something must say   *)
(* that no edge is left.  From the query on, every edge of the vertex is   *)
(* in the removal's hand, since careful clients add none, and an edge      *)
(* leaves the hand only when it leaves the store or the server keeps it.   *)
(* The vertices removeByKeys has in hand have no edges, and get none.      *)
(***************************************************************************)
Phases ==
  \A t \in Threads :
    /\ pc[t] \in {"idle", "query"} => edgekeys[t] = {}
    /\ pc[t] # "delete" => idedge[t] = None
    /\ pc[t] = "delete" => idedge[t] \in Edges
    /\ pc[t] \in {"query", "cascade", "delete"} => target[t] \in Vertices
    /\ pc[t] # "remove" => rkeys[t] = {}
    /\ pc[t] = "remove" => doc[t] \in Collections /\ \A r \in rkeys[t] : Home[r] = doc[t]

Covered ==
  \A t \in Threads :
    pc[t] \in {"cascade", "delete"} => EdgesOf(target[t]) \subseteq InHand(t) \cup kept

Unlinked == \A t \in Threads : \A r \in rkeys[t] \cap Vertices : EdgesOf(r) = {}

EndsThere == /\ \A e \in Edges : ends[e] \subseteq Vertices
             /\ \A e \in Edges \ kept : ends[e] \subseteq vertices

GraphInv == Phases /\ Covered /\ Unlinked /\ EndsThere

LEMMA BeginGraphInv ==
  ASSUME Careful, EdgesLinked = FALSE, TypeOK, GraphInv, NEW t \in Threads, Begin(t)
  PROVE  GraphInv'
<1> USE DEF TypeOK, EdgesOf, InHand
<1>1. CASE CreateVertex(t)
  BY <1>1 DEF CreateVertex, call, GraphInv, Phases, Covered, Unlinked, EndsThere
<1>2. CASE CreateEdge(t)
  <2>1. PICK e \in Edges \ StoredEdges, u \in vertices, w \in vertices :
          /\ MayLink({u, w}) /\ ends' = [ends EXCEPT ![e] = {u, w}]
          /\ kept' = kept \ {e}
    BY <1>2 DEF CreateEdge, Linkable
  <2>2. \A s \in Threads : target[s] \notin {u, w} /\ rkeys[s] \cap {u, w} = {}
    <3>1. {u, w} \cap BeingRemoved = {}
      BY <2>1 DEF MayLink
    <3>2. ASSUME NEW s \in Threads PROVE target[s] \in BeingRemoved /\ rkeys[s] \subseteq BeingRemoved
      BY DEF BeingRemoved
    <3> QED BY <3>1, <3>2
  <2>3. UNCHANGED <<vertices, pc, doc, target, edgekeys, idedge, rkeys>>
    BY <1>2 DEF CreateEdge, call
  <2>4. ends[e] = {}
    BY <2>1 DEF StoredEdges
  <2>5. Phases'
    BY <2>3 DEF GraphInv, Phases
  <2>6. EndsThere'
    BY <2>1, <2>3 DEF GraphInv, EndsThere
  <2>7. Covered'
    <3> SUFFICES ASSUME NEW s \in Threads, pc[s] \in {"cascade", "delete"},
                        NEW f \in Edges, target[s] \in ends'[f]
                 PROVE  f \in (edgekeys[s] \cup {idedge[s]}) \cup kept'
      BY <2>3 DEF Covered
    <3>1. f # e
      BY <2>1, <2>2
    <3> QED BY <2>1, <3>1 DEF GraphInv, Covered
  <2>8. Unlinked'
    <3> SUFFICES ASSUME NEW s \in Threads, NEW r \in rkeys[s] \cap Vertices,
                        NEW f \in Edges, r \in ends'[f]
                 PROVE  FALSE
      BY <2>3 DEF Unlinked
    <3>1. f # e
      BY <2>1, <2>2
    <3> QED BY <2>1, <3>1 DEF GraphInv, Unlinked
  <2> QED BY <2>5, <2>6, <2>7, <2>8 DEF GraphInv
<1>3. CASE DeleteEdgeDocument(t)
  BY <1>3 DEF DeleteEdgeDocument, call, GraphInv, Phases, Covered, Unlinked, EndsThere, StoredEdges
<1>4. CASE DeleteDocument(t)
  BY <1>4 DEF DeleteDocument, Goto, store, GraphInv, Phases, Covered, Unlinked, EndsThere
<1>5. ASSUME NEW c \in Collections, Reload(t, c) PROVE GraphInv'
  BY <1>5 DEF Reload, store, call, GraphInv, Phases, Covered, Unlinked, EndsThere
<1>6. ASSUME NEW c \in Collections, RemoveByKeys(t, c) PROVE GraphInv'
  <2>1. PICK keys \in SUBSET {r \in listed : Home[r] = c} :
          MayRemove(keys) /\ rkeys' = [rkeys EXCEPT ![t] = keys]
    BY <1>6 DEF RemoveByKeys, ListedIn
  <2>2. UNCHANGED <<vertices, ends, kept, target, edgekeys, idedge>>
    BY <1>6 DEF RemoveByKeys, store
  <2>3. /\ pc[t] = "idle" /\ pc' = [pc EXCEPT ![t] = "remove"]
        /\ doc' = [doc EXCEPT ![t] = c]
    BY <1>6 DEF RemoveByKeys, Goto
  <2>4. Phases'
    BY <2>1, <2>2, <2>3 DEF GraphInv, Phases
  <2>5. Covered' /\ EndsThere'
    BY <2>2, <2>3 DEF GraphInv, Covered, EndsThere
  <2>6. Unlinked'
    BY <2>1, <2>2 DEF GraphInv, Unlinked, MayRemove
  <2> QED BY <2>4, <2>5, <2>6 DEF GraphInv
<1> QED BY <1>1, <1>2, <1>3, <1>4, <1>5, <1>6 DEF Begin

\* Records without edges may go, and so may edges.
LEMMA GoneEndsThere ==
  ASSUME TypeOK, GraphInv, NEW t \in Threads, NEW some \in SUBSET rkeys[t], Gone(some)
  PROVE  EndsThere' /\ \A e \in Edges : ends'[e] \subseteq ends[e]
<1>1. \A e \in Edges : ends'[e] \subseteq ends[e]
  BY DEF Gone, TypeOK
<1>2. \A e \in Edges : some \cap Vertices \cap ends[e] = {}
  BY DEF GraphInv, Unlinked, EdgesOf
<1>3. \A e \in Edges \ kept : ends'[e] \subseteq vertices'
  BY <1>1, <1>2 DEF Gone, TypeOK, GraphInv, EndsThere
<1> QED BY <1>1, <1>3 DEF Gone, GraphInv, EndsThere

LEMMA BulkGraphInv ==
  ASSUME TypeOK, GraphInv, NEW t \in Threads, Bulk(t)
  PROVE  GraphInv'
<1>0. ASSUME NEW some \in SUBSET rkeys[t], Gone(some)
      PROVE  EndsThere' /\ kept' = kept /\ \A e \in Edges : ends'[e] \subseteq ends[e]
  <2>1. kept' = kept
    BY <1>0 DEF Gone
  <2> QED BY <1>0, <2>1, GoneEndsThere
<1> USE DEF TypeOK, GraphInv, EdgesOf, InHand, Goto, Finish
<1>1. ASSUME NEW some \in SUBSET rkeys[t], Gone(some), pc[t] = "remove",
             RemoveRecords(t) \/ RemoveThrows(t)
      PROVE  GraphInv'
  <2>1. EndsThere' /\ kept' = kept /\ \A e \in Edges : ends'[e] \subseteq ends[e]
    BY <1>0, <1>1
  <2>2. Phases'
    BY <1>1 DEF RemoveRecords, RemoveThrows, Phases
  <2>3. Covered'
    BY <1>1, <2>1 DEF RemoveRecords, RemoveThrows, Covered
  <2>4. Unlinked'
    BY <1>1, <2>1 DEF RemoveRecords, RemoveThrows, Unlinked
  <2> QED BY <2>1, <2>2, <2>3, <2>4
<1>2. CASE RemoveRecords(t)
  BY <1>1, <1>2 DEF RemoveRecords
<1>3. CASE RemoveThrows(t)
  <2>1. PICK some \in SUBSET rkeys[t] : Gone(some)
    BY <1>3 DEF RemoveThrows
  <2> QED BY <1>1, <1>3, <2>1 DEF RemoveThrows
<1>4. CASE ReloadRemoved(t)
  BY <1>4 DEF ReloadRemoved, store, Phases, Covered, Unlinked, EndsThere
<1> QED BY <1>2, <1>3, <1>4 DEF Bulk

LEMMA CascadeGraphInv ==
  ASSUME TypeOK, GraphInv, NEW t \in Threads, Cascade(t)
  PROVE  GraphInv'
<1> USE DEF TypeOK, GraphInv, Phases, Covered, Unlinked, EndsThere, EdgesOf, InHand, Goto, store
<1>1. CASE BeforeRemove(t)        BY <1>1 DEF BeforeRemove
<1>2. CASE NextEdge(t)            BY <1>2 DEF NextEdge
<1>3. CASE CascadeThrows(t)       BY <1>3 DEF CascadeThrows, Finish
<1>4. CASE DeleteEdge(t)          BY <1>4 DEF DeleteEdge
<1>5. CASE DeleteEdgeKept(t)      BY <1>5 DEF DeleteEdgeKept
<1>6. CASE DeleteEdgeThrows(t)
  <2>1. \A e \in Edges : ends'[e] \subseteq ends[e]
    BY <1>6 DEF DeleteEdgeThrows
  <2> QED BY <1>6, <2>1 DEF DeleteEdgeThrows, Finish
<1>7. CASE DeleteVertex(t)
  <2>1. EdgesOf(target[t]) \subseteq kept
    BY <1>7 DEF DeleteVertex
  <2> QED BY <1>7, <2>1 DEF DeleteVertex, Finish
<1>8. CASE DeleteVertexThrows(t)  BY <1>8 DEF DeleteVertexThrows, Finish
<1> QED BY <1>1, <1>2, <1>3, <1>4, <1>5, <1>6, <1>7, <1>8 DEF Cascade

LEMMA GraphInvStep ==
  ASSUME Careful, EdgesLinked = FALSE, TypeOK, GraphInv, [Next]_vars
  PROVE  GraphInv'
<1>1. ASSUME UNCHANGED <<store, pc, call>> PROVE GraphInv'
  BY <1>1 DEF store, call, GraphInv, Phases, Covered, Unlinked, EndsThere, EdgesOf, InHand
<1>2. ASSUME NEW c \in Collections, NewDocument(c) \/ LoadEnd(c) PROVE GraphInv'
  BY <1>1, <1>2 DEF NewDocument, LoadEnd
<1>3. CASE UNCHANGED vars
  BY <1>1, <1>3 DEF vars
<1> QED BY <1>2, <1>3, BeginGraphInv, BulkGraphInv, CascadeGraphInv DEF Next

LEMMA InitGraphInv == Init => GraphInv
<1> SUFFICES ASSUME Init PROVE GraphInv
  OBVIOUS
<1>1. EndsThere
  BY DEF Init, EndsThere
<1> QED BY <1>1 DEF Init, GraphInv, Phases, Covered, Unlinked

LEMMA GraphInvHolds ==
  ASSUME Careful, EdgesLinked = FALSE
  PROVE  Spec => [](TypeOK /\ GraphInv)
<1>1. TypeOK /\ GraphInv /\ [Next]_vars => GraphInv'
  BY GraphInvStep
<1> QED BY <1>1, InitGraphInv, TypeCorrect, PTL DEF Spec

\* If clients are careful and no edge is used as a vertex, no edge ever outlives a
\* vertex it links but one whose deletion the server answered with false, whatever
\* removals are interleaved, wherever they fail and whatever replies are lost.
THEOREM NoEdgeDangles ==
  ASSUME Careful, EdgesLinked = FALSE
  PROVE  Spec => []NoDangling
<1>1. GraphInv => NoDangling
  BY DEF GraphInv, EndsThere, NoDangling, Stored
<1> QED BY <1>1, GraphInvHolds, PTL

(***************************************************************************)
(* Refinement                                                              *)
(***************************************************************************)

\* Edges that go, or are kept, are cut.
LEMMA EdgesCut ==
  ASSUME TypeOK, NEW gone \in SUBSET Edges, vertices' = vertices,
         \A e \in Edges : Shown'[e] = IF e \in gone THEN {} ELSE Shown[e]
  PROVE  Graph!Cut
<1>1. Shown' = [e \in Edges |-> IF e \in gone THEN {} ELSE Shown[e]]
  BY DEF Shown
<1> QED BY <1>1 DEF Graph!Cut

\* Records of one collection that go, vertices among them without edges, are cut
\* or dropped.
LEMMA GoneIsAbstract ==
  ASSUME TypeOK, GraphInv, NEW t \in Threads, pc[t] = "remove",
         NEW some \in SUBSET rkeys[t], Gone(some)
  PROVE  Graph!Next
<1>1. doc[t] \in Collections /\ (\A r \in some : Home[r] = doc[t]) /\ some \subseteq Records
  BY DEF TypeOK, GraphInv, Phases
<1>2. CASE doc[t] \in EdgeCollections
  <2>1. some \in SUBSET Edges
    BY <1>1, <1>2 DEF Records
  <2>2. vertices' = vertices
    BY <2>1 DEF Gone, TypeOK
  <2>3. \A e \in Edges : Shown'[e] = IF e \in some THEN {} ELSE Shown[e]
    BY DEF Gone, Shown
  <2> QED BY <2>1, <2>2, <2>3, EdgesCut DEF Graph!Next
<1>3. CASE doc[t] \in VertexCollections
  <2>1. some \in SUBSET Vertices
    BY <1>1, <1>3 DEF Records
  <2>2. Shown' = Shown
    BY <2>1 DEF Gone, TypeOK, Shown
  <2>3. some \cap Graph!Linked = {}
    BY <2>1 DEF Graph!Linked, Shown, GraphInv, Unlinked, EdgesOf
  <2>4. some \cap vertices \in SUBSET vertices /\ vertices' = vertices \ (some \cap vertices)
    BY DEF Gone
  <2> QED BY <2>2, <2>3, <2>4 DEF Graph!Next, Graph!Drop
<1> QED BY <1>1, <1>2, <1>3 DEF Collections

LEMMA BeginIsAbstract ==
  ASSUME EdgesLinked = FALSE, TypeOK, NEW t \in Threads, Begin(t)
  PROVE  [Graph!Next]_<<vertices, Shown>>
<1>1. CASE CreateVertex(t)
  BY <1>1 DEF CreateVertex, Graph!Next, Graph!AddVertex, Shown
<1>2. CASE CreateEdge(t)
  <2>1. PICK e \in Edges \ StoredEdges, u \in vertices, w \in vertices :
          ends' = [ends EXCEPT ![e] = {u, w}] /\ kept' = kept \ {e} /\ vertices' = vertices
    BY <1>2 DEF CreateEdge, Linkable
  <2>2. Shown[e] = {}
    BY <2>1 DEF StoredEdges, Shown
  <2>3. Shown' = [Shown EXCEPT ![e] = {u, w}]
    BY <2>1 DEF Shown, TypeOK
  <2> QED BY <2>1, <2>2, <2>3 DEF Graph!Next, Graph!Connect
<1>3. CASE DeleteEdgeDocument(t)
  <2>1. PICK e \in Edges : ends' = [ends EXCEPT ![e] = {}] /\ UNCHANGED <<vertices, kept>>
    BY <1>3 DEF DeleteEdgeDocument, StoredEdges
  <2>2. \A f \in Edges : Shown'[f] = IF f \in {e} THEN {} ELSE Shown[f]
    BY <2>1 DEF Shown, TypeOK
  <2> QED BY <2>1, <2>2, EdgesCut DEF Graph!Next
<1>4. ASSUME UNCHANGED store PROVE UNCHANGED <<vertices, Shown>>
  BY <1>4 DEF store, Shown
<1>5. CASE DeleteDocument(t)
  BY <1>4, <1>5 DEF DeleteDocument
<1>6. ASSUME NEW c \in Collections, Reload(t, c) \/ RemoveByKeys(t, c)
      PROVE  UNCHANGED <<vertices, Shown>>
  BY <1>4, <1>6 DEF Reload, RemoveByKeys
<1> QED BY <1>1, <1>2, <1>3, <1>5, <1>6 DEF Begin

LEMMA CascadeIsAbstract ==
  ASSUME TypeOK, GraphInv, NEW t \in Threads, Cascade(t)
  PROVE  [Graph!Next]_<<vertices, Shown>>
<1>1. ASSUME UNCHANGED store PROVE UNCHANGED <<vertices, Shown>>
  BY <1>1 DEF store, Shown
<1>2. ASSUME idedge[t] \in Edges, vertices' = vertices, kept' = kept,
             ends' = [ends EXCEPT ![idedge[t]] = {}]
      PROVE  Graph!Next
  <2>1. \A f \in Edges : Shown'[f] = IF f \in {idedge[t]} THEN {} ELSE Shown[f]
    BY <1>2 DEF Shown, TypeOK
  <2> QED BY <1>2, <2>1, EdgesCut DEF Graph!Next
<1>3. CASE BeforeRemove(t)        BY <1>1, <1>3 DEF BeforeRemove
<1>4. CASE NextEdge(t)            BY <1>1, <1>4 DEF NextEdge
<1>5. CASE CascadeThrows(t)       BY <1>1, <1>5 DEF CascadeThrows
<1>6. CASE DeleteEdge(t)
  BY <1>2, <1>6 DEF DeleteEdge, GraphInv, Phases
<1>7. CASE DeleteEdgeKept(t)
  <2>1. idedge[t] \in Edges /\ UNCHANGED <<vertices, ends>> /\ kept' = kept \cup {idedge[t]}
    BY <1>7 DEF DeleteEdgeKept, GraphInv, Phases
  <2>2. \A f \in Edges : Shown'[f] = IF f \in {idedge[t]} THEN {} ELSE Shown[f]
    BY <2>1 DEF Shown
  <2> QED BY <2>1, <2>2, EdgesCut DEF Graph!Next
<1>8. CASE DeleteEdgeThrows(t)
  <2>1. CASE ends' = ends
    BY <1>1, <1>8, <2>1 DEF DeleteEdgeThrows, store
  <2>2. CASE ends' = [ends EXCEPT ![idedge[t]] = {}]
    BY <1>2, <1>8, <2>2 DEF DeleteEdgeThrows, GraphInv, Phases
  <2> QED BY <1>8, <2>1, <2>2 DEF DeleteEdgeThrows
<1>9. CASE DeleteVertex(t)
  <2>1. EdgesOf(target[t]) \subseteq kept
    BY <1>9 DEF DeleteVertex, GraphInv, Phases, Covered, InHand, EdgesOf
  <2>2. {target[t]} \cap Graph!Linked = {}
    BY <2>1 DEF EdgesOf, Graph!Linked, Shown
  <2>3. /\ {target[t]} \cap vertices \in SUBSET vertices
        /\ vertices' = vertices \ ({target[t]} \cap vertices)
        /\ Shown' = Shown
    BY <1>9 DEF DeleteVertex, Shown
  <2>4. Graph!Drop
    <3>1. ({target[t]} \cap vertices) \cap Graph!Linked = {}
      BY <2>2
    <3> QED BY <2>3, <3>1 DEF Graph!Drop
  <2> QED BY <2>4 DEF Graph!Next
<1>10. CASE DeleteVertexThrows(t)
  BY <1>1, <1>10 DEF DeleteVertexThrows
<1> QED BY <1>3, <1>4, <1>5, <1>6, <1>7, <1>8, <1>9, <1>10 DEF Cascade

LEMMA GraphStep ==
  ASSUME EdgesLinked = FALSE, TypeOK, GraphInv, [Next]_vars
  PROVE  [Graph!Next]_<<vertices, Shown>>
<1>1. ASSUME UNCHANGED store PROVE UNCHANGED <<vertices, Shown>>
  BY <1>1 DEF store, Shown
<1>2. ASSUME NEW t \in Threads, Bulk(t) PROVE [Graph!Next]_<<vertices, Shown>>
  BY <1>1, <1>2, GoneIsAbstract DEF Bulk, RemoveRecords, RemoveThrows, ReloadRemoved
<1>3. ASSUME NEW c \in Collections, NewDocument(c) \/ LoadEnd(c)
      PROVE  UNCHANGED <<vertices, Shown>>
  BY <1>1, <1>3 DEF NewDocument, LoadEnd
<1>4. CASE UNCHANGED vars
  BY <1>1, <1>4 DEF vars
<1> QED BY <1>2, <1>3, <1>4, BeginIsAbstract, CascadeIsAbstract DEF Next

\* Under the same conditions the documents implement PropertyGraph, in which an
\* edge the server kept is cut: every step of theirs is one of the abstract graph
\* or leaves it alone, and a vertex only goes when no edge is connected to it.
THEOREM DocumentsImplementGraph ==
  ASSUME Careful, EdgesLinked = FALSE
  PROVE  Spec => ImplementsGraph
<1>1. Init => Graph!Init
  <2> SUFFICES ASSUME Init PROVE Graph!Init
    OBVIOUS
  <2>1. Shown \in [Edges -> SUBSET vertices]
    BY DEF Init, Shown
  <2> QED BY <2>1 DEF Init, Graph!Init
<1>2. TypeOK /\ GraphInv /\ [Next]_vars => [Graph!Next]_<<vertices, Shown>>
  BY GraphStep
<1>3. Spec => Graph!Init /\ [][Graph!Next]_<<vertices, Shown>>
  BY <1>1, <1>2, GraphInvHolds, PTL DEF Spec
<1> QED BY <1>3 DEF ImplementsGraph, Graph!Spec
=============================================================================
