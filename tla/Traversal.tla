----------------------------- MODULE Traversal ------------------------------
(***************************************************************************)
(* GraphTraversal (include/jsonio/traversal.h, src/traversal.cpp): a       *)
(* depth-first walk over the vertices and edges stored in the database     *)
(* that calls a function on the JSON of each.                              *)
(*                                                                         *)
(* parseVertex and parseEdge call each other; `stack` holds their frames.  *)
(* The object reads every edge into the one document edge_doc, and a frame *)
(* of parseEdge goes back to edge_doc for the second end of its edge after *)
(* the walk from the first end has returned.                               *)
(*                                                                         *)
(* The graph does not change during a walk.  The order in which the server *)
(* lists the edges of a vertex is arbitrary.                               *)
(***************************************************************************)
EXTENDS Naturals, Sequences, FiniteSets

CONSTANTS
  Vertices,   \* ids of the vertices
  Edges,      \* ids of the edges
  NoEdge,     \* edge_doc before the first read
  Starts,     \* walks to consider: subset of {"vertex", "edge"} \X SUBSET {"in", "out"}
  ReadsFail   \* TRUE: a read or the caller's function may throw

ASSUME IdAssumption    == Vertices \cap Edges = {} /\ NoEdge \notin Edges
ASSUME StartAssumption == Starts \subseteq {"vertex", "edge"} \X SUBSET {"in", "out"}
ASSUME FailAssumption  == ReadsFail \in BOOLEAN

VARIABLES
  from, to,     \* the graph: _from and _to of each edge
  kind,         \* the walk starts from vertices or from edges
  trav_type,    \* subset of {"in", "out"}: trNo, trIn, trOut, trAll
  roots,        \* the ids the walk is to start from
  ids,          \* those of them it has yet to start from
  vertex_list, edge_list,  \* visited
  edge_doc,     \* the edge last read
  stack,        \* frames of parseVertex and parseEdge, the last one running
  told,         \* how often the caller's function was called for each id
  failed        \* an exception ended the walk

graph == <<from, to, kind, trav_type, roots>>
vars  == <<graph, ids, vertex_list, edge_list, edge_doc, stack, told, failed>>

Elements == Vertices \cup Edges

\* A frame of parseVertex asks for its outgoing, then for its incoming edges, and
\* has `left` of the last answer to go through; one of parseEdge follows its edge
\* back, then forth, and then reports it.
VertexFrames == [call: {"vertex"}, id: Vertices, next: {"out", "in", "end"}, left: SUBSET Edges]
EdgeFrames   == [call: {"edge"}, id: Edges, next: {"from", "to", "end"}]

top  == stack[Len(stack)]
Rest == SubSeq(stack, 1, Len(stack) - 1)

Running(call) == stack # <<>> /\ top.call = call

\* parseVertex, entered over the frames `below`: a vertex visited before returns at once.
EnterVertex(v, below) ==
  IF v \in vertex_list
  THEN stack' = below /\ UNCHANGED <<vertex_list, told>>
  ELSE /\ vertex_list' = vertex_list \cup {v}
       /\ told' = [told EXCEPT ![v] = @ + 1]
       /\ stack' = Append(below, [call |-> "vertex", id |-> v, next |-> "out", left |-> {}])

\* Mutation of EnterEdge: the list of visited edges is not kept.
EnterEdgeUnlisted(e, below) ==
  /\ edge_doc' = e /\ UNCHANGED edge_list
  /\ stack' = Append(below, [call |-> "edge", id |-> e, next |-> "from"])

\* parseEdge, likewise: the edge is read into edge_doc.
EnterEdge(e, below) ==
  IF e \in edge_list
  THEN stack' = below /\ UNCHANGED <<edge_list, edge_doc>>
  ELSE /\ edge_list' = edge_list \cup {e}
       /\ edge_doc' = e
       /\ stack' = Append(below, [call |-> "edge", id |-> e, next |-> "from"])

(***************************************************************************)
(* traversal, Traversal: one walk after another, over the same lists       *)
(***************************************************************************)
Start ==
  /\ stack = <<>>
  /\ \E id \in ids :
       /\ ids' = ids \ {id}
       /\ IF kind = "vertex"
          THEN EnterVertex(id, <<>>) /\ UNCHANGED <<edge_list, edge_doc>>
          ELSE EnterEdge(id, <<>>) /\ UNCHANGED <<vertex_list, told>>
  /\ UNCHANGED <<graph, failed>>

(***************************************************************************)
(* parseVertex                                                             *)
(***************************************************************************)

\* Mutations of QueryEdges: the query returns the neighbours; the incoming edges
\* are asked for only if the outgoing ones were not (if, else if).
QueryEdgesEnds ==
  /\ Running("vertex") /\ top.left = {} /\ top.next # "end"
  /\ LET found == {to[e] : e \in {f \in Edges : from[f] = top.id}}
         after == IF top.next = "out" THEN "in" ELSE "end"
     IN stack' = Append(Rest, [top EXCEPT !.left = found, !.next = after])
  /\ UNCHANGED <<graph, ids, vertex_list, edge_list, edge_doc, told, failed>>

QueryEdgesEither ==
  /\ Running("vertex") /\ top.left = {} /\ top.next # "end"
  /\ LET found == IF top.next \notin trav_type THEN {}
                  ELSE {e \in Edges : (IF top.next = "out" THEN from[e] ELSE to[e]) = top.id}
         after == IF top.next = "out" /\ "out" \notin trav_type THEN "in" ELSE "end"
     IN stack' = Append(Rest, [top EXCEPT !.left = found, !.next = after])
  /\ UNCHANGED <<graph, ids, vertex_list, edge_list, edge_doc, told, failed>>

\* getOutEdgesKeys, getInEdgesKeys, if the type of the walk asks for them.
QueryEdges ==
  /\ Running("vertex") /\ top.left = {} /\ top.next # "end"
  /\ LET found == IF top.next \notin trav_type THEN {}
                  ELSE {e \in Edges : (IF top.next = "out" THEN from[e] ELSE to[e]) = top.id}
         after == IF top.next = "out" THEN "in" ELSE "end"
     IN stack' = Append(Rest, [top EXCEPT !.left = found, !.next = after])
  /\ UNCHANGED <<graph, ids, vertex_list, edge_list, edge_doc, told, failed>>

\* Mutation of NextEdge: the loop does not advance.
NextEdgeAgain ==
  /\ Running("vertex")
  /\ \E e \in top.left : EnterEdge(e, stack)
  /\ UNCHANGED <<graph, ids, vertex_list, told, failed>>

NextEdge ==
  /\ Running("vertex")
  /\ \E e \in top.left : EnterEdge(e, Append(Rest, [top EXCEPT !.left = @ \ {e}]))
  /\ UNCHANGED <<graph, ids, vertex_list, told, failed>>

VertexReturns ==
  /\ Running("vertex") /\ top.left = {} /\ top.next = "end"
  /\ stack' = Rest
  /\ UNCHANGED <<graph, ids, vertex_list, edge_list, edge_doc, told, failed>>

(***************************************************************************)
(* parseEdge                                                               *)
(***************************************************************************)
\* Mutation of FollowFrom: the type of the walk is not asked.
FollowFromAlways ==
  /\ Running("edge") /\ top.next = "from"
  /\ EnterVertex(from[edge_doc], Append(Rest, [top EXCEPT !.next = "to"]))
  /\ UNCHANGED <<graph, ids, edge_list, edge_doc, failed>>

FollowFrom ==
  /\ Running("edge") /\ top.next = "from"
  /\ LET below == Append(Rest, [top EXCEPT !.next = "to"])
     IN IF "in" \in trav_type
        THEN EnterVertex(from[edge_doc], below)
        ELSE stack' = below /\ UNCHANGED <<vertex_list, told>>
  /\ UNCHANGED <<graph, ids, edge_list, edge_doc, failed>>

\* Mutation of FollowTo: "_from" is read a second time.
FollowToFrom ==
  /\ Running("edge") /\ top.next = "to"
  /\ LET below == Append(Rest, [top EXCEPT !.next = "end"])
     IN IF "out" \in trav_type
        THEN EnterVertex(from[edge_doc], below)
        ELSE stack' = below /\ UNCHANGED <<vertex_list, told>>
  /\ UNCHANGED <<graph, ids, edge_list, edge_doc, failed>>

FollowTo ==
  /\ Running("edge") /\ top.next = "to"
  /\ LET below == Append(Rest, [top EXCEPT !.next = "end"])
     IN IF "out" \in trav_type
        THEN EnterVertex(to[edge_doc], below)
        ELSE stack' = below /\ UNCHANGED <<vertex_list, told>>
  /\ UNCHANGED <<graph, ids, edge_list, edge_doc, failed>>

\* The edge is reported from the copy made when it was read.
EdgeReturns ==
  /\ Running("edge") /\ top.next = "end"
  /\ told' = [told EXCEPT ![top.id] = @ + 1]
  /\ stack' = Rest
  /\ UNCHANGED <<graph, ids, vertex_list, edge_list, edge_doc, failed>>

\* readDocument or the caller's function throws: no frame catches it.
Throw ==
  /\ ReadsFail /\ stack # <<>>
  /\ stack' = <<>> /\ ids' = {} /\ failed' = TRUE
  /\ UNCHANGED <<graph, vertex_list, edge_list, edge_doc, told>>

(***************************************************************************)
(* Specification                                                           *)
(***************************************************************************)
Init ==
  /\ from \in [Edges -> Vertices] /\ to \in [Edges -> Vertices]
  /\ \E s \in Starts : kind = s[1] /\ trav_type = s[2]
  /\ roots \in SUBSET (IF kind = "vertex" THEN Vertices ELSE Edges)
  /\ ids = roots
  /\ vertex_list = {} /\ edge_list = {}
  /\ edge_doc = NoEdge
  /\ stack = <<>>
  /\ told = [x \in Elements |-> 0]
  /\ failed = FALSE

Walk == \/ Start
        \/ QueryEdges \/ NextEdge \/ VertexReturns
        \/ FollowFrom \/ FollowTo \/ EdgeReturns

\* The call that started the walks has returned, or thrown.
Over == stack = <<>> /\ ids = {} /\ UNCHANGED vars

Next == Walk \/ Throw \/ Over

Spec == Init /\ [][Next]_vars

(***************************************************************************)
(* Properties                                                              *)
(***************************************************************************)

\* Every variable has its type.
TypeOK ==
  /\ from \in [Edges -> Vertices] /\ to \in [Edges -> Vertices]
  /\ kind \in {"vertex", "edge"} /\ trav_type \subseteq {"in", "out"}
  /\ roots \subseteq (IF kind = "vertex" THEN Vertices ELSE Edges)
  /\ ids \subseteq roots
  /\ vertex_list \subseteq Vertices /\ edge_list \subseteq Edges
  /\ edge_doc \in Edges \cup {NoEdge}
  /\ stack \in Seq(VertexFrames \cup EdgeFrames)
  /\ told \in [Elements -> Nat]
  /\ failed \in BOOLEAN

\* The edges a walk goes along from a set of vertices, and the vertices it comes
\* to along a set of edges.
EdgesOf(V) == {e \in Edges : \/ "out" \in trav_type /\ from[e] \in V
                             \/ "in"  \in trav_type /\ to[e] \in V}
EndsOf(E)  == UNION {(IF "in"  \in trav_type THEN {from[e]} ELSE {}) \cup
                     (IF "out" \in trav_type THEN {to[e]} ELSE {}) : e \in E}

\* V and E are closed: they hold the roots, the edges of V and the ends of E.
Closed(V, E) == /\ roots \subseteq V \cup E
                /\ EdgesOf(V) \subseteq E /\ EndsOf(E) \subseteq V

Done == stack = <<>> /\ ids = {} /\ ~failed

\* "Visit Edge and all linked Vertexes", "Visit Vertex and all linked Edges": a
\* walk that ends has been to everything it can reach ...
AllVisited == Done => Closed(vertex_list, edge_list)

\* ... and to nothing else, at any time: what it has visited is part of every
\* closed set, although it follows an edge it no longer has in hand.
NothingElse ==
  \A V \in SUBSET Vertices, E \in SUBSET Edges :
    Closed(V, E) => vertex_list \subseteq V /\ edge_list \subseteq E

\* The caller hears of every element visited, once.
ReportedOnce ==
  /\ \A x \in Elements : told[x] <= 1
  /\ Done => \A x \in Elements : (told[x] = 1) <=> x \in vertex_list \cup edge_list

\* restoreGraphFromFile stores elements in the order they were reported: in a
\* walk from vertices, an edge comes after both the vertices it links.
EdgeAfterEnds ==
  kind = "vertex" =>
    \A e \in Edges : told[e] > 0 => told[from[e]] > 0 /\ told[to[e]] > 0

\* Every walk ends, on cyclic graphs, loops and parallel edges too: each step
\* brings it nearer to its end, by what its frames have yet to do and what is not
\* visited, however often an element is met again.
Visit == 2 * Cardinality(Edges) + 4

ToDo(f) == IF f.call = "vertex"
           THEN Cardinality(f.left) + (Cardinality(Edges) + 1) *
                  (CASE f.next = "out" -> 2 [] f.next = "in" -> 1 [] OTHER -> 0)
           ELSE CASE f.next = "from" -> 2 [] f.next = "to" -> 1 [] OTHER -> 0

Ahead(frames) ==
  LET sum[i \in 0 .. Len(frames)] == IF i = 0 THEN 0 ELSE sum[i - 1] + 1 + ToDo(frames[i])
  IN sum[Len(frames)]

Distance == Ahead(stack) + Cardinality(ids)
            + Visit * Cardinality(Elements \ (vertex_list \cup edge_list))

WalkEnds == [][Distance' < Distance]_vars
=============================================================================
