--------------------------- MODULE VertexDocument ---------------------------
(***************************************************************************)
(* DBVertexDocument and DBEdgeDocument (include/jsonio/dbvertexdoc.h,      *)
(* dbedgedoc.h, src/dbvertexdoc.cpp, dbedgedoc.cpp): a graph kept in one   *)
(* collection per label, and the removal of a vertex, which deletes the    *)
(* edges connected to it one by one, each from the collection of its own   *)
(* label, before the vertex itself.                                        *)
(*                                                                         *)
(* The query for the edges goes to the server and sees every label, while  *)
(* a deletion asks the key list of its collection, and a collection first  *)
(* used by the removal has only just started to load its list.             *)
(*                                                                         *)
(* A creation and a deletion change the server's record and the key list   *)
(* under one exclusive lock (module Collection), so each is one action     *)
(* here, with what it leaves when it fails as actions of its own.          *)
(***************************************************************************)
EXTENDS Naturals

CONSTANTS
  Vertices, Edges,     \* ids of the records
  VertexCollections, EdgeCollections,
  Home,                \* the collection an id names: label + "s" or label, before the "/"
  FirstEdges,          \* collection of getEdgesList()[0], which documentAllEdges opens
  Threads,
  None,                \* nothing in hand
  Careful,             \* TRUE: the clients follow the discipline below
  EdgesLinked,         \* TRUE: edges are used as vertices too
  Faults,              \* what a call to the server may end in: see below
  MaxCalls             \* bound on the clients' calls

Collections == VertexCollections \cup EdgeCollections
Records     == Vertices \cup Edges

ASSUME IdAssumption   == Vertices \cap Edges = {} /\ None \notin Vertices \cup Edges \cup VertexCollections
ASSUME HomeAssumption == /\ Home \in [Records -> Collections]
                         /\ \A v \in Vertices : Home[v] \in VertexCollections
                         /\ \A e \in Edges : Home[e] \in EdgeCollections
                         /\ FirstEdges \in EdgeCollections
                         /\ VertexCollections \cap EdgeCollections = {}
ASSUME FlagAssumption == /\ {Careful, EdgesLinked} \subseteq BOOLEAN
                         /\ Faults \subseteq {"refused", "lost", "false"}
ASSUME CallAssumption == MaxCalls \in Nat

VARIABLES
  vertices,  \* vertices the server stores
  ends,      \* {_from, _to} of each edge the server stores, {} for the others
  kept,      \* history: edges whose deletion in a removal the server answered with false
  opened,    \* the collections DataBase has
  loads,     \* loaders of each collection that have not ended
  listed,    \* the key lists of all collections together
  pc,        \* what each thread does next
  doc,       \* the collection it works in
  target,    \* the vertex it removes
  edgekeys,  \* edges of that vertex it has yet to delete
  idedge,    \* the edge it deletes next
  rkeys,     \* records it is about to remove by their keys
  calls      \* client calls left

store == <<vertices, ends, kept>>
lists == <<opened, loads, listed>>
call  == <<doc, target, edgekeys, idedge, rkeys>>
vars  == <<store, lists, pc, call, calls>>

StoredEdges == {e \in Edges : ends[e] # {}}
Stored      == vertices \cup StoredEdges
Linkable    == IF EdgesLinked THEN Stored ELSE vertices
EdgesOf(r)  == {e \in Edges : r \in ends[e]}
ListedIn(c) == {r \in listed : Home[r] = c}

(***************************************************************************)
(* A call to the server may be refused; its reply may be lost, so that it  *)
(* has its effect and the caller an exception; and delete_record may       *)
(* return false, the record staying where it is.                           *)
(***************************************************************************)
Refused == "refused" \in Faults
Lost    == "lost" \in Faults
False   == "false" \in Faults

\* The key list after a change of one record, unless the reply was lost.
Lists(new) == listed' = new \/ (Lost /\ UNCHANGED listed)

(***************************************************************************)
(* The discipline of careful clients: nobody links an edge to a vertex     *)
(* that is being removed, and removeByKeys, which "possibly does not       *)
(* remove edges for vertices", is kept to vertices without edges.          *)
(***************************************************************************)
BeingRemoved == {target[t] : t \in Threads} \cup UNION {rkeys[t] : t \in Threads}
InHand(t)    == edgekeys[t] \cup {idedge[t]}

MayLink(us)   == Careful => us \cap BeingRemoved = {}
MayRemove(rs) == Careful => \A r \in rs \cap Vertices : EdgesOf(r) = {}

Call == calls > 0 /\ calls' = calls - 1

Goto(t, next) == pc' = [pc EXCEPT ![t] = next]

(***************************************************************************)
(* Collections                                                             *)
(***************************************************************************)

\* update_collection, or a document's constructor: DataBase::collection adds the
\* collection if it is new, which starts its loader and does not wait for it.
Open(c) ==
  IF c \in opened THEN UNCHANGED <<opened, loads>>
  ELSE opened' = opened \cup {c} /\ loads' = [loads EXCEPT ![c] = @ + 1]

NewDocument(c) ==
  /\ c \notin opened /\ Open(c)
  /\ UNCHANGED <<store, listed, pc, call, calls>>

\* loadCollectionFile ends: it has listed everything, or what it came to before
\* the server failed or a key was there already.
LoadEnd(c) ==
  /\ loads[c] > 0
  /\ loads' = [loads EXCEPT ![c] = @ - 1]
  /\ \E some \in SUBSET {r \in Stored : Home[r] = c} : listed' = listed \cup some
  /\ UNCHANGED <<store, opened, pc, call, calls>>

\* reload: the list is cleared and a loader started.  (create_collection throws
\* with the list cleared: that is a loader that lists nothing.)
Clear(c) == /\ loads' = [loads EXCEPT ![c] = @ + 1]
            /\ listed' = listed \ ListedIn(c)
            /\ UNCHANGED opened

Reload(t, c) ==
  /\ pc[t] = "idle" /\ Call
  /\ c \in opened /\ Clear(c)
  /\ UNCHANGED <<store, pc, call>>

\* The end of a call, by return or by an exception.
Finish(t) ==
  /\ Goto(t, "idle")
  /\ doc'      = [doc EXCEPT ![t] = None]
  /\ target'   = [target EXCEPT ![t] = None]
  /\ edgekeys' = [edgekeys EXCEPT ![t] = {}]
  /\ idedge'   = [idedge EXCEPT ![t] = None]
  /\ rkeys'    = [rkeys EXCEPT ![t] = {}]

\* removeByKeys: ids_from_keys takes the keys that are listed,
RemoveByKeys(t, c) ==
  /\ pc[t] = "idle" /\ Call
  /\ c \in opened
  /\ \E keys \in SUBSET ListedIn(c) :
       MayRemove(keys) /\ rkeys' = [rkeys EXCEPT ![t] = keys]
  /\ doc' = [doc EXCEPT ![t] = c]
  /\ Goto(t, "remove")
  /\ UNCHANGED <<store, lists, target, edgekeys, idedge>>

Gone(rs) == /\ vertices' = vertices \ rs
            /\ ends' = [e \in Edges |-> IF e \in rs THEN {} ELSE ends[e]]
            /\ UNCHANGED kept

\* ... with no lock held the server removes them,
RemoveRecords(t) ==
  /\ pc[t] = "remove"
  /\ Gone(rkeys[t])
  /\ rkeys' = [rkeys EXCEPT ![t] = {}]
  /\ Goto(t, "reload")
  /\ UNCHANGED <<lists, doc, target, edgekeys, idedge, calls>>

\* ... or fails, having removed none of them or a part: then nothing is reloaded,
RemoveThrows(t) ==
  /\ pc[t] = "remove"
  /\ \E some \in SUBSET rkeys[t] : (Lost \/ (Refused /\ some = {})) /\ Gone(some)
  /\ Finish(t)
  /\ UNCHANGED <<lists, calls>>

\* ... and the collection is reloaded.
ReloadRemoved(t) ==
  /\ pc[t] = "reload"
  /\ Clear(doc[t]) /\ Finish(t)
  /\ UNCHANGED <<store, calls>>

(***************************************************************************)
(* Creations                                                               *)
(***************************************************************************)

\* createVertex; the id is free, or createDocument throws without an effect.
CreateVertex(t) ==
  /\ pc[t] = "idle" /\ Call
  /\ \E v \in Vertices \ vertices :
       /\ Home[v] \in opened
       /\ vertices' = vertices \cup {v}
       /\ Lists(listed \cup {v})
  /\ UNCHANGED <<ends, kept, opened, loads, pc, call>>

\* createEdge: setEdgeObject, then createDocument.  Neither the code nor the
\* server asks whether _from and _to exist: it is the clients who link records
\* they have seen.
CreateEdge(t) ==
  /\ pc[t] = "idle" /\ Call
  /\ \E e \in Edges \ StoredEdges, u, w \in Linkable :
       /\ Home[e] \in opened /\ MayLink({u, w})
       /\ ends' = [ends EXCEPT ![e] = {u, w}]
       /\ kept' = kept \ {e}
       /\ Lists(listed \cup {e})
  /\ UNCHANGED <<vertices, opened, loads, pc, call>>

(***************************************************************************)
(* deleteDocument                                                          *)
(***************************************************************************)

\* Of an edge: before_remove does nothing, and a key that is not listed throws
\* without an effect.
DeleteEdgeDocument(t) ==
  /\ pc[t] = "idle" /\ Call
  /\ \E e \in listed \cap StoredEdges :
       /\ ends' = [ends EXCEPT ![e] = {}]
       /\ Lists(listed \ {e})
  /\ UNCHANGED <<vertices, kept, opened, loads, pc, call>>

\* Of a vertex, with a document of any vertex collection: nothing compares the
\* key with the document's schema.
DeleteDocument(t) ==
  /\ pc[t] = "idle" /\ Call
  /\ \E v \in Vertices, c \in VertexCollections \cap opened :
       /\ target' = [target EXCEPT ![t] = v]
       /\ doc' = [doc EXCEPT ![t] = c]
  /\ Goto(t, "query")
  /\ UNCHANGED <<store, lists, edgekeys, idedge, rkeys>>

\* Mutations of BeforeRemove: only collections in use are asked; the edge last
\* deleted is asked for again.
BeforeRemoveOpened(t) ==
  /\ pc[t] = "query" /\ Open(FirstEdges)
  /\ edgekeys' = [edgekeys EXCEPT ![t] = {e \in EdgesOf(target[t]) : Home[e] \in opened}]
  /\ Goto(t, "cascade")
  /\ UNCHANGED <<store, listed, doc, target, idedge, rkeys, calls>>

BeforeRemoveAgain(t) ==
  /\ pc[t] = "query" /\ Open(FirstEdges)
  /\ edgekeys' = [edgekeys EXCEPT ![t] = EdgesOf(target[t]) \cup {idedge[t]}]
  /\ Goto(t, "cascade")
  /\ UNCHANGED <<store, listed, doc, target, idedge, rkeys, calls>>

\* before_remove: documentAllEdges, then allEdgesQuery over every edge collection.
BeforeRemove(t) ==
  /\ pc[t] = "query"
  /\ Open(FirstEdges)
  /\ edgekeys' = [edgekeys EXCEPT ![t] = EdgesOf(target[t])]
  /\ Goto(t, "cascade")
  /\ UNCHANGED <<store, listed, doc, target, idedge, rkeys, calls>>

\* ... for each of them: resetSchema moves the edge document to its collection,
NextEdge(t) ==
  /\ pc[t] = "cascade"
  /\ \E e \in edgekeys[t] :
       /\ Open(Home[e])
       /\ idedge' = [idedge EXCEPT ![t] = e]
       /\ edgekeys' = [edgekeys EXCEPT ![t] = @ \ {e}]
  /\ Goto(t, "delete")
  /\ UNCHANGED <<store, listed, doc, target, rkeys, calls>>

\* (The query, or the opening of a collection, may throw: the end of the removal.)
CascadeThrows(t) ==
  /\ pc[t] = "query" \/ (pc[t] = "cascade" /\ edgekeys[t] # {})
  /\ Refused
  /\ Finish(t)
  /\ UNCHANGED <<store, lists, calls>>

\* ... and deleteDocument removes it,
DeleteEdge(t) ==
  /\ pc[t] = "delete" /\ idedge[t] \in listed \cap StoredEdges
  /\ ends' = [ends EXCEPT ![idedge[t]] = {}]
  /\ listed' = listed \ {idedge[t]}
  /\ idedge' = [idedge EXCEPT ![t] = None]
  /\ Goto(t, "cascade")
  /\ UNCHANGED <<vertices, kept, opened, loads, doc, target, edgekeys, rkeys, calls>>

\* ... or returns false, which the loop does not look at: the edge stays,
DeleteEdgeKept(t) ==
  /\ pc[t] = "delete" /\ idedge[t] \in listed /\ False
  /\ kept' = kept \cup {idedge[t]}
  /\ idedge' = [idedge EXCEPT ![t] = None]
  /\ Goto(t, "cascade")
  /\ UNCHANGED <<vertices, ends, lists, doc, target, edgekeys, rkeys, calls>>

\* ... or throws, the key not being listed (another client has deleted it, or its
\* collection is still loading) or the server refusing.  The exception ends the
\* removal; when only the reply was lost, the edge is gone but listed.
DeleteEdgeThrows(t) ==
  /\ pc[t] = "delete"
  /\ \/ idedge[t] \notin listed \cap StoredEdges /\ UNCHANGED ends
     \/ Refused /\ UNCHANGED ends
     \/ Lost /\ idedge[t] \in listed /\ ends' = [ends EXCEPT ![idedge[t]] = {}]
  /\ Finish(t)
  /\ UNCHANGED <<vertices, kept, lists, calls>>

\* With every edge gone through the collection of the document deletes the vertex,
DeleteVertex(t) ==
  /\ pc[t] = "cascade" /\ edgekeys[t] = {}
  /\ target[t] \in listed /\ Home[target[t]] = doc[t]
  /\ vertices' = vertices \ {target[t]}
  /\ Lists(listed \ {target[t]})
  /\ Finish(t)
  /\ UNCHANGED <<ends, kept, opened, loads, calls>>

\* ... or throws or returns false, and the vertex has lost its edges all the same.
DeleteVertexThrows(t) ==
  /\ pc[t] = "cascade" /\ edgekeys[t] = {}
  /\ target[t] \notin listed \/ Home[target[t]] # doc[t] \/ Refused \/ False
  /\ Finish(t)
  /\ UNCHANGED <<store, lists, calls>>

(***************************************************************************)
(* Specification.  The program starts on a database with any sound graph.  *)
(***************************************************************************)
Init ==
  /\ vertices \in SUBSET Vertices
  /\ ends \in [Edges -> SUBSET vertices]
  /\ \A e \in Edges : ends[e] = {} \/ \E u, w \in vertices : ends[e] = {u, w}
  /\ kept = {}
  /\ opened = {}
  /\ loads = [c \in Collections |-> 0]
  /\ listed = {}
  /\ pc       = [t \in Threads |-> "idle"]
  /\ doc      = [t \in Threads |-> None]
  /\ target   = [t \in Threads |-> None]
  /\ edgekeys = [t \in Threads |-> {}]
  /\ idedge   = [t \in Threads |-> None]
  /\ rkeys    = [t \in Threads |-> {}]
  /\ calls = MaxCalls

Begin(t) == \/ CreateVertex(t) \/ CreateEdge(t)
            \/ DeleteEdgeDocument(t) \/ DeleteDocument(t)
            \/ \E c \in Collections : Reload(t, c) \/ RemoveByKeys(t, c)

Bulk(t) == RemoveRecords(t) \/ RemoveThrows(t) \/ ReloadRemoved(t)

Cascade(t) == \/ BeforeRemove(t) \/ NextEdge(t) \/ CascadeThrows(t)
              \/ DeleteEdge(t) \/ DeleteEdgeKept(t) \/ DeleteEdgeThrows(t)
              \/ DeleteVertex(t) \/ DeleteVertexThrows(t)

Next == \/ \E t \in Threads : Begin(t) \/ Bulk(t) \/ Cascade(t)
        \/ \E c \in Collections : NewDocument(c) \/ LoadEnd(c)

Spec == Init /\ [][Next]_vars

(***************************************************************************)
(* Properties                                                              *)
(***************************************************************************)

\* Every variable has its type.
TypeOK ==
  /\ vertices \subseteq Vertices
  /\ ends \in [Edges -> SUBSET Records]
  /\ kept \subseteq Edges
  /\ opened \subseteq Collections
  /\ loads \in [Collections -> Nat]
  /\ listed \subseteq Records
  /\ pc \in [Threads -> {"idle", "remove", "reload", "query", "cascade", "delete"}]
  /\ doc \in [Threads -> Collections \cup {None}]
  /\ target \in [Threads -> Vertices \cup {None}]
  /\ edgekeys \in [Threads -> SUBSET Edges]
  /\ idedge \in [Threads -> Edges \cup {None}]
  /\ rkeys \in [Threads -> SUBSET Records]
  /\ calls \in 0 .. MaxCalls

\* "Remove all edges connected to vertex": an edge never outlives a record it
\* links, but for edges whose deletion the server answered with false.  Several
\* clients remove connected vertices, edges and whole key sets at a time,
\* collections are loaded and reloaded meanwhile, replies are lost, and removals
\* fail at any edge.
NoDangling == \A e \in Edges \ kept : ends[e] \subseteq Stored

\* The comment of before_remove without an exception (dbvertexdoc.h:21, "Remove
\* all edges connected to vertex."): where the edges are left is not looked at, and
\* the removal takes the vertex when the server has kept an edge.
EdgesGoFirst == \A e \in Edges : ends[e] \subseteq Stored

\* The documents implement the abstract graph, in which an edge the server kept is
\* as good as cut: in particular a vertex only goes when every edge connected to it
\* has been deleted or kept, and a removal changes nothing else.
Shown == [e \in Edges |-> IF e \in kept THEN {} ELSE ends[e]]
Graph == INSTANCE PropertyGraph WITH ends <- Shown
ImplementsGraph == Graph!Spec
=============================================================================
