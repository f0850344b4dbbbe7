--------------------------- MODULE TraversalProofs ---------------------------
(***************************************************************************)
(* Proofs about a walk, for any finite or infinite graph, any set of roots *)
(* and any order in which the server lists the edges of a vertex: it goes  *)
(* nowhere it should not, tells of every element once, tells of an edge    *)
(* after its ends, and leaves nothing out when it ends; on a finite graph  *)
(* it ends.                                                                *)
(*                                                                         *)
(* What a frame has yet to do is in its `next`; what has to hold for it    *)
(* depends on whether it is the running one, since only that one knows     *)
(* that edge_doc is its own edge.                                          *)
(***************************************************************************)
EXTENDS Traversal, SequenceTheorems, FiniteSetTheorems, WellFoundedInduction, TLAPS

USE IdAssumption, StartAssumption, FailAssumption

Frames == VertexFrames \cup EdgeFrames

IsFrame(i, call) == stack[i].call = call

(***************************************************************************)
(* The inductive invariants                                                *)
(***************************************************************************)
\* What has a frame is listed as visited, and edge_doc is one of the edges visited.
Listed ==
  /\ \A i \in 1 .. Len(stack) :
       /\ IsFrame(i, "vertex") => stack[i].id \in vertex_list
       /\ IsFrame(i, "edge")   => stack[i].id \in edge_list
  /\ edge_list # {} => edge_doc \in edge_list

\* A closed set holds what is visited and what the frames have yet to go through.
Within(V, E) ==
  /\ vertex_list \subseteq V /\ edge_list \subseteq E
  /\ \A i \in 1 .. Len(stack) : IsFrame(i, "vertex") => stack[i].left \subseteq E

WithinClosed ==
  \A V \in SUBSET Vertices, E \in SUBSET Edges : Closed(V, E) => Within(V, E)

\* A vertex is told of when it is visited, an edge when its one frame is gone.
OneFrame ==
  \A i, j \in 1 .. Len(stack) :
    IsFrame(i, "edge") /\ IsFrame(j, "edge") /\ stack[i].id = stack[j].id => i = j

HasFrame(x) == \E i \in 1 .. Len(stack) : stack[i].id = x

ToldInv ==
  /\ \A v \in Vertices : told[v] = IF v \in vertex_list THEN 1 ELSE 0
  /\ \A e \in Edges : /\ told[e] \in {0, 1}
                      /\ told[e] = 1 => e \in edge_list /\ ~HasFrame(e)
                      /\ ~failed /\ e \in edge_list /\ ~HasFrame(e) => told[e] = 1

\* A frame of parseVertex goes through edges of vertices that are visited.
LeftReached ==
  \A i \in 1 .. Len(stack) : IsFrame(i, "vertex") => stack[i].left \subseteq EdgesOf(vertex_list)

\* In a walk from vertices, where a frame of parseEdge stands with its two ends.
EdgeFrameNear(i) ==
  LET e == stack[i].id
      own == i = Len(stack) /\ edge_doc = e   \* edge_doc is its edge
  IN /\ e \in EdgesOf(vertex_list)
     /\ stack[i].next = "from" => own
     /\ stack[i].next = "to" => /\ from[e] \in vertex_list
                                /\ to[e] \in vertex_list \/ ("out" \in trav_type /\ own)
     /\ stack[i].next = "end" => from[e] \in vertex_list /\ to[e] \in vertex_list

EndsInv ==
  kind = "vertex" =>
    /\ \A i \in 1 .. Len(stack) : IsFrame(i, "edge") => EdgeFrameNear(i)
    /\ \A e \in Edges : told[e] > 0 => from[e] \in vertex_list /\ to[e] \in vertex_list

\* A frame of parseVertex: the edges of the queries it has made are visited or left.
VertexFrameOwes(i) ==
  LET v == stack[i].id
      seen == edge_list \cup stack[i].left
  IN /\ stack[i].next = "in" /\ "out" \in trav_type =>
          \A e \in Edges : from[e] = v => e \in seen
     /\ stack[i].next = "end" => EdgesOf({v}) \subseteq seen

\* A frame of parseEdge: the ends it has followed are visited, and it can still
\* follow the others.
EdgeFrameOwes(i) ==
  LET e == stack[i].id
      own == i = Len(stack) /\ edge_doc = e
  IN /\ stack[i].next = "from" =>
          /\ own
          /\ {"in", "out"} \subseteq trav_type =>
               from[e] \in vertex_list \/ to[e] \in vertex_list
     /\ stack[i].next = "to" =>
          /\ "in" \in trav_type => from[e] \in vertex_list
          /\ "out" \in trav_type => to[e] \in vertex_list \/ own
     /\ stack[i].next = "end" => EndsOf({e}) \subseteq vertex_list

\* Until an exception ends the walk, what it has not done it still has a root or a
\* frame for.
OweInv ==
  ~failed =>
    /\ roots \subseteq ids \cup vertex_list \cup edge_list
    /\ \A v \in vertex_list : HasFrame(v) \/ EdgesOf({v}) \subseteq edge_list
    /\ \A e \in edge_list   : HasFrame(e) \/ EndsOf({e}) \subseteq vertex_list
    /\ \A i \in 1 .. Len(stack) : /\ IsFrame(i, "vertex") => VertexFrameOwes(i)
                                  /\ IsFrame(i, "edge")   => EdgeFrameOwes(i)

(***************************************************************************)
(* What the actions do to the stack, frame by frame                        *)
(***************************************************************************)
Same(n) == \A i \in 1 .. n : stack'[i] = stack[i]

\* Over n frames a vertex or an edge is entered for the first time, or none is.
VertexEntered(v, n) ==
  /\ v \notin vertex_list /\ vertex_list' = vertex_list \cup {v}
  /\ told' = [told EXCEPT ![v] = @ + 1]
  /\ UNCHANGED <<edge_list, edge_doc>>
  /\ Len(stack') = n + 1
  /\ stack'[n + 1] = [call |-> "vertex", id |-> v, next |-> "out", left |-> {}]

EdgeEntered(e, n) ==
  /\ e \notin edge_list /\ edge_list' = edge_list \cup {e}
  /\ edge_doc' = e
  /\ UNCHANGED <<vertex_list, told>>
  /\ Len(stack') = n + 1
  /\ stack'[n + 1] = [call |-> "edge", id |-> e, next |-> "from"]

NoneEntered(n) ==
  UNCHANGED <<vertex_list, edge_list, edge_doc, told>> /\ Len(stack') = n

LEMMA Pushed ==
  ASSUME NEW S, NEW s \in Seq(S), NEW f \in S
  PROVE  /\ Append(s, f) \in Seq(S) /\ Len(Append(s, f)) = Len(s) + 1
         /\ \A i \in 1 .. Len(s) : Append(s, f)[i] = s[i]
         /\ Append(s, f)[Len(s) + 1] = f
  OBVIOUS

LEMMA Popped ==
  ASSUME TypeOK, stack # <<>>
  PROVE  /\ Len(stack) \in Nat \ {0} /\ top \in Frames
         /\ Rest \in Seq(Frames) /\ Len(Rest) = Len(stack) - 1
         /\ \A i \in 1 .. Len(Rest) : Rest[i] = stack[i]
<1>1. stack \in Seq(Frames)
  BY DEF TypeOK, Frames
<1>2. Len(stack) \in Nat \ {0}
  BY <1>1
<1>3. top \in Frames
  BY <1>1, <1>2 DEF top
<1> DEFINE n == Len(stack)
<1>4. \A i \in 1 .. n - 1 : stack[i] \in Frames
  BY <1>1, <1>2
<1>5. /\ SubSeq(stack, 1, n - 1) \in Seq(Frames)
      /\ Len(SubSeq(stack, 1, n - 1)) = IF 1 <= n - 1 THEN (n - 1) - 1 + 1 ELSE 0
      /\ \A i \in 1 .. (n - 1) - 1 + 1 : SubSeq(stack, 1, n - 1)[i] = stack[1 + i - 1]
  <2>1. n - 1 \in Int /\ 1 \in Int
    BY <1>2
  <2>2. \A i \in 1 .. n - 1 : stack[i] \in Frames
    BY <1>4
  <2> DEFINE m == n - 1
  <2> HIDE DEF m
  <2>3. /\ SubSeq(stack, 1, m) \in Seq(Frames)
        /\ Len(SubSeq(stack, 1, m)) = IF 1 <= m THEN m - 1 + 1 ELSE 0
        /\ \A i \in 1 .. m - 1 + 1 : SubSeq(stack, 1, m)[i] = stack[1 + i - 1]
    <3>1. m \in Int /\ \A i \in 1 .. m : stack[i] \in Frames
      BY <2>1, <2>2 DEF m
    <3> QED BY <2>1, <3>1, SubSeqProperties
  <2> QED BY <2>3 DEF m
<1>6. /\ Rest \in Seq(Frames)
      /\ Len(Rest) = IF 1 <= n - 1 THEN (n - 1) - 1 + 1 ELSE 0
      /\ \A i \in 1 .. (n - 1) - 1 + 1 : Rest[i] = stack[1 + i - 1]
  BY <1>5, Zenon DEF Rest
<1>7. n \in Nat \ {0}
  BY <1>2
<1> HIDE DEF n
<1>8. Len(Rest) = n - 1
  BY <1>6, <1>7
<1>9. \A i \in 1 .. Len(Rest) : Rest[i] = stack[i]
  BY <1>6, <1>7, <1>8
<1> QED BY <1>3, <1>6, <1>7, <1>8, <1>9 DEF n

\* The running frame replaced by f.
LEMMA Replaced ==
  ASSUME TypeOK, stack # <<>>, NEW f \in Frames
  PROVE  LET s == Append(Rest, f)
         IN  /\ s \in Seq(Frames) /\ Len(s) = Len(stack)
             /\ \A i \in 1 .. Len(stack) - 1 : s[i] = stack[i]
             /\ s[Len(stack)] = f
<1>1. Len(stack) \in Nat \ {0} /\ Rest \in Seq(Frames) /\ Len(Rest) = Len(stack) - 1
  BY Popped
<1>2. \A i \in 1 .. Len(Rest) : Rest[i] = stack[i]
  BY Popped
<1> DEFINE s == Append(Rest, f)
<1>3. /\ s \in Seq(Frames) /\ Len(s) = Len(Rest) + 1
      /\ \A i \in 1 .. Len(Rest) : s[i] = Rest[i]
      /\ s[Len(Rest) + 1] = f
  BY <1>1, Pushed
<1> HIDE DEF s
<1>4. Len(Rest) + 1 = Len(stack)
  BY <1>1
<1>5. s \in Seq(Frames) /\ Len(s) = Len(stack) /\ s[Len(stack)] = f
  BY <1>3, <1>4
<1>6. \A i \in 1 .. Len(stack) - 1 : s[i] = stack[i]
  BY <1>1, <1>2, <1>3
<1> QED BY <1>5, <1>6 DEF s

\* parseVertex and parseEdge entered over frames that are all there.
LEMMA VertexEnters ==
  ASSUME TypeOK, NEW v \in Vertices, NEW s \in Seq(Frames), EnterVertex(v, s),
         UNCHANGED <<edge_list, edge_doc>>
  PROVE  /\ stack' \in Seq(Frames) /\ \A i \in 1 .. Len(s) : stack'[i] = s[i]
         /\ vertex_list' = vertex_list \cup {v}
         /\ (v \in vertex_list /\ NoneEntered(Len(s))) \/ VertexEntered(v, Len(s))
<1> DEFINE f == [call |-> "vertex", id |-> v, next |-> "out", left |-> {}]
<1>1. f \in Frames
  BY DEF Frames, VertexFrames
<1>2. CASE v \in vertex_list
  BY <1>2 DEF EnterVertex, NoneEntered
<1>3. CASE v \notin vertex_list
  <2>1. stack' = Append(s, f)
    BY <1>3 DEF EnterVertex
  <2> HIDE DEF f
  <2>2. /\ stack' \in Seq(Frames) /\ Len(stack') = Len(s) + 1
        /\ \A i \in 1 .. Len(s) : stack'[i] = s[i]
        /\ stack'[Len(s) + 1] = f
    BY <1>1, <2>1, Pushed
  <2> QED BY <1>3, <2>2 DEF f, EnterVertex, VertexEntered
<1> QED BY <1>2, <1>3

LEMMA EdgeEnters ==
  ASSUME TypeOK, NEW e \in Edges, NEW s \in Seq(Frames), EnterEdge(e, s),
         UNCHANGED <<vertex_list, told>>
  PROVE  /\ stack' \in Seq(Frames) /\ \A i \in 1 .. Len(s) : stack'[i] = s[i]
         /\ edge_list' = edge_list \cup {e}
         /\ (e \in edge_list /\ NoneEntered(Len(s))) \/ EdgeEntered(e, Len(s))
<1> DEFINE f == [call |-> "edge", id |-> e, next |-> "from"]
<1>1. f \in Frames
  BY DEF Frames, EdgeFrames
<1>2. CASE e \in edge_list
  BY <1>2 DEF EnterEdge, NoneEntered
<1>3. CASE e \notin edge_list
  <2>1. stack' = Append(s, f)
    BY <1>3 DEF EnterEdge
  <2> HIDE DEF f
  <2>2. /\ stack' \in Seq(Frames) /\ Len(stack') = Len(s) + 1
        /\ \A i \in 1 .. Len(s) : stack'[i] = s[i]
        /\ stack'[Len(s) + 1] = f
    BY <1>1, <2>1, Pushed
  <2> QED BY <1>3, <2>2 DEF f, EnterEdge, EdgeEntered
<1> QED BY <1>2, <1>3

\* The running frame of parseVertex, and of parseEdge.
LEMMA TopIs ==
  ASSUME TypeOK, stack # <<>>
  PROVE  /\ Len(stack) \in Nat \ {0} /\ top = stack[Len(stack)]
         /\ top.call = "vertex" => top \in VertexFrames
         /\ top.call = "edge" => top \in EdgeFrames
BY Popped DEF top, Frames, VertexFrames, EdgeFrames

LEMMA StartDoes ==
  ASSUME TypeOK, Start
  PROVE  /\ Len(stack) = 0 /\ UNCHANGED <<graph, failed>> /\ stack' \in Seq(Frames)
         /\ \E id \in ids :
              /\ ids' = ids \ {id}
              /\ \/ kind = "vertex" /\ id \in vertex_list /\ NoneEntered(0)
                 \/ kind = "vertex" /\ VertexEntered(id, 0)
                 \/ kind = "edge" /\ id \in edge_list /\ NoneEntered(0)
                 \/ kind = "edge" /\ EdgeEntered(id, 0)
<1>1. stack = <<>> /\ UNCHANGED <<graph, failed>> /\ <<>> \in Seq(Frames) /\ Len(<<>>) = 0
  BY DEF Start
<1>2. PICK id \in ids :
        /\ ids' = ids \ {id}
        /\ IF kind = "vertex"
           THEN EnterVertex(id, <<>>) /\ UNCHANGED <<edge_list, edge_doc>>
           ELSE EnterEdge(id, <<>>) /\ UNCHANGED <<vertex_list, told>>
  BY DEF Start
<1>3. CASE kind = "vertex"
  <2>1. id \in Vertices
    BY <1>3 DEF TypeOK
  <2>2. EnterVertex(id, <<>>) /\ UNCHANGED <<edge_list, edge_doc>>
    BY <1>2, <1>3
  <2>3. /\ stack' \in Seq(Frames)
        /\ (id \in vertex_list /\ NoneEntered(Len(<<>>))) \/ VertexEntered(id, Len(<<>>))
    BY <1>1, <2>1, <2>2, VertexEnters
  <2> QED BY <1>1, <1>2, <1>3, <2>3
<1>4. CASE kind = "edge"
  <2>1. id \in Edges
    BY <1>4 DEF TypeOK
  <2>2. EnterEdge(id, <<>>) /\ UNCHANGED <<vertex_list, told>>
    BY <1>2, <1>4
  <2>3. /\ stack' \in Seq(Frames)
        /\ (id \in edge_list /\ NoneEntered(Len(<<>>))) \/ EdgeEntered(id, Len(<<>>))
    BY <1>1, <2>1, <2>2, EdgeEnters
  <2> QED BY <1>1, <1>2, <1>4, <2>3
<1> QED BY <1>3, <1>4 DEF TypeOK

LEMMA QueryEdgesDoes ==
  ASSUME TypeOK, QueryEdges
  PROVE  LET n == Len(stack)
         IN  /\ n \in Nat \ {0} /\ stack[n] \in VertexFrames /\ stack[n].left = {}
             /\ stack' \in Seq(Frames) /\ Len(stack') = n /\ Same(n - 1)
             /\ stack'[n].call = "vertex" /\ stack'[n].id = stack[n].id
             /\ stack'[n].left \subseteq EdgesOf({stack[n].id})
             /\ \/ /\ stack[n].next = "out" /\ stack'[n].next = "in"
                   /\ "out" \in trav_type =>
                        stack'[n].left = {e \in Edges : from[e] = stack[n].id}
                \/ /\ stack[n].next = "in" /\ stack'[n].next = "end"
                   /\ "in" \in trav_type =>
                        stack'[n].left = {e \in Edges : to[e] = stack[n].id}
             /\ UNCHANGED <<graph, ids, vertex_list, edge_list, edge_doc, told, failed>>
<1> DEFINE found == IF top.next \notin trav_type THEN {}
                    ELSE {e \in Edges : (IF top.next = "out" THEN from[e] ELSE to[e]) = top.id}
           after == IF top.next = "out" THEN "in" ELSE "end"
           f == [top EXCEPT !.left = found, !.next = after]
<1>1. stack # <<>> /\ top.call = "vertex" /\ top.left = {} /\ top.next # "end"
  BY DEF QueryEdges, Running
<1>2. /\ Len(stack) \in Nat \ {0} /\ top = stack[Len(stack)] /\ top \in VertexFrames
      /\ top.next \in {"out", "in"}
  BY <1>1, TopIs DEF VertexFrames
<1>3. found \subseteq Edges /\ after \in {"in", "end"}
  OBVIOUS
<1>4. f \in VertexFrames /\ f.call = "vertex" /\ f.id = top.id /\ f.left = found /\ f.next = after
  <2> HIDE DEF found, after
  <2> QED BY <1>2, <1>3 DEF VertexFrames
<1>5. /\ stack' = Append(Rest, f)
      /\ UNCHANGED <<graph, ids, vertex_list, edge_list, edge_doc, told, failed>>
  BY DEF QueryEdges
<1>6. found \subseteq EdgesOf({top.id})
  BY <1>2 DEF EdgesOf
<1>7. /\ top.next = "out" /\ "out" \in trav_type => found = {e \in Edges : from[e] = top.id}
      /\ top.next = "in" /\ "in" \in trav_type => found = {e \in Edges : to[e] = top.id}
      /\ top.next = "out" => after = "in"
      /\ top.next = "in" => after = "end"
  OBVIOUS
<1> HIDE DEF f, found, after
<1>8. stack' \in Seq(Frames) /\ Len(stack') = Len(stack) /\ Same(Len(stack) - 1)
      /\ stack'[Len(stack)] = f
  <2>1. f \in Frames
    BY <1>4 DEF Frames
  <2> QED BY <1>1, <1>5, <2>1, Replaced DEF Same
<1> QED BY <1>1, <1>2, <1>4, <1>5, <1>6, <1>7, <1>8

LEMMA NextEdgeDoes ==
  ASSUME TypeOK, NextEdge
  PROVE  LET n == Len(stack)
         IN  /\ n \in Nat \ {0} /\ stack[n] \in VertexFrames
             /\ stack' \in Seq(Frames) /\ Same(n - 1)
             /\ \E e \in stack[n].left :
                  /\ stack'[n].call = "vertex" /\ stack'[n].id = stack[n].id
                  /\ stack'[n].next = stack[n].next /\ stack'[n].left = stack[n].left \ {e}
                  /\ (e \in edge_list /\ NoneEntered(n)) \/ EdgeEntered(e, n)
             /\ UNCHANGED <<graph, ids, vertex_list, told, failed>>
<1>1. stack # <<>> /\ top.call = "vertex"
  BY DEF NextEdge, Running
<1>2. Len(stack) \in Nat \ {0} /\ top = stack[Len(stack)] /\ top \in VertexFrames
  BY <1>1, TopIs
<1>3. PICK e \in top.left : EnterEdge(e, Append(Rest, [top EXCEPT !.left = @ \ {e}]))
  BY DEF NextEdge
<1>4. UNCHANGED <<graph, ids, vertex_list, told, failed>>
  BY DEF NextEdge
<1> DEFINE f == [top EXCEPT !.left = @ \ {e}]
           s == Append(Rest, f)
<1>5. /\ f \in Frames /\ e \in Edges
      /\ f.call = "vertex" /\ f.id = top.id /\ f.next = top.next /\ f.left = top.left \ {e}
  BY <1>2 DEF Frames, VertexFrames
<1> HIDE DEF f
<1>6. /\ s \in Seq(Frames) /\ Len(s) = Len(stack)
      /\ \A i \in 1 .. Len(stack) - 1 : s[i] = stack[i]
      /\ s[Len(stack)] = f
  BY <1>1, <1>5, Replaced
<1>7. EnterEdge(e, s)
  BY <1>3 DEF f
<1> HIDE DEF s
<1>8. /\ stack' \in Seq(Frames) /\ \A i \in 1 .. Len(s) : stack'[i] = s[i]
      /\ (e \in edge_list /\ NoneEntered(Len(s))) \/ EdgeEntered(e, Len(s))
  BY <1>4, <1>5, <1>6, <1>7, EdgeEnters
<1>9. Same(Len(stack) - 1) /\ stack'[Len(stack)] = f
  BY <1>2, <1>6, <1>8 DEF Same
<1> QED BY <1>2, <1>3, <1>4, <1>5, <1>6, <1>8, <1>9

LEMMA ReturnDoes ==
  ASSUME TypeOK, stack # <<>>, stack' = Rest
  PROVE  LET n == Len(stack)
         IN  /\ n \in Nat \ {0} /\ top = stack[n]
             /\ stack' \in Seq(Frames) /\ Len(stack') = n - 1 /\ Same(n - 1)
BY TopIs, Popped DEF Same

\* parseEdge goes from its edge on to the vertex `end`, if the type of the walk has
\* `way`, and is then at `after`.
Follows(end, way, after) ==
  LET n == Len(stack)
  IN  /\ n \in Nat \ {0} /\ stack[n] \in EdgeFrames /\ end \in Vertices
      /\ stack' \in Seq(Frames) /\ Same(n - 1)
      /\ stack'[n].call = "edge" /\ stack'[n].id = stack[n].id /\ stack'[n].next = after
      /\ \/ way \notin trav_type /\ NoneEntered(n)
         \/ way \in trav_type /\ end \in vertex_list /\ NoneEntered(n)
         \/ way \in trav_type /\ VertexEntered(end, n)
      /\ UNCHANGED <<graph, ids, edge_list, edge_doc, failed>>

LEMMA FollowEnd ==
  ASSUME TypeOK, Running("edge"), NEW end \in Vertices, NEW way, NEW after \in {"to", "end"},
         LET below == Append(Rest, [top EXCEPT !.next = after])
         IN IF way \in trav_type
            THEN EnterVertex(end, below)
            ELSE stack' = below /\ UNCHANGED <<vertex_list, told>>,
         UNCHANGED <<graph, ids, edge_list, edge_doc, failed>>
  PROVE  Follows(end, way, after)
<1>1. stack # <<>> /\ top.call = "edge"
  BY DEF Running
<1>2. Len(stack) \in Nat \ {0} /\ top = stack[Len(stack)] /\ top \in EdgeFrames
  BY <1>1, TopIs
<1> DEFINE f == [top EXCEPT !.next = after]
           s == Append(Rest, f)
<1>3. f \in Frames /\ f.call = "edge" /\ f.id = top.id /\ f.next = after
  BY <1>2 DEF Frames, EdgeFrames
<1> HIDE DEF f
<1>4. /\ s \in Seq(Frames) /\ Len(s) = Len(stack)
      /\ \A i \in 1 .. Len(stack) - 1 : s[i] = stack[i]
      /\ s[Len(stack)] = f
  BY <1>1, <1>3, Replaced
<1>5. IF way \in trav_type THEN EnterVertex(end, s)
                            ELSE stack' = s /\ UNCHANGED <<vertex_list, told>>
  BY DEF f
<1> HIDE DEF s
<1>6. CASE way \notin trav_type
  <2>1. NoneEntered(Len(stack)) /\ stack' = s
    BY <1>4, <1>5, <1>6 DEF NoneEntered
  <2>2. Same(Len(stack) - 1)
    BY <1>4, <2>1 DEF Same
  <2> QED BY <1>2, <1>3, <1>4, <1>6, <2>1, <2>2 DEF Follows
<1>7. CASE way \in trav_type
  <2>1. EnterVertex(end, s)
    BY <1>5, <1>7
  <2>2. /\ stack' \in Seq(Frames) /\ \A i \in 1 .. Len(s) : stack'[i] = s[i]
        /\ (end \in vertex_list /\ NoneEntered(Len(s))) \/ VertexEntered(end, Len(s))
    BY <1>4, <2>1, VertexEnters
  <2>3. Same(Len(stack) - 1)
    BY <1>2, <1>4, <2>2 DEF Same
  <2>4. stack'[Len(stack)] = f
    BY <1>2, <1>4, <2>2
  <2> QED BY <1>2, <1>3, <1>4, <1>7, <2>2, <2>3, <2>4 DEF Follows
<1> QED BY <1>6, <1>7

\* Its edge and edge_doc have both been visited, so both ends of edge_doc are vertices.
LEMMA DocRead ==
  ASSUME TypeOK, Listed, Running("edge")
  PROVE  edge_doc \in Edges /\ edge_doc \in edge_list
<1>1. stack # <<>> /\ top.call = "edge"
  BY DEF Running
<1>2. Len(stack) \in Nat \ {0} /\ top = stack[Len(stack)]
  BY <1>1, TopIs
<1>3. top.id \in edge_list
  BY <1>1, <1>2 DEF Listed, IsFrame
<1> QED BY <1>3 DEF Listed, TypeOK

LEMMA FollowFromDoes ==
  ASSUME TypeOK, Listed, FollowFrom
  PROVE  /\ stack[Len(stack)].next = "from" /\ edge_doc \in edge_list
         /\ Follows(from[edge_doc], "in", "to")
<1>1. Running("edge") /\ top.next = "from"
  BY DEF FollowFrom
<1>2. edge_doc \in edge_list /\ from[edge_doc] \in Vertices
  BY <1>1, DocRead DEF TypeOK
<1>3. Follows(from[edge_doc], "in", "to")
  BY <1>1, <1>2, FollowEnd DEF FollowFrom
<1> QED BY <1>1, <1>2, <1>3 DEF top

LEMMA FollowToDoes ==
  ASSUME TypeOK, Listed, FollowTo
  PROVE  /\ stack[Len(stack)].next = "to" /\ edge_doc \in edge_list
         /\ Follows(to[edge_doc], "out", "end")
<1>1. Running("edge") /\ top.next = "to"
  BY DEF FollowTo
<1>2. edge_doc \in edge_list /\ to[edge_doc] \in Vertices
  BY <1>1, DocRead DEF TypeOK
<1>3. Follows(to[edge_doc], "out", "end")
  BY <1>1, <1>2, FollowEnd DEF FollowTo
<1> QED BY <1>1, <1>2, <1>3 DEF top

(***************************************************************************)
(* Type correctness                                                        *)
(***************************************************************************)
LEMMA FollowsTypeOK ==
  ASSUME TypeOK, NEW end, NEW way, NEW after, Follows(end, way, after)
  PROVE  TypeOK'
<1> USE DEF Elements, Frames, graph
<1>1. /\ end \in Vertices /\ stack' \in Seq(Frames)
      /\ UNCHANGED <<graph, ids, edge_list, edge_doc, failed>>
      /\ NoneEntered(Len(stack)) \/ VertexEntered(end, Len(stack))
  BY DEF Follows
<1>2. CASE NoneEntered(Len(stack))
  BY <1>1, <1>2 DEF TypeOK, NoneEntered
<1>3. CASE VertexEntered(end, Len(stack))
  BY <1>1, <1>3 DEF TypeOK, VertexEntered
<1> QED BY <1>1, <1>2, <1>3

\* One step keeps every type.
LEMMA StepTypeOK ==
  ASSUME TypeOK, Listed, Next
  PROVE  TypeOK'
<1> USE DEF Elements, Frames, graph
<1>1. CASE Start
  <2>1. PICK id \in ids :
          /\ ids' = ids \ {id}
          /\ \/ NoneEntered(0)
             \/ kind = "vertex" /\ VertexEntered(id, 0)
             \/ kind = "edge" /\ EdgeEntered(id, 0)
    BY <1>1, StartDoes
  <2>2. UNCHANGED <<graph, failed>> /\ stack' \in Seq(Frames)
    BY <1>1, StartDoes
  <2>3. CASE NoneEntered(0)
    BY <2>1, <2>2, <2>3 DEF TypeOK, NoneEntered
  <2>4. CASE kind = "vertex" /\ VertexEntered(id, 0)
    <3>1. id \in Vertices
      BY <2>4 DEF TypeOK
    <3> QED BY <2>1, <2>2, <2>4, <3>1 DEF TypeOK, VertexEntered
  <2>5. CASE kind = "edge" /\ EdgeEntered(id, 0)
    <3>1. id \in Edges
      BY <2>5 DEF TypeOK
    <3> QED BY <2>1, <2>2, <2>5, <3>1 DEF TypeOK, EdgeEntered
  <2> QED BY <2>1, <2>3, <2>4, <2>5
<1>2. CASE QueryEdges
  BY <1>2, QueryEdgesDoes DEF TypeOK
<1>3. CASE NextEdge
  <2>1. /\ stack[Len(stack)] \in VertexFrames /\ stack' \in Seq(Frames)
        /\ UNCHANGED <<graph, ids, vertex_list, told, failed>>
        /\ \E e \in stack[Len(stack)].left : NoneEntered(Len(stack)) \/ EdgeEntered(e, Len(stack))
    BY <1>3, NextEdgeDoes
  <2>2. PICK e \in Edges : NoneEntered(Len(stack)) \/ EdgeEntered(e, Len(stack))
    BY <2>1 DEF VertexFrames
  <2>3. edge_list' \subseteq Edges /\ edge_doc' \in Edges \cup {NoEdge}
    BY <2>2 DEF TypeOK, NoneEntered, EdgeEntered
  <2> QED BY <2>1, <2>3 DEF TypeOK
<1>4. CASE VertexReturns
  BY <1>4, ReturnDoes DEF TypeOK, VertexReturns, Running
<1>5. CASE FollowFrom
  BY <1>5, FollowFromDoes, FollowsTypeOK
<1>6. CASE FollowTo
  BY <1>6, FollowToDoes, FollowsTypeOK
<1>7. CASE EdgeReturns
  <2>1. top \in EdgeFrames
    BY <1>7, TopIs DEF EdgeReturns, Running
  <2>2. told' \in [Elements -> Nat]
    BY <1>7, <2>1 DEF EdgeReturns, TypeOK, EdgeFrames
  <2> QED BY <1>7, <2>2, ReturnDoes DEF TypeOK, EdgeReturns, Running
<1>8. CASE Throw
  <2>1. failed' \in BOOLEAN
    BY <1>8 DEF Throw
  <2> QED BY <1>8, <2>1 DEF Throw, TypeOK
<1>9. CASE Over
  BY <1>9 DEF Over, vars, TypeOK
<1> QED BY <1>1, <1>2, <1>3, <1>4, <1>5, <1>6, <1>7, <1>8, <1>9 DEF Next, Walk

LEMMA FollowsListed ==
  ASSUME TypeOK, Listed, NEW end, NEW way, NEW after, Follows(end, way, after)
  PROVE  Listed'
<1> DEFINE n == Len(stack)
<1>1. /\ n \in Nat \ {0} /\ Same(n - 1) /\ stack[n] \in EdgeFrames
      /\ stack'[n].call = "edge" /\ stack'[n].id = stack[n].id
      /\ NoneEntered(n) \/ VertexEntered(end, n)
      /\ UNCHANGED <<edge_list, edge_doc>>
  BY DEF Follows
<1> HIDE DEF n
<1>2. vertex_list \subseteq vertex_list'
  BY <1>1 DEF NoneEntered, VertexEntered
<1>3. ASSUME NEW i \in 1 .. Len(stack')
      PROVE  /\ stack'[i].call = "vertex" => stack'[i].id \in vertex_list'
             /\ stack'[i].call = "edge"   => stack'[i].id \in edge_list'
  <2>1. i \in 1 .. n - 1 \/ i = n \/ (i = n + 1 /\ VertexEntered(end, n))
    BY <1>1 DEF NoneEntered, VertexEntered
  <2>2. CASE i \in 1 .. n - 1
    BY <1>1, <1>2, <2>2 DEF Same, Listed, IsFrame, n
  <2>3. CASE i = n
    BY <1>1, <1>2, <2>3 DEF Listed, IsFrame, n, EdgeFrames
  <2>4. CASE i = n + 1 /\ VertexEntered(end, n)
    BY <2>4 DEF VertexEntered
  <2> QED BY <2>1, <2>2, <2>3, <2>4
<1> QED BY <1>1, <1>3 DEF Listed, IsFrame

\* One step keeps the lists of what is visited in agreement with the frames.
LEMMA StepListed ==
  ASSUME TypeOK, Listed, Next
  PROVE  Listed'
<1>1. CASE Start
  <2>1. \/ NoneEntered(0)
        \/ \E v : VertexEntered(v, 0)
        \/ \E e : EdgeEntered(e, 0)
    BY <1>1, StartDoes
  <2>2. CASE NoneEntered(0)
    BY <2>2 DEF Listed, IsFrame, NoneEntered
  <2>3. ASSUME NEW v, VertexEntered(v, 0) PROVE Listed'
    BY <2>3 DEF Listed, IsFrame, VertexEntered
  <2>4. ASSUME NEW e, EdgeEntered(e, 0) PROVE Listed'
    BY <2>4 DEF Listed, IsFrame, EdgeEntered
  <2> QED BY <2>1, <2>2, <2>3, <2>4
<1>2. CASE QueryEdges
  BY <1>2, QueryEdgesDoes DEF Listed, IsFrame, Same, VertexFrames
<1>3. CASE NextEdge
  <2> DEFINE n == Len(stack)
  <2>1. /\ n \in Nat \ {0} /\ stack[n].call = "vertex" /\ Same(n - 1)
        /\ stack'[n].call = "vertex" /\ stack'[n].id = stack[n].id
        /\ UNCHANGED vertex_list
        /\ NoneEntered(n) \/ \E e : EdgeEntered(e, n)
    BY <1>3, NextEdgeDoes DEF VertexFrames
  <2> HIDE DEF n
  <2>2. CASE NoneEntered(n)
    BY <2>1, <2>2 DEF n, Listed, IsFrame, Same, NoneEntered
  <2>3. ASSUME NEW e, EdgeEntered(e, n) PROVE Listed'
    <3>1. ASSUME NEW i \in 1 .. Len(stack')
          PROVE  /\ stack'[i].call = "vertex" => stack'[i].id \in vertex_list
                 /\ stack'[i].call = "edge"   => stack'[i].id \in edge_list'
      <4>1. CASE i \in 1 .. n - 1
        BY <2>1, <2>3, <4>1 DEF Same, Listed, IsFrame, n, EdgeEntered
      <4>2. CASE i = n
        BY <2>1, <4>2 DEF Listed, IsFrame, n
      <4>3. CASE i = n + 1
        BY <2>3, <4>3 DEF EdgeEntered
      <4> QED BY <2>1, <2>3, <4>1, <4>2, <4>3 DEF EdgeEntered
    <3> QED BY <2>1, <2>3, <3>1 DEF Listed, IsFrame, EdgeEntered
  <2> QED BY <2>1, <2>2, <2>3
<1>4. CASE VertexReturns
  BY <1>4, ReturnDoes DEF VertexReturns, Running, Listed, IsFrame, Same
<1>5. CASE FollowFrom
  BY <1>5, FollowFromDoes, FollowsListed
<1>6. CASE FollowTo
  BY <1>6, FollowToDoes, FollowsListed
<1>7. CASE EdgeReturns
  BY <1>7, ReturnDoes DEF EdgeReturns, Running, Listed, IsFrame, Same
<1>8. CASE Throw
  BY <1>8 DEF Throw, Listed, IsFrame
<1>9. CASE Over
  BY <1>9 DEF Over, vars, Listed, IsFrame
<1> QED BY <1>1, <1>2, <1>3, <1>4, <1>5, <1>6, <1>7, <1>8, <1>9 DEF Next, Walk

LEMMA ListedHolds == Spec => [](TypeOK /\ Listed)
<1>1. Init => TypeOK /\ Listed
  <2> SUFFICES ASSUME Init PROVE TypeOK /\ Listed
    OBVIOUS
  <2>1. kind \in {"vertex", "edge"} /\ trav_type \subseteq {"in", "out"}
    BY DEF Init
  <2>2. failed \in BOOLEAN
    BY DEF Init
  <2> QED BY <2>1, <2>2 DEF Init, TypeOK, Listed, Elements
<1>2. TypeOK /\ Listed /\ [Next]_vars => TypeOK' /\ Listed'
  <2>1. CASE UNCHANGED vars
    BY <2>1 DEF vars, graph, TypeOK, Listed, IsFrame
  <2> QED BY <2>1, StepTypeOK, StepListed
<1> QED BY <1>1, <1>2, PTL DEF Spec

\* Every variable has its type in every reachable state.
THEOREM TypeCorrect == Spec => []TypeOK
BY ListedHolds, PTL

(***************************************************************************)
(* Nothing else is visited                                                 *)
(***************************************************************************)
LEMMA EndsOfAre ==
  ASSUME NEW E, NEW V
  PROVE  EndsOf(E) \subseteq V <=>
           \A e \in E : /\ "in"  \in trav_type => from[e] \in V
                        /\ "out" \in trav_type => to[e] \in V
<1> DEFINE ends(e) == (IF "in"  \in trav_type THEN {from[e]} ELSE {}) \cup
                      (IF "out" \in trav_type THEN {to[e]} ELSE {})
<1>1. ASSUME EndsOf(E) \subseteq V, NEW e \in E
      PROVE  /\ "in"  \in trav_type => from[e] \in V
             /\ "out" \in trav_type => to[e] \in V
  <2>1. ends(e) \subseteq EndsOf(E)
    BY DEF EndsOf
  <2> QED BY <1>1, <2>1
<1>2. ASSUME \A e \in E : /\ "in"  \in trav_type => from[e] \in V
                          /\ "out" \in trav_type => to[e] \in V,
             NEW x \in EndsOf(E)
      PROVE  x \in V
  <2>1. PICK e \in E : x \in ends(e)
    BY DEF EndsOf
  <2>2. /\ "in"  \in trav_type => from[e] \in V
        /\ "out" \in trav_type => to[e] \in V
    BY <1>2
  <2> QED BY <2>1, <2>2
<1> QED BY <1>1, <1>2

\* The graph does not change, so a set that is closed stays closed.
LEMMA SameGraph ==
  ASSUME Next \/ UNCHANGED vars
  PROVE  UNCHANGED graph
BY DEF Next, Walk, Start, QueryEdges, NextEdge, VertexReturns, FollowFrom, FollowTo,
       EdgeReturns, Throw, Over, vars

LEMMA ClosedStays ==
  ASSUME Next \/ UNCHANGED vars, NEW V, NEW E
  PROVE  Closed(V, E)' <=> Closed(V, E)
BY SameGraph DEF graph, Closed, EdgesOf, EndsOf

LEMMA FollowsWithin ==
  ASSUME TypeOK, NEW V, NEW E, Within(V, E), NEW end, NEW way, NEW after,
         Follows(end, way, after), way \in trav_type => end \in V
  PROVE  Within(V, E)'
<1> DEFINE n == Len(stack)
<1>1. /\ n \in Nat \ {0} /\ Same(n - 1) /\ stack[n] \in EdgeFrames
      /\ stack'[n].call = "edge" /\ UNCHANGED edge_list
      /\ NoneEntered(n) \/ (end \in V /\ VertexEntered(end, n))
  BY DEF Follows
<1> HIDE DEF n
<1>2. vertex_list' \subseteq V
  BY <1>1 DEF NoneEntered, VertexEntered, Within
<1>3. ASSUME NEW i \in 1 .. Len(stack'), stack'[i].call = "vertex"
      PROVE  stack'[i].left \subseteq E
  <2>1. i \in 1 .. n - 1 \/ i = n \/ (i = n + 1 /\ VertexEntered(end, n))
    BY <1>1 DEF NoneEntered, VertexEntered
  <2>2. CASE i \in 1 .. n - 1
    BY <1>1, <1>3, <2>2 DEF Same, Within, IsFrame, n
  <2>3. CASE i = n
    BY <1>1, <1>3, <2>3
  <2>4. CASE i = n + 1 /\ VertexEntered(end, n)
    BY <2>4 DEF VertexEntered
  <2> QED BY <2>1, <2>2, <2>3, <2>4
<1> QED BY <1>1, <1>2, <1>3 DEF Within, IsFrame

\* One step stays within every closed set.
LEMMA StepWithin ==
  ASSUME TypeOK, Listed, Next, NEW V \in SUBSET Vertices, NEW E \in SUBSET Edges,
         Closed(V, E), Within(V, E)
  PROVE  Within(V, E)'
<1> DEFINE n == Len(stack)
<1>1. CASE Start
  <2>1. \/ NoneEntered(0)
        \/ \E v \in ids : kind = "vertex" /\ VertexEntered(v, 0)
        \/ \E e \in ids : kind = "edge" /\ EdgeEntered(e, 0)
    BY <1>1, StartDoes
  <2>2. CASE NoneEntered(0)
    BY <2>2 DEF Within, NoneEntered
  <2>3. ASSUME NEW v \in ids, kind = "vertex", VertexEntered(v, 0) PROVE Within(V, E)'
    <3>1. v \in V
      BY <2>3 DEF TypeOK, Closed
    <3> QED BY <2>3, <3>1 DEF Within, IsFrame, VertexEntered
  <2>4. ASSUME NEW e \in ids, kind = "edge", EdgeEntered(e, 0) PROVE Within(V, E)'
    <3>1. e \in E
      BY <2>4 DEF TypeOK, Closed
    <3> QED BY <2>4, <3>1 DEF Within, IsFrame, EdgeEntered
  <2> QED BY <2>1, <2>2, <2>3, <2>4
<1>2. CASE QueryEdges
  <2>1. /\ n \in Nat \ {0} /\ stack[n].call = "vertex" /\ Len(stack') = n /\ Same(n - 1)
        /\ stack'[n].left \subseteq EdgesOf({stack[n].id})
        /\ UNCHANGED <<vertex_list, edge_list>>
    BY <1>2, QueryEdgesDoes DEF VertexFrames
  <2>2. stack[n].id \in V
    BY <2>1 DEF Listed, IsFrame, Within
  <2>3. stack'[n].left \subseteq E
    BY <2>1, <2>2 DEF EdgesOf, Closed
  <2> QED BY <2>1, <2>3 DEF Within, IsFrame, Same
<1>3. CASE NextEdge
  <2>1. PICK e \in stack[n].left :
          /\ stack'[n].left = stack[n].left \ {e}
          /\ NoneEntered(n) \/ EdgeEntered(e, n)
    BY <1>3, NextEdgeDoes
  <2>2. /\ n \in Nat \ {0} /\ stack[n].call = "vertex" /\ Same(n - 1)
        /\ UNCHANGED vertex_list
    BY <1>3, NextEdgeDoes DEF VertexFrames
  <2>3. stack[n].left \subseteq E
    BY <2>2 DEF Within, IsFrame
  <2> HIDE DEF n
  <2>4. ASSUME NEW i \in 1 .. Len(stack'), stack'[i].call = "vertex"
        PROVE  stack'[i].left \subseteq E
    <3>1. i \in 1 .. n - 1 \/ i = n \/ (i = n + 1 /\ EdgeEntered(e, n))
      BY <2>1, <2>2 DEF NoneEntered, EdgeEntered
    <3>2. CASE i \in 1 .. n - 1
      BY <2>2, <2>4, <3>2 DEF Same, Within, IsFrame, n
    <3>3. CASE i = n
      BY <2>1, <2>3, <3>3
    <3>4. CASE i = n + 1 /\ EdgeEntered(e, n)
      BY <2>4, <3>4 DEF EdgeEntered
    <3> QED BY <3>1, <3>2, <3>3, <3>4
  <2>5. edge_list' \subseteq E
    BY <2>1, <2>3 DEF NoneEntered, EdgeEntered, Within
  <2> QED BY <2>2, <2>4, <2>5 DEF Within, IsFrame
<1>4. CASE VertexReturns
  BY <1>4, ReturnDoes DEF VertexReturns, Running, Within, IsFrame, Same
<1>5. CASE FollowFrom
  <2>1. "in" \in trav_type => from[edge_doc] \in V
    <3>1. edge_doc \in E
      BY <1>5, FollowFromDoes DEF Within
    <3>2. EndsOf(E) \subseteq V
      BY DEF Closed
    <3> QED BY <3>1, <3>2, EndsOfAre
  <2> QED BY <1>5, <2>1, FollowFromDoes, FollowsWithin
<1>6. CASE FollowTo
  <2>1. "out" \in trav_type => to[edge_doc] \in V
    <3>1. edge_doc \in E
      BY <1>6, FollowToDoes DEF Within
    <3>2. EndsOf(E) \subseteq V
      BY DEF Closed
    <3> QED BY <3>1, <3>2, EndsOfAre
  <2> QED BY <1>6, <2>1, FollowToDoes, FollowsWithin
<1>7. CASE EdgeReturns
  BY <1>7, ReturnDoes DEF EdgeReturns, Running, Within, IsFrame, Same
<1>8. CASE Throw
  BY <1>8 DEF Throw, Within
<1>9. CASE Over
  BY <1>9 DEF Over, vars, Within, IsFrame
<1> QED BY <1>1, <1>2, <1>3, <1>4, <1>5, <1>6, <1>7, <1>8, <1>9 DEF Next, Walk

\* A walk visits nothing outside the closed sets: only the roots, the edges of
\* the vertices it visits and the ends of the edges it visits, in the directions
\* of the walk.
THEOREM NothingElseVisited == Spec => []NothingElse
<1>1. Init => WithinClosed
  BY DEF Init, WithinClosed, Within
<1>2. TypeOK /\ Listed /\ WithinClosed /\ [Next]_vars => WithinClosed'
  <2> SUFFICES ASSUME TypeOK, Listed, WithinClosed, Next \/ UNCHANGED vars,
                      NEW V \in SUBSET Vertices, NEW E \in SUBSET Edges, Closed(V, E)'
               PROVE  Within(V, E)'
    BY DEF WithinClosed
  <2>1. Closed(V, E)
    BY ClosedStays
  <2>2. Within(V, E)
    BY <2>1 DEF WithinClosed
  <2>3. CASE UNCHANGED vars
    BY <2>2, <2>3 DEF vars, Within, IsFrame
  <2> QED BY <2>1, <2>2, <2>3, StepWithin
<1>3. WithinClosed => NothingElse
  BY DEF WithinClosed, Within, NothingElse
<1> QED BY <1>1, <1>2, <1>3, ListedHolds, PTL DEF Spec

(***************************************************************************)
(* Every element is reported once                                          *)
(***************************************************************************)
\* The first n frames are of the elements they were of.
SameIds(n) == \A i \in 1 .. n : stack'[i].id = stack[i].id /\ stack'[i].call = stack[i].call

NoneComes == /\ NoneEntered(Len(stack)) /\ SameIds(Len(stack))
             /\ UNCHANGED failed

VertexComes(v) == /\ VertexEntered(v, Len(stack)) /\ SameIds(Len(stack))
                  /\ v \in Vertices /\ UNCHANGED failed

EdgeComes(e) == /\ EdgeEntered(e, Len(stack)) /\ SameIds(Len(stack))
                /\ e \in Edges /\ UNCHANGED failed

TopGoes(call) ==
  /\ Len(stack) > 0 /\ Len(stack') = Len(stack) - 1 /\ SameIds(Len(stack) - 1)
  /\ stack[Len(stack)].call = call
  /\ IF call = "vertex" THEN VertexReturns ELSE EdgeReturns
  /\ told' = IF call = "vertex" THEN told
             ELSE [told EXCEPT ![stack[Len(stack)].id] = @ + 1]
  /\ UNCHANGED <<vertex_list, edge_list, edge_doc, failed>>

AllGo == failed' = TRUE /\ stack' = <<>> /\ UNCHANGED <<vertex_list, edge_list, told>>

\* What a step does to the frames: one is entered, one or all are left, or they stay.
LEMMA FramesChange ==
  ASSUME TypeOK, Listed, Next
  PROVE  \/ NoneComes
         \/ \E v : VertexComes(v)
         \/ \E e : EdgeComes(e)
         \/ TopGoes("vertex")
         \/ TopGoes("edge")
         \/ AllGo
<1> DEFINE n == Len(stack)
<1>0. stack \in Seq(Frames)
  BY DEF TypeOK, Frames
<1>1. CASE Start
  <2>1. n = 0 /\ UNCHANGED failed
    BY <1>1, StartDoes
  <2>2. \/ NoneEntered(0)
        \/ \E v \in ids : kind = "vertex" /\ VertexEntered(v, 0)
        \/ \E e \in ids : kind = "edge" /\ EdgeEntered(e, 0)
    BY <1>1, StartDoes
  <2>3. SameIds(0)
    BY DEF SameIds
  <2>4. kind = "vertex" => ids \subseteq Vertices
    BY DEF TypeOK
  <2>5. kind = "edge" => ids \subseteq Edges
    BY DEF TypeOK
  <2> QED BY <2>1, <2>2, <2>3, <2>4, <2>5 DEF NoneComes, VertexComes, EdgeComes
<1>2. CASE QueryEdges
  BY <1>2, QueryEdgesDoes DEF NoneComes, NoneEntered, SameIds, Same, VertexFrames
<1>3. CASE NextEdge
  <2>1. PICK e \in stack[n].left :
          /\ stack'[n].call = "vertex" /\ stack'[n].id = stack[n].id
          /\ NoneEntered(n) \/ EdgeEntered(e, n)
    BY <1>3, NextEdgeDoes
  <2>2. /\ n \in Nat \ {0} /\ stack[n] \in VertexFrames /\ Same(n - 1) /\ UNCHANGED failed
    BY <1>3, NextEdgeDoes
  <2>3. e \in Edges /\ SameIds(n)
    BY <2>1, <2>2 DEF VertexFrames, Same, SameIds
  <2> QED BY <2>1, <2>2, <2>3 DEF NoneComes, EdgeComes
<1>4. CASE VertexReturns
  BY <1>4, ReturnDoes DEF VertexReturns, Running, TopGoes, Same, SameIds
<1>5. ASSUME NEW end, NEW way, NEW after, Follows(end, way, after)
      PROVE  NoneComes \/ \E v : VertexComes(v)
  <2>1. /\ NoneEntered(n) \/ VertexEntered(end, n)
        /\ end \in Vertices /\ UNCHANGED failed
    BY <1>5 DEF Follows
  <2>2. SameIds(n)
    BY <1>5 DEF Follows, Same, SameIds, EdgeFrames
  <2> QED BY <2>1, <2>2 DEF NoneComes, VertexComes
<1>6. CASE FollowFrom
  BY <1>5, <1>6, FollowFromDoes
<1>7. CASE FollowTo
  BY <1>5, <1>7, FollowToDoes
<1>8. CASE EdgeReturns
  <2>1. /\ n \in Nat \ {0} /\ top = stack[n] /\ Len(stack') = n - 1 /\ Same(n - 1)
        /\ top.call = "edge"
        /\ UNCHANGED <<vertex_list, edge_list, edge_doc, failed>>
    BY <1>8, ReturnDoes DEF EdgeReturns, Running
  <2>2. told' = [told EXCEPT ![stack[n].id] = @ + 1]
    BY <1>8, <2>1 DEF EdgeReturns
  <2> HIDE DEF n
  <2>3. SameIds(n - 1)
    BY <2>1 DEF Same, SameIds
  <2> QED BY <1>8, <2>1, <2>2, <2>3 DEF TopGoes, n
<1>9. CASE Throw
  <2>1. failed' = TRUE
    BY <1>9 DEF Throw
  <2> QED BY <1>9, <2>1 DEF Throw, AllGo
<1>10. CASE Over
  BY <1>10 DEF Over, vars, NoneComes, NoneEntered, SameIds
<1> QED BY <1>1, <1>2, <1>3, <1>4, <1>6, <1>7, <1>8, <1>9, <1>10 DEF Next, Walk

\* The frames that are left, and the one entered.
LEMMA HasFrameChange ==
  ASSUME TypeOK, NEW x
  PROVE  /\ NoneComes => (HasFrame(x)' <=> HasFrame(x))
         /\ \A v : VertexComes(v) => (HasFrame(x)' <=> HasFrame(x) \/ x = v)
         /\ \A e : EdgeComes(e)   => (HasFrame(x)' <=> HasFrame(x) \/ x = e)
         /\ \A call : TopGoes(call) =>
              /\ HasFrame(x)' => HasFrame(x)
              /\ HasFrame(x) => HasFrame(x)' \/ x = stack[Len(stack)].id
<1> DEFINE n == Len(stack)
<1>1. n \in Nat
  BY DEF TypeOK
<1>2. ASSUME NoneComes PROVE HasFrame(x)' <=> HasFrame(x)
  BY <1>1, <1>2 DEF NoneComes, NoneEntered, SameIds, HasFrame
<1>3. ASSUME NEW v, Len(stack') = n + 1, SameIds(n), stack'[n + 1].id = v
      PROVE  HasFrame(x)' <=> HasFrame(x) \/ x = v
  <2> HIDE DEF n
  <2>1. ASSUME HasFrame(x)' PROVE HasFrame(x) \/ x = v
    <3>1. PICK i \in 1 .. Len(stack') : stack'[i].id = x
      BY <2>1 DEF HasFrame
    <3>2. i \in 1 .. n \/ i = n + 1
      BY <1>1, <1>3
    <3> QED BY <1>3, <3>1, <3>2 DEF HasFrame, SameIds, n
  <2>2. ASSUME HasFrame(x) PROVE HasFrame(x)'
    <3>1. PICK i \in 1 .. n : stack[i].id = x
      BY <2>2 DEF HasFrame, n
    <3>2. i \in 1 .. Len(stack') /\ stack'[i].id = x
      BY <1>1, <1>3, <3>1 DEF SameIds
    <3> QED BY <3>2 DEF HasFrame
  <2>3. ASSUME x = v PROVE HasFrame(x)'
    <3>1. n + 1 \in 1 .. Len(stack')
      BY <1>1, <1>3
    <3> QED BY <1>3, <2>3, <3>1 DEF HasFrame
  <2> QED BY <2>1, <2>2, <2>3
<1>4. ASSUME NEW v, VertexComes(v) PROVE HasFrame(x)' <=> HasFrame(x) \/ x = v
  BY <1>3, <1>4 DEF VertexComes, VertexEntered
<1>5. ASSUME NEW e, EdgeComes(e) PROVE HasFrame(x)' <=> HasFrame(x) \/ x = e
  BY <1>3, <1>5 DEF EdgeComes, EdgeEntered
<1>6. ASSUME NEW call, TopGoes(call)
      PROVE  /\ HasFrame(x)' => HasFrame(x)
             /\ HasFrame(x) => HasFrame(x)' \/ x = stack[n].id
  <2>1. Len(stack') = n - 1 /\ SameIds(n - 1) /\ n > 0
    BY <1>6 DEF TopGoes
  <2> HIDE DEF n
  <2>2. HasFrame(x)' => HasFrame(x)
    BY <1>1, <2>1 DEF HasFrame, SameIds, n
  <2>3. ASSUME HasFrame(x) PROVE HasFrame(x)' \/ x = stack[n].id
    <3>1. PICK i \in 1 .. n : stack[i].id = x
      BY <2>3 DEF HasFrame, n
    <3>2. CASE i = n
      BY <3>1, <3>2
    <3>3. CASE i \in 1 .. n - 1
      BY <2>1, <3>1, <3>3 DEF HasFrame, SameIds
    <3> QED BY <1>1, <3>1, <3>2, <3>3
  <2> QED BY <2>2, <2>3
<1> QED BY <1>2, <1>4, <1>5, <1>6

\* One step keeps the frames of the edges apart.
LEMMA StepOneFrame ==
  ASSUME TypeOK, Listed, OneFrame, Next
  PROVE  OneFrame'
<1> DEFINE n == Len(stack)
<1>1. n \in Nat
  BY DEF TypeOK
<1>2. CASE NoneComes
  BY <1>2 DEF NoneComes, NoneEntered, SameIds, OneFrame, IsFrame
<1>3. ASSUME NEW v, VertexComes(v) PROVE OneFrame'
  BY <1>1, <1>3 DEF VertexComes, VertexEntered, SameIds, OneFrame, IsFrame
<1>4. ASSUME NEW e, EdgeComes(e) PROVE OneFrame'
  <2>1. /\ Len(stack') = n + 1 /\ SameIds(n) /\ stack'[n + 1].id = e /\ e \notin edge_list
    BY <1>4 DEF EdgeComes, EdgeEntered
  <2>2. \A i \in 1 .. n : stack'[i].call = "edge" => stack'[i].id \in edge_list
    BY <2>1 DEF SameIds, Listed, IsFrame
  <2> HIDE DEF n
  <2> SUFFICES ASSUME NEW i \in 1 .. n + 1, NEW j \in 1 .. n + 1,
                      stack'[i].call = "edge", stack'[j].call = "edge",
                      stack'[i].id = stack'[j].id
               PROVE  i = j
    BY <2>1 DEF OneFrame, IsFrame
  <2>3. CASE i = n + 1 /\ j = n + 1
    BY <2>3
  <2>4. CASE i \in 1 .. n /\ j \in 1 .. n
    BY <2>1, <2>4 DEF SameIds, OneFrame, IsFrame, n
  <2> QED BY <1>1, <2>1, <2>2, <2>3, <2>4
<1>5. ASSUME NEW call, TopGoes(call) PROVE OneFrame'
  BY <1>1, <1>5 DEF TopGoes, SameIds, OneFrame, IsFrame
<1>6. CASE AllGo
  BY <1>6 DEF AllGo, OneFrame
<1> QED BY <1>2, <1>3, <1>4, <1>5, <1>6, FramesChange

\* One step keeps the reports in agreement with what is visited.
LEMMA StepToldInv ==
  ASSUME TypeOK, Listed, OneFrame, ToldInv, Next
  PROVE  ToldInv'
<1>1. CASE NoneComes
  <2>1. \A x : HasFrame(x)' <=> HasFrame(x)
    BY <1>1, HasFrameChange
  <2> QED BY <1>1, <2>1 DEF NoneComes, NoneEntered, ToldInv
<1>2. ASSUME NEW v, VertexComes(v) PROVE ToldInv'
  <2>1. \A e \in Edges : e # v /\ (HasFrame(e)' <=> HasFrame(e))
    BY <1>2, HasFrameChange DEF VertexComes
  <2>2. /\ told' = [told EXCEPT ![v] = @ + 1] /\ vertex_list' = vertex_list \cup {v}
        /\ v \in Vertices /\ v \notin vertex_list /\ UNCHANGED <<edge_list, failed>>
    BY <1>2 DEF VertexComes, VertexEntered
  <2>3. told \in [Elements -> Nat] /\ Vertices \subseteq Elements /\ Edges \subseteq Elements
    BY DEF TypeOK, Elements
  <2> QED BY <2>1, <2>2, <2>3 DEF ToldInv
<1>3. ASSUME NEW e, EdgeComes(e) PROVE ToldInv'
  <2>1. \A x : HasFrame(x)' <=> HasFrame(x) \/ x = e
    BY <1>3, HasFrameChange
  <2>2. /\ e \notin edge_list /\ edge_list' = edge_list \cup {e} /\ e \in Edges
        /\ UNCHANGED <<vertex_list, told, failed>>
    BY <1>3 DEF EdgeComes, EdgeEntered
  <2> QED BY <2>1, <2>2 DEF ToldInv
<1>4. CASE TopGoes("vertex")
  <2>1. stack[Len(stack)].id \in vertex_list
    BY <1>4 DEF TopGoes, Listed, IsFrame, TypeOK
  <2>2. stack[Len(stack)].id \notin Edges
    BY <2>1 DEF TypeOK
  <2>3. \A e \in Edges : HasFrame(e)' <=> HasFrame(e)
    BY <1>4, <2>2, HasFrameChange
  <2> QED BY <1>4, <2>3 DEF TopGoes, ToldInv
<1>5. CASE TopGoes("edge")
  <2> DEFINE n == Len(stack)
  <2>0. PICK e : e = stack[n].id
    OBVIOUS
  <2>1. /\ n \in Nat \ {0} /\ Len(stack') = n - 1 /\ SameIds(n - 1) /\ stack[n].call = "edge"
        /\ told' = [told EXCEPT ![e] = @ + 1]
        /\ UNCHANGED <<vertex_list, edge_list, failed>>
    BY <1>5, <2>0 DEF TopGoes, TypeOK
  <2>2. e \in edge_list /\ e \in Edges
    BY <2>0, <2>1 DEF Listed, IsFrame, TypeOK
  <2>3. HasFrame(e)
    BY <2>0, <2>1 DEF HasFrame
  <2>4. ~HasFrame(e)'
    <3>1. SUFFICES ASSUME NEW i \in 1 .. n - 1, stack'[i].id = e PROVE FALSE
      BY <2>1 DEF HasFrame
    <3>2. stack[i].id = e
      BY <2>1, <3>1 DEF SameIds
    <3>3. stack[i].call = "edge"
      <4>1. stack[i].id \notin vertex_list
        BY <2>2, <3>2 DEF TypeOK
      <4>2. stack[i] \in Frames
        BY <2>1 DEF TypeOK, Frames
      <4>3. i \in 1 .. Len(stack)
        BY <2>1
      <4> QED BY <4>1, <4>2, <4>3 DEF Listed, IsFrame, Frames, VertexFrames, EdgeFrames
    <3> QED BY <2>0, <2>1, <3>2, <3>3 DEF OneFrame, IsFrame
  <2>5. \A x : x # e => (HasFrame(x)' <=> HasFrame(x))
    BY <1>5, <2>0, HasFrameChange
  <2>6. told \in [Elements -> Nat] /\ Vertices \subseteq Elements /\ Edges \subseteq Elements
    BY DEF TypeOK, Elements
  <2>7. \A v \in Vertices : told'[v] = told[v]
    BY <2>1, <2>2, <2>6
  <2>8. told[e] = 0
    BY <2>2, <2>3 DEF ToldInv
  <2>9. told'[e] = 1
    BY <2>1, <2>2, <2>6, <2>8
  <2>10. \A f \in Edges : f # e => told'[f] = told[f]
    BY <2>1, <2>2, <2>6
  <2> QED BY <2>1, <2>2, <2>4, <2>5, <2>7, <2>9, <2>10 DEF ToldInv
<1>6. CASE AllGo
  <2>1. \A x : ~HasFrame(x)'
    BY <1>6 DEF AllGo, HasFrame
  <2> QED BY <1>6, <2>1 DEF AllGo, ToldInv
<1> QED BY <1>1, <1>2, <1>3, <1>4, <1>5, <1>6, FramesChange

LEMMA ToldHolds == Spec => [](OneFrame /\ ToldInv)
<1>1. Init => OneFrame /\ ToldInv
  BY DEF Init, OneFrame, ToldInv, Elements
<1>2. /\ TypeOK /\ Listed /\ OneFrame /\ ToldInv /\ [Next]_vars
      => OneFrame' /\ ToldInv'
  <2>1. CASE UNCHANGED vars
    BY <2>1 DEF vars, OneFrame, ToldInv, IsFrame, HasFrame
  <2> QED BY <2>1, StepOneFrame, StepToldInv
<1> QED BY <1>1, <1>2, ListedHolds, PTL DEF Spec

\* The caller is told of no element twice, and when a walk ends without an
\* exception it has been told of exactly the elements visited.
THEOREM EachReportedOnce == Spec => []ReportedOnce
<1>1. TypeOK /\ ToldInv => ReportedOnce
  <2> SUFFICES ASSUME TypeOK, ToldInv PROVE ReportedOnce
    OBVIOUS
  <2>1. \A x \in Elements : told[x] <= 1
    BY DEF ToldInv, Elements
  <2>2. ASSUME Done, NEW x \in Elements PROVE (told[x] = 1) <=> x \in vertex_list \cup edge_list
    <3>1. ~HasFrame(x) /\ ~failed
      BY <2>2 DEF Done, HasFrame
    <3>2. CASE x \in Vertices
      BY <3>2 DEF ToldInv, TypeOK
    <3>3. CASE x \in Edges
      BY <3>1, <3>3 DEF ToldInv, TypeOK
    <3> QED BY <3>2, <3>3 DEF Elements
  <2> QED BY <2>1, <2>2 DEF ReportedOnce
<1> QED BY <1>1, ListedHolds, ToldHolds, PTL

(***************************************************************************)
(* Edges after their ends                                                  *)
(***************************************************************************)
\* Frame i is the one it was, and below the running one or nothing has changed.
FrameStays(i) ==
  /\ i \in 1 .. Len(stack) /\ stack'[i] = stack[i]
  /\ i < Len(stack) \/ UNCHANGED <<stack, edge_doc>>

VertexFrameNew(i) == /\ VertexComes(stack'[i].id) /\ stack'[i].call = "vertex"
                     /\ stack'[i].next = "out" /\ stack'[i].left = {}

\* A frame of parseEdge is entered from one of parseVertex, or the walk starts there.
EdgeFrameNew(i) ==
  /\ EdgeComes(stack'[i].id) /\ i = Len(stack) + 1
  /\ stack'[i].call = "edge" /\ stack'[i].next = "from"
  /\ \/ Start /\ kind = "edge"
     \/ /\ Len(stack) > 0 /\ stack[Len(stack)].call = "vertex"
        /\ stack'[i].id \in stack[Len(stack)].left

\* What a frame was before the step.
LEMMA FrameWas ==
  ASSUME TypeOK, Listed, Next, NEW i \in 1 .. Len(stack')
  PROVE  \/ FrameStays(i)
         \/ VertexFrameNew(i)
         \/ EdgeFrameNew(i)
         \/ i = Len(stack) /\ (QueryEdges \/ NextEdge \/ FollowFrom \/ FollowTo)
<1> DEFINE n == Len(stack)
<1>0. n \in Nat
  BY DEF TypeOK
<1>1. CASE Start
  <2>1. n = 0 /\ UNCHANGED failed
    BY <1>1, StartDoes
  <2>2. \/ NoneEntered(0)
        \/ \E v \in ids : kind = "vertex" /\ VertexEntered(v, 0)
        \/ \E e \in ids : kind = "edge" /\ EdgeEntered(e, 0)
    BY <1>1, StartDoes
  <2>3. SameIds(0)
    BY DEF SameIds
  <2>4. CASE NoneEntered(0)
    BY <2>4 DEF NoneEntered
  <2>5. ASSUME NEW v \in ids, kind = "vertex", VertexEntered(v, 0) PROVE VertexFrameNew(i)
    <3>1. i = 1 /\ v \in Vertices
      BY <2>5 DEF VertexEntered, TypeOK
    <3>2. stack'[i] = [call |-> "vertex", id |-> v, next |-> "out", left |-> {}]
      BY <2>5, <3>1 DEF VertexEntered
    <3> QED BY <2>1, <2>3, <2>5, <3>1, <3>2 DEF VertexEntered, VertexFrameNew, VertexComes
  <2>6. ASSUME NEW e \in ids, kind = "edge", EdgeEntered(e, 0) PROVE EdgeFrameNew(i)
    <3>1. i = 1 /\ e \in Edges
      BY <2>6 DEF EdgeEntered, TypeOK
    <3> QED BY <1>1, <2>1, <2>3, <2>6, <3>1 DEF EdgeEntered, EdgeFrameNew, EdgeComes
  <2> QED BY <2>2, <2>4, <2>5, <2>6
<1>2. CASE QueryEdges
  <2>1. n \in Nat \ {0} /\ Len(stack') = n /\ Same(n - 1)
    BY <1>2, QueryEdgesDoes
  <2> QED BY <1>2, <2>1 DEF Same, FrameStays
<1>3. CASE NextEdge
  <2>1. PICK e \in stack[n].left :
          /\ stack'[n].call = "vertex" /\ stack'[n].id = stack[n].id
          /\ NoneEntered(n) \/ EdgeEntered(e, n)
    BY <1>3, NextEdgeDoes
  <2>2. /\ n \in Nat \ {0} /\ stack[n] \in VertexFrames /\ Same(n - 1) /\ UNCHANGED failed
    BY <1>3, NextEdgeDoes
  <2>3. e \in Edges /\ SameIds(n) /\ stack[n].call = "vertex"
    BY <2>1, <2>2 DEF VertexFrames, Same, SameIds
  <2>4. CASE i \in 1 .. n - 1
    BY <2>2, <2>4 DEF Same, FrameStays
  <2>5. CASE i = n + 1 /\ EdgeEntered(e, n)
    <3>1. stack'[i] = [call |-> "edge", id |-> e, next |-> "from"]
      BY <2>5 DEF EdgeEntered
    <3> QED BY <2>1, <2>2, <2>3, <2>5, <3>1 DEF EdgeFrameNew, EdgeComes
  <2>6. i \in 1 .. n - 1 \/ i = n \/ (i = n + 1 /\ EdgeEntered(e, n))
    BY <2>1, <2>2 DEF NoneEntered, EdgeEntered
  <2> QED BY <1>3, <2>4, <2>5, <2>6
<1>4. ASSUME NEW end, NEW way, NEW after, Follows(end, way, after), i # n
      PROVE  FrameStays(i) \/ VertexFrameNew(i)
  <2>1. /\ n \in Nat \ {0} /\ Same(n - 1) /\ end \in Vertices /\ UNCHANGED failed
        /\ NoneEntered(n) \/ VertexEntered(end, n)
    BY <1>4 DEF Follows
  <2>2. SameIds(n)
    BY <1>4 DEF Follows, Same, SameIds, EdgeFrames
  <2>3. i \in 1 .. n - 1 \/ (i = n + 1 /\ VertexEntered(end, n))
    BY <1>4, <2>1 DEF NoneEntered, VertexEntered
  <2>4. CASE i \in 1 .. n - 1
    BY <2>1, <2>4 DEF Same, FrameStays
  <2>5. CASE i = n + 1 /\ VertexEntered(end, n)
    <3>1. stack'[i] = [call |-> "vertex", id |-> end, next |-> "out", left |-> {}]
      BY <2>5 DEF VertexEntered
    <3> QED BY <2>1, <2>2, <2>5, <3>1 DEF VertexFrameNew, VertexComes
  <2> QED BY <2>3, <2>4, <2>5
<1>5. CASE FollowFrom
  BY <1>4, <1>5, FollowFromDoes
<1>6. CASE FollowTo
  BY <1>4, <1>6, FollowToDoes
<1>7. CASE VertexReturns \/ EdgeReturns
  <2>1. n \in Nat \ {0} /\ Len(stack') = n - 1 /\ Same(n - 1)
    BY <1>7, ReturnDoes DEF VertexReturns, EdgeReturns, Running
  <2> QED BY <2>1 DEF Same, FrameStays
<1>8. CASE Throw
  BY <1>8 DEF Throw
<1>9. CASE Over
  BY <1>9 DEF Over, vars, FrameStays
<1> QED BY <1>1, <1>2, <1>3, <1>5, <1>6, <1>7, <1>8, <1>9 DEF Next, Walk

\* Nothing is taken off the lists.
LEMMA ListsGrow ==
  ASSUME TypeOK, Listed, Next
  PROVE  /\ vertex_list \subseteq vertex_list' /\ edge_list \subseteq edge_list'
         /\ EdgesOf(vertex_list) \subseteq EdgesOf(vertex_list)'
<1>1. vertex_list \subseteq vertex_list' /\ edge_list \subseteq edge_list'
  BY FramesChange DEF NoneComes, NoneEntered, VertexComes, VertexEntered, EdgeComes,
                      EdgeEntered, TopGoes, AllGo
<1> QED BY <1>1, SameGraph DEF EdgesOf, graph

\* One step leaves the frames of parseVertex edges of visited vertices only.
LEMMA StepLeftReached ==
  ASSUME TypeOK, Listed, LeftReached, Next
  PROVE  LeftReached'
<1> DEFINE n == Len(stack)
<1> SUFFICES ASSUME NEW i \in 1 .. Len(stack'), stack'[i].call = "vertex"
             PROVE  stack'[i].left \subseteq EdgesOf(vertex_list)'
  BY DEF LeftReached, IsFrame
<1>1. CASE FrameStays(i)
  BY <1>1, ListsGrow DEF FrameStays, LeftReached, IsFrame
<1>2. CASE VertexFrameNew(i)
  BY <1>2 DEF VertexFrameNew
<1>3. CASE EdgeFrameNew(i)
  BY <1>3 DEF EdgeFrameNew
<1>4. CASE i = n /\ QueryEdges
  <2>1. /\ n \in Nat \ {0} /\ stack[n].call = "vertex"
        /\ stack'[n].left \subseteq EdgesOf({stack[n].id})
    BY <1>4, QueryEdgesDoes DEF VertexFrames
  <2>2. stack[n].id \in vertex_list
    BY <2>1 DEF Listed, IsFrame
  <2>3. EdgesOf({stack[n].id}) \subseteq EdgesOf(vertex_list)
    BY <2>2 DEF EdgesOf
  <2> QED BY <1>4, <2>1, <2>3, ListsGrow
<1>5. CASE i = n /\ NextEdge
  <2>1. /\ n \in Nat \ {0} /\ stack[n].call = "vertex" /\ stack'[n].left \subseteq stack[n].left
    BY <1>5, NextEdgeDoes DEF VertexFrames
  <2> QED BY <1>5, <2>1, ListsGrow DEF LeftReached, IsFrame
<1>6. CASE i = n /\ (FollowFrom \/ FollowTo)
  BY <1>6, FollowFromDoes, FollowToDoes DEF Follows
<1> QED BY <1>1, <1>2, <1>3, <1>4, <1>5, <1>6, FrameWas

\* One step leaves every frame of parseEdge where it should stand, in a walk from
\* vertices.
LEMMA StepEdgeFrameNear ==
  ASSUME TypeOK, Listed, LeftReached, EndsInv, kind = "vertex", Next,
         NEW i \in 1 .. Len(stack'), stack'[i].call = "edge"
  PROVE  EdgeFrameNear(i)'
<1> DEFINE n == Len(stack)
<1>0. n \in Nat
  BY DEF TypeOK
<1>1. PICK e : e = stack'[i].id
  OBVIOUS
<1>2. UNCHANGED <<from, to, trav_type>>
  BY SameGraph DEF graph
<1>3. SUFFICES /\ e \in EdgesOf(vertex_list)'
               /\ stack'[i].next = "from" => i = Len(stack') /\ edge_doc' = e
               /\ stack'[i].next = "to" =>
                    /\ from[e] \in vertex_list'
                    /\ \/ to[e] \in vertex_list'
                       \/ "out" \in trav_type /\ i = Len(stack') /\ edge_doc' = e
               /\ stack'[i].next = "end" => from[e] \in vertex_list' /\ to[e] \in vertex_list'
  BY <1>1, <1>2 DEF EdgeFrameNear
<1>4. ASSUME i \in 1 .. n, stack[i].call = "edge", stack[i].id = e
      PROVE  /\ e \in EdgesOf(vertex_list)
             /\ stack[i].next = "from" => i = n /\ edge_doc = e
             /\ stack[i].next = "to" =>
                  /\ from[e] \in vertex_list
                  /\ to[e] \in vertex_list \/ ("out" \in trav_type /\ i = n /\ edge_doc = e)
             /\ stack[i].next = "end" => from[e] \in vertex_list /\ to[e] \in vertex_list
  BY <1>4 DEF EndsInv, EdgeFrameNear, IsFrame
<1>5. CASE FrameStays(i)
  <2>1. i \in 1 .. n /\ stack'[i] = stack[i] /\ (i < n \/ UNCHANGED <<stack, edge_doc>>)
    BY <1>5 DEF FrameStays
  <2>2. CASE i < n
    BY <1>0, <1>1, <1>4, <2>1, <2>2, ListsGrow
  <2>3. CASE UNCHANGED <<stack, edge_doc>>
    BY <1>1, <1>4, <2>1, <2>3, ListsGrow
  <2> QED BY <2>1, <2>2, <2>3
<1>6. CASE VertexFrameNew(i)
  BY <1>6 DEF VertexFrameNew
<1>7. CASE EdgeFrameNew(i)
  <2>1. n > 0 /\ stack[n].call = "vertex" /\ e \in stack[n].left
    BY <1>1, <1>7 DEF EdgeFrameNew
  <2>2. e \in EdgesOf(vertex_list)
    BY <1>0, <2>1 DEF LeftReached, IsFrame
  <2>3. stack'[i].next = "from" /\ i = Len(stack') /\ edge_doc' = e
    BY <1>1, <1>7 DEF EdgeFrameNew, EdgeComes, EdgeEntered
  <2> QED BY <2>2, <2>3, ListsGrow
<1>8. CASE i = n /\ (QueryEdges \/ NextEdge)
  BY <1>8, QueryEdgesDoes, NextEdgeDoes
<1>9. ASSUME NEW end, NEW way, NEW after, Follows(end, way, after), i = n
      PROVE  /\ i \in 1 .. n /\ stack[i].call = "edge" /\ stack[i].id = e /\ stack'[i].next = after
             /\ way \in trav_type => end \in vertex_list'
             /\ \/ Len(stack') = n /\ UNCHANGED edge_doc
                \/ end \notin vertex_list
  BY <1>1, <1>9 DEF Follows, EdgeFrames, NoneEntered, VertexEntered
<1>10. CASE i = n /\ FollowFrom
  <2>1. stack[i].next = "from" /\ Follows(from[edge_doc], "in", "to")
    BY <1>10, FollowFromDoes
  <2>2. /\ i \in 1 .. n /\ stack[i].call = "edge" /\ stack[i].id = e /\ stack'[i].next = "to"
        /\ "in" \in trav_type => from[edge_doc] \in vertex_list'
        /\ \/ Len(stack') = n /\ UNCHANGED edge_doc
           \/ from[edge_doc] \notin vertex_list
    BY <1>9, <1>10, <2>1
  <2>3. edge_doc = e /\ e \in EdgesOf(vertex_list)
    BY <1>4, <2>1, <2>2
  <2>4. from[e] \in vertex_list'
    BY <2>2, <2>3, ListsGrow DEF EdgesOf
  <2>5. to[e] \in vertex_list' \/ ("out" \in trav_type /\ i = Len(stack') /\ edge_doc' = e)
    BY <1>10, <2>2, <2>3, ListsGrow DEF EdgesOf
  <2> QED BY <2>2, <2>3, <2>4, <2>5, ListsGrow
<1>11. CASE i = n /\ FollowTo
  <2>1. stack[i].next = "to" /\ Follows(to[edge_doc], "out", "end")
    BY <1>11, FollowToDoes
  <2>2. /\ i \in 1 .. n /\ stack[i].call = "edge" /\ stack[i].id = e /\ stack'[i].next = "end"
        /\ "out" \in trav_type => to[edge_doc] \in vertex_list'
    BY <1>9, <1>11, <2>1
  <2>3. from[e] \in vertex_list /\ (to[e] \in vertex_list \/ ("out" \in trav_type /\ edge_doc = e))
    BY <1>4, <2>1, <2>2
  <2> QED BY <1>4, <2>2, <2>3, ListsGrow
<1> QED BY <1>5, <1>6, <1>7, <1>8, <1>10, <1>11, FrameWas

LEMMA StepEndsInv ==
  ASSUME TypeOK, Listed, LeftReached, EndsInv, Next
  PROVE  EndsInv'
<1> SUFFICES ASSUME kind = "vertex"
             PROVE  /\ \A i \in 1 .. Len(stack') : stack'[i].call = "edge" => EdgeFrameNear(i)'
                    /\ \A e \in Edges : told'[e] > 0 =>
                         from[e] \in vertex_list' /\ to[e] \in vertex_list'
  BY SameGraph DEF EndsInv, IsFrame, graph
<1>1. ASSUME NEW e \in Edges, told'[e] > 0
      PROVE  from[e] \in vertex_list /\ to[e] \in vertex_list
  <2>1. CASE told'[e] = told[e]
    BY <1>1, <2>1 DEF EndsInv
  <2>2. CASE EdgeReturns
    <3> DEFINE n == Len(stack)
    <3>1. n \in Nat \ {0} /\ stack[n].call = "edge" /\ stack[n].next = "end"
      BY <2>2, TopIs DEF EdgeReturns, Running
    <3>2. from[stack[n].id] \in vertex_list /\ to[stack[n].id] \in vertex_list
      BY <3>1 DEF EndsInv, EdgeFrameNear, IsFrame
    <3>3. CASE e = stack[n].id
      BY <3>2, <3>3
    <3>4. CASE e # stack[n].id
      <4>1. told'[e] = told[e]
        BY <2>2, <3>1, <3>4, TopIs DEF EdgeReturns, TypeOK, top
      <4> QED BY <2>1, <4>1
    <3> QED BY <3>3, <3>4
  <2>3. CASE ~EdgeReturns
    <3>1. told'[e] = told[e] \/ \E v \in Vertices : told' = [told EXCEPT ![v] = @ + 1]
      <4>1. CASE Start
        BY <4>1, StartDoes DEF NoneEntered, VertexEntered, EdgeEntered, TypeOK
      <4>2. CASE QueryEdges
        BY <4>2 DEF QueryEdges
      <4>3. CASE NextEdge
        BY <4>3 DEF NextEdge
      <4>4. CASE VertexReturns
        BY <4>4 DEF VertexReturns
      <4>5. CASE FollowFrom
        BY <4>5, FollowFromDoes DEF Follows, NoneEntered, VertexEntered
      <4>6. CASE FollowTo
        BY <4>6, FollowToDoes DEF Follows, NoneEntered, VertexEntered
      <4>7. CASE Throw \/ Over
        BY <4>7 DEF Throw, Over, vars
      <4> QED BY <2>3, <4>1, <4>2, <4>3, <4>4, <4>5, <4>6, <4>7 DEF Next, Walk
    <3>2. told'[e] = told[e]
      BY <3>1 DEF TypeOK, Elements
    <3> QED BY <2>1, <3>2
  <2> QED BY <2>2, <2>3
<1>2. \A e \in Edges : told'[e] > 0 => from[e] \in vertex_list' /\ to[e] \in vertex_list'
  BY <1>1, ListsGrow
<1> QED BY <1>2, StepEdgeFrameNear

LEMMA EndsHold == Spec => [](LeftReached /\ EndsInv)
<1>1. Init => LeftReached /\ EndsInv
  BY DEF Init, LeftReached, EndsInv, Elements
<1>2. /\ TypeOK /\ Listed /\ LeftReached /\ EndsInv /\ [Next]_vars
      => LeftReached' /\ EndsInv'
  <2>1. CASE UNCHANGED vars
    BY <2>1 DEF vars, graph, LeftReached, EndsInv, EdgeFrameNear, EdgesOf, IsFrame
  <2> QED BY <2>1, StepLeftReached, StepEndsInv
<1> QED BY <1>1, <1>2, ListedHolds, PTL DEF Spec

\* In a walk from vertices the caller is told of an edge only after it has been
\* told of both vertices the edge links.
THEOREM EdgesAfterEnds == Spec => []EdgeAfterEnds
<1>1. TypeOK /\ ToldInv /\ EndsInv => EdgeAfterEnds
  <2> SUFFICES ASSUME TypeOK, ToldInv, EndsInv, kind = "vertex", NEW e \in Edges, told[e] > 0
               PROVE  told[from[e]] > 0 /\ told[to[e]] > 0
    BY DEF EdgeAfterEnds
  <2>1. /\ from[e] \in vertex_list /\ to[e] \in vertex_list
        /\ from[e] \in Vertices /\ to[e] \in Vertices
    BY DEF EndsInv, TypeOK
  <2> QED BY <2>1 DEF ToldInv
<1> QED BY <1>1, ListedHolds, ToldHolds, EndsHold, PTL

(***************************************************************************)
(* Everything is visited                                                   *)
(***************************************************************************)
\* No walk starts from edges and goes both ways from them.
OneWayFromEdges == <<"edge", {"in", "out"}>> \notin Starts

WalkInv == <<kind, trav_type>> \in Starts

\* One step leaves a frame of parseVertex the edges of its vertex it has to follow.
LEMMA StepVertexFrameOwes ==
  ASSUME TypeOK, Listed, OweInv, ~failed, Next,
         NEW i \in 1 .. Len(stack'), stack'[i].call = "vertex"
  PROVE  VertexFrameOwes(i)'
<1> DEFINE n == Len(stack)
<1>0. UNCHANGED <<from, to, trav_type>>
  BY SameGraph DEF graph
<1>1. PICK v : v = stack'[i].id
  OBVIOUS
<1>2. PICK seen : seen = edge_list \cup stack[i].left
  OBVIOUS
<1>3. PICK seenNow : seenNow = edge_list' \cup stack'[i].left
  OBVIOUS
<1>4. SUFFICES /\ stack'[i].next = "in" /\ "out" \in trav_type =>
                    \A e \in Edges : from[e] = v => e \in seenNow
               /\ stack'[i].next = "end" => EdgesOf({v}) \subseteq seenNow
  BY <1>0, <1>1, <1>3 DEF VertexFrameOwes, EdgesOf
<1>5. ASSUME i \in 1 .. n, stack[i].call = "vertex", stack[i].id = v
      PROVE  /\ stack[i].next = "in" /\ "out" \in trav_type =>
                  \A e \in Edges : from[e] = v => e \in seen
             /\ stack[i].next = "end" => EdgesOf({v}) \subseteq seen
  BY <1>2, <1>5 DEF OweInv, VertexFrameOwes, IsFrame
<1>6. CASE FrameStays(i)
  <2>1. seen \subseteq seenNow
    BY <1>2, <1>3, <1>6, ListsGrow DEF FrameStays
  <2> QED BY <1>1, <1>5, <1>6, <2>1 DEF FrameStays
<1>7. CASE VertexFrameNew(i)
  BY <1>7 DEF VertexFrameNew
<1>8. CASE EdgeFrameNew(i)
  BY <1>8 DEF EdgeFrameNew
<1>9. CASE i = n /\ QueryEdges
  <2>1. /\ i \in 1 .. n /\ stack[i].call = "vertex" /\ stack[i].id = v /\ stack[i].left = {}
        /\ UNCHANGED edge_list
        /\ \/ /\ stack[i].next = "out" /\ stack'[i].next = "in"
              /\ "out" \in trav_type => stack'[i].left = {e \in Edges : from[e] = v}
           \/ /\ stack[i].next = "in" /\ stack'[i].next = "end"
              /\ "in" \in trav_type => stack'[i].left = {e \in Edges : to[e] = v}
    BY <1>1, <1>9, QueryEdgesDoes DEF VertexFrames
  <2>2. CASE stack'[i].next = "in"
    BY <1>3, <2>1, <2>2
  <2>3. CASE stack'[i].next = "end"
    <3>1. "out" \in trav_type => \A e \in Edges : from[e] = v => e \in edge_list
      BY <1>2, <1>5, <2>1, <2>3
    <3> QED BY <1>3, <2>1, <2>3, <3>1 DEF EdgesOf
  <2> QED BY <2>1, <2>2, <2>3
<1>10. CASE i = n /\ NextEdge
  <2>1. PICK e \in stack[n].left :
          /\ stack'[n].id = stack[n].id
          /\ stack'[n].next = stack[n].next /\ stack'[n].left = stack[n].left \ {e}
          /\ (e \in edge_list /\ NoneEntered(n)) \/ EdgeEntered(e, n)
    BY <1>10, NextEdgeDoes
  <2>2. i \in 1 .. n /\ stack[n].call = "vertex"
    BY <1>10, NextEdgeDoes DEF VertexFrames
  <2>3. seen \subseteq seenNow
    BY <1>2, <1>3, <1>10, <2>1 DEF NoneEntered, EdgeEntered
  <2> QED BY <1>1, <1>5, <1>10, <2>1, <2>2, <2>3
<1>11. CASE i = n /\ (FollowFrom \/ FollowTo)
  BY <1>11, FollowFromDoes, FollowToDoes DEF Follows
<1> QED BY <1>6, <1>7, <1>8, <1>9, <1>10, <1>11, FrameWas

\* One step leaves a frame of parseEdge able to follow the ends it has to.
LEMMA StepEdgeFrameOwes ==
  ASSUME OneWayFromEdges, WalkInv, TypeOK, Listed, LeftReached, OweInv, ~failed, Next,
         NEW i \in 1 .. Len(stack'), stack'[i].call = "edge"
  PROVE  EdgeFrameOwes(i)'
<1> DEFINE n == Len(stack)
<1>0. n \in Nat
  BY DEF TypeOK
<1>1. PICK e : e = stack'[i].id
  OBVIOUS
<1>2. UNCHANGED <<from, to, trav_type>>
  BY SameGraph DEF graph
<1> DEFINE both == {"in", "out"} \subseteq trav_type
<1>3. EndsOf({e}) \subseteq vertex_list <=>
        ("in" \in trav_type => from[e] \in vertex_list) /\ ("out" \in trav_type => to[e] \in vertex_list)
  BY EndsOfAre
<1>4. EndsOf({e})' = EndsOf({e})
  BY <1>2 DEF EndsOf
<1>5. EndsOf({e}) \subseteq vertex_list' <=>
        ("in" \in trav_type => from[e] \in vertex_list') /\ ("out" \in trav_type => to[e] \in vertex_list')
  <2>1. PICK V : V = vertex_list'
    OBVIOUS
  <2> QED BY <2>1, EndsOfAre
<1>6. SUFFICES /\ stack'[i].next = "from" =>
                    /\ i = Len(stack') /\ edge_doc' = e
                    /\ both => from[e] \in vertex_list' \/ to[e] \in vertex_list'
               /\ stack'[i].next = "to" =>
                    /\ "in" \in trav_type => from[e] \in vertex_list'
                    /\ "out" \in trav_type =>
                         to[e] \in vertex_list' \/ (i = Len(stack') /\ edge_doc' = e)
               /\ stack'[i].next = "end" =>
                    /\ "in" \in trav_type => from[e] \in vertex_list'
                    /\ "out" \in trav_type => to[e] \in vertex_list'
  BY <1>1, <1>2, <1>4, <1>5 DEF EdgeFrameOwes
<1>7. ASSUME i \in 1 .. n, stack[i].call = "edge", stack[i].id = e
      PROVE  /\ stack[i].next = "from" =>
                  /\ i = n /\ edge_doc = e
                  /\ both => from[e] \in vertex_list \/ to[e] \in vertex_list
             /\ stack[i].next = "to" =>
                  /\ "in" \in trav_type => from[e] \in vertex_list
                  /\ "out" \in trav_type => to[e] \in vertex_list \/ (i = n /\ edge_doc = e)
             /\ stack[i].next = "end" =>
                  /\ "in" \in trav_type => from[e] \in vertex_list
                  /\ "out" \in trav_type => to[e] \in vertex_list
  <2>1. EdgeFrameOwes(i)
    BY <1>7 DEF OweInv, IsFrame
  <2> QED BY <1>3, <1>7, <2>1 DEF EdgeFrameOwes
<1>8. CASE FrameStays(i)
  <2>1. i \in 1 .. n /\ stack'[i] = stack[i] /\ (i < n \/ UNCHANGED <<stack, edge_doc>>)
    BY <1>8 DEF FrameStays
  <2>2. CASE i < n
    BY <1>0, <1>1, <1>7, <2>1, <2>2, ListsGrow
  <2>3. CASE UNCHANGED <<stack, edge_doc>>
    BY <1>1, <1>7, <2>1, <2>3, ListsGrow
  <2> QED BY <2>1, <2>2, <2>3
<1>9. CASE VertexFrameNew(i)
  BY <1>9 DEF VertexFrameNew
<1>10. CASE EdgeFrameNew(i)
  <2>1. stack'[i].next = "from" /\ i = Len(stack') /\ edge_doc' = e
    BY <1>1, <1>10 DEF EdgeFrameNew, EdgeComes, EdgeEntered
  <2>2. CASE kind = "edge"
    <3>1. trav_type # {"in", "out"}
      BY <2>2 DEF OneWayFromEdges, WalkInv
    <3>2. ~both
      BY <3>1 DEF TypeOK
    <3> QED BY <2>1, <3>2
  <2>3. CASE n > 0 /\ stack[n].call = "vertex" /\ e \in stack[n].left
    <3>1. e \in EdgesOf(vertex_list)
      BY <1>0, <2>3 DEF LeftReached, IsFrame
    <3>2. from[e] \in vertex_list \/ to[e] \in vertex_list
      BY <3>1 DEF EdgesOf
    <3> QED BY <2>1, <3>2, ListsGrow
  <2> QED BY <1>1, <1>10, <2>2, <2>3 DEF EdgeFrameNew
<1>11. CASE i = n /\ (QueryEdges \/ NextEdge)
  BY <1>11, QueryEdgesDoes, NextEdgeDoes
<1>12. ASSUME NEW end, NEW way, NEW after, Follows(end, way, after), i = n
      PROVE  /\ i \in 1 .. n /\ stack[i].call = "edge" /\ stack[i].id = e /\ stack'[i].next = after
             /\ way \in trav_type => end \in vertex_list'
             /\ \/ Len(stack') = n /\ UNCHANGED edge_doc
                \/ way \in trav_type /\ end \notin vertex_list
  BY <1>1, <1>12 DEF Follows, EdgeFrames, NoneEntered, VertexEntered
<1>13. CASE i = n /\ FollowFrom
  <2>1. stack[i].next = "from" /\ Follows(from[edge_doc], "in", "to")
    BY <1>13, FollowFromDoes
  <2>2. /\ i \in 1 .. n /\ stack[i].call = "edge" /\ stack[i].id = e /\ stack'[i].next = "to"
        /\ "in" \in trav_type => from[edge_doc] \in vertex_list'
        /\ \/ Len(stack') = n /\ UNCHANGED edge_doc
           \/ "in" \in trav_type /\ from[edge_doc] \notin vertex_list
    BY <1>12, <1>13, <2>1
  <2>3. edge_doc = e /\ (both => from[e] \in vertex_list \/ to[e] \in vertex_list)
    BY <1>7, <2>1, <2>2
  <2>4. "out" \in trav_type => to[e] \in vertex_list' \/ (i = Len(stack') /\ edge_doc' = e)
    BY <1>13, <2>2, <2>3, ListsGrow
  <2> QED BY <2>2, <2>3, <2>4
<1>14. CASE i = n /\ FollowTo
  <2>1. stack[i].next = "to" /\ Follows(to[edge_doc], "out", "end")
    BY <1>14, FollowToDoes
  <2>2. /\ i \in 1 .. n /\ stack[i].call = "edge" /\ stack[i].id = e /\ stack'[i].next = "end"
        /\ "out" \in trav_type => to[edge_doc] \in vertex_list'
    BY <1>12, <1>14, <2>1
  <2>3. /\ "in" \in trav_type => from[e] \in vertex_list
        /\ "out" \in trav_type => to[e] \in vertex_list \/ edge_doc = e
    BY <1>7, <2>1, <2>2
  <2> QED BY <2>2, <2>3, ListsGrow
<1> QED BY <1>8, <1>9, <1>10, <1>11, <1>13, <1>14, FrameWas

\* One step leaves a root or a frame for everything that is not done.
LEMMA StepOweInv ==
  ASSUME OneWayFromEdges, WalkInv, TypeOK, Listed, LeftReached, OweInv, Next
  PROVE  OweInv'
<1> DEFINE n == Len(stack)
<1> SUFFICES ASSUME ~failed'
             PROVE  /\ roots \subseteq ids' \cup vertex_list' \cup edge_list'
                    /\ \A v \in vertex_list' : HasFrame(v)' \/ EdgesOf({v}) \subseteq edge_list'
                    /\ \A e \in edge_list'   : HasFrame(e)' \/ EndsOf({e}) \subseteq vertex_list'
                    /\ \A i \in 1 .. Len(stack') : /\ IsFrame(i, "vertex")' => VertexFrameOwes(i)'
                                                   /\ IsFrame(i, "edge")'   => EdgeFrameOwes(i)'
  BY SameGraph DEF OweInv, graph, EdgesOf, EndsOf
<1>1. ~failed /\ ~AllGo
  <2>1. ~AllGo
    BY DEF AllGo
  <2>2. UNCHANGED failed
    BY <2>1, FramesChange DEF NoneComes, VertexComes, EdgeComes, TopGoes
  <2> QED BY <2>1, <2>2
<1>2. roots \subseteq ids' \cup vertex_list' \cup edge_list'
  <2>1. CASE Start
    <3>1. PICK id \in ids : /\ ids' = ids \ {id}
                            /\ \/ id \in vertex_list \/ VertexEntered(id, 0)
                               \/ id \in edge_list \/ EdgeEntered(id, 0)
      BY <2>1, StartDoes
    <3>2. id \in vertex_list' \cup edge_list'
      BY <3>1, ListsGrow DEF VertexEntered, EdgeEntered
    <3> QED BY <1>1, <3>1, <3>2, ListsGrow DEF OweInv
  <2>2. CASE UNCHANGED ids
    BY <1>1, <2>2, ListsGrow DEF OweInv
  <2>3. CASE FollowFrom \/ FollowTo
    BY <2>2, <2>3, FollowFromDoes, FollowToDoes DEF Follows
  <2>4. CASE Throw
    <3>1. failed' = TRUE
      BY <2>4 DEF Throw
    <3> QED BY <3>1
  <2> QED BY <2>1, <2>2, <2>3, <2>4 DEF Next, Walk, QueryEdges, NextEdge, VertexReturns,
             EdgeReturns, Over, vars
<1>3. ASSUME NEW v \in vertex_list' PROVE HasFrame(v)' \/ EdgesOf({v}) \subseteq edge_list'
  <2>1. v \in vertex_list => HasFrame(v) \/ EdgesOf({v}) \subseteq edge_list
    BY <1>1 DEF OweInv
  <2>2. CASE NoneComes \/ \E e : EdgeComes(e)
    <3>1. v \in vertex_list
      BY <1>3, <2>2 DEF NoneComes, NoneEntered, EdgeComes, EdgeEntered
    <3>2. HasFrame(v) => HasFrame(v)'
      BY <2>2, HasFrameChange
    <3> QED BY <2>1, <3>1, <3>2, ListsGrow
  <2>3. ASSUME NEW w, VertexComes(w) PROVE HasFrame(v)' \/ EdgesOf({v}) \subseteq edge_list'
    <3>1. v \in vertex_list \/ v = w
      BY <1>3, <2>3 DEF VertexComes, VertexEntered
    <3>2. HasFrame(v)' <=> HasFrame(v) \/ v = w
      BY <2>3, HasFrameChange
    <3> QED BY <2>1, <3>1, <3>2, ListsGrow
  <2>4. CASE TopGoes("vertex") \/ TopGoes("edge")
    <3>1. v \in vertex_list
      BY <1>3, <2>4 DEF TopGoes
    <3>2. HasFrame(v) => HasFrame(v)' \/ v = stack[n].id
      BY <2>4, HasFrameChange
    <3>3. ASSUME v = stack[n].id PROVE EdgesOf({v}) \subseteq edge_list
      <4>1. n \in Nat \ {0} /\ (stack[n].call = "vertex" => VertexReturns)
        BY <2>4 DEF TopGoes, TypeOK
      <4>2. stack[n].call = "vertex"
        BY <3>1, <3>3, <4>1 DEF Listed, IsFrame, TypeOK, VertexFrames, EdgeFrames
      <4>3. stack[n].next = "end" /\ stack[n].left = {}
        BY <4>1, <4>2 DEF VertexReturns, top
      <4>4. VertexFrameOwes(n)
        BY <1>1, <4>1, <4>2 DEF OweInv, IsFrame
      <4> QED BY <3>3, <4>3, <4>4 DEF VertexFrameOwes
    <3> QED BY <2>1, <3>1, <3>2, <3>3, ListsGrow
  <2> QED BY <1>1, <2>2, <2>3, <2>4, FramesChange
<1>4. ASSUME NEW e \in edge_list' PROVE HasFrame(e)' \/ EndsOf({e}) \subseteq vertex_list'
  <2>1. e \in edge_list => HasFrame(e) \/ EndsOf({e}) \subseteq vertex_list
    BY <1>1 DEF OweInv
  <2>2. CASE NoneComes \/ \E v : VertexComes(v)
    <3>1. e \in edge_list
      BY <1>4, <2>2 DEF NoneComes, NoneEntered, VertexComes, VertexEntered
    <3>2. HasFrame(e) => HasFrame(e)'
      BY <2>2, HasFrameChange
    <3> QED BY <2>1, <3>1, <3>2, ListsGrow
  <2>3. ASSUME NEW f, EdgeComes(f) PROVE HasFrame(e)' \/ EndsOf({e}) \subseteq vertex_list'
    <3>1. e \in edge_list \/ e = f
      BY <1>4, <2>3 DEF EdgeComes, EdgeEntered
    <3>2. HasFrame(e)' <=> HasFrame(e) \/ e = f
      BY <2>3, HasFrameChange
    <3> QED BY <2>1, <3>1, <3>2, ListsGrow
  <2>4. CASE TopGoes("vertex") \/ TopGoes("edge")
    <3>1. e \in edge_list
      BY <1>4, <2>4 DEF TopGoes
    <3>2. HasFrame(e) => HasFrame(e)' \/ e = stack[n].id
      BY <2>4, HasFrameChange
    <3>3. ASSUME e = stack[n].id PROVE EndsOf({e}) \subseteq vertex_list
      <4>1. n \in Nat \ {0} /\ (stack[n].call = "edge" => EdgeReturns)
        BY <2>4 DEF TopGoes, TypeOK
      <4>2. stack[n].call = "edge"
        BY <3>1, <3>3, <4>1 DEF Listed, IsFrame, TypeOK, VertexFrames, EdgeFrames
      <4>3. stack[n].next = "end"
        BY <4>1, <4>2 DEF EdgeReturns, top
      <4>4. EdgeFrameOwes(n)
        BY <1>1, <4>1, <4>2 DEF OweInv, IsFrame
      <4> QED BY <3>3, <4>3, <4>4 DEF EdgeFrameOwes
    <3> QED BY <2>1, <3>1, <3>2, <3>3, ListsGrow
  <2> QED BY <1>1, <2>2, <2>3, <2>4, FramesChange
<1>5. ASSUME NEW i \in 1 .. Len(stack')
      PROVE  /\ IsFrame(i, "vertex")' => VertexFrameOwes(i)'
             /\ IsFrame(i, "edge")'   => EdgeFrameOwes(i)'
  BY <1>1, StepVertexFrameOwes, StepEdgeFrameOwes DEF IsFrame
<1> QED BY <1>2, <1>3, <1>4, <1>5

LEMMA OweHolds == ASSUME OneWayFromEdges PROVE Spec => []OweInv
<1>1. Init => OweInv /\ WalkInv
  <2> SUFFICES ASSUME Init PROVE OweInv /\ WalkInv
    OBVIOUS
  <2>1. WalkInv
    BY DEF Init, WalkInv
  <2> QED BY <2>1 DEF Init, OweInv
<1>2. /\ TypeOK /\ Listed /\ LeftReached /\ OweInv /\ WalkInv /\ [Next]_vars
      => OweInv' /\ WalkInv'
  <2> SUFFICES ASSUME TypeOK, Listed, LeftReached, OweInv, WalkInv, [Next]_vars
               PROVE  OweInv' /\ WalkInv'
    OBVIOUS
  <2>1. WalkInv'
    BY SameGraph DEF WalkInv, graph
  <2>2. CASE UNCHANGED vars
    <3>1. UNCHANGED <<from, to, trav_type, roots, ids, vertex_list, edge_list, edge_doc, stack,
                      failed>>
      BY <2>2 DEF vars, graph
    <3>2. \A i : (VertexFrameOwes(i)' <=> VertexFrameOwes(i)) /\ (EdgeFrameOwes(i)' <=> EdgeFrameOwes(i))
      BY <3>1 DEF VertexFrameOwes, EdgeFrameOwes, EdgesOf, EndsOf
    <3>3. \A x : EdgesOf({x})' = EdgesOf({x}) /\ EndsOf({x})' = EndsOf({x})
      BY <3>1 DEF EdgesOf, EndsOf
    <3>4. OweInv'
      BY <3>1, <3>2, <3>3 DEF OweInv, HasFrame, IsFrame
    <3> QED BY <2>1, <3>4
  <2>3. CASE Next
    <3>1. OweInv'
      BY <2>3, StepOweInv
    <3> QED BY <2>1, <3>1
  <2> QED BY <2>2, <2>3
<1> QED BY <1>1, <1>2, ListedHolds, EndsHold, PTL DEF Spec

\* When a walk ends without an exception it has visited its roots, all edges of the
\* vertices it has visited and the ends of all edges it has visited, in the
\* directions of the walk, unless it is a walk from edges in both directions.
THEOREM EverythingVisited == ASSUME OneWayFromEdges PROVE Spec => []AllVisited
<1>1. TypeOK /\ OweInv => AllVisited
  <2> SUFFICES ASSUME TypeOK, OweInv, Done PROVE Closed(vertex_list, edge_list)
    BY DEF AllVisited
  <2>1. ~failed /\ ids = {} /\ \A x : ~HasFrame(x)
    BY DEF Done, HasFrame
  <2>2. roots \subseteq vertex_list \cup edge_list
    BY <2>1 DEF OweInv
  <2>3. \A v \in vertex_list : EdgesOf({v}) \subseteq edge_list
    BY <2>1 DEF OweInv
  <2>4. EdgesOf(vertex_list) \subseteq edge_list
    BY <2>3 DEF EdgesOf
  <2>5. \A e \in edge_list : EndsOf({e}) \subseteq vertex_list
    BY <2>1 DEF OweInv
  <2>6. \A e \in edge_list : /\ "in"  \in trav_type => from[e] \in vertex_list
                             /\ "out" \in trav_type => to[e] \in vertex_list
    BY <2>5, EndsOfAre
  <2>7. EndsOf(edge_list) \subseteq vertex_list
    BY <2>6, EndsOfAre
  <2> QED BY <2>2, <2>4, <2>7 DEF Closed
<1> QED BY <1>1, ListedHolds, OweHolds, PTL

(***************************************************************************)
(* Walks end                                                               *)
(***************************************************************************)
\* What a database holds.
FiniteGraph == IsFiniteSet(Vertices) /\ IsFiniteSet(Edges)

\* Induction, of a set of numbers.
LEMMA NatSet ==
  ASSUME NEW S, 0 \in S, \A k \in Nat : k \in S => k + 1 \in S
  PROVE  Nat \subseteq S
<1> SUFFICES ASSUME NEW T, T = Nat \ S, T # {} PROVE FALSE
  OBVIOUS
<1>1. IsWellFoundedOn(OpToRel(<, Nat), Nat)
  BY NatLessThanWellFounded, Zenon
<1>2. PICK x \in T : \A y \in T : ~ (<<y, x>> \in OpToRel(<, Nat))
  BY <1>1, WFMin, Zenon
<1>3. \A y \in Nat : y < x => <<y, x>> \in OpToRel(<, Nat)
  BY DEF OpToRel
<1>4. \A y \in Nat : y < x => y \in S
  BY <1>2, <1>3
<1>5. x # 0 /\ x - 1 \in Nat /\ x - 1 < x /\ x - 1 \in S
  BY <1>4
<1> QED BY <1>5

\* sum is what the recursive function of Ahead computes.
Sums(frames, sum) ==
  sum = [i \in 0 .. Len(frames) |-> IF i = 0 THEN 0 ELSE sum[i - 1] + 1 + ToDo(frames[i])]

LEMMA AheadSums ==
  ASSUME NEW s, Len(s) \in Nat
  PROVE  \E sum : Sums(s, sum) /\ Ahead(s) = sum[Len(s)]
<1> DEFINE Rec(j, g) == g = [i \in 0 .. j |-> IF i = 0 THEN 0 ELSE g[i - 1] + 1 + ToDo(s[i])]
           S == {j \in Nat : \E g : Rec(j, g)}
<1>1. 0 \in S
  <2>1. Rec(0, [i \in 0 .. 0 |-> 0])
    OBVIOUS
  <2> QED BY <2>1
<1>2. ASSUME NEW j \in Nat, j \in S PROVE j + 1 \in S
  <2>1. PICK g : Rec(j, g)
    BY <1>2
  <2>2. \A i \in 0 .. j : g[i] = IF i = 0 THEN 0 ELSE g[i - 1] + 1 + ToDo(s[i])
    BY <2>1
  <2>3. PICK f : f = [i \in 0 .. (j + 1) |-> IF i <= j THEN g[i] ELSE g[j] + 1 + ToDo(s[j + 1])]
    OBVIOUS
  <2>4. \A i \in 0 .. j : f[i] = g[i]
    BY <2>3
  <2>5. f[j + 1] = g[j] + 1 + ToDo(s[j + 1])
    BY <2>3
  <2>6. \A i \in 0 .. (j + 1) : f[i] = IF i = 0 THEN 0 ELSE f[i - 1] + 1 + ToDo(s[i])
    <3> TAKE i \in 0 .. (j + 1)
    <3>1. CASE i = j + 1
      BY <3>1, <2>4, <2>5
    <3>2. CASE i # j + 1
      <4>1. i \in 0 .. j /\ (i # 0 => i - 1 \in 0 .. j)
        BY <3>2
      <4> QED BY <4>1, <2>2, <2>4
    <3> QED BY <3>1, <3>2
  <2>7. f = [i \in 0 .. (j + 1) |-> f[i]]
    BY <2>3
  <2>8. Rec(j + 1, f)
    BY <2>6, <2>7
  <2> QED BY <2>8
<1>3. \E g : Rec(Len(s), g)
  <2> HIDE DEF Rec
  <2>1. Len(s) \in S
    <3> HIDE DEF S
    <3> QED BY <1>1, <1>2, NatSet
  <2> QED BY <2>1
<1> DEFINE sum == CHOOSE g : Rec(Len(s), g)
<1>4. Rec(Len(s), sum)
  <2> HIDE DEF Rec
  <2> QED BY <1>3
<1>5. Ahead(s) = sum[Len(s)]
  BY DEF Ahead
<1> HIDE DEF sum
<1>6. Sums(s, sum)
  BY <1>4 DEF Sums
<1> QED BY <1>5, <1>6

\* What a frame has yet to do.
LEMMA ToDoIs ==
  ASSUME FiniteGraph, NEW f \in Frames
  PROVE  LET c == Cardinality(Edges)
         IN  /\ ToDo(f) \in Nat /\ c \in Nat
             /\ f \in VertexFrames =>
                  /\ Cardinality(f.left) \in 0 .. c
                  /\ f.next = "out" => ToDo(f) = Cardinality(f.left) + (c + 1) * 2
                  /\ f.next = "in" => ToDo(f) = Cardinality(f.left) + (c + 1) * 1
                  /\ f.next = "end" => ToDo(f) = Cardinality(f.left) + (c + 1) * 0
             /\ f \in EdgeFrames =>
                  /\ f.next = "from" => ToDo(f) = 2
                  /\ f.next = "to" => ToDo(f) = 1
                  /\ f.next = "end" => ToDo(f) = 0
<1> DEFINE c == Cardinality(Edges)
<1>1. c \in Nat
  BY FS_CardinalityType DEF FiniteGraph
<1>2. CASE f \in VertexFrames
  <2>1. f.call = "vertex" /\ f.left \subseteq Edges /\ f.next \in {"out", "in", "end"}
    BY <1>2 DEF VertexFrames
  <2>2. Cardinality(f.left) \in Nat /\ Cardinality(f.left) <= c
    BY <2>1, FS_Subset, FS_CardinalityType DEF FiniteGraph
  <2> HIDE DEF c
  <2>3. ToDo(f) = Cardinality(f.left) + (c + 1) *
                    (CASE f.next = "out" -> 2 [] f.next = "in" -> 1 [] OTHER -> 0)
    BY <2>1 DEF ToDo, c
  <2>4. f \notin EdgeFrames
    BY <2>1 DEF EdgeFrames
  <2> QED BY <1>1, <2>1, <2>2, <2>3, <2>4 DEF c
<1>3. CASE f \in EdgeFrames
  <2>1. f.call = "edge" /\ f.next \in {"from", "to", "end"} /\ f \notin VertexFrames
    BY <1>3 DEF EdgeFrames, VertexFrames
  <2> QED BY <1>1, <2>1 DEF ToDo
<1> QED BY <1>2, <1>3 DEF Frames

LEMMA AheadIs ==
  ASSUME FiniteGraph, NEW s \in Seq(Frames)
  PROVE  Ahead(s) \in Nat /\ (Len(s) = 0 => Ahead(s) = 0)
<1>1. PICK sum : Sums(s, sum) /\ Ahead(s) = sum[Len(s)]
  BY AheadSums
<1>2. PICK n \in Nat : n = Len(s)
  OBVIOUS
<1>3. \A i \in 0 .. n : sum[i] = IF i = 0 THEN 0 ELSE sum[i - 1] + 1 + ToDo(s[i])
  BY <1>1, <1>2 DEF Sums
<1> DEFINE T == {i \in Nat : i <= n => sum[i] \in Nat}
<1>4. 0 \in T
  BY <1>3
<1>5. ASSUME NEW i \in Nat, i \in T PROVE i + 1 \in T
  <2>1. SUFFICES ASSUME i + 1 <= n PROVE sum[i + 1] \in Nat
    OBVIOUS
  <2>2. i + 1 \in 0 .. n /\ i + 1 # 0 /\ (i + 1) - 1 = i /\ sum[i] \in Nat
    BY <1>5, <2>1
  <2>3. ToDo(s[i + 1]) \in Nat
    BY <1>2, <2>1, ToDoIs
  <2>4. sum[i + 1] = sum[i] + 1 + ToDo(s[i + 1])
    BY <1>3, <2>2
  <2> QED BY <2>2, <2>3, <2>4
<1> HIDE DEF T
<1>6. n \in T
  BY <1>4, <1>5, NatSet
<1> QED BY <1>1, <1>2, <1>3, <1>6 DEF T

\* One more frame.
LEMMA AheadMore ==
  ASSUME FiniteGraph, NEW s \in Seq(Frames), NEW t \in Seq(Frames), Len(t) = Len(s) + 1,
         \A i \in 1 .. Len(s) : t[i] = s[i]
  PROVE  Ahead(t) = Ahead(s) + 1 + ToDo(t[Len(t)])
<1>1. PICK a : Sums(s, a) /\ Ahead(s) = a[Len(s)]
  BY AheadSums
<1>2. PICK b : Sums(t, b) /\ Ahead(t) = b[Len(t)]
  BY AheadSums
<1>3. PICK n \in Nat : n = Len(s)
  OBVIOUS
<1>4. \A i \in 0 .. n : a[i] = IF i = 0 THEN 0 ELSE a[i - 1] + 1 + ToDo(s[i])
  BY <1>1, <1>3 DEF Sums
<1>5. \A i \in 0 .. (n + 1) : b[i] = IF i = 0 THEN 0 ELSE b[i - 1] + 1 + ToDo(t[i])
  BY <1>2, <1>3 DEF Sums
<1> DEFINE T == {i \in Nat : i <= n => a[i] = b[i]}
<1>6. 0 \in T
  BY <1>4, <1>5
<1>7. ASSUME NEW i \in Nat, i \in T PROVE i + 1 \in T
  <2>1. SUFFICES ASSUME i + 1 <= n PROVE a[i + 1] = b[i + 1]
    OBVIOUS
  <2>2. /\ i + 1 \in 0 .. n /\ i + 1 \in 0 .. (n + 1) /\ i + 1 \in 1 .. n
        /\ i + 1 # 0 /\ (i + 1) - 1 = i /\ a[i] = b[i]
    BY <1>7, <2>1
  <2>3. t[i + 1] = s[i + 1]
    BY <1>3, <2>2
  <2>4. a[i + 1] = a[i] + 1 + ToDo(s[i + 1]) /\ b[i + 1] = b[i] + 1 + ToDo(t[i + 1])
    BY <1>4, <1>5, <2>2
  <2> QED BY <2>2, <2>3, <2>4
<1> HIDE DEF T
<1>8. a[n] = b[n]
  <2>1. n \in T
    BY <1>6, <1>7, NatSet
  <2> QED BY <2>1 DEF T
<1>9. b[n + 1] = b[n] + 1 + ToDo(t[n + 1])
  <2>1. n + 1 \in 0 .. (n + 1) /\ n + 1 # 0 /\ (n + 1) - 1 = n
    OBVIOUS
  <2> QED BY <1>5, <2>1
<1> QED BY <1>1, <1>2, <1>3, <1>8, <1>9

Unvisited == Elements \ (vertex_list \cup edge_list)

\* The numbers Distance is made of.
LEMMA DistanceIs ==
  ASSUME FiniteGraph, TypeOK
  PROVE  /\ Ahead(stack) \in Nat /\ Cardinality(ids) \in Nat /\ Visit \in Nat
         /\ IsFiniteSet(ids) /\ IsFiniteSet(Unvisited) /\ Cardinality(Unvisited) \in Nat
         /\ Distance = Ahead(stack) + Cardinality(ids) + Visit * Cardinality(Unvisited)
<1>1. IsFiniteSet(Elements)
  BY FS_Union DEF FiniteGraph, Elements
<1>2. ids \subseteq Elements
  BY DEF TypeOK, Elements
<1>3. IsFiniteSet(ids) /\ IsFiniteSet(Unvisited)
  BY <1>1, <1>2, FS_Subset DEF Unvisited
<1>4. Cardinality(ids) \in Nat /\ Cardinality(Unvisited) \in Nat /\ Cardinality(Edges) \in Nat
  BY <1>3, FS_CardinalityType DEF FiniteGraph
<1>5. Ahead(stack) \in Nat
  BY AheadIs DEF TypeOK, Frames
<1> QED BY <1>3, <1>4, <1>5 DEF Distance, Visit, Unvisited

LEMMA OneTimeLess ==
  ASSUME NEW v \in Nat, NEW w \in Nat
  PROVE  v * (w - 1) = v * w - v /\ v * w \in Int
OBVIOUS

LEMMA LessInAll ==
  ASSUME NEW a \in Nat, NEW i \in Nat, NEW b \in Nat, NEW j \in Nat, NEW v \in Nat, NEW p \in Int
  PROVE  /\ b + j < a + i => b + j + p < a + i + p
         /\ b + j < a + i + v => b + j + (p - v) < a + i + p
OBVIOUS

\* Of a step: what is ahead on the stack becomes less; or it becomes more by less than
\* a visit is worth, and one more element is visited.
LEMMA Nearer ==
  ASSUME FiniteGraph, TypeOK, TypeOK',
         \/ /\ UNCHANGED <<vertex_list, edge_list>>
            /\ Ahead(stack') + Cardinality(ids') < Ahead(stack) + Cardinality(ids)
         \/ /\ \E x \in Unvisited : Unvisited' = Unvisited \ {x}
            /\ Ahead(stack') + Cardinality(ids') < Ahead(stack) + Cardinality(ids) + Visit
  PROVE  Distance' < Distance
<1> DEFINE a == Ahead(stack)
           i == Cardinality(ids)
           u == Cardinality(Unvisited)
<1>1. /\ a \in Nat /\ i \in Nat /\ u \in Nat /\ Visit \in Nat /\ IsFiniteSet(Unvisited)
      /\ Distance = a + i + Visit * u
  BY DistanceIs
<1>2. Visit' = Visit
  BY DEF Visit
<1>3. a' \in Nat /\ i' \in Nat /\ u' \in Nat /\ Distance' = a' + i' + Visit * u'
  <2>1. (FiniteGraph /\ TypeOK => /\ a \in Nat /\ i \in Nat /\ u \in Nat
                                 /\ Distance = a + i + Visit * u)'
    BY DistanceIs, PTL
  <2>2. FiniteGraph'
    BY DEF FiniteGraph
  <2> QED BY <1>2, <2>1, <2>2
<1>4. CASE UNCHANGED <<vertex_list, edge_list>> /\ a' + i' < a + i
  <2>1. Unvisited' = Unvisited
    BY <1>4 DEF Unvisited
  <2>2. u' = u
    BY <2>1
  <2> HIDE DEF a, i, u
  <2>3. PICK p \in Int : p = Visit * u
    BY <1>1, OneTimeLess
  <2>4. Distance = a + i + p /\ Distance' = a' + i' + p
    BY <1>1, <1>3, <2>2, <2>3
  <2>5. a' + i' + p < a + i + p
    BY <1>1, <1>3, <1>4, LessInAll
  <2> QED BY <2>4, <2>5, Zenon
<1>5. CASE (\E x \in Unvisited : Unvisited' = Unvisited \ {x}) /\ a' + i' < a + i + Visit
  <2>1. u' = u - 1
    BY <1>1, <1>5, FS_RemoveElement
  <2> HIDE DEF a, i, u
  <2>2. PICK p \in Int : p = Visit * u /\ p - Visit = Visit * u'
    BY <1>1, <2>1, OneTimeLess
  <2>3. Distance = a + i + p /\ Distance' = a' + i' + (p - Visit)
    BY <1>1, <1>3, <2>2
  <2>4. a' + i' + (p - Visit) < a + i + p
    BY <1>1, <1>3, <1>5, LessInAll
  <2> QED BY <2>3, <2>4, Zenon
<1> QED BY <1>4, <1>5

\* What is ahead when the running frame is f, and when a frame g comes over it.
LEMMA AheadTop ==
  ASSUME FiniteGraph, TypeOK, stack # <<>>
  PROVE  /\ Ahead(Rest) \in Nat /\ Rest \in Seq(Frames) /\ top \in Frames /\ top = stack[Len(stack)]
         /\ Ahead(stack) = Ahead(Rest) + 1 + ToDo(top)
<1>1. /\ Len(stack) \in Nat \ {0} /\ Rest \in Seq(Frames) /\ top \in Frames
      /\ Len(Rest) = Len(stack) - 1 /\ \A i \in 1 .. Len(Rest) : stack[i] = Rest[i]
  BY Popped
<1>2. stack \in Seq(Frames) /\ Len(stack) = Len(Rest) + 1 /\ top = stack[Len(stack)]
  BY <1>1 DEF TypeOK, Frames, top
<1> QED BY <1>1, <1>2, AheadIs, AheadMore

LEMMA AheadTopNext ==
  ASSUME FiniteGraph, TypeOK, stack # <<>>, NEW n, n = Len(stack),
         stack' \in Seq(Frames), Same(n - 1), Len(stack') \in {n, n + 1}
  PROVE  /\ stack'[n] \in Frames
         /\ Len(stack') = n => Ahead(stack') = Ahead(Rest) + 1 + ToDo(stack'[n])
         /\ Len(stack') = n + 1 =>
              /\ stack'[n + 1] \in Frames
              /\ Ahead(stack') = Ahead(Rest) + 1 + ToDo(stack'[n]) + 1 + ToDo(stack'[n + 1])
<1>1. /\ n \in Nat \ {0} /\ Rest \in Seq(Frames) /\ Len(Rest) = n - 1
      /\ \A i \in 1 .. Len(Rest) : stack'[i] = Rest[i]
  BY Popped DEF Same
<1>2. stack'[n] \in Frames /\ (Len(stack') = n + 1 => stack'[n + 1] \in Frames)
  BY <1>1
<1>3. CASE Len(stack') = n
  <2>1. Len(stack') = Len(Rest) + 1
    BY <1>1, <1>3
  <2> QED BY <1>1, <1>2, <1>3, <2>1, AheadMore
<1>4. CASE Len(stack') = n + 1
  <2> DEFINE s == Append(Rest, stack'[n])
  <2>1. /\ s \in Seq(Frames) /\ Len(s) = n /\ s[n] = stack'[n]
        /\ \A i \in 1 .. Len(Rest) : s[i] = Rest[i]
    <3>1. /\ s \in Seq(Frames) /\ Len(s) = Len(Rest) + 1 /\ s[Len(Rest) + 1] = stack'[n]
          /\ \A i \in 1 .. Len(Rest) : s[i] = Rest[i]
      BY <1>1, <1>2, Pushed
    <3> QED BY <1>1, <3>1
  <2> HIDE DEF s
  <2>2. Ahead(s) = Ahead(Rest) + 1 + ToDo(stack'[n])
    BY <1>1, <2>1, AheadMore
  <2>3. Len(stack') = Len(s) + 1 /\ \A i \in 1 .. Len(s) : stack'[i] = s[i]
    BY <1>1, <1>4, <2>1
  <2>4. Ahead(stack') = Ahead(s) + 1 + ToDo(stack'[n + 1])
    BY <1>4, <2>1, <2>3, AheadMore
  <2> QED BY <1>2, <1>4, <2>2, <2>4
<1> QED BY <1>2, <1>3, <1>4

\* A visit is worth a little more than its frame.
LEMMA FrameCosts ==
  ASSUME FiniteGraph
  PROVE  /\ \A v \in Vertices :
              LET f == [call |-> "vertex", id |-> v, next |-> "out", left |-> {}]
              IN f \in VertexFrames /\ ToDo(f) \in Nat /\ ToDo(f) + 2 = Visit
         /\ \A e \in Edges :
              LET f == [call |-> "edge", id |-> e, next |-> "from"]
              IN f \in EdgeFrames /\ ToDo(f) \in Nat /\ ToDo(f) + 2 <= Visit
<1>1. Cardinality(Edges) \in Nat /\ Cardinality({}) = 0
  BY FS_CardinalityType, FS_EmptySet DEF FiniteGraph
<1>2. ASSUME NEW v \in Vertices
      PROVE  LET f == [call |-> "vertex", id |-> v, next |-> "out", left |-> {}]
             IN f \in VertexFrames /\ ToDo(f) \in Nat /\ ToDo(f) + 2 = Visit
  <2> DEFINE f == [call |-> "vertex", id |-> v, next |-> "out", left |-> {}]
  <2>1. f \in VertexFrames /\ f.left = {} /\ f.next = "out"
    BY DEF VertexFrames
  <2> HIDE DEF f
  <2>2. ToDo(f) \in Nat /\ ToDo(f) = Cardinality({}) + (Cardinality(Edges) + 1) * 2
    BY <2>1, ToDoIs DEF Frames
  <2>3. ToDo(f) + 2 = Visit
    BY <1>1, <2>2 DEF Visit
  <2> QED BY <2>1, <2>2, <2>3 DEF f
<1>3. ASSUME NEW e \in Edges
      PROVE  LET f == [call |-> "edge", id |-> e, next |-> "from"]
             IN f \in EdgeFrames /\ ToDo(f) \in Nat /\ ToDo(f) + 2 <= Visit
  <2> DEFINE f == [call |-> "edge", id |-> e, next |-> "from"]
  <2>1. f \in EdgeFrames /\ f.next = "from"
    BY DEF EdgeFrames
  <2> HIDE DEF f
  <2>2. ToDo(f) = 2
    BY <2>1, ToDoIs DEF Frames
  <2>3. ToDo(f) + 2 <= Visit
    BY <1>1, <2>2 DEF Visit
  <2> QED BY <2>1, <2>2, <2>3 DEF f
<1> QED BY <1>2, <1>3

\* An element entered for the first time leaves those not visited.
LEMMA EnteredLeaves ==
  ASSUME TypeOK, NEW n
  PROVE  /\ \A v \in Vertices : VertexEntered(v, n) => v \in Unvisited /\ Unvisited' = Unvisited \ {v}
         /\ \A e \in Edges : EdgeEntered(e, n) => e \in Unvisited /\ Unvisited' = Unvisited \ {e}
<1>1. vertex_list \subseteq Vertices /\ edge_list \subseteq Edges
  BY DEF TypeOK
<1>2. ASSUME NEW v \in Vertices, VertexEntered(v, n)
      PROVE  v \in Unvisited /\ Unvisited' = Unvisited \ {v}
  BY <1>1, <1>2 DEF VertexEntered, Unvisited, Elements
<1>3. ASSUME NEW e \in Edges, EdgeEntered(e, n)
      PROVE  e \in Unvisited /\ Unvisited' = Unvisited \ {e}
  BY <1>1, <1>3 DEF EdgeEntered, Unvisited, Elements
<1> QED BY <1>2, <1>3

LEMMA StartNearer ==
  ASSUME FiniteGraph, TypeOK, TypeOK', Start
  PROVE  Distance' < Distance
<1>1. Len(stack) = 0 /\ stack \in Seq(Frames) /\ stack' \in Seq(Frames)
  BY StartDoes DEF TypeOK, Frames
<1>2. PICK id \in ids :
        /\ ids' = ids \ {id}
        /\ \/ NoneEntered(0)
           \/ kind = "vertex" /\ VertexEntered(id, 0)
           \/ kind = "edge" /\ EdgeEntered(id, 0)
  BY StartDoes
<1>3. Ahead(stack) = 0 /\ Ahead(stack') \in Nat /\ (Len(stack') = 0 => Ahead(stack') = 0)
  BY <1>1, AheadIs
<1>4. Cardinality(ids') = Cardinality(ids) - 1 /\ Cardinality(ids) \in Nat
  BY <1>2, DistanceIs, FS_RemoveElement
<1>5. Len(stack') = 1 => Ahead(stack') = 1 + ToDo(stack'[1])
  <2>1. SUFFICES ASSUME Len(stack') = 1 PROVE Ahead(stack') = Ahead(stack) + 1 + ToDo(stack'[Len(stack')])
    <3>1. Len(stack') = 1 => stack'[1] \in Frames
      BY <1>1
    <3> QED BY <1>3, <3>1, ToDoIs
  <2>2. Len(stack') = Len(stack) + 1 /\ \A i \in 1 .. Len(stack) : stack'[i] = stack[i]
    BY <1>1, <2>1
  <2> QED BY <1>1, <2>2, AheadMore
<1>6. CASE NoneEntered(0)
  <2>1. UNCHANGED <<vertex_list, edge_list>> /\ Ahead(stack') = 0
    BY <1>3, <1>6 DEF NoneEntered
  <2> QED BY <1>3, <1>4, <2>1, Nearer
<1>7. CASE kind = "vertex" /\ VertexEntered(id, 0)
  <2>1. id \in Vertices
    BY <1>7 DEF TypeOK
  <2>2. Len(stack') = 1 /\ stack'[1] = [call |-> "vertex", id |-> id, next |-> "out", left |-> {}]
    BY <1>7 DEF VertexEntered
  <2>3. ToDo(stack'[1]) \in Nat /\ ToDo(stack'[1]) + 2 = Visit
    BY <2>1, <2>2, FrameCosts
  <2>4. id \in Unvisited /\ Unvisited' = Unvisited \ {id}
    BY <1>7, <2>1, EnteredLeaves
  <2>5. Ahead(stack') + Cardinality(ids') < Ahead(stack) + Cardinality(ids) + Visit
    BY <1>3, <1>4, <1>5, <2>2, <2>3
  <2> QED BY <2>4, <2>5, Nearer
<1>8. CASE kind = "edge" /\ EdgeEntered(id, 0)
  <2>1. id \in Edges
    BY <1>8 DEF TypeOK
  <2>2. Len(stack') = 1 /\ stack'[1] = [call |-> "edge", id |-> id, next |-> "from"]
    BY <1>8 DEF EdgeEntered
  <2>3. ToDo(stack'[1]) \in Nat /\ ToDo(stack'[1]) + 2 <= Visit /\ Visit \in Nat
    BY <2>1, <2>2, FrameCosts, DistanceIs
  <2>4. id \in Unvisited /\ Unvisited' = Unvisited \ {id}
    BY <1>8, <2>1, EnteredLeaves
  <2>5. Ahead(stack') + Cardinality(ids') < Ahead(stack) + Cardinality(ids) + Visit
    BY <1>3, <1>4, <1>5, <2>2, <2>3
  <2> QED BY <2>4, <2>5, Nearer
<1> QED BY <1>2, <1>6, <1>7, <1>8

LEMMA QueryEdgesNearer ==
  ASSUME FiniteGraph, TypeOK, TypeOK', QueryEdges
  PROVE  Distance' < Distance
<1> DEFINE n == Len(stack)
           f == stack'[n]
<1>1. /\ n \in Nat \ {0} /\ stack[n] \in VertexFrames /\ stack[n].left = {}
      /\ stack' \in Seq(Frames) /\ Len(stack') = n /\ Same(n - 1)
      /\ f.call = "vertex"
      /\ \/ stack[n].next = "out" /\ f.next = "in"
         \/ stack[n].next = "in" /\ f.next = "end"
      /\ UNCHANGED <<ids, vertex_list, edge_list>>
  BY QueryEdgesDoes
<1>2. stack # <<>>
  BY DEF QueryEdges, Running
<1>3. /\ f \in Frames /\ Ahead(stack') = Ahead(Rest) + 1 + ToDo(f)
      /\ Ahead(Rest) \in Nat /\ Ahead(stack) = Ahead(Rest) + 1 + ToDo(stack[n])
  BY <1>1, <1>2, AheadTop, AheadTopNext
<1>4. f \in VertexFrames
  BY <1>1, <1>3 DEF Frames, EdgeFrames
<1> DEFINE c == Cardinality(Edges)
<1>5. /\ c \in Nat /\ Cardinality(f.left) \in 0 .. c
      /\ f.next = "in" => ToDo(f) = Cardinality(f.left) + (c + 1) * 1
      /\ f.next = "end" => ToDo(f) = Cardinality(f.left) + (c + 1) * 0
  BY <1>3, <1>4, ToDoIs
<1>6. /\ stack[n].next = "out" => ToDo(stack[n]) = 0 + (c + 1) * 2
      /\ stack[n].next = "in" => ToDo(stack[n]) = 0 + (c + 1) * 1
  BY <1>1, ToDoIs, FS_EmptySet DEF Frames
<1>7. ToDo(f) < ToDo(stack[n]) /\ ToDo(f) \in Nat /\ ToDo(stack[n]) \in Nat
  <2> HIDE DEF c, f, n
  <2> QED BY <1>1, <1>5, <1>6
<1>8. Cardinality(ids) \in Nat /\ Cardinality(ids') = Cardinality(ids)
  BY <1>1, DistanceIs
<1> HIDE DEF f, n
<1>9. Ahead(stack') + Cardinality(ids') < Ahead(stack) + Cardinality(ids)
  BY <1>3, <1>7, <1>8
<1> QED BY <1>1, <1>9, Nearer

LEMMA NextEdgeNearer ==
  ASSUME FiniteGraph, TypeOK, TypeOK', NextEdge
  PROVE  Distance' < Distance
<1> DEFINE n == Len(stack)
           f == stack'[n]
           g == stack'[n + 1]
<1>1. /\ n \in Nat \ {0} /\ stack[n] \in VertexFrames /\ stack' \in Seq(Frames) /\ Same(n - 1)
      /\ UNCHANGED <<ids, vertex_list>>
  BY NextEdgeDoes
<1>2. PICK e \in stack[n].left :
        /\ f.call = "vertex" /\ f.next = stack[n].next /\ f.left = stack[n].left \ {e}
        /\ (e \in edge_list /\ NoneEntered(n)) \/ EdgeEntered(e, n)
  BY NextEdgeDoes
<1>3. stack # <<>> /\ Len(stack') \in {n, n + 1} /\ e \in Edges
  BY <1>1, <1>2 DEF NextEdge, Running, NoneEntered, EdgeEntered, VertexFrames
<1>4. /\ f \in Frames /\ Ahead(Rest) \in Nat /\ Ahead(stack) = Ahead(Rest) + 1 + ToDo(stack[n])
      /\ Len(stack') = n => Ahead(stack') = Ahead(Rest) + 1 + ToDo(f)
      /\ Len(stack') = n + 1 => Ahead(stack') = Ahead(Rest) + 1 + ToDo(f) + 1 + ToDo(g)
  BY <1>1, <1>3, AheadTop, AheadTopNext
<1>5. f \in VertexFrames
  BY <1>2, <1>4 DEF Frames, EdgeFrames
<1> DEFINE c == Cardinality(Edges)
<1>6. ToDo(f) + 1 = ToDo(stack[n]) /\ ToDo(f) \in Nat
  <2>1. Cardinality(f.left) = Cardinality(stack[n].left) - 1 /\ Cardinality(stack[n].left) \in Nat
    <3>1. IsFiniteSet(stack[n].left)
      BY <1>1, FS_Subset DEF FiniteGraph, VertexFrames
    <3> QED BY <1>2, <3>1, FS_RemoveElement, FS_CardinalityType
  <2>2. /\ c \in Nat /\ ToDo(f) \in Nat
        /\ f.next = "out" => ToDo(f) = Cardinality(f.left) + (c + 1) * 2
        /\ f.next = "in" => ToDo(f) = Cardinality(f.left) + (c + 1) * 1
        /\ f.next = "end" => ToDo(f) = Cardinality(f.left) + (c + 1) * 0
    BY <1>4, <1>5, ToDoIs
  <2>3. /\ stack[n].next = "out" => ToDo(stack[n]) = Cardinality(stack[n].left) + (c + 1) * 2
        /\ stack[n].next = "in" => ToDo(stack[n]) = Cardinality(stack[n].left) + (c + 1) * 1
        /\ stack[n].next = "end" => ToDo(stack[n]) = Cardinality(stack[n].left) + (c + 1) * 0
    BY <1>1, ToDoIs DEF Frames
  <2>4. stack[n].next \in {"out", "in", "end"}
    BY <1>1 DEF VertexFrames
  <2> HIDE DEF c, f, n
  <2> QED BY <1>2, <2>1, <2>2, <2>3, <2>4
<1>7. Cardinality(ids) \in Nat /\ Cardinality(ids') = Cardinality(ids)
  BY <1>1, DistanceIs
<1>8. CASE NoneEntered(n)
  <2>1. UNCHANGED <<vertex_list, edge_list>> /\ Len(stack') = n
    BY <1>8 DEF NoneEntered
  <2> HIDE DEF f, g, n
  <2>2. Ahead(stack') + Cardinality(ids') < Ahead(stack) + Cardinality(ids)
    BY <1>4, <1>6, <1>7, <2>1
  <2> QED BY <2>1, <2>2, Nearer
<1>9. CASE EdgeEntered(e, n)
  <2>1. Len(stack') = n + 1 /\ g = [call |-> "edge", id |-> e, next |-> "from"]
    BY <1>9 DEF EdgeEntered
  <2>2. ToDo(g) \in Nat /\ ToDo(g) + 2 <= Visit /\ Visit \in Nat
    BY <1>3, <2>1, FrameCosts, DistanceIs
  <2>3. e \in Unvisited /\ Unvisited' = Unvisited \ {e}
    BY <1>3, <1>9, EnteredLeaves
  <2> HIDE DEF f, g, n
  <2>4. Ahead(stack') + Cardinality(ids') < Ahead(stack) + Cardinality(ids) + Visit
    BY <1>4, <1>6, <1>7, <2>1, <2>2
  <2> QED BY <2>3, <2>4, Nearer
<1> QED BY <1>2, <1>8, <1>9

LEMMA ReturnNearer ==
  ASSUME FiniteGraph, TypeOK, TypeOK', stack # <<>>, stack' = Rest,
         UNCHANGED <<ids, vertex_list, edge_list>>
  PROVE  Distance' < Distance
<1>1. /\ Ahead(stack') \in Nat /\ ToDo(top) \in Nat
      /\ Ahead(stack) = Ahead(stack') + 1 + ToDo(top)
  BY AheadTop, ToDoIs
<1>2. Cardinality(ids) \in Nat /\ Cardinality(ids') = Cardinality(ids)
  BY DistanceIs
<1> QED BY <1>1, <1>2, Nearer

LEMMA FollowsNearer ==
  ASSUME FiniteGraph, TypeOK, TypeOK', stack # <<>>, NEW end, NEW way, NEW after,
         \/ stack[Len(stack)].next = "from" /\ after = "to"
         \/ stack[Len(stack)].next = "to" /\ after = "end",
         Follows(end, way, after)
  PROVE  Distance' < Distance
<1> DEFINE n == Len(stack)
           f == stack'[n]
           g == stack'[n + 1]
<1>1. /\ n \in Nat \ {0} /\ stack[n] \in EdgeFrames /\ end \in Vertices
      /\ stack' \in Seq(Frames) /\ Same(n - 1) /\ f.call = "edge" /\ f.next = after
      /\ NoneEntered(n) \/ VertexEntered(end, n)
      /\ UNCHANGED <<ids, edge_list>>
  BY DEF Follows
<1>2. Len(stack') \in {n, n + 1}
  BY <1>1 DEF NoneEntered, VertexEntered
<1>3. /\ f \in Frames /\ Ahead(Rest) \in Nat /\ Ahead(stack) = Ahead(Rest) + 1 + ToDo(stack[n])
      /\ Len(stack') = n => Ahead(stack') = Ahead(Rest) + 1 + ToDo(f)
      /\ Len(stack') = n + 1 => Ahead(stack') = Ahead(Rest) + 1 + ToDo(f) + 1 + ToDo(g)
  BY <1>1, <1>2, AheadTop, AheadTopNext
<1>4. f \in EdgeFrames
  BY <1>1, <1>3 DEF Frames, VertexFrames
<1>5. ToDo(f) + 1 = ToDo(stack[n]) /\ ToDo(f) \in Nat
  <2>1. ToDo(f) \in Nat /\ (f.next = "to" => ToDo(f) = 1) /\ (f.next = "end" => ToDo(f) = 0)
    BY <1>3, <1>4, ToDoIs
  <2>2. (stack[n].next = "from" => ToDo(stack[n]) = 2) /\ (stack[n].next = "to" => ToDo(stack[n]) = 1)
    BY <1>1, ToDoIs DEF Frames
  <2> QED BY <1>1, <2>1, <2>2
<1>6. Cardinality(ids) \in Nat /\ Cardinality(ids') = Cardinality(ids)
  BY <1>1, DistanceIs
<1>7. CASE NoneEntered(n)
  <2>1. UNCHANGED <<vertex_list, edge_list>> /\ Len(stack') = n
    BY <1>7 DEF NoneEntered
  <2> HIDE DEF f, g, n
  <2>2. Ahead(stack') + Cardinality(ids') < Ahead(stack) + Cardinality(ids)
    BY <1>3, <1>5, <1>6, <2>1
  <2> QED BY <2>1, <2>2, Nearer
<1>8. CASE VertexEntered(end, n)
  <2>1. Len(stack') = n + 1 /\ g = [call |-> "vertex", id |-> end, next |-> "out", left |-> {}]
    BY <1>8 DEF VertexEntered
  <2>2. ToDo(g) \in Nat /\ ToDo(g) + 2 = Visit
    BY <1>1, <2>1, FrameCosts
  <2>3. end \in Unvisited /\ Unvisited' = Unvisited \ {end}
    BY <1>1, <1>8, EnteredLeaves
  <2> HIDE DEF f, g, n
  <2>4. Ahead(stack') + Cardinality(ids') < Ahead(stack) + Cardinality(ids) + Visit
    BY <1>3, <1>5, <1>6, <2>1, <2>2
  <2> QED BY <2>3, <2>4, Nearer
<1> QED BY <1>1, <1>7, <1>8

LEMMA ThrowNearer ==
  ASSUME FiniteGraph, TypeOK, TypeOK', Throw
  PROVE  Distance' < Distance
<1>1. stack # <<>> /\ stack' = <<>> /\ ids' = {} /\ UNCHANGED <<vertex_list, edge_list>>
  BY DEF Throw
<1>2. Ahead(stack') = 0 /\ Cardinality(ids') = 0
  <2>1. <<>> \in Seq(Frames) /\ Len(<<>>) = 0
    OBVIOUS
  <2> QED BY <1>1, <2>1, AheadIs, FS_EmptySet
<1>3. Ahead(stack) > 0 /\ Ahead(stack) \in Nat /\ Cardinality(ids) \in Nat
  <2>1. Ahead(Rest) \in Nat /\ ToDo(top) \in Nat /\ Ahead(stack) = Ahead(Rest) + 1 + ToDo(top)
    BY <1>1, AheadTop, ToDoIs
  <2> QED BY <2>1, DistanceIs
<1> QED BY <1>1, <1>2, <1>3, Nearer

\* Every step of a walk on a finite graph brings it nearer to its end: walks end, on
\* cyclic graphs, loops and parallel edges too, whatever the direction.
THEOREM WalksEnd == ASSUME FiniteGraph PROVE Spec => WalkEnds
<1>1. TypeOK /\ Listed /\ TypeOK' /\ [Next]_vars => [Distance' < Distance]_vars
  <2> SUFFICES ASSUME TypeOK, Listed, TypeOK', Next
               PROVE  Distance' < Distance \/ UNCHANGED vars
    OBVIOUS
  <2>1. CASE Start
    BY <2>1, StartNearer
  <2>2. CASE QueryEdges
    BY <2>2, QueryEdgesNearer
  <2>3. CASE NextEdge
    BY <2>3, NextEdgeNearer
  <2>4. CASE VertexReturns
    BY <2>4, ReturnNearer DEF VertexReturns, Running
  <2>5. CASE FollowFrom
    BY <2>5, FollowFromDoes, FollowsNearer DEF FollowFrom, Running
  <2>6. CASE FollowTo
    BY <2>6, FollowToDoes, FollowsNearer DEF FollowTo, Running
  <2>7. CASE EdgeReturns
    BY <2>7, ReturnNearer DEF EdgeReturns, Running
  <2>8. CASE Throw
    BY <2>8, ThrowNearer
  <2>9. CASE Over
    BY <2>9 DEF Over
  <2> QED BY <2>1, <2>2, <2>3, <2>4, <2>5, <2>6, <2>7, <2>8, <2>9 DEF Next, Walk
<1> QED BY <1>1, ListedHolds, PTL DEF Spec, WalkEnds
=============================================================================
