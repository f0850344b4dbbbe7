------------------------------ MODULE JsonTree ------------------------------
(* JsonFree documents in the hands of a program: trees of nodes with a link *)
(* to the parent, an index in it and a key, built and changed through any   *)
(* reference to a node that is still there (jsonfree.h, jsonfree.cpp,       *)
(* jsonbase.cpp, jsonbuilder.h). One action is one call.                    *)
EXTENDS JsonNodes

CONSTANTS Names,     \* keys of objects
          Texts,     \* texts given as values
          Slips,     \* what else a program does: "moves out", it makes a document of a field
                     \* by move; "moves in", it moves a node into one that is below it
          MaxCalls   \* bound on the calls of a run

VARIABLE calls   \* calls made so far

treeVars == <<node, calls>>

------------------------------------------------------------------------------

Tops == {n \in DOMAIN node : IsTop(node, n)}

Top(type) == [type |-> type, key |-> "top", val |-> "", ndx |-> 0, parent |-> NoNode, children |-> <<>>]

InitTree == node = Added(<<>>, NewNode(<<>>), Top("Object")) /\ calls = 0

Call(h) == node' = h /\ calls' = calls + 1

\* Values the program gives: their types and texts, as set_from makes them.
Values == {Infer(text) : text \in Texts}
\* The names of a path: none that split() would have cut.
Parts == Names \ DOMAIN Cuts
Paths == {<<a>> : a \in Parts} \cup {<<a, b>> : a \in Parts, b \in Parts \cup {"0"}}
SmallArrays == UNION {[1..k -> Values] : k \in 0..2}

------------------------------------------------------------------------------
(* Whole documents. *)

\* JsonFree::object() and array(), and the end of a document.
Construct(type) == Room(1) /\ Call(Added(node, NewNode(node), Top(type)))
Destroy(n) ==
    /\ n \in Documents /\ Cardinality(Documents) > 1
    /\ Call(Dropped(node, Below(node, n)))

\* The copy constructor: a new document with the key of the old node.
CopyConstruct(n) == Room(Cardinality(Below(node, n))) /\ Call(Copied(node, n).h)

\* The move constructor: the new node keeps the parent and the index of the old
\* one, which of a top are none.
MoveConstruct(n) ==
    /\ Room(1) /\ ("moves out" \in Slips \/ IsTop(node, n))
    /\ LET m == NewNode(node)
       IN Call(Move(Added(node, m, [node[n] EXCEPT !.val = "", !.children = <<>>]), m, n))

\* Assignments. From what is below its target an assignment would read what it
\* has freed: that is left out.
CopyAssign(t, s) ==
    /\ s \notin Below(node, t)
    /\ LET h == Copy(node, t, s) IN Cardinality(DOMAIN h) <= MaxNodes /\ Call(h)

MoveAssign(t, s) ==
    /\ s \notin Below(node, t)
    /\ "moves in" \in Slips \/ t \notin Below(node, s)
    /\ Call(Move(node, t, s))

------------------------------------------------------------------------------
(* One node. *)

SetFrom(n, v) == Call(UpdateNode(node, n, v[1], v[2]))
SetList(n, values) == Room(Len(values)) /\ Call(SetListFrom(node, n, values))
SetMap(n, a, v) == Room(1) /\ Call(SetMapFrom(node, n, <<<<a, v>>>>))
Clear(n) == Call(ClearNode(node, n))
PlaceholdNulls(n) == Call(PlaceholdNull(node, n))

\* remove(): of a top, and of what its parent does not list, it returns false.
RemoveField(n) ==
    LET p == node[n].parent
    IN /\ ~IsTop(node, n) /\ n \in ToSet(node[p].children)
       /\ Call(RemoveChild(node, p, n, node[p].type = "Array"))

\* operator[]: a Null becomes an Array or an Object first; a scalar throws.
Indexed(h, n, type) == IF h[n].type = "Null" THEN UpdateNode(h, n, type, "") ELSE h

IndexNumber(n, idx) ==
    /\ Room(1)
    /\ LET h == Indexed(node, n, "Array")
       IN h[n].type \in Structured /\ Call(GetChildAt(h, n, idx).h)

IndexName(n, a) ==
    /\ Room(1)
    /\ LET h == Indexed(node, n, "Object")
       IN h[n].type \in Structured /\ Call(GetChildKey(h, n, a).h)

------------------------------------------------------------------------------
(* Builders, paths, arrays. *)

\* The constructor of a builder empties the node it is made for.
StartBuilder(n, type) == Call(UpdateNode(node, n, type, ""))

AddToObject(n, a, v) ==
    /\ node[n].type = "Object"
    /\ Room(1)
    /\ Call(AppendNode(node, n, a, v[1], v[2]))

AddToArray(n, v) ==
    /\ node[n].type = "Array"
    /\ Room(1)
    /\ Call(AppendNode(node, n, NextKey(node, n), v[1], v[2]))

SetScalarVia(n, path, text) == Room(2) /\ Call(SetScalarViaPath(node, n, path, text))
AddVia(n, path, type) == Room(2) /\ Call(AddViaPath(node, n, path, type).h)
SetOidOf(n, id) ==
    /\ IsTop(node, n) /\ node[n].type = "Object"
    /\ Room(2)
    /\ Call(SetOid(node, n, id, id))

Resize(n, size, text) ==
    /\ node[n].type = "Array"
    /\ Room(size * Cardinality(Below(node, n)))
    /\ Call(ArrayResize(node, n, size, text))

ResizeXD(n, size1, size2, text) ==
    /\ node[n].type = "Array"
    /\ Room(size1 * (Cardinality(Below(node, n)) + size2))
    /\ Call(ArrayResize2D(node, n, size1, size2, text).h)

NextDocument ==
    \/ \E type \in Structured : Construct(type)
    \/ \E n \in DOMAIN node : Destroy(n) \/ CopyConstruct(n) \/ MoveConstruct(n)
    \/ \E t, s \in DOMAIN node : CopyAssign(t, s) \/ MoveAssign(t, s)

NextNode ==
    \E n \in DOMAIN node :
        \/ Clear(n) \/ RemoveField(n) \/ PlaceholdNulls(n)
        \/ \E v \in Values : SetFrom(n, v) \/ AddToArray(n, v)
        \/ \E a \in Names, v \in Values : SetMap(n, a, v) \/ AddToObject(n, a, v)
        \/ \E values \in SmallArrays : SetList(n, values)
        \/ \E type \in Structured : StartBuilder(n, type)
        \/ \E idx \in 0..1 : IndexNumber(n, idx)
        \/ \E a \in Names : IndexName(n, a)

NextPath ==
    \E n \in DOMAIN node :
        \/ \E path \in Paths, text \in Texts : SetScalarVia(n, path, text)
        \/ \E path \in Paths, type \in Structured : AddVia(n, path, type)
        \/ \E id \in Texts : SetOidOf(n, id)
        \/ \E size \in 0..2, text \in Texts : Resize(n, size, text)
        \/ \E size1, size2 \in 1..2, text \in Texts : ResizeXD(n, size1, size2, text)

NextTree == calls < MaxCalls /\ (NextDocument \/ NextNode \/ NextPath)
SpecTree == InitTree /\ [][NextTree]_treeVars

------------------------------------------------------------------------------
(* What must hold. *)

\* After any calls every child has the parent that lists it, at the index it
\* has there, every node that has a parent is listed by it, and only structures
\* have children. (A copy that shared its children with the original, or a
\* removal that left an index behind, would break it; the GUI and getParent()
\* rely on it.) A node that was moved out of its parent does not follow it.
ParentsAgree ==
    \A n \in DOMAIN node :
        /\ \A i \in 1..Size(node, n) :
              LET c == node[node[n].children[i]] IN c.parent = n /\ c.ndx = i - 1
        /\ Size(node, n) > 0 => node[n].type \in Structured
        /\ ~IsTop(node, n) => \E i \in 1..Size(node, node[n].parent) :
                                  node[node[n].parent].children[i] = n

\* The path a node says it has (get_path) leads from its top back to it
\* (field), whatever was removed, resized, moved or copied before, while no
\* object was given a key twice, and unless split() cuts a key on the way.
PathsResolve ==
    (\A m \in DOMAIN node : node[m].type = "Object" =>
        IsInjective([i \in 1..Size(node, m) |-> node[node[m].children[i]].key])) =>
    \A top \in Tops : \A n \in Below(node, top) \ {top} :
        \/ Field(node, top, GetPath(node, n)) = n
        \/ \E i \in DOMAIN GetPath(node, n) : GetPath(node, n)[i] \in DOMAIN Cuts
=============================================================================
