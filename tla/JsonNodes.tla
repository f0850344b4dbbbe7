----------------------------- MODULE JsonNodes -----------------------------
(* The nodes of JsonFree documents and the operations of JsonFree, JsonBase *)
(* and the builders on them. A heap h maps every live node to its fields;   *)
(* an operation takes a heap and gives the heap it leaves, or a Result when *)
(* the code also returns a pointer. nullptr, and a call that threw, is      *)
(* NoNode. The text of a path is the keys that are joined in it; names are  *)
(* what split() makes of the text.                                          *)
EXTENDS Integers, FiniteSets, Functions, SequencesExt, TLC

CONSTANTS NoNode,   \* nullptr
          Cuts,     \* the keys that split() cuts, each with the names it makes of it
          MaxNodes  \* bound on the live nodes

ASSUME NoNodeAssumption == NoNode \notin Nat   \* the numbers are the addresses

VARIABLE node    \* the live nodes of all documents

Structured == {"Object", "Array"}

\* What is<long> and is<double> accept, and the text v2string() gives back.
\* is<int> accepts fewer: the last one needs more than 32 bits.
Longs == ("7" :> "7") @@ ("007" :> "7") @@ ("5000000000" :> "5000000000")
Ints == {"7", "007"}
Doubles == ("1.5" :> "1.5") @@ ("2.0" :> "2")

\* The type and the value a text is given when its type is inferred.
Infer(text) ==
    CASE text \in {"~", "null"} -> <<"Null", "null">>
      [] text \in {"true", "false"} -> <<"Bool", text>>
      [] text \in DOMAIN Longs -> <<"Int", Longs[text]>>
      [] text \in DOMAIN Doubles -> <<"Double", Doubles[text]>>
      [] OTHER -> <<"String", text>>

\* JsonBase::checked_value: the text itself when it is legal for the type.
CheckedValue(type, text) ==
    CASE type = "Null" -> "null"
      [] type = "Bool" -> IF text = "true" THEN "true" ELSE "false"
      [] type = "Int" -> IF text \in Ints THEN text ELSE "0"
      [] type = "Double" -> IF text \in DOMAIN Longs \cup DOMAIN Doubles THEN text ELSE "0.0"
      [] type = "String" -> text
      [] OTHER -> ""

------------------------------------------------------------------------------
(* The shape of a heap. *)

Result(h, at) == [h |-> h, at |-> at]

IsTop(h, n) == h[n].parent = NoNode
Size(h, n) == Len(h[n].children)
LastChild(h, n) == Last(h[n].children)
NextKey(h, n) == ToString(Size(h, n))

\* The children of n with the given key, the first of which find_key returns.
FindKey(h, n, key) == SelectInSeq(h[n].children, LAMBDA c : h[c].key = key)

\* The place of m among the children of n.
PlaceOf(h, n, m) == SelectInSeq(h[n].children, LAMBDA c : c = m)

\* n and what hangs below it: what goes when its owner drops n.
Deeper(h, S) == S \cup UNION {ToSet(h[m].children) : m \in S}
Below(h, n) ==
    LET down[k \in 0..Cardinality(DOMAIN h)] == IF k = 0 THEN {n} ELSE Deeper(h, down[k - 1])
    IN down[Cardinality(DOMAIN h)]

Added(h, n, r) == [m \in DOMAIN h \cup {n} |-> IF m = n THEN r ELSE h[m]]
Dropped(h, S) == Restrict(h, DOMAIN h \ S)
ChildrenDropped(h, n) == Dropped(h, Below(h, n) \ {n})

\* At least k addresses that are free, and the one that `new` gives.
FreeNodes(h, k) == 1..(Cardinality(DOMAIN h) + k) \ DOMAIN h
NewNode(h) == Min(FreeNodes(h, 1))

\* What no node owns: the documents, variables of the program.
Owned(h, n) == \E m \in DOMAIN h : n \in ToSet(h[m].children)
Documents == {n \in DOMAIN node : ~Owned(node, n)}

\* Room for k more nodes: the bound on the documents.
Room(k) == Cardinality(DOMAIN node) + k <= MaxNodes

------------------------------------------------------------------------------
(* update_node, append_node and the reading of paths. *)

UpdateNode(h, n, type, value) ==
    [ChildrenDropped(h, n) EXCEPT ![n] = [@ EXCEPT !.type = type, !.val = value, !.children = <<>>]]

AppendNode(h, n, key, type, value) ==
    LET m == NewNode(h)
    IN Added([h EXCEPT ![n].children = Append(@, m)], m,
             [type |-> type, key |-> key, val |-> value, ndx |-> Size(h, n),
              parent |-> n, children |-> <<>>])

Appended(h, n, key, type, value) ==
    LET g == AppendNode(h, n, key, type, value) IN Result(g, LastChild(g, n))

\* Scalars appended one after the other, each with its key, type and value.
AppendAll(h, n, entries) ==
    LET after[i \in 0..Len(entries)] ==
            IF i = 0 THEN h
            ELSE AppendNode(after[i - 1], n, entries[i][1], entries[i][2][1], entries[i][2][2])
    IN after[Len(entries)]

\* split() of the keys of a path: a key with one of ./[]" in it gives several
\* names, an empty one none. Keys that begin or end with a blank are left out.
Split(path) ==
    LET names[i \in 0..Len(path)] ==
            IF i = 0 THEN <<>>
            ELSE names[i - 1] \o IF path[i] \in DOMAIN Cuts THEN Cuts[path[i]] ELSE <<path[i]>>
    IN names[Len(path)]

\* JsonFree::field of names: nullptr when one on the way is not found.
FieldNames(h, n, names) ==
    LET at[i \in 0..Len(names)] ==
            IF i = 0 THEN n
            ELSE IF at[i - 1] = NoNode \/ FindKey(h, at[i - 1], names[i]) = 0 THEN NoNode
            ELSE h[at[i - 1]].children[FindKey(h, at[i - 1], names[i])]
    IN at[Len(names)]

\* JsonFree::field of a text.
Field(h, n, path) == FieldNames(h, n, Split(path))

\* One name of field_add_names: what is missing is made an Object, in an array
\* only at its end, in a scalar nowhere.
FieldAddName(r, name) ==
    CASE r.at = NoNode -> r
      [] r.at # NoNode /\ FindKey(r.h, r.at, name) # 0 ->
            [r EXCEPT !.at = r.h[@].children[FindKey(r.h, @, name)]]
      [] r.at # NoNode /\ FindKey(r.h, r.at, name) = 0 ->
            IF \/ r.h[r.at].type = "Object"
               \/ r.h[r.at].type = "Array" /\ name = NextKey(r.h, r.at)
            THEN Appended(r.h, r.at, name, "Object", "")
            ELSE [r EXCEPT !.at = NoNode]

FieldAdd(h, n, names) ==
    LET after[i \in 0..Len(names)] ==
            IF i = 0 THEN Result(h, n) ELSE FieldAddName(after[i - 1], names[i])
    IN after[Len(names)]

\* JsonBase::get_path: the keys it joins; the key of a top is only its own path.
GetPath(h, n) ==
    LET up[k \in 0..Cardinality(DOMAIN h)] ==
            IF k = 0 THEN [m \in DOMAIN h |-> <<h[m].key>>]
            ELSE [m \in DOMAIN h |->
                    IF IsTop(h, m) \/ IsTop(h, h[m].parent) THEN <<h[m].key>>
                    ELSE Append(up[k - 1][h[m].parent], h[m].key)]
    IN up[Cardinality(DOMAIN h)][n]

\* get_child(size_t) and get_child(string): the next element, or a new key, is
\* added as Null.
GetChildAt(h, n, idx) ==
    CASE idx > Size(h, n) -> Result(h, NoNode)
      [] idx = Size(h, n) -> Appended(h, n, NextKey(h, n), "Null", "")
      [] OTHER -> Result(h, h[n].children[idx + 1])

GetChildKey(h, n, key) ==
    IF FindKey(h, n, key) = 0 THEN Appended(h, n, key, "Null", "")
    ELSE Result(h, h[n].children[FindKey(h, n, key)])

------------------------------------------------------------------------------
(* Copies. *)

Rank(S, m) == Cardinality({k \in S : k < m})

\* A new node for each of S.
Twins(h, S) ==
    LET free == FreeNodes(h, Cardinality(S))
    IN [m \in S |-> CHOOSE k \in free : Rank(free, k) = Rank(S, m)]

TwinsOf(c, twin) == [i \in DOMAIN c |-> twin[c[i]]]

\* The copy of m, a node below s, for the tree of t.
TwinOf(h, t, s, twin, m) ==
    [h[m] EXCEPT !.parent = IF @ = s THEN t ELSE twin[@],
                 !.ndx = PlaceOf(h, h[m].parent, m) - 1,
                 !.children = TwinsOf(@, twin)]

\* A new node t is given deep copies of the children of s, in new nodes.
CopyBelow(h, t, s) ==
    LET from == Below(h, s) \ {s}
        twin == Twins(h, from)
        twins == {twin[m] : m \in from}
        g == [h EXCEPT ![t].children = TwinsOf(h[s].children, twin)]
    IN [k \in DOMAIN h \cup twins |->
           IF k \in twins THEN TwinOf(h, t, s, twin, CHOOSE m \in from : twin[m] = k) ELSE g[k]]

\* make_shared<JsonFree>(*c): the copy constructor.
Copied(h, c) ==
    LET m == NewNode(h)
        r == [h[c] EXCEPT !.ndx = 0, !.parent = NoNode, !.children = <<>>]
    IN Result(CopyBelow(Added(h, m, r), m, c), m)

\* A top becomes the last child of t.
Attached(h, t, m) ==
    [h EXCEPT ![m] = [@ EXCEPT !.parent = t, !.ndx = Size(h, t)], ![t].children = Append(@, m)]

CopyChild(h, t, c) == LET r == Copied(h, c) IN Attached(r.h, t, r.at)

\* Copies of the children of s, one after the other, become children of t. When
\* t is below s the copies that t has by then are copied with it.
CopyChildren(h, t, s) ==
    LET after[i \in 0..Size(h, s)] ==
            IF i = 0 THEN h ELSE CopyChild(after[i - 1], t, h[s].children[i])
    IN after[Size(h, s)]

\* JsonFree::copy: neither the key nor the parent is changed.
Copy(h, t, s) == CopyChildren(UpdateNode(h, t, h[s].type, h[s].val), t, s)

\* Mutation of Adopted: move() sets the parent of the last child only.
AdoptedLast(h, t, s) ==
    IF Size(h, s) = 0 THEN h ELSE [h EXCEPT ![LastChild(h, s)].parent = t]

\* The children of s are given to t, with t as their parent.
Adopted(h, t, s) ==
    [m \in DOMAIN h |->
        IF m \in ToSet(h[s].children) THEN [h[m] EXCEPT !.parent = t] ELSE h[m]]

\* JsonFree::move.
Move(h, t, s) ==
    [Adopted(ChildrenDropped(h, t), t, s) EXCEPT
        ![t] = [@ EXCEPT !.type = h[s].type, !.val = h[s].val, !.children = h[s].children],
        ![s] = [@ EXCEPT !.val = "", !.children = <<>>]]

------------------------------------------------------------------------------
(* Removal and arrays. *)

\* Mutation of RemoveChild: the keys of an array are left as they were.
RemoveChildKeys(h, n, child, isArray) ==
    LET pos == PlaceOf(h, n, child)
        behind == {h[n].children[i] : i \in (pos + 1)..Size(h, n)}
        g == [m \in DOMAIN h |-> IF m \in behind THEN [h[m] EXCEPT !.ndx = @ - 1] ELSE h[m]]
    IN Dropped([g EXCEPT ![n].children = RemoveAt(@, pos)], Below(h, child))

\* remove_child: the ones behind move up, in an array with their keys.
RemoveChild(h, n, child, isArray) ==
    LET pos == PlaceOf(h, n, child)
        behind == {h[n].children[i] : i \in (pos + 1)..Size(h, n)}
        up(m) == [h[m] EXCEPT !.ndx = @ - 1,
                              !.key = IF isArray THEN ToString(h[m].ndx - 1) ELSE @]
        g == [m \in DOMAIN h |-> IF m \in behind THEN up(m) ELSE h[m]]
    IN Dropped([g EXCEPT ![n].children = RemoveAt(@, pos)], Below(h, child))

\* JsonFree::clear.
ClearNode(h, n) ==
    UpdateNode(h, n, h[n].type, CASE h[n].type = "Bool" -> "false"
                                  [] h[n].type \in {"Int", "Double"} -> "0"
                                  [] OTHER -> "")

\* The first elements only.
Shrunk(h, n, size) ==
    LET tail == {h[n].children[i] : i \in (size + 1)..Size(h, n)}
    IN Dropped([h EXCEPT ![n].children = SubSeq(@, 1, size)], UNION {Below(h, m) : m \in tail})

\* One more element as the first one is, with the default value when given.
CopyFirst(h, n, text) ==
    LET d == h[n].children[1]
        r == Appended(h, n, NextKey(h, n), h[d].type, h[d].val)
        g == CopyBelow(r.h, r.at, d)
    IN IF text # "" /\ h[d].type \notin Structured
       THEN [g EXCEPT ![r.at].val = CheckedValue(h[d].type, text)] ELSE g

CopiesOfFirst(h, n, count, text) ==
    LET after[i \in 0..count] == IF i = 0 THEN h ELSE CopyFirst(after[i - 1], n, text)
    IN after[count]

\* array_resize of a node that is an Array.
ArrayResize(h, n, size, text) ==
    CASE size <= Size(h, n) -> Shrunk(h, n, size)
      [] size > Size(h, n) /\ Size(h, n) > 0 -> CopiesOfFirst(h, n, size - Size(h, n), text)
      [] size > Size(h, n) /\ Size(h, n) = 0 ->
           AppendAll(UpdateNode(h, n, "Array", ""), n,
                     [i \in 1..size |-> <<ToString(i - 1), Infer(text)>>])

\* The second level of array_resize_xD throws at a child that is no array.
ResizeChild(r, c, size, text) ==
    IF r.at = NoNode \/ r.h[c].type # "Array" THEN Result(r.h, NoNode)
    ELSE Result(ArrayResize(r.h, c, size, text), r.at)

\* array_resize_xD for two levels: the children before the one that throws stay
\* resized.
ArrayResize2D(h, n, size1, size2, text) ==
    LET g == ArrayResize(h, n, size1, text)
        after[i \in 0..Size(g, n)] ==
            IF i = 0 THEN Result(g, n)
            ELSE ResizeChild(after[i - 1], g[n].children[i], size2, text)
    IN after[Size(g, n)]

------------------------------------------------------------------------------
(* Values set on a node and on a path. *)

\* set_list_from and set_map_from of scalars.
SetListFrom(h, n, values) ==
    AppendAll(UpdateNode(h, n, "Array", ""), n,
              [i \in DOMAIN values |-> <<ToString(i - 1), values[i]>>])

SetMapFrom(h, n, entries) == AppendAll(UpdateNode(h, n, "Object", ""), n, entries)

\* set_value_via_path and set_scalar_via_path: false, and nothing is set, when
\* the names that split() made of the path lead to a place that cannot be made.
SetValueViaPath(h, n, names, type, value) ==
    LET r == FieldAdd(h, n, names)
    IN IF r.at = NoNode THEN r.h ELSE UpdateNode(r.h, r.at, type, value)

SetScalarViaPath(h, n, names, text) ==
    SetValueViaPath(h, n, names, Infer(text)[1], Infer(text)[2])

\* add_object_via_path and add_array_via_path.
AddViaPath(h, n, names, type) ==
    LET r == FieldAdd(h, n, names)
    IN IF r.at = NoNode \/ r.h[r.at].type = type THEN r
       ELSE [r EXCEPT !.h = UpdateNode(r.h, r.at, type, "")]

\* JsonBase::set_oid of a top: _key has the part of the id behind its label.
SetOid(h, n, key, id) ==
    SetValueViaPath(SetValueViaPath(h, n, <<"_key">>, "String", key), n, <<"_id">>, "String", id)

\* placehold_null: every Null below n becomes the text "---".
PlaceholdNull(h, n) ==
    [m \in DOMAIN h |->
        IF m \in Below(h, n) \ {n} /\ h[m].type = "Null"
        THEN [h[m] EXCEPT !.type = "String", !.val = "---"] ELSE h[m]]
=============================================================================
