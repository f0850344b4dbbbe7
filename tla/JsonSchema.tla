----------------------------- MODULE JsonSchema -----------------------------
(* JsonSchema documents: trees of nodes that follow the definition of a      *)
(* structure (jsonschema.h, jsonschema.cpp), and the definitions as          *)
(* schema.h and schema_thrift.cpp keep them. A node has a field definition   *)
(* (fld), how deep it is in the type of that field (level), and the          *)
(* structure it belongs to or, for a structure, has (sd). One action is one  *)
(* call.                                                                     *)
EXTENDS JsonNodes

CONSTANTS Thrift,         \* structure name -> sequence of field definitions
          TopStruct,      \* the schema of the documents
          Starts,         \* sequences of paths, made in a document at first
          Values,         \* <<type, text>> of values that are given
          MapKeys,        \* keys that are given in maps, besides numbers
          Slips,          \* what else a program does: "required", it removes required fields of
                          \* the elements of lists and maps; "moves", it moves a field away;
                          \* "misfits", it assigns a document to a field of another type;
                          \* "retypes", it assigns a copied field to a document;
                          \* "copies", it changes the copy of a list, a map or a scalar
          MaxCalls        \* bound on the calls of a run

VARIABLE calls   \* calls made so far

vars == <<node, calls>>

------------------------------------------------------------------------------
(* Schemas. *)

\* read_type_spec: the types of all levels; a map has its key's and its value's.
RECURSIVE read_type_spec(_)
read_type_spec(spec) ==
    CASE spec.typeId \in {"list", "set"} -> <<spec.typeId>> \o read_type_spec(spec.elem)
      [] spec.typeId = "map" -> <<"map", spec.key>> \o read_type_spec(spec.value)
      [] OTHER -> <<spec.typeId>>

RECURSIVE className(_)
className(spec) ==
    CASE spec.typeId \in {"list", "set"} -> className(spec.elem)
      [] spec.typeId = "map" -> className(spec.value)
      [] spec.typeId = "struct" -> spec.class
      [] OTHER -> ""

\* read_field.
Field_(f) == [id |-> f.key, name |-> f.name, required |-> f.required = "required",
              default |-> f.default, type |-> read_type_spec(f.spec), class |-> className(f.spec)]

Structs == [s \in DOMAIN Thrift |-> [i \in DOMAIN Thrift[s] |-> Field_(Thrift[s][i])]]

TopField == [id |-> 1, name |-> "top", required |-> FALSE, default |-> <<>>,
             type |-> <<"struct">>, class |-> ""]

\* StructDef::getField by name and by id: of two with the same, the last one.
getField(s, name) == SelectLastInSeq(Structs[s], LAMBDA f : f.name = name)
getFieldId(s, id) == SelectLastInSeq(Structs[s], LAMBDA f : f.id = id)

getFieldsBefore(s, name) ==
    {Structs[s][i].name : i \in 1..(SelectInSeq(Structs[s], LAMBDA f : f.name = name) - 1)}

\* The lists, sets and maps around the innermost type.
RECURSIVE Nesting(_)
Nesting(types) ==
    CASE types[1] \in {"list", "set"} -> 1 + Nesting(SubSeq(types, 2, Len(types)))
      [] types[1] = "map" -> 1 + Nesting(SubSeq(types, 3, Len(types)))
      [] OTHER -> 0

\* getPathFromIds: the names for the ids; inside a list or a map the id itself.
RECURSIVE getPathFromIds(_, _)
getPathFromIds(s, ids) ==
    LET f == Structs[s][getFieldId(s, ids[1])]
        inner == SubSeq(ids, 2, Min({Len(ids), 1 + Nesting(f.type)}))
        rest == SubSeq(ids, 2 + Nesting(f.type), Len(ids))
        path == <<f.name>> \o [i \in DOMAIN inner |-> ToString(inner[i])]
    IN CASE ids = <<>> \/ getFieldId(s, ids[1]) = 0 -> <<>>
         [] rest = <<>> \/ Last(f.type) # "struct" -> path
         [] OTHER -> path \o getPathFromIds(f.class, rest)

------------------------------------------------------------------------------
(* Types of nodes. *)

fieldType(h, n) == h[n].fld.type[h[n].level + 1]

fieldtype2basetype(t) ==
    CASE t = "bool" -> "Bool"
      [] t \in {"byte", "i8", "i16", "i32"} -> "Int"
      [] t \in {"u64", "i64", "double"} -> "Double"
      [] t \in {"string", "utf8", "utf16"} -> "String"
      [] t \in {"struct", "map"} -> "Object"
      [] t \in {"list", "set"} -> "Array"
      [] OTHER -> "Null"

isStruct(h, n) == IsTop(h, n) \/ fieldType(h, n) = "struct"
isMap(h, n) == ~IsTop(h, n) /\ fieldType(h, n) = "map"

\* type(): whatever the schema says, the value "null" is Null.
type(h, n) == IF h[n].val = "null" THEN "Null" ELSE fieldtype2basetype(fieldType(h, n))

Numbers == {"Int", "Double"}
test_assign_value(h, n, atype) ==
    LET own == fieldtype2basetype(fieldType(h, n))
    IN atype \in {own, "Null"} \/ (own \in Numbers /\ atype \in Numbers)

------------------------------------------------------------------------------
(* update_node and append_node. *)

\* struct2model adds what is required and what has a default.
Shown(f) == f.required \/ f.default # <<>>

Emptied(h, n) == [ChildrenDropped(h, n) EXCEPT ![n].children = <<>>]
Linked(r, n) == [r.h EXCEPT ![n].children = Append(@, r.at)]

\* A node that its parent does not list yet.
Unlinked(h, p, fld, level, key, val) ==
    LET m == NewNode(h)
    IN Result(Added(h, m, [sd |-> h[p].sd, fld |-> fld, level |-> level, key |-> key, val |-> val,
                           ndx |-> Size(h, p), parent |-> p, children |-> <<>>]), m)

set_value(h, n, val) == [h EXCEPT ![n].val = val]

RECURSIVE set_children(_, _)
\* set_default_value: of a field its default, which is loaded into it; otherwise
\* by the type the node has now. update_node of the default is written out.
set_default_value(h, n) ==
    LET f == h[n].fld
    IN IF h[n].level = 0 /\ f.default # <<>>
       THEN set_value(set_children(h, n), n, f.default[2])
       ELSE set_value(h, n, CASE type(h, n) = "Bool" -> "false"
                              [] type(h, n) \in Numbers -> "0"
                              [] OTHER -> "")

\* The constructor of an empty field.
NewField(h, p, f) ==
    LET r == Unlinked(h, p, f, 0, f.name, "")
    IN Result(set_default_value(set_children(r.h, r.at), r.at), r.at)

set_children(h, n) ==
    LET s == IF IsTop(h, n) THEN h[n].sd ELSE h[n].fld.class
    IN IF ~isStruct(h, n) THEN Emptied(h, n)
       ELSE FoldLeft(LAMBDA g, f : Linked(NewField(g, n, f), n),
                     [Emptied(h, n) EXCEPT ![n].sd = s],
                     SelectSeq(Structs[s], Shown))

\* The constructor of an element: a map has two types at its level.
NewElement(h, p, key, val) ==
    LET r == Unlinked(h, p, h[p].fld, h[p].level + (IF fieldType(h, p) = "map" THEN 2 ELSE 1), key, val)
    IN Result(set_children(r.h, r.at), r.at)

\* update_node throws, before it does anything, when the type does not fit.
update_node(h, n, atype, val) ==
    IF test_assign_value(h, n, atype) THEN Result(set_value(set_children(h, n), n, val), n)
    ELSE Result(h, NoNode)

\* The same where append_node hides the exception.
Hidden(r, atype, val) == [r EXCEPT !.h = update_node(r.h, r.at, atype, val).h]

\* Mutation of Inserted: a field is put behind all others.
InsertedLast(r, n) == Linked(r, n)

\* A new field goes behind the fields that are before it in the schema.
Inserted(r, n) ==
    LET before == getFieldsBefore(r.h[n].sd, r.h[r.at].key)
        others == r.h[n].children
        at == Min({Len(others) + 1} \cup {i \in DOMAIN others : r.h[others[i]].key \notin before})
        after == {others[i] : i \in at..Len(others)}
    IN [m \in DOMAIN r.h |->
           CASE m = n -> [r.h[n] EXCEPT !.children = InsertAt(@, at, r.at)]
             [] m = r.at -> [r.h[m] EXCEPT !.ndx = at - 1]
             [] m \in after -> [r.h[m] EXCEPT !.ndx = @ + 1]
             [] OTHER -> r.h[m]]

\* append_node: an existing key is updated; a structure takes defined fields
\* only; nullptr when the type does not fit an element.
append_node(h, n, key, atype, val) ==
    LET pos == FindKey(h, n, key)
        f == getField(h[n].sd, key)
        field == Hidden(NewField(h, n, Structs[h[n].sd][f]), atype, val)
        element == NewElement(h, n, key, val)
    IN CASE pos # 0 -> Hidden(Result(h, h[n].children[pos]), atype, val)
         [] pos = 0 /\ isStruct(h, n) ->
              IF f = 0 THEN Result(h, NoNode) ELSE Result(Inserted(field, n), field.at)
         [] pos = 0 /\ ~isStruct(h, n) /\ (isMap(h, n) \/ type(h, n) = "Array") ->
              IF test_assign_value(element.h, element.at, atype)
              THEN Result(Linked(element, n), element.at) ELSE Result(h, NoNode)
         [] OTHER -> Result(h, NoNode)

------------------------------------------------------------------------------
(* Paths, removal, arrays, copies. *)

\* One name of field_add_names.
field_add_name(r, name) ==
    CASE r.at = NoNode -> r
      [] r.at # NoNode /\ FindKey(r.h, r.at, name) # 0 ->
            [r EXCEPT !.at = r.h[@].children[FindKey(r.h, @, name)]]
      [] OTHER ->
            IF \/ type(r.h, r.at) = "Object"
               \/ type(r.h, r.at) = "Array" /\ name = NextKey(r.h, r.at)
            THEN append_node(r.h, r.at, name, "Null", "") ELSE [r EXCEPT !.at = NoNode]

field_add(h, n, path) == FoldLeft(field_add_name, Result(h, n), path)

\* field(ids): in a structure the id of a field, in a list or map the position.
field_ids(h, n, ids) ==
    LET Has(at, i, id) == IF type(h, at) = "Array" \/ isMap(h, at) THEN i - 1 = id
                          ELSE h[h[at].children[i]].fld.id = id
        Child(at, id) == {h[at].children[i] : i \in {i \in 1..Size(h, at) : Has(at, i, id)}}
    IN FoldLeft(LAMBDA at, id : IF at = NoNode \/ Child(at, id) = {} THEN NoNode
                                ELSE CHOOSE c \in Child(at, id) : TRUE, n, ids)

\* field(string): only digits and dots are ids, unless they are asked of a list.
Number == [text \in {ToString(i) : i \in 0..MaxNodes} |->
              CHOOSE i \in 0..MaxNodes : ToString(i) = text]
field(h, n, path) ==
    IF ToSet(path) \subseteq DOMAIN Number /\ type(h, n) # "Array"
    THEN field_ids(h, n, [i \in DOMAIN path |-> Number[path[i]]])
    ELSE Field(h, n, path)

clear(h, n) == set_default_value(set_children(h, n), n)

\* remove_child: the level tested is the parent's, not the child's. A field that
\* was moved out of n is not found.
remove_child(h, n, child) ==
    CASE h[n].level = 0 /\ h[child].fld.required -> clear(h, child)
      [] PlaceOf(h, n, child) = 0 -> h
      [] OTHER -> RemoveChild(h, n, child, type(h, n) = "Array")

\* array_resize: as the first element, or as the next level of the type says.
array_resize(h, n, size, text) ==
    LET more == [i \in 1..(size - Size(h, n)) |-> i]
        d == h[n].children[1]
        As(g) == LET r == Copied(g, d)
                     e == [Attached(r.h, n, r.at) EXCEPT ![r.at].key = NextKey(g, n)]
                 IN IF text # "" /\ type(h, d) \notin Structured
                    THEN set_value(e, r.at, CheckedValue(type(h, d), text)) ELSE e
        next == fieldtype2basetype(h[n].fld.type[h[n].level + (IF isMap(h, n) THEN 3 ELSE 2)])
    IN CASE size <= Size(h, n) -> Shrunk(h, n, size)
         [] size > Size(h, n) /\ Size(h, n) > 0 -> FoldLeft(LAMBDA g, i : As(g), h, more)
         [] OTHER -> FoldLeft(LAMBDA g, i : append_node(g, n, NextKey(g, n), next, CheckedValue(next, text)).h,
                              h, more)

\* test_assign_object: of two tops the schema changes, before anything is tested.
Retyped(h, t, s) == IF IsTop(h, t) /\ IsTop(h, s) THEN [h EXCEPT ![t].sd = h[s].sd] ELSE h

test_assign_object(h, t, s) ==
    /\ h[t].sd = h[s].sd
    /\ h[s].fld = TopField \/ (h[t].fld = h[s].fld /\ h[t].level = h[s].level)

copy(h, t, s) == CopyChildren(set_value(Emptied(h, t), t, h[s].val), t, s)

move(h, t, s) ==
    [Adopted(ChildrenDropped(h, t), t, s) EXCEPT
        ![t] = [@ EXCEPT !.val = h[s].val, !.children = h[s].children],
        ![s] = [@ EXCEPT !.val = "", !.children = <<>>]]

\* set_list_from and set_map_from of scalars: each is appended as Null and then
\* set; one that does not fit throws and ends the rest.
Valued(r, n, key, v) ==
    IF r.at = NoNode THEN r
    ELSE LET e == append_node(r.h, n, key, "Null", "")
             set == update_node(e.h, e.at, v[1], v[2])
         IN IF e.at = NoNode THEN r ELSE [set EXCEPT !.at = IF @ = NoNode THEN @ ELSE n]

set_list_from(h, n, values) ==
    FoldLeft(LAMBDA r, v : Valued(r, n, NextKey(r.h, n), v), update_node(h, n, "Array", ""), values).h

set_map_from(h, n, key, v) == Valued(update_node(h, n, "Object", ""), n, key, v).h

------------------------------------------------------------------------------
(* What a program does. *)

Top(s) == [sd |-> s, fld |-> TopField, level |-> 0, key |-> s, val |-> "",
           ndx |-> 0, parent |-> NoNode, children |-> <<>>]

Document(h, s) == LET m == NewNode(h) IN set_children(Added(h, m, Top(s)), m)

\* A new document, in which the program has made some fields.
Init ==
    /\ \E made \in Starts :
          node = FoldLeft(LAMBDA h, path : field_add(h, NewNode(<<>>), path).h,
                          Document(<<>>, TopStruct), made)
    /\ calls = 0

\* A field that was moved away is not kept longer than its parent, to which it
\* has a pointer.
Call(h) ==
    /\ \A m \in DOMAIN h : IsTop(h, m) \/ h[m].parent \in DOMAIN h
    /\ node' = h /\ calls' = calls + 1

Tops == {n \in DOMAIN node : IsTop(node, n)}
Names == {"0", "1"} \cup MapKeys \cup UNION {{f.name : f \in ToSet(Structs[s])} : s \in DOMAIN Structs}

\* The keys a structure has no field for are left to operator[], which throws.
Defined(n, key) == isStruct(node, n) => getField(node[n].sd, key) # 0

\* isStruct() is true of a top that is the copy of a list, a map or a scalar.
Changed(n) == "copies" \in Slips \/ (IsTop(node, n) => fieldType(node, n) = "struct")

\* JsonSchema::object.
Construct(s) == Room(4) /\ Call(Document(node, s))

Destroy(n) ==
    /\ n \in Documents /\ Cardinality(Documents) > 1
    /\ Call(Dropped(node, Below(node, n)))

\* The copy of a field is a top with the definition of the field.
CopyConstruct(n) == Room(Cardinality(Below(node, n))) /\ Call(Copied(node, n).h)

\* The children of a field that is moved go to a node that keeps its parent. A
\* document that was moved from is not used again.
MoveConstruct(n) ==
    /\ "moves" \in Slips \/ IsTop(node, n)
    /\ Room(1)
    /\ LET m == NewNode(node)
           h == move(Added(node, m, [node[n] EXCEPT !.val = "", !.children = <<>>]), m, n)
       IN Call(IF IsTop(node, n) THEN Dropped(h, {n}) ELSE h)

\* Assignments throw when the definitions differ, by then with another schema in
\* the target. From what is below its target one would read what it has freed.
Assignable(t, s) ==
    LET h == Retyped(node, t, s)
    IN /\ s \notin Below(node, t)
       /\ \/ "misfits" \in Slips
          \/ ~test_assign_object(h, t, s)
          \/ fieldType(h, t) = fieldType(h, s)
       /\ "retypes" \in Slips \/ test_assign_object(h, t, s) \/ h = node

CopyAssign(t, s) ==
    /\ Assignable(t, s)
    /\ Room(Cardinality(Below(node, s)))
    /\ LET h == Retyped(node, t, s)
       IN Call(IF test_assign_object(h, t, s) THEN copy(h, t, s) ELSE h)

MoveAssign(t, s) ==
    /\ Assignable(t, s)
    /\ t \notin Below(node, s)
    /\ "moves" \in Slips \/ IsTop(node, s)
    /\ LET h == Retyped(node, t, s)
           g == move(h, t, s)
       IN Call(IF ~test_assign_object(h, t, s) THEN h
               ELSE IF IsTop(node, s) THEN Dropped(g, {s}) ELSE g)

\* set_from and set_null, and the start of a builder; they may throw.
SetFrom(n, v) == Changed(n) /\ Room(4) /\ Call(update_node(node, n, v[1], v[2]).h)
SetList(n, values) == Changed(n) /\ Room(5) /\ Call(set_list_from(node, n, values))
SetMap(n, key, v) ==
    /\ Changed(n) /\ Defined(n, key) /\ Room(4)
    /\ Call(set_map_from(node, n, key, v))

\* operator[]: the next element or a field that is missing is added.
IndexNumber(n, idx) ==
    /\ Changed(n) /\ type(node, n) = "Array" /\ idx <= Size(node, n) /\ Room(3)
    /\ Call(IF idx = Size(node, n) THEN append_node(node, n, NextKey(node, n), "Null", "").h ELSE node)

IndexName(n, key) ==
    /\ Changed(n) /\ type(node, n) = "Object" /\ Room(3)
    /\ Call(IF FindKey(node, n, key) = 0 THEN append_node(node, n, key, "Null", "").h ELSE node)

\* One add of a builder for objects or for arrays.
AddToObject(n, key, v) ==
    /\ Changed(n) /\ type(node, n) = "Object" /\ Room(3)
    /\ Call(append_node(node, n, key, v[1], v[2]).h)

AddToArray(n, v) ==
    /\ Changed(n) /\ type(node, n) = "Array" /\ Room(3)
    /\ Call(append_node(node, n, NextKey(node, n), v[1], v[2]).h)

\* set_value_via_path, add_object_via_path, add_array_via_path: what was made
\* of the path stays when the value does not fit.
SetVia(n, path, v) ==
    /\ Changed(n) /\ Room(6)
    /\ LET r == field_add(node, n, path)
       IN Call(IF r.at = NoNode THEN r.h ELSE update_node(r.h, r.at, v[1], v[2]).h)

AddVia(n, path, t) ==
    /\ Changed(n) /\ Room(6)
    /\ LET r == field_add(node, n, path)
       IN Call(IF r.at = NoNode \/ type(r.h, r.at) = t THEN r.h ELSE update_node(r.h, r.at, t, "").h)

Clear(n) == Changed(n) /\ Room(4) /\ Call(clear(node, n))

RemoveField(n) ==
    LET p == node[n].parent
    IN /\ ~IsTop(node, n)
       /\ "required" \in Slips \/ ~node[n].fld.required \/ node[p].level = 0
       /\ Call(remove_child(node, p, n))

ArrayResize_(n, size, text) ==
    /\ Changed(n) /\ (type(node, n) = "Array" \/ isMap(node, n))
    /\ Room(6)
    /\ Call(array_resize(node, n, size, text))

\* setMapKey does not look at the other keys.
setMapKey(n, key) ==
    /\ ~IsTop(node, n) /\ isMap(node, node[n].parent)
    /\ Call([node EXCEPT ![n].key = key])

Paths == {<<"s", "y">>, <<"l", "1">>, <<"m", "1">>}

NextDocument ==
    \/ \E s \in DOMAIN Structs : Construct(s)
    \/ \E n \in DOMAIN node : Destroy(n) \/ CopyConstruct(n) \/ MoveConstruct(n)
    \/ \E t, s \in DOMAIN node : CopyAssign(t, s) \/ MoveAssign(t, s)

NextNode ==
    \E n \in DOMAIN node :
        \/ Clear(n) \/ RemoveField(n)
        \/ \E v \in Values : SetFrom(n, v) \/ AddToArray(n, v)
        \/ \E values \in {<<v, w>> : v, w \in Values} : SetList(n, values)
        \/ \E key \in Names, v \in Values : SetMap(n, key, v) \/ AddToObject(n, key, v)
        \/ \E idx \in 0..1 : IndexNumber(n, idx)
        \/ \E key \in Names : IndexName(n, key) \/ setMapKey(n, key)
        \/ \E size \in 0..2 : ArrayResize_(n, size, "7")

NextPath ==
    \E top \in Tops, path \in Paths :
        /\ getField(node[top].sd, path[1]) # 0
        /\ \/ \E v \in Values : SetVia(top, path, v)
           \/ \E t \in Structured : AddVia(top, path, t)

Next == calls < MaxCalls /\ (NextDocument \/ NextNode \/ NextPath)
Spec == Init /\ [][Next]_vars

------------------------------------------------------------------------------
(* What must hold. *)

Position(s, fld) == SelectInSeq(Structs[s], LAMBDA f : f = fld)

\* After any calls, failed ones too, a document follows its definition: a
\* structure has fields that are defined for it, none twice, in the order of the
\* definition; the elements of a list or map have the next type of the field and
\* a list's have their positions as keys; nothing else has children; and every
\* child has the parent that lists it, at its index. (The dump, the editor's
\* model and the server all take the tree to be of the schema it names.) It is
\* true of fields that were copied or moved away as well, unless one is given a
\* value of another definition or, the copy of a list, a map or a scalar, is
\* changed as if it were a structure.
FollowsSchema ==
    \A n \in DOMAIN node :
        LET Child(i) == node[node[n].children[i]]
            at(i) == Position(node[n].sd, Child(i).fld)
        IN /\ \A i \in 1..Size(node, n) : Child(i).parent = n /\ Child(i).ndx = i - 1
           /\ fieldType(node, n) = "struct" => \A i \in 1..Size(node, n) :
                /\ at(i) # 0 /\ Child(i).level = 0 /\ Child(i).key = Child(i).fld.name
                /\ i > 1 => at(i - 1) < at(i)
           /\ fieldType(node, n) # "struct" => \A i \in 1..Size(node, n) :
                /\ Child(i).fld = node[n].fld
                /\ IF fieldType(node, n) = "map" THEN Child(i).level = node[n].level + 2
                   ELSE /\ Child(i).level = node[n].level + 1 /\ Child(i).key = ToString(i - 1)
                        /\ type(node, n) = "Array"

\* A structure always has its required fields: a call that removes one clears
\* it only (jsonschema.cpp:235).
RequiredPresent ==
    \A n \in DOMAIN node : fieldType(node, n) = "struct" =>
        \A f \in ToSet(Structs[node[n].sd]) :
            f.required => FindKey(node, n, f.name) # 0

IdsOf(n) ==
    LET Id(m) == IF isStruct(node, node[m].parent) THEN node[m].fld.id ELSE node[m].ndx
        Up[k \in 0..Cardinality(DOMAIN node), m \in DOMAIN node] ==
            IF k = 0 \/ IsTop(node, m) THEN <<>> ELSE Append(Up[k - 1, node[m].parent], Id(m))
    IN Up[Cardinality(DOMAIN node), n]

Above(top, n) == {m \in Below(node, top) \ {top} : n \in Below(node, m)}

\* In a document of a structure the ids that lead to a field, written as a path,
\* find it, whatever was removed, moved or inserted before; so do its names,
\* unless a map on the way has a key twice or one that split() cuts; and where
\* no map is on the way the names are those the schema gives for the ids: a
\* query field written with ids shows what its path of names does.
IdPathsAgree ==
    \A top \in {m \in Tops : fieldType(node, m) = "struct"} : \A n \in Below(node, top) \ {top} :
        LET path == GetPath(node, n)
            inMaps == {m \in Above(top, n) : isMap(node, node[m].parent)}
            plain(m) == /\ node[m].key \notin DOMAIN Cuts
                        /\ \A k \in ToSet(node[node[m].parent].children) :
                               node[k].key = node[m].key => k = m
        IN /\ field(node, top, [i \in DOMAIN path |-> ToString(IdsOf(n)[i])]) = n
           /\ (\A m \in inMaps : plain(m)) => field(node, top, path) = n
           /\ inMaps = {} => getPathFromIds(node[top].sd, IdsOf(n)) = path
=============================================================================
