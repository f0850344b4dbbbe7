-------------------------- MODULE DocumentsProofs --------------------------
(***************************************************************************)
(* Proofs about the document objects, for any documents, schemas, templates*)
(* and contents and any number of calls: where records are stored, whose   *)
(* records are overwritten, and what an import may create.                 *)
(***************************************************************************)
EXTENDS Documents, WellFoundedInduction, TLAPS

(***************************************************************************)
(* Types                                                                   *)
(***************************************************************************)
AnyIds  == Ids \cup {Empty, Absent, Undef}
SchemaNames == Schemas \cup {"json"}
Labels  == Schemas \cup {""}
Records == [schema : SchemaNames \cup Collections, val : Vals, linked : BOOLEAN]
Lines   == [id : Ids, values : {Shown[v] : v \in Vals}]
Objects == [schema : SchemaNames, made : SchemaNames, label : Labels,
            type : {"json", "vertex", "edge", "none", "unknown"},
            coll : Collections, mode : BOOLEAN, id : AnyIds, val : Vals \cup {NoRecord},
            failed : BOOLEAN, linked : BOOLEAN]
Views   == [on : BOOLEAN, coll : Collections \cup {""}, label : Labels, lines : SUBSET Lines,
            pending : BOOLEAN, whole : BOOLEAN]

DocsType ==
  /\ store \in [Ids -> Records \cup {NoRecord}] /\ listed \subseteq Ids
  /\ doc \in [Docs -> Objects] /\ view \in [Docs -> Views]
  /\ pc \in [Docs -> {"idle", "create", "import", "save", "match"}]
  /\ known \in [Docs -> SUBSET AnyIds]
  /\ \A d \in Docs : pc[d] # "idle" => /\ doc[d].id \in Ids \cup {Empty, Undef}
                                       /\ doc[d].val \in Vals

(***************************************************************************)
(* The invariants                                                          *)
(***************************************************************************)
\* What is in a graph document is of a schema of its type, and, if the document is
\* linked, saved in the collection of that schema.
Settled(d, x) ==
  IF Kind[d] = "json" THEN x.made = "json"
  ELSE x.made \in Schemas /\ Accepts(d, x.made) /\ (x.linked => x.coll = x.made)

HomeInv == RecordsAtHome /\ \A d \in Docs : Settled(d, doc[d])

\* The id in an object is one its client knows, but for the object of a creation
\* that threw; what is being saved has such an id.
IdKnown(d) ==
  /\ pc[d] = "idle" => doc[d].failed \/ doc[d].id \in {Empty, Absent} \cup known[d]
  /\ pc[d] \in {"save", "match"} => doc[d].id \in known[d]

KnownInv == \A d \in Docs : IdKnown(d)

\* A table that is whole has the records its query selects, and no others that
\* could come back under the same id.
Whole(v, x) ==
  v.whole =>
    /\ v.on /\ v.coll = x.coll /\ v.label = x.label
    /\ \A l \in v.lines : l.id \in Stored /\ l.id.coll = x.coll
    /\ \A id \in Stored : Selects(v, id, store[id].schema) => Line(id, store[id].val) \in v.lines

\* Only a query that is set is pending.
Asks(v) == v.pending => v.on

TableInv == \A d \in Docs : Asks(view[d]) /\ Whole(view[d], doc[d])

\* While a client imports nobody else saves, and its table stays as it was searched.
ImportInv ==
  \A d \in Docs : pc[d] = "import" =>
    /\ view[d].whole /\ ~view[d].pending /\ Matches(d) = {}
    /\ \A e \in Docs \ {d} : pc[e] = "idle"

(***************************************************************************)
(* Operators                                                               *)
(***************************************************************************)
LEMMA IdFacts ==
  /\ Empty \notin Ids /\ Absent \notin Ids /\ Undef \notin Ids
  /\ \A id \in Ids : id.coll \in Collections
  /\ \A c \in Collections, id \in Ids \cup {Undef} : [id EXCEPT !.coll = c] \in Ids
  /\ \A x \in AnyIds : x.coll \in Collections \cup {""}
<1>1. "" \notin Collections
  BY DocumentsAssumption
<1>2. \A id \in Ids : id.coll \in Collections
  BY DEF Ids
<1>3. Empty.coll = "" /\ Absent.coll = "" /\ Undef.coll = ""
  BY DEF Empty, Absent, Undef
<1>4. ASSUME NEW c \in Collections, NEW id \in Ids
      PROVE  [id EXCEPT !.coll = c] \in Ids
  BY DEF Ids
<1>5. ASSUME NEW c \in Collections
      PROVE  [Undef EXCEPT !.coll = c] \in Ids
  BY DEF Ids, Undef
<1> QED BY <1>1, <1>2, <1>3, <1>4, <1>5 DEF AnyIds

\* A schema of a document's kind has a type, and a collection of its name.
LEMMA AcceptedIs ==
  ASSUME NEW d \in Docs, NEW s \in Schemas
  PROVE  /\ CollOf(s) \in Collections
         /\ Accepts(d, s) => Kind[d] # "json" /\ CollOf(s) = s
BY DocumentsAssumption DEF CollOf, Collections, Accepts

\* An object that is replaced has lost its id, or nothing has happened to it, and it
\* stays at home if the schema is of the document's kind.
LEMMA ResetIs ==
  ASSUME NEW d \in Docs, doc[d] \in Objects, NEW s \in Schemas, NEW change \in BOOLEAN,
         NEW opens \in BOOLEAN, NEW r, r = ResetTo(d, s, change, opens)
  PROVE  /\ r \in Objects /\ r.failed = doc[d].failed /\ r.id \in {Empty, doc[d].id}
         /\ Accepts(d, s) /\ Settled(d, doc[d]) => Settled(d, r)
<1>1. CASE r = doc[d]
  BY <1>1 DEF Objects
<1>2. CASE Resets(d, s, change)
  <2>1. PICK x : x = Made(d, s)
    OBVIOUS
  <2>2. /\ x \in Objects /\ x.failed = doc[d].failed /\ x.id = Empty
        /\ x.made = s /\ x.label = s /\ x.coll = doc[d].coll /\ x.linked = doc[d].linked
    BY <2>1, DocumentsAssumption DEF Made, Objects, SchemaNames, Labels, AnyIds
  <2>3. r = Replaced(d, s, opens)
    BY <1>2 DEF ResetTo
  <2>4. CASE TypeOf[s] = "unknown"
    <3>1. ~Accepts(d, s)
      BY <2>4, DocumentsAssumption DEF Accepts
    <3>2. r = [doc[d] EXCEPT !.schema = s]
      BY <2>3, <2>4, <3>1 DEF Replaced, Moves
    <3> QED BY <3>2, <3>1 DEF Objects, SchemaNames
  <2>5. CASE TypeOf[s] = "none"
    <3>1. ~Accepts(d, s)
      BY <2>5, DocumentsAssumption DEF Accepts
    <3>2. r = [x EXCEPT !.label = ""]
      BY <2>1, <2>3, <2>5, <3>1 DEF Replaced, Moves
    <3> QED BY <2>2, <3>2, <3>1 DEF Objects, Labels
  <2>6. CASE TypeOf[s] \notin {"unknown", "none"} /\ Moves(d, s)
    <3>1. \/ r = [x EXCEPT !.coll = CollOf(s), !.linked = TRUE]
          \/ r = [x EXCEPT !.linked = FALSE]
      BY <2>1, <2>3, <2>6 DEF Replaced
    <3>2. CollOf(s) \in Collections /\ CollOf(s) = s /\ Kind[d] # "json" /\ Accepts(d, s)
      BY <2>6, AcceptedIs DEF Moves
    <3>3. /\ r \in Objects /\ r.failed = doc[d].failed /\ r.id = Empty
          /\ r.made = s /\ (r.linked => r.coll = s)
      BY <2>2, <3>1, <3>2 DEF Objects
    <3> QED BY <3>2, <3>3 DEF Settled
  <2>7. CASE TypeOf[s] \notin {"unknown", "none"} /\ ~Moves(d, s)
    <3>1. r = x
      BY <2>1, <2>3, <2>7 DEF Replaced
    <3>2. Accepts(d, s) => Kind[d] # "json" /\ x.coll = s
      BY <2>2, <2>7, AcceptedIs DEF Moves
    <3> QED BY <2>2, <3>1, <3>2 DEF Settled
  <2> QED BY <2>4, <2>5, <2>6, <2>7
<1> QED BY <1>1, <1>2 DEF ResetTo

\* The opening of a collection succeeds or throws.
LEMMA OpensIs ==
  ASSUME NEW d \in Docs, NEW s, NEW opens \in Opens(d, s)
  PROVE  opens \in BOOLEAN
BY DEF Opens

\* What a call may make of the table of a document whose object becomes x: the query
\* is set anew, or it stays and is whole only if the collection and the label stay too.
NewView(d, v, x) ==
  \/ v = Query(x)
  \/ /\ v \in Views /\ v.on = view[d].on /\ v.coll = view[d].coll /\ v.label = view[d].label
     /\ v.lines = view[d].lines /\ v.pending = view[d].pending
     /\ v.whole => view[d].whole /\ x.coll = doc[d].coll /\ x.label = doc[d].label

LEMMA QueryIs ==
  ASSUME NEW x \in Objects
  PROVE  Query(x) \in Views
BY DEF Query, Views, Objects

LEMMA LessWhole ==
  ASSUME NEW d \in Docs, view[d] \in Views, NEW x, NEW v, v = Left(d, x)
  PROVE  NewView(d, v, x)
<1>1. (view[d].whole /\ x.coll = doc[d].coll /\ x.label = doc[d].label) \in BOOLEAN
  OBVIOUS
<1>2. PICK w \in BOOLEAN : w = (view[d].whole /\ x.coll = doc[d].coll /\ x.label = doc[d].label)
  BY <1>1
<1>3. v = [view[d] EXCEPT !.whole = w]
  BY <1>2 DEF Left
<1> QED BY <1>2, <1>3 DEF NewView, Views

LEMMA RequeriedIs ==
  ASSUME NEW d \in Docs, view[d] \in Views, NEW s \in Schemas, NEW change \in BOOLEAN,
         NEW opens \in BOOLEAN, NEW v, v = Requeried(d, s, change, opens)
  PROVE  NewView(d, v, ResetTo(d, s, change, opens))
<1>1. CASE change /\ view[d].on /\ Passes(d, s, change, opens)
  BY <1>1 DEF Requeried, NewView
<1>2. CASE ~(change /\ view[d].on /\ Passes(d, s, change, opens))
  BY <1>2, LessWhole DEF Requeried
<1> QED BY <1>1, <1>2

LEMMA NoNewView ==
  ASSUME NEW d \in Docs, view[d] \in Views, NEW x, x.coll = doc[d].coll, x.label = doc[d].label
  PROVE  NewView(d, view[d], x)
BY DEF NewView

(***************************************************************************)
(* Calls that prepare a document                                           *)
(***************************************************************************)
\* What they have in common: the object of one idle document becomes x and its table
\* v, and the client may be given ids.
Change(d, x, v, ids) ==
  /\ doc' = [doc EXCEPT ![d] = x]
  /\ view' = [view EXCEPT ![d] = v] /\ NewView(d, v, x)
  /\ known' = [known EXCEPT ![d] = known[d] \cup ids]
  /\ \/ x.failed \/ x.id \in {Empty, Absent} \cup ids
     \/ x.failed = doc[d].failed /\ x.id = doc[d].id
  /\ Typed /\ Settled(d, doc[d]) => Settled(d, x)

Readied(d) ==
  /\ pc[d] = "idle" /\ (Fresh => \A e \in Docs \ {d} : pc[e] # "import")
  /\ UNCHANGED <<store, listed, pc>>
  /\ \E x \in Objects, v \in Views, ids \in SUBSET AnyIds : Change(d, x, v, ids)

LEMMA Unaltered ==
  ASSUME DocsType, NEW d \in Docs
  PROVE  /\ view = [view EXCEPT ![d] = view[d]] /\ NewView(d, view[d], doc[d])
         /\ known = [known EXCEPT ![d] = known[d] \cup {}]
         /\ doc[d] \in Objects /\ view[d] \in Views
BY NoNewView DEF DocsType

LEMMA ObjectIs ==
  ASSUME NEW x \in Objects, NEW id \in AnyIds, NEW v \in Vals, NEW o, o = Object(x, id, v)
  PROVE  /\ o \in Objects /\ o.id = id /\ o.coll = x.coll
         /\ o.made = x.made /\ o.label = x.label /\ o.linked = x.linked
BY DEF Object, Objects

LEMMA ReadiedBy ==
  ASSUME NEW d \in Docs, Idle(d), UNCHANGED <<store, listed, pc>>,
         NEW x \in Objects, NEW v, NEW ids \in SUBSET AnyIds, Change(d, x, v, ids)
  PROVE  Readied(d)
<1>1. pc[d] = "idle" /\ (Fresh => \A e \in Docs \ {d} : pc[e] # "import")
  BY DEF Idle
<1>2. v \in Views
  BY QueryIs DEF Change, NewView
<1> QED BY <1>1, <1>2 DEF Readied

LEMMA ResetSchemaReadies ==
  ASSUME DocsType, NEW d \in Docs, resetSchema(d)
  PROVE  Readied(d)
<1>0. PICK s \in MayName(d), change \in BOOLEAN : \E opens \in Opens(d, s) :
        /\ doc'  = [doc EXCEPT ![d] = ResetTo(d, s, change, opens)]
        /\ view' = [view EXCEPT ![d] = Requeried(d, s, change, opens)]
  BY DEF resetSchema
<1>1. PICK opens \in Opens(d, s) :
        /\ doc'  = [doc EXCEPT ![d] = ResetTo(d, s, change, opens)]
        /\ view' = [view EXCEPT ![d] = Requeried(d, s, change, opens)]
  BY <1>0
<1>11. opens \in BOOLEAN
  BY OpensIs
<1>2. PICK x : x = ResetTo(d, s, change, opens)
  OBVIOUS
<1>3. PICK v : v = Requeried(d, s, change, opens)
  OBVIOUS
<1>4. s \in Schemas /\ (Typed => Accepts(d, s))
  BY DEF MayName
<1>5. /\ x \in Objects /\ x.failed = doc[d].failed /\ x.id \in {Empty, doc[d].id}
      /\ Accepts(d, s) /\ Settled(d, doc[d]) => Settled(d, x)
  BY <1>2, <1>4, <1>11, Unaltered, ResetIs
<1>6. NewView(d, v, x)
  BY <1>2, <1>3, <1>4, <1>11, Unaltered, RequeriedIs
<1>7. doc' = [doc EXCEPT ![d] = x] /\ view' = [view EXCEPT ![d] = v]
  BY <1>1, <1>2, <1>3
<1>8. known' = [known EXCEPT ![d] = known[d] \cup {}]
  BY Unaltered DEF resetSchema
<1>9. Change(d, x, v, {})
  BY <1>4, <1>5, <1>6, <1>7, <1>8 DEF Change
<1> QED BY <1>5, <1>9, ReadiedBy DEF resetSchema

LEMMA SetModeReadies ==
  ASSUME DocsType, NEW d \in Docs, setMode(d)
  PROVE  Readied(d)
<1>1. PICK x : x = [doc[d] EXCEPT !.mode = ~doc[d].mode]
  OBVIOUS
<1>2. /\ x \in Objects /\ x.failed = doc[d].failed /\ x.id = doc[d].id /\ x.coll = doc[d].coll
      /\ x.made = doc[d].made /\ x.label = doc[d].label /\ x.linked = doc[d].linked
  <2>1. doc[d] \in Objects
    BY Unaltered
  <2>2. PICK mode \in BOOLEAN : mode = ~doc[d].mode
    BY <2>1
  <2>3. x = [doc[d] EXCEPT !.mode = mode]
    BY <1>1, <2>2
  <2> QED BY <2>1, <2>3 DEF Objects
<1>3. doc' = [doc EXCEPT ![d] = x]
  BY <1>1 DEF setMode
<1>4. /\ view' = [view EXCEPT ![d] = view[d]] /\ NewView(d, view[d], x)
      /\ known' = [known EXCEPT ![d] = known[d] \cup {}]
  BY <1>2, Unaltered, NoNewView DEF setMode
<1>5. Settled(d, doc[d]) => Settled(d, x)
  BY <1>2 DEF Settled
<1>6. Change(d, x, view[d], {})
  BY <1>2, <1>3, <1>4, <1>5 DEF Change
<1> QED BY <1>2, <1>6, ReadiedBy DEF setMode

LEMMA UpdateObjectReadies ==
  ASSUME DocsType, NEW d \in Docs, updateObject(d)
  PROVE  Readied(d)
<1>1. PICK w \in Vals : doc' = [doc EXCEPT ![d].val = w]
  BY DEF updateObject
<1>2. PICK x : x = [doc[d] EXCEPT !.val = w]
  OBVIOUS
<1>3. /\ x \in Objects /\ x.failed = doc[d].failed /\ x.id = doc[d].id /\ x.coll = doc[d].coll
      /\ x.made = doc[d].made /\ x.label = doc[d].label /\ x.linked = doc[d].linked
  BY <1>2, Unaltered DEF Objects
<1>4. doc' = [doc EXCEPT ![d] = x]
  BY <1>1, <1>2
<1>5. /\ view' = [view EXCEPT ![d] = view[d]] /\ NewView(d, view[d], x)
      /\ known' = [known EXCEPT ![d] = known[d] \cup {}]
  BY <1>3, Unaltered, NoNewView DEF updateObject
<1>6. Settled(d, doc[d]) => Settled(d, x)
  BY <1>3 DEF Settled
<1>7. Change(d, x, view[d], {})
  BY <1>3, <1>4, <1>5, <1>6 DEF Change
<1> QED BY <1>3, <1>7, ReadiedBy DEF updateObject

LEMMA SetObjectReadies ==
  ASSUME DocsType, NEW d \in Docs, setObject(d)
  PROVE  Readied(d)
<1>0. PICK s \in MayName(d), w \in Vals : \E opens \in Opens(d, s) :
        LET y == ResetTo(d, s, FALSE, opens) IN
        /\ doc' = [doc EXCEPT ![d] = IF Passes(d, s, FALSE, opens) THEN Object(y, Empty, w) ELSE y]
        /\ view' = [view EXCEPT ![d] = Left(d, y)]
  BY DEF setObject
<1>1. PICK opens \in Opens(d, s) :
        LET y == ResetTo(d, s, FALSE, opens) IN
        /\ doc' = [doc EXCEPT ![d] = IF Passes(d, s, FALSE, opens) THEN Object(y, Empty, w) ELSE y]
        /\ view' = [view EXCEPT ![d] = Left(d, y)]
  BY <1>0
<1>13. opens \in BOOLEAN
  BY OpensIs
<1>2. PICK y : y = ResetTo(d, s, FALSE, opens)
  OBVIOUS
<1>3. PICK o : o = Object(y, Empty, w)
  OBVIOUS
<1>4. PICK v : v = Left(d, y)
  OBVIOUS
<1>5. s \in Schemas /\ (Typed => Accepts(d, s))
  BY DEF MayName
<1>6. /\ y \in Objects /\ y.failed = doc[d].failed /\ y.id \in {Empty, doc[d].id}
      /\ Accepts(d, s) /\ Settled(d, doc[d]) => Settled(d, y)
  BY <1>2, <1>5, <1>13, Unaltered, ResetIs
<1>7. /\ o \in Objects /\ o.id = Empty /\ o.coll = y.coll /\ o.made = y.made /\ o.label = y.label /\ o.linked = y.linked
  <2>1. Empty \in AnyIds
    BY DEF AnyIds
  <2> QED BY <1>3, <1>6, <2>1, ObjectIs
<1>8. NewView(d, v, y) /\ NewView(d, v, o)
  <2>1. v = Left(d, o)
    BY <1>4, <1>7 DEF Left
  <2> QED BY <1>4, <2>1, Unaltered, LessWhole
<1>9. Settled(d, y) => Settled(d, o)
  BY <1>7 DEF Settled
<1>10. /\ doc' = [doc EXCEPT ![d] = o] \/ doc' = [doc EXCEPT ![d] = y]
       /\ view' = [view EXCEPT ![d] = v]
  BY <1>1, <1>2, <1>3, <1>4
<1>11. known' = [known EXCEPT ![d] = known[d] \cup {}]
  BY Unaltered DEF setObject
<1>12. Change(d, o, v, {}) \/ Change(d, y, v, {})
  BY <1>5, <1>6, <1>7, <1>8, <1>9, <1>10, <1>11 DEF Change
<1> QED BY <1>6, <1>7, <1>12, ReadiedBy DEF setObject

LEMMA GivenIs ==
  ASSUME NEW c
  PROVE  Given(c) \subseteq AnyIds
BY DEF Given, Stored, AnyIds

LEMMA SetJsonReadies ==
  ASSUME DocsType, NEW d \in Docs, setJson(d)
  PROVE  Readied(d)
<1>1. PICK id \in Given(doc[d].coll) \cup (IF Keyed THEN {} ELSE {Absent}), w \in Vals :
        /\ doc' = [doc EXCEPT ![d] = Object(doc[d], id, w)]
        /\ Knows(d, {id})
  BY DEF setJson
<1>2. PICK o : o = Object(doc[d], id, w)
  OBVIOUS
<1>3. id \in AnyIds
  BY GivenIs DEF AnyIds
<1>4. /\ o \in Objects /\ o.id = id /\ o.coll = doc[d].coll
      /\ o.made = doc[d].made /\ o.label = doc[d].label /\ o.linked = doc[d].linked
  BY <1>2, <1>3, Unaltered, ObjectIs
<1>5. doc' = [doc EXCEPT ![d] = o] /\ known' = [known EXCEPT ![d] = known[d] \cup {id}]
  BY <1>1, <1>2 DEF Knows
<1>6. view' = [view EXCEPT ![d] = view[d]] /\ NewView(d, view[d], o)
  BY <1>4, Unaltered, NoNewView DEF setJson
<1>7. Settled(d, doc[d]) => Settled(d, o)
  BY <1>4 DEF Settled
<1>8. Change(d, o, view[d], {id})
  BY <1>4, <1>5, <1>6, <1>7 DEF Change
<1>9. {id} \in SUBSET AnyIds
  BY <1>3
<1> QED BY <1>4, <1>8, <1>9, ReadiedBy DEF setJson

LEMMA RecFromJsonReadies ==
  ASSUME DocsType, NEW d \in Docs, recFromJson(d)
  PROVE  Readied(d)
<1>0. PICK s \in MayName(d), w \in Vals, test \in BOOLEAN :
        \E id \in Given(s), opens \in Opens(d, s) :
        /\ TypeOf[s] \in {"vertex", "edge"}
        /\ doc[d].mode \/ (TypeOf[s] = doc[d].type /\ s = doc[d].label)
        /\ LET y == IF doc[d].mode THEN ResetTo(d, s, test, opens) ELSE doc[d] IN
           IF doc[d].mode /\ ~Passes(d, s, test, opens)
           THEN doc' = [doc EXCEPT ![d] = y] /\ UNCHANGED known
           ELSE doc' = [doc EXCEPT ![d] = Object(y, id, w)] /\ Knows(d, {id})
        /\ view' = IF doc[d].mode THEN [view EXCEPT ![d] = Requeried(d, s, test, opens)] ELSE view
  BY DEF recFromJson
<1>1. PICK id \in Given(s), opens \in Opens(d, s) :
        /\ LET y == IF doc[d].mode THEN ResetTo(d, s, test, opens) ELSE doc[d] IN
           IF doc[d].mode /\ ~Passes(d, s, test, opens)
           THEN doc' = [doc EXCEPT ![d] = y] /\ UNCHANGED known
           ELSE doc' = [doc EXCEPT ![d] = Object(y, id, w)] /\ Knows(d, {id})
        /\ view' = IF doc[d].mode THEN [view EXCEPT ![d] = Requeried(d, s, test, opens)] ELSE view
  BY <1>0
<1>2. s \in Schemas /\ (Typed => Accepts(d, s)) /\ id \in AnyIds
  BY GivenIs DEF MayName
<1>11. opens \in BOOLEAN
  BY OpensIs
<1>3. PICK y : y = IF doc[d].mode THEN ResetTo(d, s, test, opens) ELSE doc[d]
  OBVIOUS
<1>4. PICK o : o = Object(y, id, w)
  OBVIOUS
<1>5. \/ doc' = [doc EXCEPT ![d] = y] /\ known' = [known EXCEPT ![d] = known[d] \cup {}]
      \/ doc' = [doc EXCEPT ![d] = o] /\ known' = [known EXCEPT ![d] = known[d] \cup {id}]
  BY <1>1, <1>3, <1>4, Unaltered DEF Knows
<1>6. /\ y \in Objects /\ y.failed = doc[d].failed /\ y.id \in {Empty, doc[d].id}
      /\ Typed /\ Settled(d, doc[d]) => Settled(d, y)
  BY <1>2, <1>3, <1>11, Unaltered, ResetIs
<1>7. o \in Objects /\ o.id = id /\ o.coll = y.coll /\ o.made = y.made /\ o.label = y.label /\ o.linked = y.linked
  BY <1>2, <1>4, <1>6, ObjectIs
<1>8. Settled(d, y) => Settled(d, o)
  BY <1>7 DEF Settled
<1>9. CASE doc[d].mode
  <2>1. PICK v : v = Requeried(d, s, test, opens)
    OBVIOUS
  <2>2. view' = [view EXCEPT ![d] = v]
    BY <1>1, <1>9, <2>1
  <2>3. NewView(d, v, y)
    BY <1>2, <1>3, <1>9, <1>11, <2>1, Unaltered, RequeriedIs
  <2>4. NewView(d, v, o)
    BY <1>7, <2>3 DEF NewView, Query
  <2>5. Change(d, y, v, {}) \/ Change(d, o, v, {id})
    BY <1>5, <1>6, <1>7, <1>8, <2>2, <2>3, <2>4 DEF Change
  <2> QED BY <1>2, <1>6, <1>7, <2>5, ReadiedBy DEF recFromJson
<1>10. CASE ~doc[d].mode
  <2>1. view' = [view EXCEPT ![d] = view[d]] /\ NewView(d, view[d], y) /\ NewView(d, view[d], o)
    BY <1>1, <1>3, <1>7, <1>10, Unaltered, NoNewView
  <2>2. Change(d, y, view[d], {}) \/ Change(d, o, view[d], {id})
    BY <1>5, <1>6, <1>7, <1>8, <2>1 DEF Change
  <2> QED BY <1>2, <1>6, <1>7, <2>2, ReadiedBy DEF recFromJson
<1> QED BY <1>9, <1>10

LEMMA ReadDocumentReadies ==
  ASSUME DocsType, NEW d \in Docs, readDocument(d)
  PROVE  Readied(d)
<1>0. PICK id \in Ids : \E opens \in IF Names(d, id) THEN Opens(d, id.coll) ELSE {TRUE} :
        LET y == IF Names(d, id) THEN ResetTo(d, id.coll, FALSE, opens) ELSE doc[d] IN
        /\ IF (Names(d, id) => Passes(d, id.coll, FALSE, opens)) /\ Exists(y, id) /\ id \in Stored
           THEN doc' = [doc EXCEPT ![d] = Object(y, id, store[id].val)] /\ Knows(d, {id})
           ELSE y # doc[d] /\ doc' = [doc EXCEPT ![d] = y] /\ UNCHANGED known
        /\ view' = [view EXCEPT ![d] = Left(d, y)]
  BY DEF readDocument
<1>1. PICK opens \in IF Names(d, id) THEN Opens(d, id.coll) ELSE {TRUE} :
        LET y == IF Names(d, id) THEN ResetTo(d, id.coll, FALSE, opens) ELSE doc[d] IN
        /\ IF (Names(d, id) => Passes(d, id.coll, FALSE, opens)) /\ Exists(y, id) /\ id \in Stored
           THEN doc' = [doc EXCEPT ![d] = Object(y, id, store[id].val)] /\ Knows(d, {id})
           ELSE y # doc[d] /\ doc' = [doc EXCEPT ![d] = y] /\ UNCHANGED known
        /\ view' = [view EXCEPT ![d] = Left(d, y)]
  BY <1>0
<1>13. opens \in BOOLEAN
  BY OpensIs
<1>2. PICK y : y = IF Names(d, id) THEN ResetTo(d, id.coll, FALSE, opens) ELSE doc[d]
  OBVIOUS
<1>3. PICK o : o = Object(y, id, store[id].val)
  OBVIOUS
<1>4. PICK v : v = Left(d, y)
  OBVIOUS
<1>5. /\ \/ doc' = [doc EXCEPT ![d] = y] /\ known' = [known EXCEPT ![d] = known[d] \cup {}]
         \/ /\ doc' = [doc EXCEPT ![d] = o] /\ known' = [known EXCEPT ![d] = known[d] \cup {id}]
            /\ id \in Stored
      /\ view' = [view EXCEPT ![d] = v]
  BY <1>1, <1>2, <1>3, <1>4, Unaltered DEF Knows
<1>6. /\ y \in Objects /\ y.failed = doc[d].failed /\ y.id \in {Empty, doc[d].id}
      /\ Typed /\ Settled(d, doc[d]) => Settled(d, y)
  BY <1>2, <1>13, Unaltered, ResetIs DEF Names
<1>7. id \in Stored =>
        o \in Objects /\ o.id = id /\ o.coll = y.coll /\ o.made = y.made /\ o.label = y.label /\ o.linked = y.linked
  <2>1. id \in AnyIds
    BY DEF AnyIds
  <2>2. id \in Stored => store[id].val \in Vals
    BY DEF DocsType, Stored, Records
  <2> QED BY <1>3, <1>6, <2>1, <2>2, ObjectIs
<1>8. id \in Stored /\ Settled(d, y) => Settled(d, o)
  BY <1>7 DEF Settled
<1>9. NewView(d, v, y)
  BY <1>4, Unaltered, LessWhole
<1>10. id \in Stored => NewView(d, v, o)
  BY <1>7, <1>9 DEF NewView, Query
<1>11. Change(d, y, v, {}) \/ (id \in Stored /\ Change(d, o, v, {id}))
  BY <1>5, <1>6, <1>7, <1>8, <1>9, <1>10 DEF Change
<1>12. {id} \in SUBSET AnyIds
  BY DEF AnyIds
<1> QED BY <1>6, <1>7, <1>11, <1>12, ReadiedBy DEF readDocument

LEMMA SetQueryReadies ==
  ASSUME DocsType, NEW d \in Docs, setQuery(d)
  PROVE  Readied(d)
<1>1. view' = [view EXCEPT ![d] = Query(doc[d])]
  BY DEF setQuery
<1>2. /\ doc' = [doc EXCEPT ![d] = doc[d]] /\ known' = [known EXCEPT ![d] = known[d] \cup {}]
      /\ doc[d] \in Objects
  BY Unaltered DEF setQuery, DocsType
<1>3. Change(d, doc[d], Query(doc[d]), {})
  BY <1>1, <1>2 DEF Change, NewView
<1> QED BY <1>2, <1>3, ReadiedBy DEF setQuery

LEMMA PrepareReadies ==
  ASSUME DocsType, NEW d \in Docs, Prepare(d), ~update_query(d)
  PROVE  Readied(d)
BY ResetSchemaReadies, SetModeReadies, UpdateObjectReadies, SetObjectReadies, SetJsonReadies,
   RecFromJsonReadies, ReadDocumentReadies, SetQueryReadies
   DEF Prepare

LEMMA ReadiedIs ==
  ASSUME DocsType, NEW d \in Docs, Readied(d)
  PROVE  \E x \in Objects, v \in Views, ids \in SUBSET AnyIds :
           /\ Change(d, x, v, ids)
           /\ doc'[d] = x /\ view'[d] = v /\ known'[d] = known[d] \cup ids
           /\ \A e \in Docs \ {d} : doc'[e] = doc[e] /\ view'[e] = view[e] /\ known'[e] = known[e]
<1>1. PICK x \in Objects, v \in Views, ids \in SUBSET AnyIds : Change(d, x, v, ids)
  BY DEF Readied
<1> QED BY <1>1 DEF Change, DocsType

LEMMA ReadiedType ==
  ASSUME DocsType, NEW d \in Docs, Readied(d)
  PROVE  DocsType'
<1>1. PICK x \in Objects, v \in Views, ids \in SUBSET AnyIds : Change(d, x, v, ids)
  BY DEF Readied
<1>2. /\ doc' \in [Docs -> Objects] /\ view' \in [Docs -> Views]
      /\ known' \in [Docs -> SUBSET AnyIds]
  BY <1>1 DEF Change, DocsType
<1>3. \A e \in Docs : pc[e] # "idle" => doc'[e] = doc[e]
  BY <1>1 DEF Change, DocsType, Readied
<1> QED BY <1>2, <1>3 DEF DocsType, Readied

LEMMA ReadiedHome ==
  ASSUME DocsType, Typed, HomeInv, NEW d \in Docs, Readied(d)
  PROVE  HomeInv'
<1>1. PICK x \in Objects, v \in Views, ids \in SUBSET AnyIds :
        /\ Change(d, x, v, ids) /\ doc'[d] = x
        /\ \A e \in Docs \ {d} : doc'[e] = doc[e]
  BY ReadiedIs
<1>2. \A e \in Docs : Settled(e, doc'[e])
  BY <1>1 DEF HomeInv, Change
<1>3. RecordsAtHome'
  BY DEF HomeInv, RecordsAtHome, AtHome, Readied, Stored
<1> QED BY <1>2, <1>3 DEF HomeInv, Settled

LEMMA ReadiedKnown ==
  ASSUME DocsType, KnownInv, NEW d \in Docs, Readied(d)
  PROVE  KnownInv'
<1>1. PICK x \in Objects, v \in Views, ids \in SUBSET AnyIds :
        /\ Change(d, x, v, ids) /\ doc'[d] = x /\ known'[d] = known[d] \cup ids
        /\ \A e \in Docs \ {d} : doc'[e] = doc[e] /\ known'[e] = known[e]
  BY ReadiedIs
<1>2. pc[d] = "idle" /\ pc' = pc
  BY DEF Readied
<1>3. ASSUME NEW e \in Docs PROVE IdKnown(e)'
  <2>1. CASE e = d
    BY <1>1, <1>2, <2>1 DEF KnownInv, IdKnown, Change
  <2>2. CASE e # d
    BY <1>1, <1>2, <2>2 DEF KnownInv, IdKnown
  <2> QED BY <2>1, <2>2
<1> QED BY <1>3 DEF KnownInv

\* Tables of documents whose collection and label have not changed, when no record has.
LEMMA SameWhole ==
  ASSUME store' = store, NEW v, NEW u, NEW x, NEW y, Whole(v, x),
         u.whole => v.whole /\ y.coll = x.coll /\ y.label = x.label,
         u.on = v.on, u.coll = v.coll, u.label = v.label, u.lines = v.lines
  PROVE  /\ u.whole => u.on /\ u.coll = y.coll /\ u.label = y.label
         /\ u.whole => \A l \in u.lines : l.id \in Stored' /\ l.id.coll = y.coll
         /\ u.whole => \A id \in Stored' : Selects(u, id, store'[id].schema)
                                           => Line(id, store'[id].val) \in u.lines
<1>1. Stored' = Stored
  BY DEF Stored
<1>2. \A id, s : Selects(u, id, s) <=> Selects(v, id, s)
  BY DEF Selects
<1> QED BY <1>1, <1>2 DEF Whole

LEMMA SameTable ==
  ASSUME TableInv, store' = store, NEW e \in Docs,
         view'[e] = view[e], doc'[e].coll = doc[e].coll, doc'[e].label = doc[e].label
  PROVE  Asks(view[e])' /\ Whole(view[e], doc[e])'
<1>1. Asks(view[e]) /\ Whole(view[e], doc[e])
  BY DEF TableInv
<1>2. Asks(view[e])'
  <2>1. PICK v : v = view[e]
    OBVIOUS
  <2>2. view'[e] = v
    BY <2>1
  <2>3. Asks(v)
    BY <1>1, <2>1
  <2>4. Asks(v)'
    BY <2>3 DEF Asks
  <2> QED BY <2>2, <2>4
<1>3. Stored' = Stored
  BY DEF Stored
<1>4. Whole(view[e], doc[e])'
  BY <1>1, <1>3, SameWhole DEF Whole
<1> QED BY <1>2, <1>4

LEMMA ReadiedTable ==
  ASSUME DocsType, TableInv, NEW d \in Docs, Readied(d)
  PROVE  TableInv'
<1>1. PICK x \in Objects, v \in Views, ids \in SUBSET AnyIds :
        /\ Change(d, x, v, ids) /\ doc'[d] = x /\ view'[d] = v
        /\ \A e \in Docs \ {d} : doc'[e] = doc[e] /\ view'[e] = view[e]
  BY ReadiedIs
<1>2. store' = store
  BY DEF Readied
<1>3. ASSUME NEW e \in Docs PROVE Asks(view[e])' /\ Whole(view[e], doc[e])'
  <2>0. Asks(view[e]) /\ Whole(view[e], doc[e])
    BY DEF TableInv
  <2>1. CASE e # d
    BY <1>1, <1>2, <2>1, SameTable
  <2>2. CASE e = d /\ v = Query(x)
    <3>1. ~v.whole /\ v.on
      BY <2>2 DEF Query
    <3> QED BY <1>1, <2>2, <3>1 DEF Asks, Whole
  <2>3. CASE e = d /\ v # Query(x)
    <3>1. /\ v.on = view[d].on /\ v.coll = view[d].coll /\ v.label = view[d].label
          /\ v.lines = view[d].lines /\ v.pending = view[d].pending
          /\ v.whole => view[d].whole /\ x.coll = doc[d].coll /\ x.label = doc[d].label
      BY <1>1, <2>3 DEF Change, NewView
    <3>2. Asks(view[e])'
      BY <1>1, <2>0, <2>3, <3>1 DEF Asks
    <3>3. Whole(view[e], doc[e])'
      <4>1. Whole(view[d], doc[d])
        BY <2>0, <2>3
      <4>2. /\ v.whole => v.on /\ v.coll = x.coll /\ v.label = x.label
            /\ v.whole => \A l \in v.lines : l.id \in Stored' /\ l.id.coll = x.coll
            /\ v.whole => \A id \in Stored' : Selects(v, id, store'[id].schema)
                                               => Line(id, store'[id].val) \in v.lines
        BY <1>2, <3>1, <4>1, SameWhole
      <4> QED BY <1>1, <2>3, <4>2 DEF Whole
    <3> QED BY <3>2, <3>3
  <2> QED BY <2>1, <2>2, <2>3
<1> QED BY <1>3 DEF TableInv

LEMMA ReadiedImport ==
  ASSUME Fresh, ImportInv, NEW d \in Docs, Readied(d)
  PROVE  ImportInv'
BY DEF ImportInv, Readied

(***************************************************************************)
(* update_query                                                            *)
(***************************************************************************)
LEMMA UpdateQueryIs ==
  ASSUME DocsType, NEW d \in Docs, update_query(d)
  PROVE  \E v \in Views :
           /\ view[d].pending /\ view' = [view EXCEPT ![d] = v] /\ view'[d] = v
           /\ v.on = view[d].on /\ v.coll = view[d].coll /\ v.label = view[d].label /\ ~v.pending
           /\ v.lines = {Line(id, store[id].val) :
                           id \in {i \in Stored : Selects(view[d], i, store[i].schema)}}
           /\ v.whole => v.coll = doc[d].coll /\ v.label = doc[d].label
           /\ \A e \in Docs \ {d} : view'[e] = view[e]
<1>1. PICK lines : lines = {Line(id, store[id].val) :
                              id \in {i \in Stored : Selects(view[d], i, store[i].schema)}}
  OBVIOUS
<1>2. PICK w \in BOOLEAN : w = (view[d].coll = doc[d].coll /\ view[d].label = doc[d].label)
  OBVIOUS
<1>3. PICK v : v = [view[d] EXCEPT !.lines = lines, !.pending = FALSE, !.whole = w]
  OBVIOUS
<1>4. view[d].pending /\ view' = [view EXCEPT ![d] = v]
  BY <1>1, <1>2, <1>3 DEF update_query
<1>5. lines \in SUBSET Lines
  <2>1. \A id \in Stored : id \in Ids /\ store[id].val \in Vals
    BY DEF DocsType, Stored, Records
  <2> QED BY <1>1, <2>1 DEF Line, Lines
<1>6. /\ v \in Views /\ v.on = view[d].on /\ v.coll = view[d].coll /\ v.label = view[d].label
      /\ v.lines = lines /\ v.pending = FALSE /\ v.whole = w
  BY <1>3, <1>5 DEF DocsType, Views
<1>7. view'[d] = v /\ \A e \in Docs \ {d} : view'[e] = view[e]
  BY <1>4 DEF DocsType
<1> QED BY <1>1, <1>2, <1>4, <1>6, <1>7

LEMMA UpdateQueryType ==
  ASSUME DocsType, NEW d \in Docs, update_query(d)
  PROVE  DocsType'
<1>1. view' \in [Docs -> Views]
  BY UpdateQueryIs DEF DocsType
<1> QED BY <1>1 DEF DocsType, update_query

LEMMA UpdateQueryHome ==
  ASSUME HomeInv, NEW d \in Docs, update_query(d)
  PROVE  HomeInv'
BY DEF HomeInv, RecordsAtHome, AtHome, Stored, Settled, update_query

LEMMA UpdateQueryKnown ==
  ASSUME KnownInv, NEW d \in Docs, update_query(d)
  PROVE  KnownInv'
BY DEF KnownInv, IdKnown, update_query

LEMMA UpdateQueryTable ==
  ASSUME DocsType, TableInv, NEW d \in Docs, update_query(d)
  PROVE  TableInv'
<1>1. PICK v \in Views :
        /\ view[d].pending /\ view'[d] = v
        /\ v.on = view[d].on /\ v.coll = view[d].coll /\ v.label = view[d].label /\ ~v.pending
        /\ v.lines = {Line(id, store[id].val) :
                        id \in {i \in Stored : Selects(view[d], i, store[i].schema)}}
        /\ v.whole => v.coll = doc[d].coll /\ v.label = doc[d].label
        /\ \A e \in Docs \ {d} : view'[e] = view[e]
  BY UpdateQueryIs
<1>2. store' = store /\ doc' = doc
  BY DEF update_query
<1>3. ASSUME NEW e \in Docs \ {d} PROVE Asks(view[e])' /\ Whole(view[e], doc[e])'
  <2>1. view'[e] = view[e]
    BY <1>1
  <2> QED BY <1>2, <2>1, SameTable
<1>4. Asks(view[d])'
  BY <1>1 DEF TableInv, Asks
<1>5. Whole(view[d], doc[d])'
  <2> SUFFICES ASSUME v.whole
               PROVE  /\ v.on /\ v.coll = doc[d].coll /\ v.label = doc[d].label
                      /\ \A l \in v.lines : l.id \in Stored /\ l.id.coll = doc[d].coll
                      /\ \A id \in Stored : Selects(v, id, store[id].schema)
                                            => Line(id, store[id].val) \in v.lines
    BY <1>1, <1>2 DEF Whole, Stored
  <2>1. v.on /\ v.coll = doc[d].coll /\ v.label = doc[d].label
    BY <1>1 DEF TableInv, Asks
  <2>2. ASSUME NEW l \in v.lines PROVE l.id \in Stored /\ l.id.coll = doc[d].coll
    <3>1. PICK id \in Stored : l = Line(id, store[id].val) /\ Selects(view[d], id, store[id].schema)
      BY <1>1, <2>2
    <3> QED BY <1>1, <2>1, <3>1 DEF Line, Selects
  <2>3. ASSUME NEW id \in Stored, Selects(v, id, store[id].schema)
        PROVE  Line(id, store[id].val) \in v.lines
    <3>1. Selects(view[d], id, store[id].schema)
      BY <1>1, <2>3 DEF Selects
    <3> QED BY <1>1, <3>1
  <2> QED BY <2>1, <2>2, <2>3
<1> QED BY <1>3, <1>4, <1>5 DEF TableInv

LEMMA UpdateQueryImport ==
  ASSUME DocsType, ImportInv, NEW d \in Docs, update_query(d)
  PROVE  ImportInv'
<1>1. view[d].pending /\ \A e \in Docs \ {d} : view'[e] = view[e]
  BY UpdateQueryIs
<1>2. pc' = pc /\ doc' = doc
  BY DEF update_query
<1> QED BY <1>1, <1>2 DEF ImportInv, Matches

(***************************************************************************)
(* The start of a call that saves                                          *)
(***************************************************************************)
\* What these have in common: the object of one idle document has its id, its client
\* goes on with next, and knows some ids more.
Goes(d, i, next, ids) ==
  /\ doc' = [doc EXCEPT ![d].id = i]
  /\ pc' = [pc EXCEPT ![d] = next]
  /\ known' = [known EXCEPT ![d] = known[d] \cup ids]
  /\ next \in {"save", "match"} /\ Careful /\ IdKnown(d) => i \in known[d] \cup ids
  /\ next = "import" /\ Fresh => Comparable(d) /\ Matches(d) = {}

Begins(d) ==
  /\ pc[d] = "idle" /\ (Fresh => \A e \in Docs \ {d} : pc[e] # "import")
  /\ UNCHANGED <<store, listed, view>> /\ doc[d].val \in Vals
  /\ \E i \in Ids \cup {Empty, Undef}, next \in {"create", "import", "save", "match"},
        ids \in SUBSET AnyIds : Goes(d, i, next, ids)

LEMMA BeginsBy ==
  ASSUME DocsType, NEW d \in Docs, Idle(d), HasObject(d), UNCHANGED <<store, listed, view>>,
         NEW i \in Ids \cup {Empty, Undef}, NEW next \in {"create", "import", "save", "match"},
         NEW ids \in SUBSET AnyIds, Goes(d, i, next, ids)
  PROVE  Begins(d)
<1>1. doc[d].val \in Vals
  BY DEF DocsType, Objects, HasObject
<1> QED BY <1>1 DEF Begins, Idle

\* The id that is made: the key that is given, or one from the template.
LEMMA PreparedIs ==
  ASSUME DocsType, NEW d \in Docs, NEW key, Prepared(d, key)
  PROVE  \E i \in Ids \cup {Empty, Undef} :
            doc' = [doc EXCEPT ![d].id = i] /\ (key # Empty => i = key)
<1>1. PICK i : i = IF key = Empty THEN genOid(doc[d]) ELSE key
  OBVIOUS
<1>2. WithKey(doc[d], key) = [doc[d] EXCEPT !.id = i]
  BY <1>1 DEF WithKey
<1>3. WithKey(doc[d], key).id = i
  BY <1>2 DEF DocsType, Objects
<1>4. doc' = [doc EXCEPT ![d].id = i]
  BY <1>2 DEF Prepared
<1> QED BY <1>1, <1>3, <1>4 DEF Prepared

LEMMA StartCreateIs ==
  ASSUME DocsType, NEW d \in Docs, NEW key, NEW next, StartCreate(d, key, next),
         next \in {"save", "match"} /\ Careful /\ IdKnown(d) => key # Empty /\ key \in known[d],
         next = "import" /\ Fresh => Comparable(d) /\ Matches(d) = {}
  PROVE  \E i \in Ids \cup {Empty, Undef} : Goes(d, i, next, {})
<1>1. PICK i \in Ids \cup {Empty, Undef} :
        doc' = [doc EXCEPT ![d].id = i] /\ (key # Empty => i = key)
  BY PreparedIs DEF StartCreate
<1>2. pc' = [pc EXCEPT ![d] = next] /\ known' = [known EXCEPT ![d] = known[d] \cup {}]
  BY Unaltered DEF StartCreate, Goto
<1>3. Goes(d, i, next, {})
  BY <1>1, <1>2 DEF Goes
<1> QED BY <1>3

LEMMA StartUpdateIs ==
  ASSUME DocsType, NEW d \in Docs, NEW key, NEW next, StartUpdate(d, key, next),
         next \in {"save", "match"}, Careful => key # Empty
  PROVE  \E i \in Ids \cup {Empty, Undef} : Goes(d, i, next, {key} \ {Empty})
<1>1. PICK i \in Ids \cup {Empty, Undef} :
        doc' = [doc EXCEPT ![d].id = i] /\ (key # Empty => i = key)
  BY PreparedIs DEF StartUpdate
<1>2. pc' = [pc EXCEPT ![d] = next] /\ known' = [known EXCEPT ![d] = known[d] \cup ({key} \ {Empty})]
  BY DEF StartUpdate, Goto, Knows
<1>3. Goes(d, i, next, {key} \ {Empty})
  BY <1>1, <1>2 DEF Goes
<1> QED BY <1>3

LEMMA TestValuesBegins ==
  ASSUME DocsType, NEW d \in Docs, Idle(d), HasObject(d), UNCHANGED <<store, listed, view>>,
         NEW test \in BOOLEAN, WithTestValues(d, test)
  PROVE  Begins(d)
<1>1. CASE Key(doc[d]) = Empty /\ test /\ Matches(d) # {}
  <2>1. PICK id \in Matches(d) : StartUpdate(d, id, "match")
    BY <1>1 DEF WithTestValues
  <2>2. id \in Ids
    <3>1. PICK line \in view[d].lines : id = line.id
      BY DEF Matches
    <3>2. view[d].lines \subseteq Lines
      BY Unaltered DEF Views
    <3> QED BY <3>1, <3>2 DEF Lines
  <2>3. PICK i \in Ids \cup {Empty, Undef} : Goes(d, i, "match", {id} \ {Empty})
    BY <2>1, <2>2, IdFacts, StartUpdateIs
  <2>4. {id} \ {Empty} \in SUBSET AnyIds
    BY <2>2 DEF AnyIds
  <2> QED BY <2>3, <2>4, BeginsBy
<1>2. CASE Key(doc[d]) = Empty /\ test /\ Matches(d) = {}
  <2>1. StartCreate(d, Empty, "import") /\ (Fresh => Comparable(d))
    BY <1>2 DEF WithTestValues
  <2>2. PICK i \in Ids \cup {Empty, Undef} : Goes(d, i, "import", {})
    BY <1>2, <2>1, StartCreateIs
  <2> QED BY <2>2, BeginsBy
<1>3. CASE ~(Key(doc[d]) = Empty /\ test)
  <2>1. StartCreate(d, Key(doc[d]), "create")
    BY <1>3 DEF WithTestValues
  <2>2. PICK i \in Ids \cup {Empty, Undef} : Goes(d, i, "create", {})
    BY <2>1, StartCreateIs
  <2> QED BY <2>2, BeginsBy
<1> QED BY <1>1, <1>2, <1>3

LEMMA CreateDocumentBegins ==
  ASSUME DocsType, NEW d \in Docs, createDocument(d)
  PROVE  Begins(d)
<1>1. StartCreate(d, Empty, "create")
  BY DEF createDocument
<1>2. PICK i \in Ids \cup {Empty, Undef} : Goes(d, i, "create", {})
  BY <1>1, StartCreateIs
<1> QED BY <1>2, BeginsBy DEF createDocument

LEMMA UpdateDocumentBegins ==
  ASSUME DocsType, NEW d \in Docs, updateDocument(d)
  PROVE  Begins(d)
<1>1. PICK key \in {id \in known[d] : id \in Ids} \cup (IF Careful THEN {} ELSE {Empty}) :
        StartUpdate(d, key, "save")
  BY DEF updateDocument
<1>2. key \in AnyIds /\ (Careful => key # Empty)
  BY IdFacts DEF AnyIds
<1>3. PICK i \in Ids \cup {Empty, Undef} : Goes(d, i, "save", {key} \ {Empty})
  BY <1>1, <1>2, StartUpdateIs
<1>4. {key} \ {Empty} \in SUBSET AnyIds
  BY <1>2
<1> QED BY <1>3, <1>4, BeginsBy DEF updateDocument

\* The key of an object that is listed is an id its client knows, if the object is not
\* left over from a creation that threw.
LEMMA UpdateWithTestValuesBegins ==
  ASSUME DocsType, NEW d \in Docs, updateWithTestValues(d)
  PROVE  Begins(d)
<1>1. CASE Exists(doc[d], Key(doc[d]))
  <2>1. StartCreate(d, Key(doc[d]), "save")
    BY <1>1 DEF updateWithTestValues
  <2>2. Key(doc[d]) \in Ids
    BY <1>1 DEF Exists, DocsType
  <2>3. Key(doc[d]) # Empty /\ doc[d].id \notin {Empty, Absent} /\ Key(doc[d]) = doc[d].id
    BY <2>2, IdFacts DEF Key
  <2>4. Careful /\ IdKnown(d) => Key(doc[d]) \in known[d]
    BY <2>3 DEF IdKnown, updateWithTestValues, Idle, HasObject
  <2>5. PICK i \in Ids \cup {Empty, Undef} : Goes(d, i, "save", {})
    BY <2>1, <2>3, <2>4, StartCreateIs
  <2> QED BY <2>5, BeginsBy DEF updateWithTestValues
<1>2. CASE ~Exists(doc[d], Key(doc[d]))
  BY <1>2, TestValuesBegins DEF updateWithTestValues
<1> QED BY <1>1, <1>2

LEMMA CreateWithTestValuesBegins ==
  ASSUME DocsType, NEW d \in Docs, createWithTestValues(d)
  PROVE  Begins(d)
BY TestValuesBegins DEF createWithTestValues

LEMMA BeginsIs ==
  ASSUME DocsType, NEW d \in Docs, Begins(d)
  PROVE  \E i \in Ids \cup {Empty, Undef}, next \in {"create", "import", "save", "match"},
            ids \in SUBSET AnyIds, x \in Objects :
           /\ Goes(d, i, next, ids)
           /\ x.id = i /\ x.val = doc[d].val /\ x.coll = doc[d].coll
           /\ x.made = doc[d].made /\ x.label = doc[d].label /\ x.linked = doc[d].linked
           /\ doc' = [doc EXCEPT ![d] = x] /\ doc'[d] = x
           /\ pc'[d] = next /\ known'[d] = known[d] \cup ids
           /\ \A e \in Docs \ {d} : doc'[e] = doc[e] /\ pc'[e] = pc[e] /\ known'[e] = known[e]
<1>1. PICK i \in Ids \cup {Empty, Undef}, next \in {"create", "import", "save", "match"},
           ids \in SUBSET AnyIds : Goes(d, i, next, ids)
  BY DEF Begins
<1>2. PICK x : x = [doc[d] EXCEPT !.id = i]
  OBVIOUS
<1>3. i \in AnyIds
  BY DEF AnyIds
<1>4. /\ x \in Objects /\ x.id = i /\ x.val = doc[d].val /\ x.coll = doc[d].coll
      /\ x.made = doc[d].made /\ x.label = doc[d].label /\ x.linked = doc[d].linked
  BY <1>2, <1>3, Unaltered DEF Objects
<1>5. doc' = [doc EXCEPT ![d] = x]
  BY <1>1, <1>2 DEF Goes
<1>6. /\ doc'[d] = x /\ pc'[d] = next /\ known'[d] = known[d] \cup ids
      /\ \A e \in Docs \ {d} : doc'[e] = doc[e] /\ pc'[e] = pc[e] /\ known'[e] = known[e]
  BY <1>1, <1>5 DEF Goes, DocsType
<1> QED BY <1>1, <1>4, <1>5, <1>6

LEMMA BeginsType ==
  ASSUME DocsType, NEW d \in Docs, Begins(d)
  PROVE  DocsType'
<1>1. PICK i \in Ids \cup {Empty, Undef}, next \in {"create", "import", "save", "match"},
           ids \in SUBSET AnyIds, x \in Objects :
        /\ Goes(d, i, next, ids) /\ x.id = i /\ x.val = doc[d].val
        /\ doc' = [doc EXCEPT ![d] = x] /\ doc'[d] = x
        /\ \A e \in Docs \ {d} : doc'[e] = doc[e] /\ pc'[e] = pc[e]
  BY BeginsIs
<1>2. /\ doc' \in [Docs -> Objects]
      /\ pc' \in [Docs -> {"idle", "create", "import", "save", "match"}]
      /\ known' \in [Docs -> SUBSET AnyIds]
  BY <1>1 DEF Goes, DocsType
<1>3. \A e \in Docs : pc'[e] # "idle" => /\ doc'[e].id \in Ids \cup {Empty, Undef}
                                         /\ doc'[e].val \in Vals
  BY <1>1 DEF Begins, DocsType
<1> QED BY <1>2, <1>3 DEF DocsType, Begins

LEMMA BeginsHome ==
  ASSUME DocsType, HomeInv, NEW d \in Docs, Begins(d)
  PROVE  HomeInv'
<1>1. \A e \in Docs : doc'[e].made = doc[e].made /\ doc'[e].linked = doc[e].linked /\ doc'[e].coll = doc[e].coll
  BY BeginsIs
<1>2. store' = store
  BY DEF Begins
<1> QED BY <1>1, <1>2 DEF HomeInv, RecordsAtHome, AtHome, Settled, Stored

LEMMA BeginsKnown ==
  ASSUME DocsType, Careful, KnownInv, NEW d \in Docs, Begins(d)
  PROVE  KnownInv'
<1>1. PICK i \in Ids \cup {Empty, Undef}, next \in {"create", "import", "save", "match"},
           ids \in SUBSET AnyIds, x \in Objects :
        /\ Goes(d, i, next, ids) /\ x.id = i /\ doc'[d] = x
        /\ pc'[d] = next /\ known'[d] = known[d] \cup ids
        /\ \A e \in Docs \ {d} : doc'[e] = doc[e] /\ pc'[e] = pc[e] /\ known'[e] = known[e]
  BY BeginsIs
<1>2. IdKnown(d)'
  BY <1>1 DEF KnownInv, Goes, IdKnown
<1>3. \A e \in Docs \ {d} : IdKnown(e)'
  BY <1>1 DEF KnownInv, IdKnown
<1> QED BY <1>2, <1>3 DEF KnownInv

LEMMA BeginsTable ==
  ASSUME DocsType, TableInv, NEW d \in Docs, Begins(d)
  PROVE  TableInv'
<1>1. \A e \in Docs : doc'[e].coll = doc[e].coll /\ doc'[e].label = doc[e].label
  BY BeginsIs
<1>2. store' = store /\ view' = view
  BY DEF Begins
<1> QED BY <1>1, <1>2, SameTable DEF TableInv

LEMMA BeginsImport ==
  ASSUME DocsType, Fresh, ImportInv, NEW d \in Docs, Begins(d)
  PROVE  ImportInv'
<1>1. PICK i \in Ids \cup {Empty, Undef}, next \in {"create", "import", "save", "match"},
           ids \in SUBSET AnyIds, x \in Objects :
        /\ Goes(d, i, next, ids) /\ x.val = doc[d].val /\ doc'[d] = x /\ pc'[d] = next
        /\ \A e \in Docs \ {d} : doc'[e] = doc[e] /\ pc'[e] = pc[e]
  BY BeginsIs
<1>2. view' = view /\ \A e \in Docs \ {d} : pc[e] # "import"
  BY DEF Begins
<1>3. pc'[d] = "import" => /\ view'[d].whole /\ ~view'[d].pending /\ Matches(d)' = {}
                           /\ \A e \in Docs \ {d} : pc'[e] = "idle"
  BY <1>1, <1>2 DEF Goes, Comparable, Matches
<1> QED BY <1>1, <1>2, <1>3 DEF ImportInv

(***************************************************************************)
(* Creations                                                               *)
(***************************************************************************)
\* The least of a set of natural numbers.
Lesser == {p \in Nat \X Nat : p[1] < p[2]}

LEMMA LeastIs ==
  ASSUME NEW S, S \subseteq Nat, S # {}
  PROVE  Min(S) \in S
<1>1. IsWellFoundedOn(Lesser, Nat)
  <2>1. OpToRel(<, Nat) = Lesser
    BY DEF OpToRel, Lesser
  <2> QED BY <2>1, NatLessThanWellFounded
<1>2. PICK x \in S : \A y \in S : ~ (<<y, x>> \in Lesser)
  BY <1>1, WFMin
<1>3. ASSUME NEW y \in S PROVE x <= y
  <2>1. <<y, x>> \in Nat \X Nat /\ <<y, x>>[1] = y /\ <<y, x>>[2] = x
    BY <1>2
  <2>2. ~ (y < x)
    BY <1>2, <2>1 DEF Lesser
  <2> QED BY <1>2, <2>2
<1> QED BY <1>3 DEF Min

LEMMA TargetIs ==
  ASSUME NEW x \in Objects, x.id \in Ids \cup {Empty, Undef}
  PROVE  Target(x) \in Ids /\ Target(x).coll = x.coll
<1>1. x.coll \in Collections
  BY DEF Objects
<1>2. CASE x.id # Empty
  <2>1. Target(x) = [x.id EXCEPT !.coll = x.coll]
    BY <1>2 DEF Target
  <2>2. [x.id EXCEPT !.coll = x.coll].coll = x.coll
    BY DEF Ids, Empty, Undef
  <2>3. [x.id EXCEPT !.coll = x.coll] \in Ids
    BY <1>1, <1>2, IdFacts
  <2> QED BY <2>1, <2>2, <2>3
<1>3. CASE x.id = Empty
  <2> DEFINE S == {n \in 0 .. MaxSuffix : [coll |-> x.coll, head |-> "auto", n |-> n] \notin Stored}
                    \cup {MaxSuffix}
  <2>1. S \subseteq 0 .. MaxSuffix /\ S # {} /\ S \subseteq Nat
    <3>1. MaxSuffix \in Nat
      BY DocumentsAssumption
    <3>2. S \subseteq 0 .. MaxSuffix /\ MaxSuffix \in S
      BY <3>1
    <3> HIDE DEF S
    <3> QED BY <3>1, <3>2
  <2>2. Min(S) \in 0 .. MaxSuffix
    <3> HIDE DEF S
    <3> QED BY <2>1, LeastIs
  <2>3. Target(x) = [coll |-> x.coll, head |-> "auto", n |-> Min(S)]
    BY <1>3 DEF Target
  <2> HIDE DEF S
  <2> QED BY <1>1, <2>2, <2>3 DEF Ids
<1> QED BY <1>2, <1>3

LEMMA LineIs ==
  ASSUME NEW id \in Ids, NEW w \in Vals
  PROVE  Line(id, w) \in Lines /\ Line(id, w).id = id
BY DEF Line, Lines

(***************************************************************************)
(* Records that are saved                                                  *)
(***************************************************************************)
\* A table with the query of another, which is whole only if that is.
Keeps(u, v) ==
  /\ u \in Views /\ u.on = v.on /\ u.coll = v.coll /\ u.label = v.label
  /\ u.pending = v.pending /\ (u.whole => v.whole)

\* The table v of a document in the collection c after the record r was saved under
\* id: if u is still whole, its query does not select the record or it has its line.
Sees(u, v, id, r, c) ==
  /\ Keeps(u, v)
  /\ u.whole => \/ u.lines = v.lines /\ ~Selects(v, id, r.schema)
                \/ u.lines = {l \in v.lines : l.id # id} \cup {Line(id, r.val)} /\ id.coll = c

\* What a creation and an update have in common: the object of the document is saved
\* under id and becomes x, its client is done and may know the id more.
Saves(d, id, r, x, ids) ==
  /\ pc[d] # "idle" /\ id.coll = doc[d].coll
  /\ r = Record(doc[d]) /\ r \in Records
  /\ store' = [store EXCEPT ![id] = r] /\ listed' \subseteq Ids
  /\ doc' = [doc EXCEPT ![d] = x] /\ x.id = id
  /\ x.coll = doc[d].coll /\ x.made = doc[d].made /\ x.label = doc[d].label /\ x.linked = doc[d].linked
  /\ pc' = [pc EXCEPT ![d] = "idle"]
  /\ known' = [known EXCEPT ![d] = known[d] \cup ids]
  /\ id \in ids \/ (pc[d] \in {"save", "match"} /\ id = doc[d].id)
  /\ id \in Stored => pc[d] \in {"save", "match"} /\ id = doc[d].id
  /\ view' \in [Docs -> Views]
  /\ TableInv => \A e \in Docs : Sees(view'[e], view[e], id, r, doc[e].coll)

Saved(d) == \E id \in Ids, r \in Records, x \in Objects, ids \in SUBSET Ids : Saves(d, id, r, x, ids)

LEMMA ObjectRecord ==
  ASSUME DocsType, NEW d \in Docs, pc[d] # "idle"
  PROVE  Record(doc[d]) \in Records
BY DEF DocsType, Records, Record, Objects

\* A table whose whole has become w.
LEMMA StillWhole ==
  ASSUME NEW v \in Views, NEW w \in BOOLEAN, NEW u, u = [v EXCEPT !.whole = w], w => v.whole
  PROVE  Keeps(u, v) /\ u.lines = v.lines /\ u.whole = w
BY DEF Keeps, Views

\* A table with a line that may not and one that may overwrite another, and what
\* these leave as it is.
Inserted(v, id, w) == AddLine(v, Line(id, w), FALSE)
Overwritten(v, id, w) == AddLine(v, Line(id, w), TRUE)

LEMMA InsertKeeps ==
  ASSUME NEW v \in Views, NEW id \in Ids, NEW w \in Vals,
         NEW u, u = Inserted(v, id, w)
  PROVE  /\ Keeps(u, v) /\ u.whole = v.whole
         /\ v.on /\ ~(\E l \in v.lines : l.id = id)
              => u.lines = {l \in v.lines : l.id # id} \cup {Line(id, w)}
<1>1. PICK line : line = Line(id, w)
  OBVIOUS
<1>2. line \in Lines /\ line.id = id
  BY <1>1, LineIs
<1>3. PICK lines : lines = {l \in v.lines : l.id # id} \cup {line}
  OBVIOUS
<1>4. lines \in SUBSET Lines
  BY <1>2, <1>3 DEF Views
<1>5. u = v \/ u = [v EXCEPT !.lines = lines]
  BY <1>1, <1>2, <1>3 DEF AddLine, Inserted
<1>6. v.on /\ ~(\E l \in v.lines : l.id = id) => u = [v EXCEPT !.lines = lines]
  BY <1>1, <1>2, <1>3 DEF AddLine, Inserted
<1>7. PICK x : x = [v EXCEPT !.lines = lines]
  OBVIOUS
<1>8. Keeps(x, v) /\ x.whole = v.whole /\ x.lines = lines
  BY <1>4, <1>7 DEF Keeps, Views
<1> QED BY <1>1, <1>3, <1>5, <1>6, <1>7, <1>8 DEF Keeps

LEMMA OverwriteKeeps ==
  ASSUME NEW v \in Views, NEW id \in Ids, NEW w \in Vals,
         NEW u, u = Overwritten(v, id, w)
  PROVE  /\ Keeps(u, v) /\ u.whole = v.whole
         /\ v.on
              => u.lines = {l \in v.lines : l.id # id} \cup {Line(id, w)}
<1>1. PICK line : line = Line(id, w)
  OBVIOUS
<1>2. line \in Lines /\ line.id = id
  BY <1>1, LineIs
<1>3. PICK lines : lines = {l \in v.lines : l.id # id} \cup {line}
  OBVIOUS
<1>4. lines \in SUBSET Lines
  BY <1>2, <1>3 DEF Views
<1>5. u = v \/ u = [v EXCEPT !.lines = lines]
  BY <1>1, <1>2, <1>3 DEF AddLine, Overwritten
<1>6. v.on => u = [v EXCEPT !.lines = lines]
  BY <1>1, <1>2, <1>3 DEF AddLine, Overwritten
<1>7. PICK x : x = [v EXCEPT !.lines = lines]
  OBVIOUS
<1>8. Keeps(x, v) /\ x.whole = v.whole /\ x.lines = lines
  BY <1>4, <1>7 DEF Keeps, Views
<1> QED BY <1>1, <1>3, <1>5, <1>6, <1>7, <1>8 DEF Keeps

LEMMA CreateRecordSaves ==
  ASSUME DocsType, NEW d \in Docs, CreateRecord(d)
  PROVE  Saved(d)
<1>1. PICK id : id = Target(doc[d])
  OBVIOUS
<1>2. PICK r : r = Record(doc[d])
  OBVIOUS
<1>3. PICK x : x = [doc[d] EXCEPT !.id = id]
  OBVIOUS
<1>4. /\ doc[d] \in Objects /\ doc[d].id \in Ids \cup {Empty, Undef} /\ doc[d].val \in Vals
      /\ pc[d] # "idle"
  BY DEF DocsType, CreateRecord
<1>5. id \in Ids /\ id.coll = doc[d].coll
  BY <1>1, <1>4, TargetIs
<1>6. /\ id \notin Stored /\ store' = [store EXCEPT ![id] = r] /\ listed' = listed \cup {id}
      /\ doc' = [doc EXCEPT ![d].id = id] /\ view' = Created(d, id)
      /\ known' = [known EXCEPT ![d] = known[d] \cup {id}] /\ pc' = [pc EXCEPT ![d] = "idle"]
  BY <1>1, <1>2 DEF CreateRecord, Knows, Goto
<1>7. r \in Records /\ r.val = doc[d].val /\ r.schema = doc[d].made
  BY <1>2, <1>4, ObjectRecord DEF Record
<1>8. /\ x \in Objects /\ x.id = id /\ x.coll = doc[d].coll /\ x.made = doc[d].made
      /\ x.label = doc[d].label /\ x.linked = doc[d].linked
  <2>1. id \in AnyIds
    BY <1>5 DEF AnyIds
  <2> QED BY <1>3, <1>4, <2>1 DEF Objects
<1>9. doc' = [doc EXCEPT ![d] = x] /\ listed' \subseteq Ids
  BY <1>3, <1>5, <1>6 DEF DocsType
<1>10. ASSUME NEW e \in Docs \ {d}
       PROVE  /\ view'[e] \in Views
              /\ Sees(view'[e], view[e], id, r, doc[e].coll)
  <2>1. PICK w \in BOOLEAN : w = (view[e].whole /\ ~Selects(view[e], id, doc[d].made))
    OBVIOUS
  <2>2. PICK u : u = [view[e] EXCEPT !.whole = w]
    OBVIOUS
  <2>3. view'[e] = u
    BY <1>6, <2>1, <2>2 DEF Created
  <2>4. Keeps(u, view[e]) /\ u.lines = view[e].lines /\ u.whole = w
    <3>1. view[e] \in Views /\ (w => view[e].whole)
      BY <2>1, Unaltered
    <3> QED BY <2>2, <3>1, StillWhole
  <2> QED BY <1>7, <2>1, <2>3, <2>4 DEF Sees, Keeps
<1>11. PICK u : u = Inserted(view[d], id, doc[d].val)
  OBVIOUS
<1>12. view'[d] = u
  BY <1>6, <1>11 DEF Created, Inserted
<1>13. /\ Keeps(u, view[d]) /\ u.whole = view[d].whole
       /\ view[d].on /\ ~(\E l \in view[d].lines : l.id = id)
            => u.lines = {l \in view[d].lines : l.id # id} \cup {Line(id, doc[d].val)}
  BY <1>4, <1>5, <1>11, Unaltered, InsertKeeps
<1>14. TableInv => Sees(u, view[d], id, r, doc[d].coll)
  BY <1>5, <1>6, <1>7, <1>13 DEF Sees, TableInv, Whole
<1>15. view' \in [Docs -> Views]
  <2>1. view' = [e \in Docs |-> view'[e]]
    BY <1>6 DEF Created
  <2> QED BY <1>10, <1>12, <1>13, <2>1 DEF Keeps
<1>16. TableInv => \A e \in Docs : Sees(view'[e], view[e], id, r, doc[e].coll)
  BY <1>10, <1>12, <1>14
<1>17. Saves(d, id, r, x, {id})
  BY <1>2, <1>4, <1>5, <1>6, <1>7, <1>8, <1>9, <1>15, <1>16 DEF Saves
<1>18. {id} \in SUBSET Ids
  BY <1>5
<1> QED BY <1>5, <1>7, <1>8, <1>17, <1>18 DEF Saved

LEMMA SaveUpdateSaves ==
  ASSUME DocsType, NEW d \in Docs, SaveUpdate(d), doc[d].id \in Stored
  PROVE  Saved(d)
<1>1. PICK id : id = doc[d].id
  OBVIOUS
<1>2. PICK r : r = Record(doc[d])
  OBVIOUS
<1>3. doc[d] \in Objects /\ doc[d].val \in Vals /\ pc[d] \in {"save", "match"}
  BY DEF DocsType, SaveUpdate
<1>4. id \in Ids /\ id.coll = doc[d].coll
  BY <1>1 DEF SaveUpdate, Exists, Stored
<1>5. /\ store' = [store EXCEPT ![id] = r] /\ listed' = listed /\ doc' = doc
      /\ view' = Updated(d, id) /\ known' = known /\ pc' = [pc EXCEPT ![d] = "idle"]
  BY <1>1, <1>2 DEF SaveUpdate, Goto
<1>6. r \in Records /\ r.val = doc[d].val /\ r.schema = doc[d].made
  BY <1>2, <1>3, ObjectRecord DEF Record
<1>7. /\ doc' = [doc EXCEPT ![d] = doc[d]] /\ known' = [known EXCEPT ![d] = known[d] \cup {}]
      /\ listed' \subseteq Ids
  BY <1>5 DEF DocsType
<1>8. ASSUME NEW e \in Docs
      PROVE  view'[e] \in Views /\ (TableInv => Sees(view'[e], view[e], id, r, doc[e].coll))
  <2>1. PICK there \in BOOLEAN : there = \E l \in view[e].lines : l.id = id
    OBVIOUS
  <2>2. PICK line : line = Line(id, doc[d].val)
    OBVIOUS
  <2>3. PICK v : v = IF Told(e, doc[d].coll) /\ there THEN AddLine(view[e], line, TRUE)
                     ELSE view[e]
    OBVIOUS
  <2>4. view'[e] = IF e = d THEN AddLine(v, line, TRUE)
                   ELSE [v EXCEPT !.whole = @ /\ (Selects(view[e], id, doc[d].made) => there /\ doc[e].linked)]
    BY <1>5, <2>1, <2>2, <2>3 DEF Updated
  <2>5. /\ Keeps(v, view[e]) /\ v.whole = view[e].whole
        /\ ~(Told(e, doc[d].coll) /\ there) => v.lines = view[e].lines
        /\ Told(e, doc[d].coll) /\ there /\ view[e].on
             => v.lines = {l \in view[e].lines : l.id # id} \cup {line}
    <3>1. CASE Told(e, doc[d].coll) /\ there
      <4>1. v = Overwritten(view[e], id, doc[d].val)
        BY <2>2, <2>3, <3>1 DEF Overwritten
      <4> QED BY <1>3, <1>4, <2>2, <3>1, <4>1, Unaltered, OverwriteKeeps
    <3>2. CASE ~(Told(e, doc[d].coll) /\ there)
      BY <2>3, <3>2, Unaltered DEF Keeps
    <3> QED BY <3>1, <3>2
  <2>6. line.id = id /\ line = Line(id, r.val)
    BY <1>3, <1>4, <1>6, <2>2, LineIs
  <2>7. CASE e = d
    <3>1. PICK u : u = Overwritten(v, id, doc[d].val)
      OBVIOUS
    <3>2. view'[e] = u
      BY <2>2, <2>4, <2>7, <3>1 DEF Overwritten
    <3>3. v \in Views
      BY <2>5 DEF Keeps
    <3>4. /\ Keeps(u, v) /\ u.whole = v.whole
          /\ v.on => u.lines = {l \in v.lines : l.id # id} \cup {Line(id, doc[d].val)}
      BY <1>3, <1>4, <3>1, <3>3, OverwriteKeeps
    <3>5. Keeps(u, view[e])
      BY <2>5, <3>4 DEF Keeps
    <3>6. view[e].on => u.lines = {l \in view[e].lines : l.id # id} \cup {Line(id, r.val)}
      <4>1. v.on = view[e].on
        BY <2>5 DEF Keeps
      <4>2. view[e].on => {l \in v.lines : l.id # id} = {l \in view[e].lines : l.id # id}
        BY <2>5, <2>6
      <4> QED BY <1>6, <3>4, <4>1, <4>2
    <3>7. TableInv => (u.whole => view[e].on)
      BY <2>5, <3>4 DEF TableInv, Whole
    <3> QED BY <1>4, <2>7, <3>2, <3>5, <3>6, <3>7 DEF Sees, Keeps
  <2>8. CASE e # d
    <3>1. PICK w \in BOOLEAN : w = (v.whole /\ (Selects(view[e], id, doc[d].made) => there /\ doc[e].linked))
      OBVIOUS
    <3>2. PICK u : u = [v EXCEPT !.whole = w]
      OBVIOUS
    <3>3. view'[e] = u
      BY <2>4, <2>8, <3>1, <3>2
    <3>4. v \in Views
      BY <2>5 DEF Keeps
    <3>5. Keeps(u, v) /\ u.lines = v.lines /\ u.whole = w
      BY <3>1, <3>2, <3>4, StillWhole
    <3>6. Keeps(u, view[e])
      BY <2>5, <3>5 DEF Keeps
    <3>7. ASSUME TableInv, u.whole
          PROVE  \/ u.lines = view[e].lines /\ ~Selects(view[e], id, r.schema)
                 \/ u.lines = {l \in view[e].lines : l.id # id} \cup {Line(id, r.val)} /\ id.coll = doc[e].coll
      <4>1. /\ view[e].whole /\ view[e].on
            /\ Selects(view[e], id, r.schema) => there /\ doc[e].linked
        BY <1>6, <2>5, <3>1, <3>5, <3>7 DEF TableInv, Whole
      <4>2. there => id.coll = doc[e].coll
        <5>1. Whole(view[e], doc[e])
          BY <3>7 DEF TableInv
        <5> QED BY <2>1, <4>1, <5>1 DEF Whole
      <4>3. CASE Told(e, doc[d].coll) /\ there
        BY <2>5, <2>6, <3>5, <4>1, <4>2, <4>3
      <4>4. CASE ~(Told(e, doc[d].coll) /\ there)
        BY <1>4, <2>5, <3>5, <4>1, <4>2, <4>4 DEF Told
      <4> QED BY <4>3, <4>4
    <3> QED BY <3>3, <3>6, <3>7 DEF Sees, Keeps
  <2> QED BY <2>7, <2>8
<1>9. view' \in [Docs -> Views]
  <2>1. view' = [e \in Docs |-> view'[e]]
    BY <1>5 DEF Updated
  <2> QED BY <1>8, <2>1
<1>10. Saves(d, id, r, doc[d], {})
  BY <1>1, <1>2, <1>3, <1>4, <1>5, <1>6, <1>7, <1>8, <1>9 DEF Saves
<1> QED BY <1>3, <1>4, <1>6, <1>10 DEF Saved

LEMMA SavedType ==
  ASSUME DocsType, NEW d \in Docs, Saved(d)
  PROVE  DocsType'
<1>1. PICK id \in Ids, r \in Records, x \in Objects, ids \in SUBSET Ids : Saves(d, id, r, x, ids)
  BY DEF Saved
<1>2. /\ store' = [store EXCEPT ![id] = r] /\ listed' \subseteq Ids
      /\ doc' = [doc EXCEPT ![d] = x] /\ pc' = [pc EXCEPT ![d] = "idle"]
      /\ known' = [known EXCEPT ![d] = known[d] \cup ids] /\ view' \in [Docs -> Views]
  BY <1>1 DEF Saves
<1>3. store' \in [Ids -> Records \cup {NoRecord}]
  BY <1>2 DEF DocsType
<1>4. /\ doc' \in [Docs -> Objects]
      /\ pc' \in [Docs -> {"idle", "create", "import", "save", "match"}]
  BY <1>2 DEF DocsType
<1>5. known' \in [Docs -> SUBSET AnyIds]
  BY <1>2 DEF DocsType, AnyIds
<1>6. \A e \in Docs : pc'[e] # "idle" => /\ doc'[e].id \in Ids \cup {Empty, Undef}
                                         /\ doc'[e].val \in Vals
  BY <1>2 DEF DocsType
<1> QED BY <1>2, <1>3, <1>4, <1>5, <1>6 DEF DocsType

LEMMA SavedHome ==
  ASSUME DocsType, HomeInv, NEW d \in Docs, Saved(d)
  PROVE  HomeInv'
<1>1. PICK id \in Ids, r \in Records, x \in Objects, ids \in SUBSET Ids : Saves(d, id, r, x, ids)
  BY DEF Saved
<1>2. /\ id.coll = doc[d].coll /\ r.schema = doc[d].made /\ r.linked = doc[d].linked /\ store' = [store EXCEPT ![id] = r]
      /\ doc' = [doc EXCEPT ![d] = x]
      /\ x.coll = doc[d].coll /\ x.made = doc[d].made /\ x.linked = doc[d].linked
  BY <1>1 DEF Saves, Record
<1>3. \A e \in Docs : Settled(e, doc'[e])
  <2>1. Settled(d, doc[d]) => Settled(d, x)
    BY <1>2 DEF Settled
  <2>2. doc'[d] = x /\ \A e \in Docs \ {d} : doc'[e] = doc[e]
    BY <1>2 DEF DocsType
  <2> QED BY <2>1, <2>2 DEF HomeInv
<1>4. doc[d].linked /\ doc[d].made \in Schemas => doc[d].coll = CollOf(doc[d].made)
  <2>1. "json" \notin Schemas
    BY DocumentsAssumption
  <2> QED BY <2>1, AcceptedIs DEF HomeInv, Settled
<1>5. ASSUME NEW i \in Ids, store'[i] # NoRecord, store'[i].linked, store'[i].schema \in Schemas
      PROVE  i.coll = CollOf(store'[i].schema)
  <2>1. CASE i = id
    BY <1>2, <1>4, <1>5, <2>1 DEF DocsType
  <2>2. CASE i # id
    <3>1. store'[i] = store[i]
      BY <1>2, <2>2 DEF DocsType
    <3> QED BY <1>5, <3>1 DEF HomeInv, RecordsAtHome, AtHome, Stored
  <2> QED BY <2>1, <2>2
<1> QED BY <1>3, <1>5 DEF HomeInv, Settled, RecordsAtHome, AtHome, Stored

LEMMA SavedKnown ==
  ASSUME DocsType, KnownInv, NEW d \in Docs, Saved(d)
  PROVE  KnownInv'
<1>1. PICK id \in Ids, r \in Records, x \in Objects, ids \in SUBSET Ids : Saves(d, id, r, x, ids)
  BY DEF Saved
<1>2. /\ doc' = [doc EXCEPT ![d] = x] /\ x.id = id /\ pc' = [pc EXCEPT ![d] = "idle"]
      /\ known' = [known EXCEPT ![d] = known[d] \cup ids]
      /\ id \in ids \/ (pc[d] \in {"save", "match"} /\ id = doc[d].id)
  BY <1>1 DEF Saves
<1>3. /\ doc'[d] = x /\ pc'[d] = "idle" /\ known'[d] = known[d] \cup ids
      /\ \A e \in Docs \ {d} : doc'[e] = doc[e] /\ pc'[e] = pc[e] /\ known'[e] = known[e]
  BY <1>2 DEF DocsType
<1>4. IdKnown(d)'
  BY <1>2, <1>3 DEF KnownInv, IdKnown
<1>5. \A e \in Docs \ {d} : IdKnown(e)'
  BY <1>3 DEF KnownInv, IdKnown
<1> QED BY <1>4, <1>5 DEF KnownInv

LEMMA SavedTable ==
  ASSUME DocsType, TableInv, NEW d \in Docs, Saved(d)
  PROVE  TableInv'
<1>1. PICK id \in Ids, r \in Records, x \in Objects, ids \in SUBSET Ids : Saves(d, id, r, x, ids)
  BY DEF Saved
<1>2. /\ store' = [store EXCEPT ![id] = r] /\ doc' = [doc EXCEPT ![d] = x] /\ x.coll = doc[d].coll
      /\ x.label = doc[d].label
      /\ \A e \in Docs : Sees(view'[e], view[e], id, r, doc[e].coll)
  BY <1>1 DEF Saves
<1>3. /\ store'[id] = r /\ store'[id] # NoRecord /\ \A i \in Ids \ {id} : store'[i] = store[i]
  <2>1. NoRecord \notin Records
    BY DocumentsAssumption DEF Records, SchemaNames
  <2> QED BY <1>2, <2>1 DEF DocsType
<1>4. Stored' = Stored \cup {id}
  BY <1>3 DEF Stored
<1>5. ASSUME NEW e \in Docs PROVE Asks(view[e])' /\ Whole(view[e], doc[e])'
  <2>1. PICK v : v = view[e]
    OBVIOUS
  <2>2. PICK u : u = view'[e]
    OBVIOUS
  <2>3. PICK c : c = doc[e].coll
    OBVIOUS
  <2>4. doc'[e].coll = c /\ doc'[e].label = doc[e].label
    BY <1>2, <2>3 DEF DocsType
  <2>5. /\ u.on = v.on /\ u.coll = v.coll /\ u.label = v.label /\ u.pending = v.pending
        /\ u.whole => v.whole
        /\ u.whole => \/ u.lines = v.lines /\ ~Selects(v, id, r.schema)
                      \/ u.lines = {l \in v.lines : l.id # id} \cup {Line(id, r.val)} /\ id.coll = c
    BY <1>2, <2>1, <2>2, <2>3 DEF Sees, Keeps
  <2>6. Asks(v) /\ Whole(v, doc[e])
    BY <2>1, <2>3 DEF TableInv
  <2>7. Asks(view[e])'
    BY <2>2, <2>5, <2>6 DEF Asks
  <2>8. ASSUME u.whole
        PROVE  /\ u.on /\ u.coll = c /\ u.label = doc[e].label
               /\ \A l \in u.lines : l.id \in Stored' /\ l.id.coll = c
               /\ \A i \in Stored' : Selects(u, i, store'[i].schema)
                                     => Line(i, store'[i].val) \in u.lines
    <3>1. /\ v.whole /\ v.on /\ v.coll = c /\ v.label = doc[e].label
          /\ \A l \in v.lines : l.id \in Stored /\ l.id.coll = c
          /\ \A i \in Stored : Selects(v, i, store[i].schema) => Line(i, store[i].val) \in v.lines
      BY <2>3, <2>5, <2>6, <2>8 DEF Whole
    <3>2. \A i, s : Selects(u, i, s) <=> Selects(v, i, s)
      BY <2>5 DEF Selects
    <3>3. \A i \in Stored' : i # id => i \in Stored /\ store'[i] = store[i]
      BY <1>3, <1>4 DEF Stored
    <3>4. \A i, w : Line(i, w).id = i
      BY DEF Line
    <3>5. CASE u.lines = v.lines /\ ~Selects(v, id, r.schema)
      <4>1. \A i \in Stored' : Selects(u, i, store'[i].schema) => i # id
        BY <1>3, <3>2, <3>5
      <4>2. \A l \in u.lines : l.id \in Stored' /\ l.id.coll = c
        BY <1>4, <3>1, <3>5
      <4> QED BY <2>5, <3>1, <3>2, <3>3, <3>5, <4>1, <4>2
    <3>6. CASE u.lines = {l \in v.lines : l.id # id} \cup {Line(id, r.val)} /\ id.coll = c
      <4>1. ASSUME NEW l \in u.lines PROVE l.id \in Stored' /\ l.id.coll = c
        BY <1>4, <3>1, <3>4, <3>6, <4>1
      <4>2. ASSUME NEW i \in Stored', Selects(u, i, store'[i].schema)
            PROVE  Line(i, store'[i].val) \in u.lines
        <5>1. CASE i = id
          BY <1>3, <3>6, <5>1
        <5>2. CASE i # id
          <6>1. Line(i, store[i].val) \in v.lines /\ store'[i] = store[i]
            BY <3>1, <3>2, <3>3, <4>2, <5>2
          <6> QED BY <3>4, <3>6, <5>2, <6>1
        <5> QED BY <5>1, <5>2
      <4> QED BY <2>5, <3>1, <4>1, <4>2
    <3> QED BY <2>5, <2>8, <3>5, <3>6
  <2>9. Whole(view[e], doc[e])'
    BY <2>2, <2>4, <2>8 DEF Whole
  <2> QED BY <2>7, <2>9
<1> QED BY <1>5 DEF TableInv

\* A step of a client that is saving, when no other is importing.
LEMMA OthersImport ==
  ASSUME DocsType, ImportInv, NEW d \in Docs, pc[d] # "idle", pc'[d] # "import",
         \A e \in Docs \ {d} : pc'[e] = pc[e]
  PROVE  ImportInv'
BY DEF ImportInv

LEMMA SavedImport ==
  ASSUME DocsType, ImportInv, NEW d \in Docs, Saved(d)
  PROVE  ImportInv'
<1>1. pc[d] # "idle" /\ pc' = [pc EXCEPT ![d] = "idle"]
  BY DEF Saved, Saves
<1>2. pc'[d] # "import" /\ \A e \in Docs \ {d} : pc'[e] = pc[e]
  BY <1>1 DEF DocsType
<1> QED BY <1>1, <1>2, OthersImport
(***************************************************************************)
(* Steps of a saving client that save nothing                              *)
(***************************************************************************)
\* A creation that throws, one that an update turns into, and an update of a record
\* that has gone.
Turns(d, x, next) ==
  /\ UNCHANGED <<store, listed, view, known>> /\ pc[d] # "idle"
  /\ doc' = [doc EXCEPT ![d] = x] /\ pc' = [pc EXCEPT ![d] = next]
  /\ x.coll = doc[d].coll /\ x.made = doc[d].made /\ x.label = doc[d].label /\ x.linked = doc[d].linked
  /\ x.id = doc[d].id /\ x.val = doc[d].val
  /\ next = "idle" => x.failed \/ (x.failed = doc[d].failed /\ pc[d] \in {"save", "match"})

Turned(d) == \E x \in Objects, next \in {"idle", "create"} : Turns(d, x, next)

LEMMA CreateThrowsTurns ==
  ASSUME DocsType, NEW d \in Docs, CreateThrows(d)
  PROVE  Turned(d)
<1>1. PICK x : x = [doc[d] EXCEPT !.failed = TRUE]
  OBVIOUS
<1>2. /\ x \in Objects /\ x.coll = doc[d].coll /\ x.made = doc[d].made /\ x.label = doc[d].label /\ x.linked = doc[d].linked
      /\ x.id = doc[d].id /\ x.val = doc[d].val /\ x.failed
  BY <1>1, Unaltered DEF Objects
<1>3. doc' = [doc EXCEPT ![d] = x]
  BY <1>1 DEF CreateThrows
<1>4. Turns(d, x, "idle")
  BY <1>2, <1>3 DEF Turns, CreateThrows, Goto
<1> QED BY <1>2, <1>4 DEF Turned

LEMMA SaveCreateTurns ==
  ASSUME DocsType, NEW d \in Docs, SaveCreate(d)
  PROVE  Turned(d)
<1>1. doc' = [doc EXCEPT ![d] = doc[d]] /\ doc[d] \in Objects
  BY Unaltered DEF SaveCreate, DocsType
<1>2. Turns(d, doc[d], "create")
  BY <1>1 DEF Turns, SaveCreate, Goto
<1> QED BY <1>1, <1>2 DEF Turned

LEMMA SaveUpdateTurns ==
  ASSUME DocsType, NEW d \in Docs, SaveUpdate(d), doc[d].id \notin Stored
  PROVE  Turned(d)
<1>1. doc' = [doc EXCEPT ![d] = doc[d]] /\ doc[d] \in Objects
  BY Unaltered DEF SaveUpdate, DocsType
<1>2. Turns(d, doc[d], "idle")
  BY <1>1 DEF Turns, SaveUpdate, Goto
<1> QED BY <1>1, <1>2 DEF Turned

LEMMA TurnedIs ==
  ASSUME DocsType, NEW d \in Docs, Turned(d)
  PROVE  \E x \in Objects, next \in {"idle", "create"} :
           /\ Turns(d, x, next) /\ doc'[d] = x /\ pc'[d] = next
           /\ \A e \in Docs \ {d} : doc'[e] = doc[e] /\ pc'[e] = pc[e]
<1>1. PICK x \in Objects, next \in {"idle", "create"} : Turns(d, x, next)
  BY DEF Turned
<1> QED BY <1>1 DEF Turns, DocsType

LEMMA TurnedType ==
  ASSUME DocsType, NEW d \in Docs, Turned(d)
  PROVE  DocsType'
<1>1. PICK x \in Objects, next \in {"idle", "create"} :
        /\ Turns(d, x, next) /\ doc'[d] = x /\ pc'[d] = next
        /\ \A e \in Docs \ {d} : doc'[e] = doc[e] /\ pc'[e] = pc[e]
  BY TurnedIs
<1>2. /\ doc' \in [Docs -> Objects]
      /\ pc' \in [Docs -> {"idle", "create", "import", "save", "match"}]
  BY <1>1 DEF Turns, DocsType
<1>3. \A e \in Docs : pc'[e] # "idle" => doc'[e].id \in Ids \cup {Empty, Undef} /\ doc'[e].val \in Vals
  BY <1>1 DEF Turns, DocsType
<1> QED BY <1>1, <1>2, <1>3 DEF Turns, DocsType

LEMMA TurnedHome ==
  ASSUME DocsType, HomeInv, NEW d \in Docs, Turned(d)
  PROVE  HomeInv'
<1>1. \A e \in Docs : doc'[e].made = doc[e].made /\ doc'[e].linked = doc[e].linked /\ doc'[e].coll = doc[e].coll
  BY TurnedIs DEF Turns
<1>2. store' = store
  BY DEF Turned, Turns
<1> QED BY <1>1, <1>2 DEF HomeInv, RecordsAtHome, AtHome, Settled, Stored

LEMMA TurnedKnown ==
  ASSUME DocsType, KnownInv, NEW d \in Docs, Turned(d)
  PROVE  KnownInv'
<1>1. PICK x \in Objects, next \in {"idle", "create"} :
        /\ Turns(d, x, next) /\ doc'[d] = x /\ pc'[d] = next
        /\ \A e \in Docs \ {d} : doc'[e] = doc[e] /\ pc'[e] = pc[e]
  BY TurnedIs
<1>2. known' = known
  BY <1>1 DEF Turns
<1>3. IdKnown(d)'
  BY <1>1, <1>2 DEF KnownInv, IdKnown, Turns
<1>4. \A e \in Docs \ {d} : IdKnown(e)'
  BY <1>1, <1>2 DEF KnownInv, IdKnown
<1> QED BY <1>3, <1>4 DEF KnownInv

LEMMA TurnedTable ==
  ASSUME DocsType, TableInv, NEW d \in Docs, Turned(d)
  PROVE  TableInv'
<1>1. \A e \in Docs : doc'[e].coll = doc[e].coll /\ doc'[e].label = doc[e].label
  BY TurnedIs DEF Turns
<1>2. store' = store /\ view' = view
  BY DEF Turned, Turns
<1> QED BY <1>1, <1>2, SameTable DEF TableInv

LEMMA TurnedImport ==
  ASSUME DocsType, ImportInv, NEW d \in Docs, Turned(d)
  PROVE  ImportInv'
<1>1. pc[d] # "idle" /\ pc'[d] # "import" /\ \A e \in Docs \ {d} : pc'[e] = pc[e]
  BY TurnedIs DEF Turns
<1> QED BY <1>1, OthersImport

(***************************************************************************)
(* deleteDocument                                                          *)
(***************************************************************************)
Deletes(d, id) ==
  /\ id \in Stored /\ id.coll = doc[d].coll
  /\ store' = [store EXCEPT ![id] = NoRecord] /\ listed' = listed \ {id}
  /\ UNCHANGED <<doc, pc, known>>
  /\ view' \in [Docs -> Views]
  /\ \A e \in Docs :
       /\ view'[e].on = view[e].on /\ view'[e].coll = view[e].coll /\ view'[e].label = view[e].label
       /\ view'[e].pending = view[e].pending
       /\ view'[e].whole => view[e].whole /\ view'[e].lines = {l \in view[e].lines : l.id # id}

LEMMA DeleteIs ==
  ASSUME DocsType, NEW d \in Docs, deleteDocument(d)
  PROVE  \E id \in Ids : Deletes(d, id)
<1>1. PICK id \in listed \cap Stored :
        /\ id.coll = doc[d].coll
        /\ store' = [store EXCEPT ![id] = NoRecord] /\ listed' = listed \ {id}
        /\ view' = [e \in Docs |->
                      IF Told(e, id.coll) THEN [view[e] EXCEPT !.lines = {l \in @ : l.id # id}]
                      ELSE [view[e] EXCEPT !.whole = @ /\ \A l \in view[e].lines : l.id # id]]
  BY DEF deleteDocument
<1>2. ASSUME NEW e \in Docs
      PROVE  /\ view'[e] \in Views
             /\ view'[e].on = view[e].on /\ view'[e].coll = view[e].coll /\ view'[e].label = view[e].label
             /\ view'[e].pending = view[e].pending
             /\ view'[e].whole => view[e].whole /\ view'[e].lines = {l \in view[e].lines : l.id # id}
  <2>1. view[e] \in Views
    BY Unaltered
  <2>2. CASE Told(e, id.coll)
    <3>1. PICK lines : lines = {l \in view[e].lines : l.id # id}
      OBVIOUS
    <3>2. lines \in SUBSET Lines
      BY <2>1, <3>1 DEF Views
    <3>3. view'[e] = [view[e] EXCEPT !.lines = lines]
      BY <1>1, <2>2, <3>1
    <3> QED BY <2>1, <2>2, <3>1, <3>2, <3>3 DEF Views
  <2>3. CASE ~Told(e, id.coll)
    <3>1. PICK w \in BOOLEAN : w = (view[e].whole /\ \A l \in view[e].lines : l.id # id)
      OBVIOUS
    <3>5. w => view[e].whole
      BY <3>1
    <3>2. PICK u : u = [view[e] EXCEPT !.whole = w]
      OBVIOUS
    <3>3. view'[e] = u
      BY <1>1, <2>3, <3>1, <3>2
    <3>4. Keeps(u, view[e]) /\ u.lines = view[e].lines /\ u.whole = w
      BY <2>1, <3>2, <3>5, StillWhole
    <3> QED BY <3>1, <3>3, <3>4 DEF Keeps
  <2> QED BY <2>2, <2>3
<1>3. view' \in [Docs -> Views]
  <2>1. view' = [e \in Docs |-> view'[e]]
    BY <1>1
  <2> QED BY <1>2, <2>1
<1>4. Deletes(d, id)
  BY <1>1, <1>2, <1>3 DEF Deletes, deleteDocument
<1> QED BY <1>1, <1>4 DEF DocsType

LEMMA DeletedIs ==
  ASSUME DocsType, NEW d \in Docs, NEW id \in Ids, Deletes(d, id)
  PROVE  /\ Stored' = Stored \ {id}
         /\ \A i \in Stored' : store'[i] = store[i]
<1>1. store'[id] = NoRecord /\ \A i \in Ids \ {id} : store'[i] = store[i]
  BY DEF Deletes, DocsType
<1> QED BY <1>1 DEF Stored

LEMMA DeleteType ==
  ASSUME DocsType, NEW d \in Docs, deleteDocument(d)
  PROVE  DocsType'
<1>1. PICK id \in Ids : Deletes(d, id)
  BY DeleteIs
<1>2. store' \in [Ids -> Records \cup {NoRecord}] /\ listed' \subseteq Ids
  BY <1>1 DEF Deletes, DocsType
<1> QED BY <1>1, <1>2 DEF Deletes, DocsType

LEMMA DeleteHome ==
  ASSUME DocsType, HomeInv, NEW d \in Docs, deleteDocument(d)
  PROVE  HomeInv'
<1>1. PICK id \in Ids : Deletes(d, id)
  BY DeleteIs
<1>2. Stored' \subseteq Stored /\ \A i \in Stored' : store'[i] = store[i]
  BY <1>1, DeletedIs
<1>3. doc' = doc
  BY <1>1 DEF Deletes
<1> QED BY <1>2, <1>3 DEF HomeInv, RecordsAtHome, AtHome, Settled

LEMMA DeleteKnown ==
  ASSUME KnownInv, NEW d \in Docs, deleteDocument(d)
  PROVE  KnownInv'
BY DEF KnownInv, IdKnown, deleteDocument

LEMMA DeleteTable ==
  ASSUME DocsType, TableInv, NEW d \in Docs, deleteDocument(d)
  PROVE  TableInv'
<1>1. PICK id \in Ids : Deletes(d, id)
  BY DeleteIs
<1>2. Stored' = Stored \ {id} /\ \A i \in Stored' : store'[i] = store[i]
  BY <1>1, DeletedIs
<1>3. ASSUME NEW e \in Docs PROVE Asks(view[e])' /\ Whole(view[e], doc[e])'
  <2>1. PICK v : v = view[e]
    OBVIOUS
  <2>2. PICK u : u = view'[e]
    OBVIOUS
  <2>3. /\ u.on = v.on /\ u.coll = v.coll /\ u.label = v.label /\ u.pending = v.pending
        /\ u.whole => v.whole /\ u.lines = {l \in v.lines : l.id # id}
        /\ doc' = doc
    BY <1>1, <2>1, <2>2 DEF Deletes
  <2>4. Asks(v) /\ Whole(v, doc[e])
    BY <2>1 DEF TableInv
  <2>5. Asks(view[e])'
    BY <2>2, <2>3, <2>4 DEF Asks
  <2>6. ASSUME u.whole
        PROVE  /\ u.on /\ u.coll = doc[e].coll /\ u.label = doc[e].label
               /\ \A l \in u.lines : l.id \in Stored' /\ l.id.coll = doc[e].coll
               /\ \A i \in Stored' : Selects(u, i, store'[i].schema)
                                     => Line(i, store'[i].val) \in u.lines
    <3>1. /\ v.on /\ v.coll = doc[e].coll /\ v.label = doc[e].label
          /\ \A l \in v.lines : l.id \in Stored /\ l.id.coll = doc[e].coll
          /\ \A i \in Stored : Selects(v, i, store[i].schema) => Line(i, store[i].val) \in v.lines
      BY <2>3, <2>4, <2>6 DEF Whole
    <3>2. u.lines = {l \in v.lines : l.id # id}
      BY <2>3, <2>6
    <3>3. ASSUME NEW i \in Stored', Selects(u, i, store'[i].schema)
          PROVE  Line(i, store'[i].val) \in u.lines
      <4>1. Line(i, store[i].val) \in v.lines /\ i # id /\ store'[i] = store[i]
        BY <1>2, <2>3, <3>1, <3>3 DEF Selects
      <4> QED BY <3>2, <4>1 DEF Line
    <3> QED BY <1>2, <2>3, <3>1, <3>2, <3>3
  <2>7. Whole(view[e], doc[e])'
    BY <2>2, <2>3, <2>6 DEF Whole
  <2> QED BY <2>5, <2>7
<1> QED BY <1>3 DEF TableInv

LEMMA DeleteImport ==
  ASSUME Fresh, ImportInv, NEW d \in Docs, deleteDocument(d)
  PROVE  ImportInv'
BY DEF ImportInv, deleteDocument, Idle
(***************************************************************************)
(* The specification                                                       *)
(***************************************************************************)
LEMMA StartIs ==
  ASSUME NEW d \in Docs, NEW x \in Start(d)
  PROVE  x \in Objects /\ Settled(d, x) /\ x.id \in {Empty, Absent}
<1>1. Empty \in AnyIds /\ Absent \in AnyIds
  BY DEF AnyIds
<1>2. CASE Kind[d] = "json"
  <2>1. x = [schema |-> "json", made |-> "json", label |-> "", type |-> "json", coll |-> JsonColl,
             mode |-> FALSE, id |-> Absent, val |-> NoRecord, failed |-> FALSE, linked |-> TRUE]
    BY <1>2 DEF Start
  <2> QED BY <1>1, <1>2, <2>1 DEF Objects, SchemaNames, Labels, Collections, Settled
<1>3. CASE Kind[d] # "json"
  <2>1. PICK s \in Schemas :
          /\ Accepts(d, s)
          /\ x = [schema |-> s, made |-> s, label |-> s, type |-> Kind[d], coll |-> s,
                  mode |-> FALSE, id |-> Empty, val |-> NoRecord, failed |-> FALSE, linked |-> TRUE]
    BY <1>3 DEF Start
  <2>2. s \in Collections
    BY <2>1, AcceptedIs
  <2>3. Kind[d] \in {"json", "vertex", "edge"}
    BY DocumentsAssumption
  <2> QED BY <1>1, <1>3, <2>1, <2>2, <2>3 DEF Objects, SchemaNames, Labels, Settled
<1> QED BY <1>2, <1>3

LEMMA InitDoc ==
  ASSUME Init
  PROVE  /\ doc \in [Docs -> Objects]
         /\ \A d \in Docs : Settled(d, doc[d]) /\ doc[d].id \in {Empty, Absent}
<1>1. doc \in [Docs -> UNION {Start(d) : d \in Docs}] /\ \A d \in Docs : doc[d] \in Start(d)
  BY DEF Init
<1>2. \A d \in Docs : doc[d] \in Objects
  BY <1>1, StartIs
<1> QED BY <1>1, <1>2, StartIs

LEMMA FirstViews ==
  ASSUME NEW d \in Docs, NEW v, v \in {NoQuery, Query(doc[d])}
  PROVE  ~v.whole /\ Asks(v)
<1>1. CASE v = NoQuery
  <2>1. ~v.whole /\ ~v.pending
    BY <1>1 DEF NoQuery
  <2> QED BY <2>1 DEF Asks
<1>2. CASE v = Query(doc[d])
  <2>1. ~v.whole /\ v.on
    BY <1>2 DEF Query
  <2> QED BY <2>1 DEF Asks
<1> QED BY <1>1, <1>2

LEMMA InitView ==
  ASSUME Init
  PROVE  /\ view \in [Docs -> Views]
         /\ \A d \in Docs : ~view[d].whole /\ Asks(view[d])
<1>1. view \in [Docs -> {NoQuery} \cup {Query(doc[d]) : d \in Docs}]
  BY DEF Init
<1>2. \A d \in Docs : view[d] \in {NoQuery, Query(doc[d])}
  BY DEF Init
<1>3. NoQuery \in Views
  BY DEF NoQuery, Views, Labels
<1>4. \A d \in Docs : view[d] \in Views
  BY <1>2, <1>3, InitDoc, QueryIs
<1>5. \A d \in Docs : ~view[d].whole /\ Asks(view[d])
  BY <1>2, InitDoc, FirstViews
<1> QED BY <1>1, <1>2, <1>4, <1>5

LEMMA InitStore ==
  ASSUME Init
  PROVE  /\ store \in [Ids -> Records \cup {NoRecord}] /\ listed \subseteq Ids
         /\ RecordsAtHome
<1>1. PICK ids \in SUBSET FirstRecords :
        /\ store = [id \in Ids |-> IF id \in ids
                                   THEN [schema |-> id.coll, val |-> CHOOSE v \in Vals : Template[v] = id.head, linked |-> TRUE]
                                   ELSE NoRecord]
        /\ listed \in SUBSET ids
  BY DEF Init
<1>2. /\ FirstRecords \subseteq Ids /\ \A id \in FirstRecords : id.head \in Heads
      /\ \A id \in FirstRecords : id.coll \in Schemas => CollOf(id.coll) = id.coll
  BY DocumentsAssumption
<1>3. ASSUME NEW id \in Ids
      PROVE  \/ store[id] = NoRecord
             \/ /\ store[id] \in Records /\ store[id].schema = id.coll
                /\ id.coll \in Schemas => CollOf(id.coll) = id.coll
  <2>1. CASE id \in ids
    <3>1. id.head \in Heads /\ (id.coll \in Schemas => CollOf(id.coll) = id.coll)
      BY <1>2, <2>1
    <3>2. \E v \in Vals : Template[v] = id.head
      BY <3>1 DEF Heads
    <3>3. (CHOOSE v \in Vals : Template[v] = id.head) \in Vals
      BY <3>2
    <3>4. PICK w \in Vals : w = CHOOSE v \in Vals : Template[v] = id.head
      BY <3>3
    <3>5. store[id] = [schema |-> id.coll, val |-> w, linked |-> TRUE]
      BY <1>1, <2>1, <3>4
    <3>6. id.coll \in Collections
      BY IdFacts
    <3> QED BY <3>1, <3>5, <3>6 DEF Records
  <2>2. CASE id \notin ids
    BY <1>1, <2>2
  <2> QED BY <2>1, <2>2
<1>4. RecordsAtHome
  BY <1>3 DEF RecordsAtHome, AtHome, Stored
<1>5. store = [id \in Ids |-> store[id]] /\ listed \subseteq Ids
  BY <1>1, <1>2
<1> QED BY <1>3, <1>4, <1>5

LEMMA InitInvs ==
  ASSUME Init
  PROVE  DocsType /\ HomeInv /\ KnownInv /\ TableInv /\ ImportInv
<1>1. \A d \in Docs : pc[d] = "idle" /\ known[d] = {}
  BY DEF Init
<1>2. DocsType
  <2>1. pc \in [Docs -> {"idle", "create", "import", "save", "match"}] /\ known \in [Docs -> SUBSET AnyIds]
    BY DEF Init
  <2> QED BY <1>1, <2>1, InitDoc, InitView, InitStore DEF DocsType
<1>3. HomeInv
  BY InitDoc, InitStore DEF HomeInv
<1>4. KnownInv
  BY <1>1, InitDoc DEF KnownInv, IdKnown
<1>5. TableInv
  BY InitView DEF TableInv, Whole
<1>6. ImportInv
  BY <1>1 DEF ImportInv
<1> QED BY <1>2, <1>3, <1>4, <1>5, <1>6

LEMMA StepIs ==
  ASSUME DocsType, Next
  PROVE  \E d \in Docs : Readied(d) \/ update_query(d) \/ Begins(d) \/ Saved(d) \/ Turned(d)
                           \/ deleteDocument(d)
<1>1. PICK d \in Docs : Prepare(d) \/ Save(d)
  BY DEF Next
<1>2. CASE Prepare(d)
  BY <1>2, PrepareReadies
<1>3. CASE createDocument(d) \/ updateDocument(d) \/ createWithTestValues(d) \/ updateWithTestValues(d)
  BY <1>3, CreateDocumentBegins, UpdateDocumentBegins, CreateWithTestValuesBegins,
     UpdateWithTestValuesBegins
<1>4. CASE CreateRecord(d) \/ CreateThrows(d) \/ SaveCreate(d)
  BY <1>4, CreateRecordSaves, CreateThrowsTurns, SaveCreateTurns
<1>5. CASE SaveUpdate(d)
  BY <1>5, SaveUpdateSaves, SaveUpdateTurns
<1>6. CASE deleteDocument(d)
  BY <1>6
<1> QED BY <1>1, <1>2, <1>3, <1>4, <1>5, <1>6 DEF Save

LEMMA TypeStep ==
  ASSUME DocsType, [Next]_vars
  PROVE  DocsType'
<1>1. CASE UNCHANGED vars
  BY <1>1 DEF vars, DocsType
<1>2. CASE Next
  BY <1>2, StepIs, ReadiedType, UpdateQueryType, BeginsType, SavedType, TurnedType, DeleteType
<1> QED BY <1>1, <1>2

LEMMA HomeStep ==
  ASSUME Typed, DocsType, HomeInv, [Next]_vars
  PROVE  HomeInv'
<1>1. CASE UNCHANGED vars
  BY <1>1 DEF vars, HomeInv, RecordsAtHome, AtHome, Settled, Stored
<1>2. CASE Next
  BY <1>2, StepIs, ReadiedHome, UpdateQueryHome, BeginsHome, SavedHome, TurnedHome, DeleteHome
<1> QED BY <1>1, <1>2

LEMMA KnownStep ==
  ASSUME Careful, DocsType, KnownInv, [Next]_vars
  PROVE  KnownInv'
<1>1. CASE UNCHANGED vars
  BY <1>1 DEF vars, KnownInv, IdKnown
<1>2. CASE Next
  BY <1>2, StepIs, ReadiedKnown, UpdateQueryKnown, BeginsKnown, SavedKnown, TurnedKnown, DeleteKnown
<1> QED BY <1>1, <1>2

LEMMA TableStep ==
  ASSUME DocsType, TableInv, [Next]_vars
  PROVE  TableInv'
<1>1. CASE UNCHANGED vars
  BY <1>1, SameTable DEF vars, TableInv
<1>2. CASE Next
  BY <1>2, StepIs, ReadiedTable, UpdateQueryTable, BeginsTable, SavedTable, TurnedTable, DeleteTable
<1> QED BY <1>1, <1>2

LEMMA ImportStep ==
  ASSUME Fresh, DocsType, ImportInv, [Next]_vars
  PROVE  ImportInv'
<1>1. CASE UNCHANGED vars
  BY <1>1 DEF vars, ImportInv, Matches
<1>2. CASE Next
  BY <1>2, StepIs, ReadiedImport, UpdateQueryImport, BeginsImport, SavedImport, TurnedImport,
     DeleteImport
<1> QED BY <1>1, <1>2
(***************************************************************************)
(* Theorems                                                                *)
(***************************************************************************)
\* Every stored record that a document linked to its collection has saved lies in the
\* collection of its own schema, whatever calls fail, the opening of a collection
\* included, if the clients name schemas of the document's type only: resetSchema throws
\* for another type when it has replaced the object and not yet the collection.
THEOREM RecordsStayHome ==
  ASSUME Typed
  PROVE  Spec => []RecordsAtHome
<1>1. Init => DocsType /\ HomeInv
  BY InitInvs
<1>2. DocsType /\ HomeInv /\ [Next]_vars => (DocsType /\ HomeInv)'
  BY TypeStep, HomeStep
<1>3. DocsType /\ HomeInv => RecordsAtHome
  BY DEF HomeInv
<1> QED BY <1>1, <1>2, <1>3, PTL DEF Spec

\* What the table of an import has to say about the records there are.
LEMMA ImportIsNew ==
  ASSUME TableInv, ImportInv, NEW d \in Docs, pc[d] = "import",
         NEW id \in Stored, id.coll = doc[d].coll, doc[d].label \in {"", store[id].schema}
  PROVE  Shown[store[id].val] # Shown[doc[d].val]
<1>1. PICK v : v = view[d]
  OBVIOUS
<1>2. v.whole /\ Matches(d) = {} /\ Whole(v, doc[d])
  BY <1>1 DEF TableInv, ImportInv
<1>3. v.coll = doc[d].coll /\ v.label = doc[d].label
  BY <1>2 DEF Whole
<1>5. Line(id, store[id].val) \in v.lines
  BY <1>2, <1>3 DEF Whole, Selects
<1>6. \A l \in v.lines : l.values # Shown[doc[d].val]
  BY <1>1, <1>2 DEF Matches
<1>7. Line(id, store[id].val).values = Shown[store[id].val]
  BY DEF Line
<1> QED BY <1>5, <1>6, <1>7

\* Records are made and overwritten only by clients that are saving, or deleted.
LEMMA StoreStep ==
  ASSUME DocsType, [Next]_vars, store' # store
  PROVE  \E d \in Docs : Saved(d) \/ deleteDocument(d)
<1>1. Next
  BY DEF vars
<1> QED BY <1>1, StepIs DEF Readied, update_query, Begins, Turned, Turns

\* An import with test_values creates a record only if no record its query selects has
\* the same values, by the discipline Comparable, whatever schemas the clients name and
\* whatever calls fail.
THEOREM ImportsAreNew ==
  ASSUME Fresh
  PROVE  Spec => ImportsNew
<1> DEFINE Inv == DocsType /\ TableInv /\ ImportInv
           New == \A d \in Docs : pc[d] = "import" /\ store' # store =>
                    \A id \in Stored : id.coll = doc[d].coll /\ doc[d].label \in {"", store[id].schema}
                                       => Shown[store[id].val] # Shown[doc[d].val]
<1>1. Init => Inv
  BY InitInvs
<1>2. Inv /\ [Next]_vars => Inv'
  BY TypeStep, TableStep, ImportStep
<1>3. Inv /\ [Next]_vars => [New]_vars
  BY ImportIsNew
<1> QED BY <1>1, <1>2, <1>3, PTL DEF Spec, ImportsNew

\* A record is only overwritten by a client that knows its id, if the clients set the
\* object anew when a creation has thrown and update with a key.
THEOREM OnlyOwnOverwritten ==
  ASSUME Careful
  PROVE  Spec => OnlyItsRecords
<1> DEFINE Inv == DocsType /\ KnownInv
           Own == \A id \in Stored :
                    store'[id] \in {store[id], NoRecord}
                      \/ \E d \in Docs : pc[d] \in {"save", "match"} /\ pc'[d] = "idle" /\ id = doc[d].id /\ id \in known[d]
<1>1. Init => Inv
  BY InitInvs
<1>2. Inv /\ [Next]_vars => Inv'
  BY TypeStep, KnownStep
<1>3. Inv /\ [Next]_vars => [Own]_vars
  <2> SUFFICES ASSUME Inv, [Next]_vars, NEW id \in Stored,
                      store'[id] \notin {store[id], NoRecord}
               PROVE  \E d \in Docs : /\ pc[d] \in {"save", "match"} /\ pc'[d] = "idle"
                                      /\ id = doc[d].id /\ id \in known[d]
    OBVIOUS
  <2>1. PICK d \in Docs : Saved(d) \/ deleteDocument(d)
    BY StoreStep
  <2>2. ~deleteDocument(d)
    <3> SUFFICES ASSUME deleteDocument(d) PROVE FALSE
      OBVIOUS
    <3>1. PICK i \in Ids : store' = [store EXCEPT ![i] = NoRecord]
      BY DeleteIs DEF Deletes
    <3> QED BY <3>1 DEF DocsType, Stored
  <2>3. PICK i \in Ids, r \in Records, x \in Objects, ids \in SUBSET Ids : Saves(d, i, r, x, ids)
    BY <2>1, <2>2 DEF Saved
  <2>4. i = id
    BY <2>3 DEF Saves, DocsType, Stored
  <2>5. pc[d] \in {"save", "match"} /\ id = doc[d].id /\ pc' = [pc EXCEPT ![d] = "idle"]
    BY <2>3, <2>4 DEF Saves
  <2>6. pc'[d] = "idle"
    BY <2>5 DEF DocsType
  <2>7. id \in known[d]
    BY <2>5 DEF KnownInv, IdKnown
  <2> QED BY <2>5, <2>6, <2>7
<1> QED BY <1>1, <1>2, <1>3, PTL DEF Spec, OnlyItsRecords
=============================================================================
