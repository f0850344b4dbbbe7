----------------------------- MODULE Documents -----------------------------
(***************************************************************************)
(* The document objects clients save records through: DBJsonDocument,      *)
(* DBSchemaDocument, DBVertexDocument and DBEdgeDocument on DBDocumentBase *)
(* (include/jsonio/db*doc.h, dbdocument.h and their sources), with the key *)
(* generation of DBCollection.                                             *)
(*                                                                         *)
(* A document has one object it reads into and saves from; of a graph      *)
(* document it follows a schema, which decides the label, the collection   *)
(* and the key template, and which setVertexObject, recFromJson, a read or *)
(* a direct resetSchema may replace.  A record saved without an id gets    *)
(* one from the template; one imported with test_values is first looked    *)
(* for in the table of the document's query.                               *)
(*                                                                         *)
(* Collections are loaded (module Collection) but other programs may have  *)
(* added records since.  The notifications of an update are one action     *)
(* with it (module QueryView splits them), edges of a deleted vertex are   *)
(* left to module VertexDocument.  A schema with a type has a label and a  *)
(* collection of its own: they are named like it.  The opening of one that *)
(* no document is on may throw; the document is then linked to none.       *)
(***************************************************************************)
EXTENDS Naturals, FiniteSets, FiniteSetsExt

CONSTANTS
  Docs, Kind,       \* the documents, and of each "json", "vertex" or "edge"
  JsonColl,         \* collection of the json documents
  Schemas, TypeOf,  \* default of the schema's _type; "none" without one, "unknown" if there is no schema
  Vals,             \* contents of the objects
  Shown,            \* their values in the fields a query collects
  Template,         \* their key template, for the schemas in Templated
  Templated,
  Longer,           \* templates that start with a template
  MaxSuffix,        \* bound on the generated numbers
  NoRecord,
  FirstRecords,     \* ids of the records there may be at first
  Typed,            \* clients name schemas of the document's type only
  Keyed,            \* json data always has an _id, empty if it is new
  Careful,          \* clients set the object anew when a creation has thrown, and
                    \* call updateDocument with a key
  Fresh,            \* clients import with test_values by the discipline Comparable
  MaxCalls          \* bound on the clients' calls

VARIABLES
  store,   \* the records on the server
  listed,  \* the key lists of all collections
  doc,     \* schema_name, the object and the rest of each document
  view,    \* its query and table
  pc,      \* what its client does next
  known,   \* history: ids the client was given with data, read, matched or created
  calls

vars == <<store, listed, doc, view, pc, known, calls>>

------------------------------------------------------------------------------
(* Ids: a collection and a key, which is a template with or without a number *)
(* behind it, one the server has made up, or "undef".                        *)

Heads == {Template[v] : v \in Vals}
CollOf(s) == IF TypeOf[s] \in {"vertex", "edge"} THEN s ELSE "collection"
Collections == {CollOf(s) : s \in Schemas} \cup {JsonColl}
Ids == [coll : Collections, head : Heads \cup {"auto"}, n : 0 .. MaxSuffix]
         \cup [coll : Collections, head : {"undef"}, n : {0}]

Empty  == [coll |-> "", head |-> "", n |-> 0]       \* the _id is ""
Absent == [coll |-> "", head |-> "absent", n |-> 0] \* there is no _id
Undef  == [coll |-> "", head |-> "undef", n |-> 0]

\* Collections have names, keys of the records there are at first are templates,
\* and what the collection of a schema has then is of that schema.
ASSUME DocumentsAssumption ==
  /\ Kind \in [Docs -> {"json", "vertex", "edge"}]
  /\ TypeOf \in [Schemas -> {"vertex", "edge", "none", "unknown"}]
  /\ "json" \notin Schemas /\ "" \notin Collections /\ MaxSuffix \in Nat
  /\ FirstRecords \subseteq Ids /\ \A id \in FirstRecords : id.head \in Heads
  /\ \A id \in FirstRecords : id.coll \in Schemas => CollOf(id.coll) = id.coll
  /\ NoRecord \notin [schema : Schemas \cup Collections \cup {"json"}, val : Vals, linked : BOOLEAN]

Stored == {id \in Ids : store[id] # NoRecord}

\* getKeyFrom: an object without an _id has the key "undef".
Key(x) == IF x.id = Absent THEN Undef ELSE x.id

\* existsDocument, in the collection of the document.
Exists(x, id) == id \in listed /\ id.coll = x.coll

\* key_from_template: the template itself if no listed key starts with it, else
\* the template and the first free number.
key_from_template(c, h) ==
  LET ids == {id \in listed : id.coll = c /\ id.head \in Longer[h]}
  IN [coll |-> c, head |-> h,
      n |-> IF ids = {} THEN 0 ELSE Min({n \in 1 .. MaxSuffix + 1 : [coll |-> c, head |-> h, n |-> n] \notin ids})]

\* genOid.  setOid has cleared _key before, so the template is always made of
\* the fields the schema names.
genOid(x) == IF x.schema \in Templated THEN key_from_template(x.coll, Template[x.val]) ELSE Empty

\* setOid and before_save_update.
WithKey(x, key) == [x EXCEPT !.id = IF key = Empty THEN genOid(x) ELSE key]

------------------------------------------------------------------------------
(* Schemas *)

Accepts(d, s) == TypeOf[s] = Kind[d]

\* collection(): one that a document is on is in the list of the opened ones; the
\* opening of another may throw.
Moves(d, s) == Accepts(d, s) /\ CollOf(s) # doc[d].coll
Opens(d, s) == IF Moves(d, s) /\ \A e \in Docs : doc[e].coll # CollOf(s) THEN BOOLEAN ELSE {TRUE}

\* The object, the label and the type that a schema makes.
Made(d, s) == [doc[d] EXCEPT !.schema = s, !.made = s, !.label = s, !.type = TypeOf[s],
                             !.id = Empty, !.val = NoRecord]

\* Mutation of Replaced: the document stays in its collection.
ReplacedOnly(d, s, opens) ==
  CASE TypeOf[s] = "unknown" -> [doc[d] EXCEPT !.schema = s]
    [] TypeOf[s] = "none"    -> [Made(d, s) EXCEPT !.label = ""]
    [] OTHER                 -> Made(d, s)

\* resetSchema: the name, the object, the label and the type are replaced one by
\* one; a schema that does not exist throws after the first, one of another type
\* after the last.  Only then the document moves to the schema's collection: it is
\* unlinked from its own, the other is opened, which may throw, and it is linked there.
Replaced(d, s, opens) ==
  CASE TypeOf[s] = "unknown"    -> [doc[d] EXCEPT !.schema = s]
    [] TypeOf[s] = "none"       -> [Made(d, s) EXCEPT !.label = ""]
    [] Moves(d, s) /\ opens     -> [Made(d, s) EXCEPT !.coll = CollOf(s), !.linked = TRUE]
    [] Moves(d, s) /\ ~opens    -> [Made(d, s) EXCEPT !.linked = FALSE]
    [] OTHER                    -> Made(d, s)

Resets(d, s, change) == doc[d].schema # s \/ change
ResetTo(d, s, change, opens) == IF Resets(d, s, change) THEN Replaced(d, s, opens) ELSE doc[d]
Passes(d, s, change, opens) == Resets(d, s, change) => Accepts(d, s) /\ opens

\* setQuery with the default template: the query selects the records of the
\* document's label in its collection, of a json document all of them.
\* update_query runs later, in a thread of its own.
Query(x) == [on |-> TRUE, coll |-> x.coll, label |-> x.label, lines |-> {}, pending |-> TRUE, whole |-> FALSE]

\* The table stays as it is when the document becomes x, even if that has moved.
Left(d, x) == [view[d] EXCEPT !.whole = @ /\ x.coll = doc[d].coll /\ x.label = doc[d].label]

\* What becomes of the table: change_queries asks for a new one.
Requeried(d, s, change, opens) ==
  LET x == ResetTo(d, s, change, opens)
  IN IF change /\ view[d].on /\ Passes(d, s, change, opens) THEN Query(x) ELSE Left(d, x)

\* Schemas the client of d names.
MayName(d) == {s \in Schemas : Typed => Accepts(d, s)}

------------------------------------------------------------------------------
(* The clients' calls.  A call that throws at once changes nothing and is no *)
(* step.                                                                     *)

Idle(d) ==
  /\ pc[d] = "idle" /\ calls > 0 /\ calls' = calls - 1
  /\ Fresh => \A e \in Docs \ {d} : pc[e] \notin {"import", "match"}

Goto(d, next) == pc' = [pc EXCEPT ![d] = next]
Knows(d, ids) == known' = [known EXCEPT ![d] = @ \cup ids]
Object(x, id, v) == [x EXCEPT !.id = id, !.val = v, !.failed = FALSE]

resetSchema(d) ==
  /\ Idle(d) /\ Kind[d] # "json"
  /\ \E s \in MayName(d), change \in BOOLEAN : \E opens \in Opens(d, s) :
       /\ Resets(d, s, change)
       /\ doc'  = [doc EXCEPT ![d] = ResetTo(d, s, change, opens)]
       /\ view' = [view EXCEPT ![d] = Requeried(d, s, change, opens)]
  /\ UNCHANGED <<store, listed, pc, known>>

setMode(d) ==
  /\ Idle(d) /\ Kind[d] # "json"
  /\ doc' = [doc EXCEPT ![d].mode = ~@]
  /\ UNCHANGED <<store, listed, view, pc, known>>

\* setVertexObject, setEdgeObject: clear() leaves the _id empty.
setObject(d) ==
  /\ Idle(d) /\ Kind[d] # "json"
  /\ \E s \in MayName(d), v \in Vals : \E opens \in Opens(d, s) :
       LET y == ResetTo(d, s, FALSE, opens) IN
       /\ s = doc[d].schema \/ doc[d].mode
       /\ doc' = [doc EXCEPT ![d] = IF Passes(d, s, FALSE, opens) THEN Object(y, Empty, v) ELSE y]
       /\ view' = [view EXCEPT ![d] = Left(d, y)]
  /\ UNCHANGED <<store, listed, pc, known>>

\* updateVertexObject
updateObject(d) ==
  /\ Idle(d) /\ doc[d].val # NoRecord
  /\ \E v \in Vals \ {doc[d].val} : doc' = [doc EXCEPT ![d].val = v]
  /\ UNCHANGED <<store, listed, view, pc, known>>

\* Ids in the data clients are given: of one record that is there, or none.
Given(c) == {Empty} \cup {id \in Stored : id.coll = c}

\* recFromJson of a json document
setJson(d) ==
  /\ Idle(d) /\ Kind[d] = "json"
  /\ \E id \in Given(doc[d].coll) \cup (IF Keyed THEN {} ELSE {Absent}), v \in Vals :
       /\ doc' = [doc EXCEPT ![d] = Object(@, id, v)]
       /\ Knows(d, {id})
  /\ UNCHANGED <<store, listed, view, pc>>

\* recFromJson: test_schema, by the _type and _label in the data, and setJson.
\* With test_values it renews the query, even of the same schema.
recFromJson(d) ==
  /\ Idle(d) /\ Kind[d] # "json"
  /\ \E s \in MayName(d), v \in Vals, test \in BOOLEAN :
     \E id \in Given(s), opens \in Opens(d, s) :
       /\ TypeOf[s] \in {"vertex", "edge"}
       /\ doc[d].mode \/ (TypeOf[s] = doc[d].type /\ s = doc[d].label)
       /\ LET y == IF doc[d].mode THEN ResetTo(d, s, test, opens) ELSE doc[d] IN
          IF doc[d].mode /\ ~Passes(d, s, test, opens)
          THEN doc' = [doc EXCEPT ![d] = y] /\ UNCHANGED known
          ELSE doc' = [doc EXCEPT ![d] = Object(y, id, v)] /\ Knows(d, {id})
       /\ view' = IF doc[d].mode THEN [view EXCEPT ![d] = Requeried(d, s, test, opens)] ELSE view
  /\ UNCHANGED <<store, listed, pc>>

\* The id names a schema of the document's kind.
Names(d, id) == id.coll \in Schemas /\ Accepts(d, id.coll)

\* before_load changes to the schema the id names, whatever the mode; the read
\* itself throws if the key is not listed or the record has gone.
readDocument(d) ==
  /\ Idle(d)
  /\ \E id \in Ids : \E opens \in IF Names(d, id) THEN Opens(d, id.coll) ELSE {TRUE} :
       LET y == IF Names(d, id) THEN ResetTo(d, id.coll, FALSE, opens) ELSE doc[d] IN
       /\ IF (Names(d, id) => Passes(d, id.coll, FALSE, opens)) /\ Exists(y, id) /\ id \in Stored
          THEN doc' = [doc EXCEPT ![d] = Object(y, id, store[id].val)] /\ Knows(d, {id})
          ELSE y # doc[d] /\ doc' = [doc EXCEPT ![d] = y] /\ UNCHANGED known
       /\ view' = [view EXCEPT ![d] = Left(d, y)]
  /\ UNCHANGED <<store, listed, pc>>

setQuery(d) ==
  /\ Idle(d)
  /\ view' = [view EXCEPT ![d] = Query(doc[d])]
  /\ UNCHANGED <<store, listed, doc, pc, known>>

Line(id, v) == [id |-> id, values |-> Shown[v]]

\* The query of the table v selects the record id of the schema s.
Selects(v, id, s) == id.coll = v.coll /\ v.label \in {"", s}

\* update_query, in its thread.  Several pending ones are taken as one.
update_query(d) ==
  /\ view[d].pending
  /\ LET selected == {id \in Stored : Selects(view[d], id, store[id].schema)} IN
     view' = [view EXCEPT ![d].lines = {Line(id, store[id].val) : id \in selected},
                          ![d].pending = FALSE,
                          ![d].whole = view[d].coll = doc[d].coll /\ view[d].label = doc[d].label]
  /\ UNCHANGED <<store, listed, doc, pc, known, calls>>

------------------------------------------------------------------------------
(* Saving *)

HasObject(d) == doc[d].val # NoRecord /\ (Careful => ~doc[d].failed)

\* The discipline of imports with test_values: the table is rebuilt and, since
\* then, the document has kept its label and collection and no other document has
\* created a record that its query selects, saved one of another label so that it
\* selects it now, or changed one while the document was not linked; and no other
\* client is saving meanwhile.
Comparable(d) == /\ view[d].whole /\ ~view[d].pending /\ view[d].coll = doc[d].coll
                 /\ \A e \in Docs \ {d} : pc[e] = "idle"

\* getKeyFromValue
Matches(d) == {line.id : line \in {l \in view[d].lines : l.values = Shown[doc[d].val]}}

\* setOid and before_save_update, within the bound MaxSuffix.
Prepared(d, key) ==
  /\ WithKey(doc[d], key).id \in Ids \cup {Empty, Undef}
  /\ doc' = [doc EXCEPT ![d] = WithKey(@, key)]

\* createDocument(key) up to DBCollection::createDocument
StartCreate(d, key, next) ==
  /\ Prepared(d, key)
  /\ Goto(d, next) /\ UNCHANGED known

StartUpdate(d, key, next) ==
  /\ Prepared(d, key)
  /\ Goto(d, next) /\ Knows(d, {key} \ {Empty})

createDocument(d) ==
  /\ Idle(d) /\ HasObject(d)
  /\ StartCreate(d, Empty, "create")
  /\ UNCHANGED <<store, listed, view>>

updateDocument(d) ==
  /\ Idle(d) /\ HasObject(d)
  /\ \E key \in {id \in known[d] : id \in Ids} \cup (IF Careful THEN {} ELSE {Empty}) : StartUpdate(d, key, "save")
  /\ UNCHANGED <<store, listed, view>>

\* Mutation of WithTestValues: a record that is not found is saved, not created.
WithTestValuesSaved(d, test) ==
  IF Key(doc[d]) = Empty /\ test
  THEN /\ view[d].on /\ (Fresh => Comparable(d))
       /\ IF Matches(d) # {} THEN \E id \in Matches(d) : StartUpdate(d, id, "match")
                             ELSE StartCreate(d, Empty, "import")
  ELSE StartCreate(d, Key(doc[d]), "save")

\* createWithTestValues; without a query getKeyFromValue throws.
WithTestValues(d, test) ==
  IF Key(doc[d]) = Empty /\ test
  THEN /\ view[d].on /\ (Fresh => Comparable(d))
       /\ IF Matches(d) # {} THEN \E id \in Matches(d) : StartUpdate(d, id, "match")
                             ELSE StartCreate(d, Empty, "import")
  ELSE StartCreate(d, Key(doc[d]), "create")

createWithTestValues(d) ==
  /\ Idle(d) /\ HasObject(d)
  /\ \E test \in BOOLEAN : WithTestValues(d, test)
  /\ UNCHANGED <<store, listed, view>>

updateWithTestValues(d) ==
  /\ Idle(d) /\ HasObject(d)
  /\ IF Exists(doc[d], Key(doc[d]))
     THEN StartCreate(d, Key(doc[d]), "save")
     ELSE \E test \in BOOLEAN : WithTestValues(d, test)
  /\ UNCHANGED <<store, listed, view>>

\* The id the server stores the object under: it takes the key of the _id, or
\* makes one up.
Target(x) ==
  IF x.id # Empty THEN [x.id EXCEPT !.coll = x.coll]
  ELSE [coll |-> x.coll, head |-> "auto",
        n |-> Min({n \in 0 .. MaxSuffix : [coll |-> x.coll, head |-> "auto", n |-> n] \notin Stored} \cup {MaxSuffix})]

\* The object as it is stored, and history: whether its document was linked.
Record(x) == [schema |-> x.made, val |-> x.val, linked |-> x.linked]

\* add_line inserts a line, or overwrites it if isupdate.
AddLine(v, line, isupdate) ==
  IF ~v.on THEN v
  ELSE IF ~isupdate /\ \E l \in v.lines : l.id = line.id THEN v
  ELSE [v EXCEPT !.lines = {l \in @ : l.id # line.id} \cup {line}]

\* Mutation of Created: the record does not get into the table.
CreatedUnseen(d, id) == view

\* The tables after a creation: it is told to the document's own only.
Created(d, id) ==
  [e \in Docs |-> IF e = d THEN AddLine(view[d], Line(id, doc[d].val), FALSE)
                  ELSE [view[e] EXCEPT !.whole = @ /\ ~Selects(view[e], id, doc[d].made)]]

\* DBCollection::createDocument: a key that is listed throws, and so does one the
\* server refuses because it has it.  The object gets the id that was stored.
CreateRecord(d) ==
  /\ pc[d] \in {"create", "import"} /\ ~Exists(doc[d], doc[d].id)
  /\ LET id == Target(doc[d]) IN
       /\ id \notin Stored
       /\ store' = [store EXCEPT ![id] = Record(doc[d])]
       /\ listed' = listed \cup {id}
       /\ doc' = [doc EXCEPT ![d].id = id]
       /\ view' = Created(d, id)
       /\ Knows(d, {id})
  /\ Goto(d, "idle") /\ UNCHANGED calls

\* The object of a creation that threw keeps the id made for it.
CreateThrows(d) ==
  /\ pc[d] \in {"create", "import"}
  /\ Exists(doc[d], doc[d].id) \/ Target(doc[d]) \in Stored
  /\ doc' = [doc EXCEPT ![d].failed = TRUE]
  /\ Goto(d, "idle")
  /\ UNCHANGED <<store, listed, view, known, calls>>

\* saveDocument: a key that is not listed is created,
SaveCreate(d) ==
  /\ pc[d] \in {"save", "match"} /\ ~Exists(doc[d], doc[d].id)
  /\ Goto(d, "create")
  /\ UNCHANGED <<store, listed, doc, view, known, calls>>

\* update_line in the tables of the documents linked to the collection, add_line in
\* its own.
Told(e, c) == doc[e].linked /\ doc[e].coll = c

Updated(d, id) ==
  [e \in Docs |->
     LET there == \E l \in view[e].lines : l.id = id
         v == IF Told(e, doc[d].coll) /\ there
              THEN AddLine(view[e], Line(id, doc[d].val), TRUE) ELSE view[e]
     IN IF e = d THEN AddLine(v, Line(id, doc[d].val), TRUE)
        ELSE [v EXCEPT !.whole = @ /\ (Selects(view[e], id, doc[d].made) => there /\ doc[e].linked)]]

\* ... one that is listed is updated.  The server throws if it has no such record.
SaveUpdate(d) ==
  /\ pc[d] \in {"save", "match"} /\ Exists(doc[d], doc[d].id)
  /\ LET id == doc[d].id IN
     IF id \in Stored
     THEN /\ store' = [store EXCEPT ![id] = Record(doc[d])]
          /\ view' = Updated(d, id)
     ELSE UNCHANGED <<store, view>>
  /\ Goto(d, "idle")
  /\ UNCHANGED <<listed, doc, known, calls>>

deleteDocument(d) ==
  /\ Idle(d)
  /\ \E id \in listed \cap Stored :
       /\ id.coll = doc[d].coll
       /\ store' = [store EXCEPT ![id] = NoRecord]
       /\ listed' = listed \ {id}
       /\ view' = [e \in Docs |->
                     IF Told(e, id.coll) THEN [view[e] EXCEPT !.lines = {l \in @ : l.id # id}]
                     ELSE [view[e] EXCEPT !.whole = @ /\ \A l \in view[e].lines : l.id # id]]
  /\ UNCHANGED <<doc, pc, known>>

------------------------------------------------------------------------------
(* Specification.  A document starts with a schema of its kind.  Some of the *)
(* records have been stored since the lists were loaded.                     *)
Start(d) ==
  IF Kind[d] = "json"
  THEN {[schema |-> "json", made |-> "json", label |-> "", type |-> "json", coll |-> JsonColl,
         mode |-> FALSE, id |-> Absent, val |-> NoRecord, failed |-> FALSE, linked |-> TRUE]}
  ELSE {[schema |-> s, made |-> s, label |-> s, type |-> Kind[d], coll |-> s,
         mode |-> FALSE, id |-> Empty, val |-> NoRecord, failed |-> FALSE, linked |-> TRUE] : s \in {r \in Schemas : Accepts(d, r)}}

NoQuery == [on |-> FALSE, coll |-> "", label |-> "", lines |-> {}, pending |-> FALSE, whole |-> FALSE]

Init ==
  /\ \E ids \in SUBSET FirstRecords :
       /\ store = [id \in Ids |-> IF id \in ids THEN [schema |-> id.coll, val |-> CHOOSE v \in Vals : Template[v] = id.head, linked |-> TRUE]
                                                ELSE NoRecord]
       /\ listed \in SUBSET ids
  /\ doc \in {f \in [Docs -> UNION {Start(d) : d \in Docs}] : \A d \in Docs : f[d] \in Start(d)}
  /\ view \in [Docs -> {NoQuery} \cup {Query(doc[d]) : d \in Docs}]
  /\ \A d \in Docs : view[d] \in {NoQuery, Query(doc[d])}
  /\ pc = [d \in Docs |-> "idle"]
  /\ known = [d \in Docs |-> {}]
  /\ calls = MaxCalls

Prepare(d) == \/ resetSchema(d) \/ setMode(d) \/ setObject(d) \/ updateObject(d) \/ setJson(d)
              \/ recFromJson(d) \/ readDocument(d) \/ setQuery(d) \/ update_query(d)

Save(d) == \/ createDocument(d) \/ updateDocument(d) \/ createWithTestValues(d) \/ updateWithTestValues(d)
           \/ CreateRecord(d) \/ CreateThrows(d) \/ SaveCreate(d) \/ SaveUpdate(d) \/ deleteDocument(d)

Next == \E d \in Docs : Prepare(d) \/ Save(d)

Spec == Init /\ [][Next]_vars

------------------------------------------------------------------------------
(* Properties *)

AtHome(id) == store[id].schema \in Schemas => id.coll = CollOf(store[id].schema)

\* Every stored record lies in the collection of its own schema, however the
\* documents it was saved through were switched between schemas and whatever calls
\* failed in between, but for one saved through a document that was left unlinked,
\* when the collection of a schema could not be opened, and has moved nowhere since.
RecordsAtHome == \A id \in Stored : store[id].linked => AtHome(id)

\* What dbconnect.h says of the collections of schemas: a schema's records are in
\* the collection that it names.  (They are not when one could not be opened.)
RecordsInTheirCollections == \A id \in Stored : AtHome(id)

\* A record is only overwritten by a client that was given its id with data, read
\* it, found it in its table or created it: never by one that generated the same
\* id for a record of its own.
OnlyItsRecords ==
  [][\A id \in Stored :
       store'[id] \in {store[id], NoRecord}
         \/ \E d \in Docs : pc[d] \in {"save", "match"} /\ pc'[d] = "idle" /\ id = doc[d].id /\ id \in known[d]]_vars

\* "If all the values are the same, then we update the selected record instead of
\* creating new ones": an import creates a record only if none of the collection
\* has the same values.
ImportsNew ==
  [][\A d \in Docs : pc[d] = "import" /\ store' # store =>
       \A id \in Stored : id.coll = doc[d].coll /\ doc[d].label \in {"", store[id].schema} => Shown[store[id].val] # Shown[doc[d].val]]_vars

\* "\return new key of document (generate from template if key undefined)": no
\* record is created under the key "undef".
NoUndefKeys == \A id \in Stored : id.head # "undef"
=============================================================================
