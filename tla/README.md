# JSONIO: a TLA+ verification project

JSONIO is a C++ library for JSON documents, with and without a schema, and for
keeping them in an ArangoDB server. This project specifies the documents themselves,
the text they are read from and written to, the files and settings around them, and the
part where threads, a remote server and object lifetimes meet. TLC checks the
specification, and TLAPS proves the invariants and action properties of eight of its modules. Paths below are relative to the
repository, `dbcollection.cpp:112` stands for `src/dbcollection.cpp`, line 112.

## 1. The system

| Component | State | Operations | Talks to |
|---|---|---|---|
| `DataBase` (dbconnect) | `current_driver`, `collections_list`, two `shared_mutex`es | `collection`, `add_collection`, `updateDriver` | constructs, reloads and owns collections |
| `DBCollection` (dbcollection) | `key_record_map` under `keysmap_mutex`, `documents_list` under `documents_mutex` | `load`, `close`, `reload`, create, read, save, update, delete, `removeByKeys`, `deleteEdges` | the server through the driver; detached loader threads; the documents |
| `DBDocumentBase`, `DBJsonDocument`, `DBSchemaDocument` | current object, `query_result` under `query_result_mutex` | create, update, delete, `setQuery`, `updateQuery`, `resetSchema` | its collection; detached `update_query` threads |
| `DBQueryResult` (dbquerybase) | the table of a query | `add_line`, `update_line`, `delete_line`, `clear` | its document |
| `DBVertexDocument`, `DBEdgeDocument` | schema, label, unique fields | cascading removal, schema switching | collections of several labels |
| `GraphTraversal` (traversal) | visited lists, one vertex and one edge document | `traversal`, `Traversal`, `restoreGraphFromFile` | both documents, the caller's function |
| `ArangoDBClient` (dbdriverarango) | a connection | server calls | the server (external) |
| `JsonFree`, `JsonBase`, builders | a tree of nodes with a parent link, an index and a key each | append, update, remove, resize, copy, move, paths | `JsonParser`, the dump |
| `JsonSchema` | such a tree, with the field definition, level and structure of each node | the same, by the definition | the schemas |
| `JsonParser`, the dump | the text and a position | parse, print | the builders |
| `SchemasData`, `ThriftSchema` | structures and their fields | read, clear | settings, `DataBase`'s lists of types |
| `JsonArrayFile`, `JsonFile`, `TxtFile` (txt2file) | an open file and its array | open, load, save, close | the JSON tree |
| `JsonioSettings` (io_settings) | the settings, their file, directories, loggers | start, set, read schemas | files, schemas, `DataBase` |
| service, type tests, exceptions, `SharedPool` | none | | |

What is hard about it:

* **Detached threads.** `load()` starts a thread that nobody joins
  (`dbcollection.cpp:257`), and so does `updateQuery()` (`dbdocument.cpp:48`). The
  code sleeps one microsecond "to wait start thread"; nothing waits for the end.
* **A cache beside a remote store.** The key list is a copy of what the server
  stores, and every operation trusts it. Calls can be refused and replies lost.
* **Locks that are let go between a test and what follows from it**
  (`saveDocument`, `collection`, `removeByKeys`).
* **Several copies of a record**: the server, the key list, the tables of every
  open document, told one after another.
* **Objects reached through plain pointers** by threads, and shared by the frames of
  a recursion.
* **Redundant links in a tree.** A node has a key, an index in its parent and a pointer to it,
  which every append, removal, resize, copy and move has to keep in step, by hand.
* **Operations that throw half-way**: a parser that builds into the caller's document,
  `resetSchema`, resizes by several dimensions, settings that are changed before they are saved.
* **Generated keys and tests against a table** that may be stale by the time they are used.

The properties that make the parts correct are those of section 3. `PROJECT.json`
lists each hazard with its line and the properties that would catch it.

## 2. The modules

`Collection`, with the abstract `KeyIndex`, is the core. `QueryView` and `DataBase`
are its two neighbours: `QueryView` takes the key list as `KeyIndex` promises it and
keeps the contents, `DataBase` abstracts a key list to the databases its keys come
from. `VertexDocument` composes several collections, each as `KeyIndex` promises it, into
a graph, and implements the abstract `PropertyGraph`. `Traversal` reads a graph that does
not change. `Documents` looks at the same calls from the side of the document object: its
schema, its key, its table, with the calls of a collection as single actions.

`JsonNodes` has what can be done to nodes, as operators from one tree to the next; it is
the common part of `JsonTree` (what a program does to documents), `JsonText` (the parser and
the dump) and `JsonSchema`. `TextFile` is the common part of `ArrayFile` and `Settings`.

The MC modules give constants their values. Two of them put two independent parts beside
each other, `MCJson` (`JsonTree`, `JsonText`) and `MCStorage` (`ArrayFile`, `Settings`): a
variable `part` says which one a behaviour is about, and the other one stands still.

### Collection, KeyIndex (dbcollection.h, dbcollection.cpp)

Variables: `server` (documents stored), `keymap` (`key_record_map`), `lock`
(exclusive owner of `keysmap_mutex`), `pc` and `arg` of each client thread, `loader`
and `snap` of each loader thread (its state; the records its query returned and it
has yet to add). `keyFields()` is `{"_id"}`, so a key is an id and the map a set.

A section under the shared lock is one action guarded by `lock = Free`. A section
under the exclusive lock that calls the server is split after the call, because
`removeByKeys` and `deleteEdges` reach the server with no lock:

| Code | Actions |
|---|---|
| `createDocument` | `CreateDocument` (the test under the shared lock), `CreateRecord` or `CreateThrows`, `InsertKey` |
| `saveDocument` | `SaveDocument`, then `SaveCreate` and the creation, or `SaveUpdate` |
| `deleteDocument` | `DeleteDocument` and `EraseKey`, or `DeleteThrows` |
| `removeByKeys` | `RemoveByKeys`, `RemoveRecords` or `RemoveThrows`, then the reload |
| `deleteEdges` | `DeleteEdges`, then the reload, or `DeleteEdgesThrows`: some edges are gone and nothing is reloaded |
| `load`, `reload` | `Load`, `CloseCollection`, `LoadCollection` or `LoadThrows` |
| `loadCollectionFile`, `add_record_to_map` | `LoadQuery`, `LoadRecord`, `LoadEnd` |

`KeyIndex` is the promise: a key list is empty, or it lists exactly what is stored.
The refinement maps `docs` to the stored documents less those whose creation has not
listed its key yet, and `known` to the list, or to nothing while a loader that has
records to add is half way.

`doubtful` is a history variable: ids removed by a call that reported failure.

### QueryView (dbdocument, dbjsondoc, dbschemadoc, dbquerybase; the notifications in dbcollection)

Variables: `store` (records and their contents), `open` (`documents_list`), `query` and
`table` of each document, `pending` (detached rebuilds not run yet), `pc`, `key`, `val`,
`todo`, `isupdate` of the client that works with the document, and `starting`, the document whose
`query_result` its reload has tested and will use. `wrote`, `untold` (what a failing call kept from a table)
and `crashed` are history variables. `update_query` holds `query_result_mutex` from its `clear` to its
last line, so a rebuild is one action, placed where it reads the server;
the loop over `documents_list` is one action a document.

| Code | Actions |
|---|---|
| create, update, delete | `CreateDocument`, `UpdateDocument`, `DeleteDocument` (the server's part), `NotifyBegin`, `Notify`, `OwnLine`; `ChangeLost` when the reply is lost and no table is told |
| `removeByKeys` | `RemoveByKeys`, or `RemoveThrows` with a part of the records gone, and no reload |
| `reload` | `Reload`, then for each document `TestQuery` and `StartRebuild` (`query_result` is tested, its mutex let go, and then used), `ReloadEnd`; `ReloadThrows` before the loop or inside it |
| `updateQuery`, `setQuery`, `update_query` | `UpdateQuery`, `SetQuery`, `UpdateQueryThread` |
| `resetSchema`, destruction, construction | `ResetSchema`, `Close`, `Open` |

### Traversal (traversal.h, traversal.cpp)

`stack` holds the frames of `parseVertex` and `parseEdge`, `edge_doc` the edge last read
into the document all frames share, `vertex_list` and `edge_list` what has been visited,
`told` how often the caller's function was called for each element. The graph and the
kind of walk are chosen in `Init` and do not change.

### DataBase (dbconnect.h, dbconnect.cpp)

`driver`, `listed` (`collections_list`), `readers` (threads that share `collections_mutex`
across steps), the objects (`live`, `keys`, `lock`, `using`, `loading`) and the clients
(`held`, `pc`, `name`, `obj`, `todo`). `using` is the driver of the server call made under
an object's exclusive lock; it is asked for once the lock is taken, as `db_driver()` is.

### VertexDocument, PropertyGraph (dbvertexdoc, dbedgedoc)

`vertices` and `ends` are what the server stores: the vertices, and for each edge the set of
its `_from` and `_to` (`{}` when there is no such edge). `opened` are the collections `DataBase` has, `loads` counts the
loaders of each that have not ended, `listed` is the union of the key
lists. A removal in progress has `doc` (the collection of the document it was called on),
`target`, `edgekeys` (what the query found and is still to be deleted) and `idedge`; a bulk removal has `rkeys`. `kept` is a
history variable: edges whose deletion in a removal the server answered with `false`.

| Code | Actions |
|---|---|
| `DBVertexDocument::deleteDocument` | `DeleteDocument`, `BeforeRemove` (`documentAllEdges` and the query), for each edge `NextEdge` (`resetSchema` opens its collection) and `DeleteEdge`, `DeleteEdgeKept` (`delete_record` returned `false`, which is ignored) or `DeleteEdgeThrows`, then `DeleteVertex` or `DeleteVertexThrows`; `CascadeThrows` when the query or an opening throws |
| `DBEdgeDocument::deleteDocument` | `DeleteEdgeDocument` |
| `createVertex`, `createEdge` | `CreateVertex`, `CreateEdge` |
| `removeByKeys` | `RemoveByKeys` (`ids_from_keys`), `RemoveRecords` or `RemoveThrows` with no lock held, `ReloadRemoved` |
| constructors, `load`, `reload` | `NewDocument`, `LoadEnd`, `Reload` |

Creations and deletions may lose their replies: the record has changed and the list has not. Opening a collection and
asking its key list are two steps, since its loader runs between
them or not; a loader may list a part only. The query sees the edges of every label, because `before_remove` passes no
list of collections. `PropertyGraph` is the promise: an edge is created between vertices
there are, and a vertex goes when no edge is connected to it. The refinement maps its `ends` to `Shown`, in which a kept edge
counts as cut.

### JsonNodes, JsonTree (jsonbase, jsonfree, jsondetail, jsonbuilder)

`node` is the heap: a function from the nodes there are to records of their type, key, value
(a text), index, parent and children. Every operator takes a heap `h` and returns the next
one; those whose code also returns a node or a result return a record with `h` in it. So a
call that is a sequence of others in the code (`set_list_from`, `add_object_via_path`,
`array_resize_xD`) is their composition, with the exception in the place where it is thrown,
and one action of `JsonTree`. Nodes that hang below a dropped child are taken from the heap.
The addresses are the natural numbers: a new node gets the least that is free, as an allocator that uses freed memory again,
so that a link to a node that is gone would soon be one to another node. `nullptr` is no number (`NoNodeAssumption`). Loops of the code
(`addScalar` for each value, the elements of `array_resize`, the names of a path, the way up of `get_path`) are recursive
functions, with which the proofs of section 5 can deal; a deep copy gives each node below the source a twin (`Twins`).

The values are types and texts; `Infer` is what the builder makes of a text without
quotes (`append_scalar`, `is<>`, `string2v`). `Room` keeps a call within `MaxNodes`, the bound on the nodes there are at a time.
The text of a path is the keys `get_path` joins with `.`; `field` goes by the names `split()` makes of it. `Split` is that
conversion, and `Cuts` has the keys it cuts: one with a `.`, `/`, `[`, `]` or `"` in it gives several names, an empty key none. (The run has the key `a.b`.)

Assignments leave out a source that hangs below its target: `copy` drops the
children of the target before it reads the source, and would read what it has freed. A copy into a node below the source is modelled as it is
(the copies made so far are copied with it). What else a program can do is in `Slips`: make a document of a field by move, which keeps the parent of the
field, or move a node into one below it, which makes a cycle.

### JsonText (jsonparser, jsonbuilder, jsondump, the dump of jsonbase)

The parser as a pushdown machine: `stack` holds the containers being parsed, `keyn` the key of
the value to come, `pc` the place in `parse_object`, `parse_array` and `parse_value`, `text`
the tokens consumed. The text is not given: the next token, `look`, is chosen when the parser looks at it, so
all texts up to the bound are covered by prefixes. A string is a sequence of bytes and is undumped,
inferred and dumped byte by byte, escapes and surrogates included. Blanks and comments are tokens: they are skipped where the code skips them,
and stay in an unquoted value that is the whole text, which the code takes untrimmed (jsonparser.cpp:247). A text of nothing but a comment without a new line ends in
`CommentOnly`: the position is `npos`, and what is read there is no part of the text.

`RoundTrip` does not compare with the tree but with a meaning: `Meaning` reads a sequence of
tokens by the rules of JSON, without the parser. `Allowed` does the same for exceptions.

### JsonSchema (jsonschema, schema, schema_thrift)

`Structs` are the definitions as `schema_thrift.cpp` reads them from `Thrift`: a field has a list of types,
one or two for each level of lists and maps, and the name of the innermost structure. A node has `fld`, `level`
(`level_type`) and `sd` (`struct_descrip`). `append_node` inserts a field at the place of the definition,
`set_children` makes what is required, `remove_child` clears a required field, or removes it when the level of its
parent is not 0. `field` takes a path of digits for ids, as the code does (jsonschema.cpp:301-314), and anything else for names. Every call of the interface is an action, those that end in an exception
with what they have done until then; `MoveConstruct` moves documents and fields. `Slips` has what a program does besides: it removes
required fields from elements, moves fields away, and assigns or changes what the tests of the code let pass although the definitions differ.

### TextFile, ArrayFile, Settings (txt2file, io_settings, dbconnect)

A file is absent, cut or whole. Saving truncates it and then writes; only the opening is tested, so
the outcomes are saved, refused (an exception), or cut (no exception). `ArrayFile` has the objects of one path; `given`,
`got`, `found` and `kept` are history variables: what was accepted, returned, found and saved.

`Settings` has the settings in memory (`all`) and in their file (`config`), and what is taken from them
(`dirs`, `structs`, `lists`, `log`). One call is one action, and any saving in it may be refused: `set_module_level` saves
twice and `StartRefused` is a start that ends at one of its savings, with the loggers that were made by then left in spdlog. `Register` is a logger the program
gives to spdlog itself; `Found` is one that `get_logger` takes as it is, with its level. `behind` is a history variable: the loggers and
directories that did not follow the settings. `Stop` is the end of the program, with or without warning, as the destructor
saves nothing.

### Documents (dbdocument, dbjsondoc, dbschemadoc, dbvertexdoc, dbedgedoc, dbcollection)

`doc` has of each document what its members say: `schema` (`schema_name`), `made` (the schema its object was made
with), `label`, `type`, `coll` (`collection_from`), `mode`, and the object's `id` and `val`. `view` is its
query and table, `store` and `listed` the server and the key lists. `resetSchema` replaces these one by one and
may throw in between (`Replaced`): at the schema, at its type, or at last when the collection of the schema cannot be opened (`Opens`), with the schema, object and label replaced
and the document on the list of no collection (`linked` is `FALSE`, and so it is of the records saved through it). A saving call is split where it lets the key list go: the id is generated and
put into the object (`StartCreate`, `StartUpdate`), then `DBCollection` tests and stores
(`CreateRecord`, `CreateThrows`, `SaveCreate`, `SaveUpdate`).

An id is a collection and a key: a template with or without a number, one made up by the server, or `undef`.
`Longer` says which templates start with which, because `key_from_template` takes a prefix. `known` is a history variable:
the ids a client was given with data, read, found or created.

## 3. What is checked

### Discipline constants

The code leaves some orders to its users. Each is a constant: `TRUE` restricts the
clients and `FALSE` lets them do what the interface allows. What
goes wrong without one is listed below, under "Known counterexamples".

| Constant | `TRUE` means |
|---|---|
| `LoadsExclusive` (Collection) | no creation overlaps a load, from the call to the end of its loader |
| `Serial` (QueryView) | clients do not overlap calls on one record |
| `OpensExclusive` (DataBase) | the first opening of a name is not overlapped with another of the same name |
| `SwitchExclusive` (DataBase) | nor with an `updateDriver` |
| `Careful` (VertexDocument) | nobody links an edge to a vertex being removed; `removeByKeys` is kept to vertices without edges |
| `EdgesLinked` (VertexDocument) | (`FALSE`) no edge is used as a vertex |
| `InSession` (ArrayFile) | records are read and saved between `Open` and `Close`, in the right mode |
| `Legal` (ArrayFile) | `saveNext` is given JSON |
| `Typed` (Documents) | clients name schemas of the document's type |
| `Keyed` (Documents) | JSON data has an `_id`, which is empty for a new record |
| `Careful` (Documents) | clients set the object anew when a creation has thrown, and update with a key |
| `Fresh` (Documents) | imports with `test_values` use a table that is rebuilt, of the document's collection, while no other client saves, and no other document has saved a record that the query selects and the table has not |

`Slips` is a set: what a program does that the code lets it do and that leaves something wrong behind. A run has those under which its properties hold
(Settings: all), and the others are below.

| `Slips` | A program |
|---|---|
| JsonTree: `"moves out"`, `"moves in"` | makes a document of a field by move; moves a node into one below it |
| JsonSchema: `"required"`, `"moves"` | removes required fields of elements of lists and maps; moves fields away |
| JsonSchema: `"misfits"`, `"retypes"`, `"copies"` | assigns a document to a field of another type; assigns a copied field to a document; changes the copy of a list, a map or a scalar |
| Settings: `"home"`, `"bypass"`, `"registered"` | changes the home directory while `~` is in use; sets a value by path; registers a logger with spdlog |

`Faults` (Collection, VertexDocument), `Fails` (QueryView), `ReadsFail` (Traversal) and `ServerFails` (DataBase) say what the server may do,
`FullDisk` and `Refusals` what a file may do.

### Runs that pass

| Run | Bounds | Shows |
|---|---|---|
| `CollectionFaults` | 2 ids, 2 clients, 2 loaders at a time, 3 calls, no discipline, every fault, `deleteEdges` included | `NoGhostKeys`: a listed key has a document, but for a removal under way or one that reported failure. `LockOwned`, `CallsReturn`, `LoadsEnd`: every path, exceptions too, gives the mutex back, and no call and no loader waits for ever |
| `CollectionListed` | 3 ids, 2 clients, 2 loaders, 4 calls, `LoadsExclusive`, no faults | `KeysListed`: a list that nobody is loading is complete. `ImplementsKeyIndex`: the collection implements its promise, with overlapping reloads and bulk removals |
| `QueryView` | 2 documents, 2 records of 2 contents, 2 queries, 4 calls, 2 pending rebuilds a document, `Serial`; every server call may fail before, after or amid its work, reloads and bulk removals half-way | `NoStaleLines`, `OwnWritesShown`: once calls and rebuilds are over, tables show what is stored, but where a failing call told the table nothing (`untold`) |
| `Traversal` | every graph of 3 vertices and 3 edges, every set of roots, reads may fail | `AllVisited` and `NothingElse`: what is visited is exactly what can be reached. `ReportedOnce`, `EdgeAfterEnds`. `WalkEnds`: each step brings the walk nearer to its end; that there is a step to take until then is the deadlock check |
| `DataBase` | 2 names, 2 objects, 2 clients, 2 drivers, 3 calls, `OpensExclusive`, `SwitchExclusive`, every failure | `NoForeignKeys`: no list has keys of a former database. `CallsReturn` |
| `VertexDocument` | 2 vertices in one collection, 2 edges in one each, 2 clients, 3 calls, `Careful`; any call may be refused, lose its reply or be answered with `false` | `NoDangling`: no edge outlives a vertex it links, but one whose deletion the server answered with `false` (`kept`). `ImplementsGraph` |
| `Json` | 5 nodes, 4 calls, names `a` and `a.b`, no `Slips`; or texts of 9 tokens with one comment, blank or unusual string, nesting 1, with a reader that stops anywhere | `ParentsAgree`: links and indices agree with the tree, however it was changed. `PathsResolve`: the path of a node leads to it, unless `split()` cuts a key on the way. `RoundTrip`: a text and its dump mean the same. `ThrowsForReason`: what JSON allows is refused only in the cases `Refused` names |
| `JsonSchema` | 10 nodes, 3 calls on 3 starting documents, a structure with a required field, a structure, a list of structures, a map (keys: numbers and `a.b`) and a default; `Slips` `"required"` and `"moves"` | `FollowsSchema`: after any calls the tree is one of its definition. `IdPathsAgree`: ids and names lead to the same node |
| `Storage` | 2 objects on one path, 2 records, files that refuse, `InSession`, `Legal`; or 4 calls of the settings, any restarts, 4 directories of schemas, savings refused anywhere, all `Slips` | `RecordsKept`: a file has what its last session accepted. `SettingsAgree`: what is in use is what the settings say, but for what `behind` lists |
| `Documents` | a vertex document on 5 schemas and a JSON document, 2 contents, 4 calls, records stored by others, collections that do not open; `Typed`, `Keyed`, `Careful`, `Fresh` | `RecordsAtHome`: a record lies in the collection of its schema, if its document was on the list of its collection. `OnlyItsRecords`, `ImportsNew` |

Why the bounds are enough. Every race of a collection is between two calls and at
most two loaders over one or two ids: one that a call is about and one that is left
out. In `QueryView` a stale line needs one writer, one table of another document and a
rebuild of it; four calls leave one for the query, one for a second change, and one that fails
or drops something. Three vertices and three edges give chains, triangles, stars, loops and
parallel edges, and a walk that leaves a frame of `parseEdge` and comes back to it. Three calls
of `DataBase` are two openings and a switch, or an opening, a creation and a switch. In
`VertexDocument` two edges let a removal fail between them, and three calls are a removal
and, meanwhile, the deletion of one of its edges and a reload, or a removal that left something and two more. In `Json` two levels below the top and four calls
let a subtree be made, moved or copied, and changed on either side; nine tokens reach an object in
an array (the nesting that is allowed) and one deeper, which is refused. In `JsonSchema` three
calls on documents that have a list and a map already make an element, change it and take a neighbour away. In
`Storage` a second session needs two records and a second object; four settings calls are a
refresh, a change and one on either side of a restart. In `Documents` four calls are an
import that fails or switches the schema, and its retry after one by the other document. The proofs of section 5 remove the bounds of
`Collection`, `VertexDocument`, `DataBase`, `QueryView`, `Traversal`, `Storage`, `Documents` and `JsonTree`.

`CHECK_DEADLOCK FALSE` is in every run but those of `Traversal` because the clients stop when their calls are
used up; that nobody is stuck before is what the liveness properties say.

### Fairness

`CollectionFaults` and `DataBase` assume weak fairness of each client's next step and
of each loader: a thread that can run is run by the operating system. No client has to
make another call. A step that waits for a mutex is guarded by it, so weak fairness
promises nothing to a thread whose mutex is taken again and again; the properties hold
because calls are finite, and no claim is made about starvation under
endless calls. `Traversal` needs no fairness: that walks end is stated by a measure that
every step lowers.

### Runs that find a violation

| Run | What the code does |
|---|---|
| `TraversalEdge` | `parseEdge` takes `_to` from `edge_doc` after the walk from `_from` has read other edges into it: a walk from an edge misses the edge's second vertex |
| `DocumentsUndef` | `getKeyFrom` gives an object without an `_id` the key `undef`: `createFromJson` takes it for a key, generates none, and stores the record under it |

`PROJECT.json` quotes the comments these contradict.

### Known counterexamples

A change of the constants of a passing run, or the property added to its configuration where the table says so, gives these. Most
contradict a comment of the code, quoted here. They are no runs of their own, to keep those to the questions that
have an answer in the code.

| Run, change | Property | What happens |
|---|---|---|
| `CollectionListed`, `LoadsExclusive = FALSE` | `KeysListed` | A document created between `load()` and the loader's query is returned by the query too; `add_record_to_map` throws "two records with the same key", the loader gives up, and the records it had not reached stay unlisted ("List all documents keys into collection", dbcollection.h:184) |
| `QueryView`, property added | `RebuildsFindTable` | A detached `update_query` runs, or is started, without its `query_result` or its document: dbdocument.cpp:50 "wait start thread" is a sleep of a microsecond, and `query_result` is used (:45) after the lock under which it was tested (:42) is gone |
| `QueryView`, `Serial = FALSE` | `NoStaleLines` | Two updates reach the tables in the order the server did not have |
| `DataBase`, `SwitchExclusive = FALSE` | `NoForeignKeys` | A collection is loaded before it is listed: an `updateDriver` in between misses it ("any following action in the same shell or connection will use the specified database", dbconnect.h:141-142) |
| `DataBase`, `OpensExclusive = FALSE` | `NoForeignKeys` | `collection()` adds after the shared lock of its lookup is gone (dbconnect.h:168): two clients make an object each for one name, and the one that is not listed keeps the keys of the former database |
| `DataBase`, property added | `LoadersFindObject` | `~DBCollection`, "wait loading finish" (dbcollection.h:34), does not wait for a loader that has not taken the mutex |
| `VertexDocument`, property added, `Faults = {"false"}` | `EdgesGoFirst` | `before_remove`, "Remove all edges connected to vertex." (dbvertexdoc.h:21), calls `deleteDocument(key)`, which drops the `false` of `delete_record` (dbdocument.h:173-178, dbcollection.cpp:200-210): the vertex goes and the edge stays |
| `VertexDocument`, `EdgesLinked = TRUE` | `NoDangling` | `DBEdgeDocument` removes no edges connected to the edge it deletes ("edges can be used as vertices", dbvertexdoc.h:14-15) |
| `VertexDocument`, `Careful = FALSE` | `NoDangling` | An edge is created while a removal of its vertex is under way, or `removeByKeys` takes a vertex with edges |
| `Json`, `Slips = {"moves out"}` | `ParentsAgree` | `JsonFree(JsonFree&&)` of a field keeps `parent_object` and `ndx_in_parent` (jsonfree.cpp:23-28): a variable that no object owns is no top ("Parent object", jsonfree.h:223), and has a pointer to nothing when the former parent is gone |
| `JsonSchema`, property added | `RequiredPresent` | `remove_child` tests the level of the parent: in elements of lists and maps required fields are removed ("not remove requered field ( only clear )", jsonschema.cpp:235) |
| `JsonSchema`, `Slips = {"retypes"}` | `FollowsSchema` | An assignment that throws, "exception if other schema" (jsonschema.h:45, :57), has replaced `struct_descrip` by then (:423-430) |
| `JsonSchema`, `Slips = {"misfits"}` | `FollowsSchema` | "Test if copy or move assignment object possible" (:418) accepts a document for a field of any type (:426) |
| `JsonSchema`, `Slips = {"copies"}` | `FollowsSchema` | `isStruct()`, "true if and only if the JSON type is defined structure Object" (:143), is true of every top (:145), and the copy of a list, map or scalar is a top |
| `Storage`, `InSession`, `Legal = FALSE` or `FullDisk = TRUE` | `RecordsKept` | Records read twice or saved into a closed object are lost; what `saveNext` refuses is saved all the same; a full disk goes unnoticed |
| `Storage`, property added | `ListsOfSchema` | `addSchemaFormat` (io_settings.cpp:99-102), or a file that throws (:104-117), leaves the lists of vertex and edge types as they were ("Map of readed vertex schemas", dbconnect.h:24) |
| `Storage`, property added | `LevelsAgree` | A logger that spdlog has already is taken with its level (:133-137; "for all existing and future loggers", io_settings.h:209) |
| `Storage`, property added | `DirsAgree` | `setHomeDir` (:92-97) leaves the work directory where `~` was ("Would be used to update directory path containing ~", io_settings.h:243-245) |
| `Documents`, property added | `RecordsInTheirCollections` | `update_collection` throws at dbvertexdoc.cpp:276, when schema, object and label are replaced and the document has left its collection's list; `resetSchema` of the same schema then does nothing (:66), and the next record is saved into the old collection ("schema name -> collection name", dbconnect.h:28) |
| `Documents`, `Typed = FALSE` | `RecordsAtHome` | `resetSchema` throws when the object is already that of the other schema and the collection is not: the next record is saved into the wrong one |
| `Documents`, `Careful = FALSE` | `OnlyItsRecords` | The id generated for a creation that threw stays in the object, and a retry by `updateDocument` overwrites the record of whoever has it |
| `Documents`, `Fresh = FALSE` | `ImportsNew` | An import into a table that is not rebuilt, or of another collection, makes a second record of the same values |

## 4. Mutations

Each property of a passing run is violated by a plausible mistake in the code: a lock
not given back, a reload left out, a test dropped. They are the operators whose comment
starts with "Mutation of", next to the definition they stand in for; no specification
uses them.

## 5. What is proved

`CollectionProofs` proves, for all sets of ids, threads and loaders, any number of calls
and the assumptions `Collection` states about its constants:

* `TypeCorrect`: `Spec => []TypeOK`.
* `LockIsOwned`: `Spec => []LockOwned`. `LockOwned` is inductive with `TypeOK`: each
  exclusive section is entered only when the lock is free, so the owner is alone in it.
* `NoGhosts`: `Spec => []NoGhostKeys`, with every fault, in `deleteEdges` too, and no discipline. `NoGhostKeys`
  is not inductive: a loader lists what its query returned, which a bulk removal may since
  have taken from the server. `GhostInv` adds that such a record is being removed by a
  call that will clear the list, and that a creation's id is stored until it is listed.
* `AllListed`: if `LoadsExclusive` and no faults, `Spec => []KeysListed`. `ListedInv` says
  what a pending load owes: a loader in its section has what it has not added in `snap`,
  and where two loads overlap, one that is still to come covers what the other leaves.
* `CollectionImplementsKeyIndex`: under the same assumptions `Spec => ImplementsKeyIndex`,
  from `MapInv` and one lemma per action: every step is a step of `KeyIndex` or leaves
  `docs` and `known` alone.

`VertexDocumentProofs` does the same for the graph documents:

* `TypeCorrect`, with no discipline.
* `NoEdgeDangles`: if `Careful` and not `EdgesLinked`, `NoDangling`, whatever calls are refused, lose their replies or are answered with `false`.
  `NoDangling` is not inductive: when the vertex goes, something must say that
  no edge is left. `GraphInv` has it in `Covered`: from the query on, every edge of the vertex
  is in the removal's hand or was kept by the server, and an edge leaves the hand only when it leaves the store or is kept.
* `DocumentsImplementGraph`: under the same assumptions `Spec => ImplementsGraph`.

`DataBaseProofs`, with no bound on names, objects, clients, drivers and calls:

* `TypeCorrect`, with no discipline: `TypeOK` is inductive with `LockInv`: a thread or loader inside an exclusive section
  has the object's lock and has asked for a driver.
* `OwnKeysOnly`: if `OpensExclusive` and `SwitchExclusive`, `NoForeignKeys`. `ObjectInv` says who may know an object: an opening
  that has not listed its object yet is the only one to have it. The property speaks of the time after the
  switches; `KeysInv` says what is owed during one: an object whose keys, or the driver of whose loader, are those of a former
  database is still to be reloaded; `SwitchInv` that nobody opens a collection meanwhile.

`QueryViewProofs`, for any documents, records, contents and queries:

* `TypeCorrect`, with no discipline.
* `LinesNotStale`: if `Serial`, `NoStaleLines`, with calls, reloads and removals that fail half-way. A line may be old while the call that changed the record has this document
  on its list, while a rebuild of the table is pending or about to start, or when a failing call told the table nothing (`untold`); `LinesInv` says that it is never old otherwise, that no two
  calls are about one record, and that what they tell is what is stored.
* `OwnWritesHaveLines`: if `Serial`, `OwnWritesShown`, from `WroteInv`: a delete that has told a document leaves it no write to show.

`TraversalProofs`, for any graph, roots, directions and failing reads:

* `TypeCorrect` (with `Listed`: what has a frame is listed), and `NothingElseVisited`: every closed set that has the
  roots has what is visited and what the frames have yet to go through (`WithinClosed`).
* `EachReportedOnce`: a vertex is reported when it is visited, an edge when its one frame is gone (`OneFrame`, `ToldInv`).
* `EdgesAfterEnds`: `EndsInv` says which ends of an edge a frame of `parseEdge` has left behind it, and which end is on the
  frame below.
* `EverythingVisited`: `AllVisited`, for walks from vertices, and for walks from edges in one direction. From edges in both it is
  false, which is what `TraversalEdge` shows; `OneWayFromEdges` leaves out this case only. `OweInv` is the
  argument: what a visited element still owes (an edge not yet asked for, an end not yet gone to) is in its frame, so that
  nothing is owed when the stack is empty, although all frames share one `edge_doc`.
* `WalksEnd`: if the graph is finite (`FiniteGraph`), `WalkEnds` (an action property). Every step lowers `Distance`, which is a
  natural number: a first visit costs at most `Visit`, and what it puts on the stack is worth less (`Nearer` is the arithmetic,
  with one lemma for each action). A failing read ends the walk at once, which lowers it too. With the deadlock check of the
  run, which says that there is a step to take until a walk is over, this is termination, and needs no fairness.

`StorageProofs`, for any records, objects, modules, levels and directories:

* `RecordsAreKept`: if `InSession`, `Legal` and not `FullDisk`, `RecordsKept`. `FilesInv` relates each object's array and
  position to its session: open for writing it has what it was given, for reading what it found, the first `ndx`
  records of which it has returned.
* `SettingsAreUsed`: `SettingsAgree`, with no discipline: it is inductive with the types of the settings (`SettingsInv`), because `behind` grows wherever a call
  is refused or goes around the settings, and shrinks only where one brings them into use.

`DocumentsProofs`, for any documents, schemas, contents and templates:

* `RecordsStayHome`: if `Typed`, `RecordsAtHome`. `HomeInv` says where a document's object would go: made with a schema of the
  document's type, whose collection it is in, as long as the document is on the list of a collection. A `resetSchema` that throws where the collection is opened takes it off
  that list, and the property speaks of it no more until it moves again.
* `OnlyOwnOverwritten`: if `Careful`, `OnlyItsRecords` (an action property). `KnownInv`: the id of an object is known to its
  client, unless its creation threw; that of a record that is looked up to be updated always is.
* `ImportsAreNew`: if `Fresh`, `ImportsNew` (an action property). `TableInv` says what a table has as long
  as it is `whole`, `ImportInv` that it stays so, and that no other client saves, until the import is over.

Every call that prepares a document (`Readied`), begins to save (`Begins`), saves (`Saved`) or fails to (`Turned`) is brought to
one of these four forms first, and each invariant is proved once for each form.

`JsonTreeProofs`, for any names, texts, number of calls and size of documents:

* `TreesStayGood`: if `Slips = {}`, which leaves out the move of a field out of its document and of a node into one below it, `SpecTree => []TreeInv`. `TreeInv` is the inductive invariant, in four parts. `Formed`: a heap is a finite function on
  addresses and no child is dangling. `Linked`: children and parents know each other, at the right index. `Grounded`: among any nodes
  there is one whose parent is not among them, which is to say that the way up ends; without it a cycle of nodes could hang
  below itself, "below" would have no end, and dropping a node could take its owner. `Numbered`: the keys of an array.
* `LinksAgree`: if `Slips = {}`, `SpecTree => []ParentsAgree`, which is `Linked`.
* `PathsLeadBack`: if `Slips = {}` and `Written`, `SpecTree => []PathsResolve`: the text of the path of a node, split again, leads to it unless `split()` cuts a key on the way. Field by field `field` goes down where `get_path` went up, because
  the keys of siblings differ: those of an object by the premise of the property, those of an array by `Numbered`.

The operators are treated one by one: that one which takes a good heap gives a good one (`CopyChildrenGood`, `RemoveChildGood`, `MoveGood`,
`AppendNodeGood` ...), and what it leaves alone; an action is then the composition of a few. What they compute recursively is reasoned about without
the induction theorems of the library, which take an operator as a parameter and cannot be used here: `NatSet` is induction for a *set* of numbers, from the
well-foundedness of the naturals, and each recursive function is first shown to exist on every initial interval by it. `BelowIs` then says
what everything else uses: `Below` is the least set that has the node and is closed under children. (It is computed in as many
rounds as there are nodes; that these are enough is the argument that a set which still grows would have more
nodes than there are.) `get_path` goes up in the same number of rounds, and `PathIs` shows that paths are settled by the same count.

`Numbered` and `PathsLeadBack` have the hypothesis `Written`: different numbers are written differently, and no name of the program is written like
a number. The first is a fact about decimal notation, which cannot be derived from the library's definition of `ToString`. The second is a condition on
programs. Field paths add to an array only at its end, by the key that comes next, but
`operator[]` with a name adds an element of that name to an array: `"1"` given to an empty array becomes its first element, and the next one gets the
key `"1"` too; of two elements with one key paths reach the first. The names of the run `Json` satisfy it.

The theorems are about `SpecTree`. The run `Json` checks the same properties of it and, beside it, of the trees the parser
builds (`JsonText`), which are not covered by the proofs.

The strengthened invariants were checked with TLC on small instances before they were proved.
The proofs assume of the constants only what the `ASSUME`s of the modules say: that there are names (`NamesAssumption`), that the
modules whose loggers exist from the start are modules (`SettingsAssumption`), how ids, schemas and collections are named
(`DocumentsAssumption`), and that `nullptr` is no address (`NoNodeAssumption`). The disciplines above are hypotheses of the theorems, as they are constants of the
runs.

An invariant that failed to be inductive changed the model once. `Fresh` let a client import when no other document had
*created* a record its query selects. But a record saved with another label enters a query without a line in
its table, because `DBQueryResult::update_line` changes only lines that are there (dbquerybase.cpp:332); two vertex
documents and a JSON document then import a second copy. `Updated` and `Comparable` now say so.

Only model-checked:

* liveness (`CallsReturn`, `LoadsEnd`), which is out of the prover's reach;
* `RoundTrip` and `ThrowsForReason` of `JsonText`, and `FollowsSchema` and `IdPathsAgree` of `JsonSchema`. Both
  modules define recursion over texts and definitions by `RECURSIVE` operators, which the prover cannot use. They are not
  recursive functions because they recur over the nesting of a text or of a definition, with heaps and results handed through, which has no
  bound one could name beforehand.

## 6. Not modelled, and what comes next

Left out of the modules above: which characters of a key are replaced, queries beyond the set
of contents they select, logging, indentation, the data race of readers
that keep a reference into a table (`currentQueryResult`), the lifetime of a former driver
(`theDriver` returns a plain pointer), and the double ownership made by
`DBDocumentBase(DBCollection*)`.

Parts that are not modelled, and why:

* `service`, `type_test`, the exceptions: functions of their arguments; what the models need of them
  is in `JsonNodes`.
* `SharedPool`: nothing uses it.
* The calls that only read: getters (`get_to`, `toDouble`), downloads, selectors, the lists of
  schemas and enumerations for a user interface. They change nothing, and what they return
  is what the state says.
* Of `JsonSchema`: the default of fields of the class `TimeStamp`, which is the time of day
  (jsonschema.cpp:603-620); `array_resize_xD`; paths that name no field of a structure (the code follows
  the null pointer `append_node` returns, jsonschema.cpp:357-358). Unions are structures to this code.
* Of `JsonFree`: assignments whose source is below their target, which read freed nodes, and keys that begin or end with a blank, which
  `split()` trims.
* Of the loggers: a level that a program gives to one by spdlog's own functions, their patterns and files.
* Of `DBVertexDocument`: the unique fields; `load_unique_fields` leaves their list empty
  ("temporaly block unique test", dbvertexdoc.cpp:227-230), so none of their code runs.
* Of `JsonParser`: a quoted string at the top of a text may lack its closing quote; the
  model has it as the code does (`open` tokens), and `ThrowsForReason` counts it as a reason.
* `DBQueryBase`, `DBQueryDef`: data handed to the server, written to and read from JSON by paths.

What could come next: `JsonSchema` with its recursion cut at the depth of a definition, so that `FollowsSchema` can be proved along the lines
of `JsonTreeProofs`; and the meaning of a text by its nesting, for `RoundTrip`.
