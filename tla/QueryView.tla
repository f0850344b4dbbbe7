----------------------------- MODULE QueryView ------------------------------
(***************************************************************************)
(* The query tables of the documents opened on one collection              *)
(* (DBDocumentBase, DBJsonDocument, DBSchemaDocument, DBQueryResult, and   *)
(* DBCollection's calls that notify them).                                 *)
(*                                                                         *)
(* A document object keeps the result of its last query as a table, a line *)
(* per record.  The table is rebuilt by a detached thread (update_query),  *)
(* and kept up to date between rebuilds by update_line, add_line and       *)
(* delete_line, which the collection calls one document after another once *)
(* the server has done a change.  Nothing orders the notifications of two  *)
(* calls, or a notification and a rebuild.  A call may fail after the      *)
(* server has done its change, and then the tables are told nothing.       *)
(*                                                                         *)
(* Each client thread works through a document object of its own, so Docs  *)
(* names both.  A call on a table runs under query_result_mutex, and an    *)
(* update_query holds that mutex from its clear to its last add_line:  the *)
(* table is out of reach in between, so each is one action, placed where   *)
(* it reads the server.  The key list is taken as KeyIndex promises it.    *)
(***************************************************************************)
EXTENDS Naturals, FiniteSets

CONSTANTS
  Docs,       \* document objects, each with the client thread that uses it
  Ids,        \* document ids
  Vals,       \* contents a record can have
  None,       \* no record, no line
  Queries,    \* query conditions: the contents each selects
  NoQuery,    \* query_result is null
  Serial,     \* TRUE: clients do not overlap calls on the same document
  Fails,      \* TRUE: a server call may fail, before, after or amid its work
  MaxCalls,   \* bound on the calls the clients make
  MaxPending  \* bound on the rebuilds pending for one document

ASSUME ValsAssumption  == None \notin Vals
ASSUME QueryAssumption == NoQuery \notin Queries /\ \A q \in Queries : q \subseteq Vals
ASSUME BoundAssumption == MaxCalls \in Nat /\ MaxPending \in Nat \ {0}
ASSUME FlagAssumption  == {Serial, Fails} \subseteq BOOLEAN

VARIABLES
  store,    \* the records on the server
  open,     \* documents_list
  query,    \* the condition of query_result, or NoQuery
  table,    \* query_result_data: the lines of each document's table
  pending,  \* detached update_query threads that have not run yet
  pc,       \* what the client does next
  key,      \* the ids its call is about
  val,      \* the content it saves, or None if it deletes
  todo,     \* documents its notification loop has yet to visit
  starting, \* the document whose query_result its reload has tested and will use
  isupdate, \* add_line's flag
  wrote,    \* history: ids the document saved since its last rebuild, and not deleted since
  untold,   \* history: ids whose change a failing call kept from the document
  crashed,  \* an update_query was started or ran without its document or its query_result
  calls     \* client calls left

vars == <<store, open, query, table, pending, pc, key, val, todo, starting,
          isupdate, wrote, untold, crashed, calls>>

Lines   == [Ids -> Vals \cup {None}]
NoLines == [id \in Ids |-> None]

\* Ids some unfinished call is about.
Busy == UNION {key[d] : d \in {e \in Docs : pc[e] # "idle"}}

\* A client starts a call on some ids.
Call(d, next, ids) ==
  /\ d \in open /\ pc[d] = "idle" /\ calls > 0
  /\ Serial => ids \cap Busy = {}
  /\ calls' = calls - 1
  /\ pc'  = [pc  EXCEPT ![d] = next]
  /\ key' = [key EXCEPT ![d] = ids]

Goto(d, next) == pc' = [pc EXCEPT ![d] = next]

(***************************************************************************)
(* A document changes one record.  The server has done it when the call    *)
(* goes on to the tables.  A call that throws without effect (the key      *)
(* exists, does not exist, or the server refuses) is no step.              *)
(***************************************************************************)
Change(d, next, id, v) ==
  /\ Call(d, next, {id})
  /\ store' = [store EXCEPT ![id] = v]
  /\ val'   = [val   EXCEPT ![d] = v]
  /\ UNCHANGED <<open, query, table, pending, todo, starting, wrote, untold, crashed>>

\* createDocument: only the table of the document itself is told.
CreateDocument(d) ==
  /\ \E id \in Ids, v \in Vals : store[id] = None /\ Change(d, "own", id, v)
  /\ isupdate' = [isupdate EXCEPT ![d] = FALSE]

\* updateDocument, that is DBCollection::saveDocument: the update of a stored
\* record goes to every document, its creation to this one only.
UpdateDocument(d) ==
  /\ \E id \in Ids, v \in Vals :
       Change(d, IF store[id] = None THEN "own" ELSE "loop", id, v)
  /\ isupdate' = [isupdate EXCEPT ![d] = TRUE]

DeleteDocument(d) ==
  /\ \E id \in Ids : store[id] # None /\ Change(d, "loop", id, None)
  /\ UNCHANGED isupdate

\* A failing call leaves the given documents without word of its changes.
Untell(docs, ids) == untold' = [d \in Docs |->
  IF d \in docs THEN untold[d] \cup ids ELSE untold[d]]

\* The server has stored, updated or deleted the record and its reply is lost: the
\* call throws and no table hears of it.
ChangeLost(d) ==
  /\ Fails
  /\ \E id \in Ids, v \in Vals \cup {None} :
       /\ store[id] # v
       /\ Call(d, "idle", {id})
       /\ store' = [store EXCEPT ![id] = v]
       /\ Untell(open, {id})
  /\ UNCHANGED <<open, query, table, pending, val, todo, starting, isupdate, wrote, crashed>>

\* documents_mutex is taken shared, and held while the loop visits the list.
NotifyBegin(d) ==
  /\ pc[d] = "loop"
  /\ todo' = [todo EXCEPT ![d] = open]
  /\ Goto(d, "notify")
  /\ UNCHANGED <<store, open, query, table, pending, key, val, starting, isupdate, wrote,
                 untold, crashed, calls>>

\* Mutation of Overwritten: the line gets the key in place of the values.
OverwrittenByKey(line, d) == [id \in Ids |->
  IF id \in key[d] /\ line[id] # None THEN key[d] ELSE line[id]]

\* update_line overwrites the line if there is one, delete_line removes it.
Overwritten(line, d) == [id \in Ids |->
  IF id \in key[d] /\ line[id] # None THEN val[d] ELSE line[id]]

Notify(d) ==
  /\ pc[d] = "notify"
  /\ \E e \in todo[d] :
       /\ table' = [table EXCEPT ![e] = Overwritten(@, d)]
       /\ wrote' = [wrote EXCEPT ![e] = IF val[d] = None THEN @ \ key[d] ELSE @]
       /\ untold' = [untold EXCEPT ![e] = @ \ key[d]]
       /\ todo'  = [todo  EXCEPT ![d] = @ \ {e}]
       /\ Goto(d, IF todo[d] = {e} THEN "own" ELSE "notify")
  /\ UNCHANGED <<store, open, query, pending, key, val, starting, isupdate, crashed, calls>>

\* Mutation of OwnLine: a line that is there is updated, a missing one is not added.
OwnLineUpdated(d) ==
  /\ pc[d] = "own"
  /\ IF query[d] = NoQuery
     THEN UNCHANGED <<table, wrote>>
     ELSE /\ table' = [table EXCEPT ![d] = Overwritten(@, d)]
          /\ wrote' = [wrote EXCEPT ![d] = IF val[d] = None THEN @ ELSE @ \cup key[d]]
  /\ Goto(d, "idle")
  /\ UNCHANGED <<store, open, query, pending, key, val, todo, starting, isupdate, untold,
                 crashed, calls>>

\* The records of the call whose line add_line and delete_line set.
SetLines(d) == {id \in key[d] : table[d][id] = None \/ isupdate[d] \/ val[d] = None}

\* The document's own line.  add_line inserts it, and overwrites one that is
\* there only if isupdate; it does not ask whether the query selects the record.
OwnLine(d) ==
  /\ pc[d] = "own"
  /\ IF query[d] = NoQuery
     THEN UNCHANGED <<table, wrote, untold>>
     ELSE /\ table' = [table EXCEPT ![d] =
                [id \in Ids |-> IF id \in SetLines(d) THEN val[d] ELSE @[id]]]
          /\ wrote' = [wrote EXCEPT ![d] = IF val[d] = None THEN @ ELSE @ \cup key[d]]
          /\ untold' = [untold EXCEPT ![d] = @ \ SetLines(d)]
  /\ Goto(d, "idle")
  /\ UNCHANGED <<store, open, query, pending, key, val, todo, starting, isupdate, crashed, calls>>

(***************************************************************************)
(* Rebuilding the tables                                                   *)
(***************************************************************************)

\* updateQuery by the document's own client: nothing without a query_result, else
\* one more detached thread.
UpdateQuery(d) ==
  /\ Call(d, "idle", {})
  /\ query[d] # NoQuery => pending[d] < MaxPending
  /\ pending' = [pending EXCEPT ![d] = IF query[d] = NoQuery THEN @ ELSE @ + 1]
  /\ UNCHANGED <<store, open, query, table, val, todo, starting, isupdate, wrote, untold, crashed>>

\* setQuery: a new condition and an empty table, then updateQuery.
SetQuery(d) ==
  /\ Call(d, "idle", {})
  /\ pending[d] < MaxPending
  /\ \E q \in Queries : query' = [query EXCEPT ![d] = q]
  /\ table'   = [table EXCEPT ![d] = NoLines]
  /\ pending' = [pending EXCEPT ![d] = @ + 1]
  /\ wrote'   = [wrote EXCEPT ![d] = {}]
  /\ untold'  = [untold EXCEPT ![d] = {}]
  /\ UNCHANGED <<store, open, val, todo, starting, isupdate, crashed>>

\* removeByKeys: the server removes the records; reload is "reload".
RemoveByKeys(d) ==
  /\ \E ids \in SUBSET Ids :
       /\ Call(d, "reload", ids)
       /\ store' = [id \in Ids |-> IF id \in ids THEN None ELSE store[id]]
  /\ UNCHANGED <<open, query, table, pending, val, todo, starting, isupdate, wrote, untold, crashed>>

\* ... remove_by_ids throws, having removed some of them: there is no reload.
RemoveThrows(d) ==
  /\ Fails
  /\ \E ids \in SUBSET Ids :
       /\ Call(d, "idle", ids)
       /\ store' = [id \in Ids |-> IF id \in ids THEN None ELSE store[id]]
       /\ Untell(open, ids)
  /\ UNCHANGED <<open, query, table, pending, val, todo, starting, isupdate, wrote, crashed>>

\* Mutation of Reload: only the caller's own query is run again.
ReloadOwn(d) ==
  /\ pc[d] = "reload"
  /\ todo' = [todo EXCEPT ![d] = open \cap {d}]
  /\ Goto(d, "rebuild")
  /\ UNCHANGED <<store, open, query, table, pending, key, val, starting, isupdate, wrote,
                 untold, crashed, calls>>

\* reload: close and load, then documents_mutex is taken shared for a loop over all
\* open documents.
Reload(d) ==
  /\ pc[d] = "reload"
  /\ todo' = [todo EXCEPT ![d] = open]
  /\ Goto(d, "rebuild")
  /\ UNCHANGED <<store, open, query, table, pending, key, val, starting, isupdate, wrote,
                 untold, crashed, calls>>

\* updateQuery of one of them: query_result is tested, and its mutex let go;
TestQuery(d) ==
  /\ pc[d] = "rebuild" /\ starting[d] = {}
  /\ \E e \in todo[d] :
       /\ todo' = [todo EXCEPT ![d] = @ \ {e}]
       /\ starting' = [starting EXCEPT ![d] = IF query[e] = NoQuery THEN {} ELSE {e}]
  /\ UNCHANGED <<store, open, query, table, pending, pc, key, val, isupdate, wrote, untold,
                 crashed, calls>>

\* ... then its condition is logged and the thread started.
StartRebuild(d) ==
  /\ \E e \in starting[d] :
       /\ starting' = [starting EXCEPT ![d] = @ \ {e}]
       /\ IF query[e] = NoQuery
          THEN crashed' = TRUE /\ UNCHANGED pending
          ELSE /\ pending[e] < MaxPending
               /\ pending' = [pending EXCEPT ![e] = @ + 1]
               /\ UNCHANGED crashed
  /\ UNCHANGED <<store, open, query, table, pc, key, val, todo, isupdate, wrote, untold, calls>>

ReloadEnd(d) ==
  /\ pc[d] = "rebuild" /\ todo[d] = {} /\ starting[d] = {}
  /\ Goto(d, "idle")
  /\ UNCHANGED <<store, open, query, table, pending, key, val, todo, starting, isupdate, wrote,
                 untold, crashed, calls>>

\* create_collection throws before the loop, or load_unique_fields inside it: the
\* documents not visited are not run again.
ReloadThrows(d) ==
  /\ Fails /\ starting[d] = {}
  /\ \/ pc[d] = "reload"  /\ Untell(open, key[d])
     \/ pc[d] = "rebuild" /\ Untell(todo[d], key[d])
  /\ todo' = [todo EXCEPT ![d] = {}]
  /\ Goto(d, "idle")
  /\ UNCHANGED <<store, open, query, table, pending, key, val, starting, isupdate, wrote,
                 crashed, calls>>

\* update_query, when its thread gets to run: the table becomes what the query
\* selects on the server, or a part of it if the select fails.  The thread holds
\* a plain pointer to the document, and follows query_result without a test.
UpdateQueryThread(d) ==
  /\ pending[d] > 0
  /\ pending' = [pending EXCEPT ![d] = @ - 1]
  /\ IF d \notin open \/ query[d] = NoQuery
     THEN crashed' = TRUE /\ UNCHANGED <<table, wrote, untold>>
     ELSE /\ \E got \in IF Fails THEN SUBSET Ids ELSE {Ids} :
               table' = [table EXCEPT ![d] =
                 [id \in Ids |-> IF id \in got /\ store[id] \in query[d]
                                 THEN store[id] ELSE None]]
          /\ wrote' = [wrote EXCEPT ![d] = {}]
          /\ untold' = [untold EXCEPT ![d] = {}]
          /\ UNCHANGED crashed
  /\ UNCHANGED <<store, open, query, pc, key, val, todo, starting, isupdate, calls>>

(***************************************************************************)
(* A document loses its query, is destroyed, is opened                     *)
(***************************************************************************)
Emptied(d) == /\ query' = [query EXCEPT ![d] = NoQuery]
              /\ table' = [table EXCEPT ![d] = NoLines]
              /\ wrote' = [wrote EXCEPT ![d] = {}]
              /\ untold' = [untold EXCEPT ![d] = {}]

\* DBSchemaDocument::resetSchema with change_queries.
ResetSchema(d) ==
  /\ Call(d, "idle", {})
  /\ Emptied(d)
  /\ UNCHANGED <<store, open, pending, val, todo, starting, isupdate, crashed>>

\* addDocument and eraseDocument take documents_mutex exclusively.
NobodyNotifies == \A e \in Docs : pc[e] \notin {"notify", "rebuild"}

\* The destructor; the query_result_mutex it takes last keeps out a rebuild that
\* runs, not one that has yet to start.
Close(d) ==
  /\ Call(d, "idle", {})
  /\ NobodyNotifies
  /\ open' = open \ {d}
  /\ Emptied(d)
  /\ UNCHANGED <<store, pending, val, todo, starting, isupdate, crashed>>

\* The name of a destroyed document stands for a new one once the threads of the
\* old one are gone.
Open(d) ==
  /\ d \notin open /\ pending[d] = 0 /\ calls > 0
  /\ NobodyNotifies
  /\ open' = open \cup {d}
  /\ calls' = calls - 1
  /\ UNCHANGED <<store, query, table, pending, pc, key, val, todo, starting, isupdate, wrote,
                 untold, crashed>>

(***************************************************************************)
(* Specification                                                           *)
(***************************************************************************)
Init ==
  /\ store \in Lines
  /\ open = Docs
  /\ query    = [d \in Docs |-> NoQuery]
  /\ table    = [d \in Docs |-> NoLines]
  /\ pending  = [d \in Docs |-> 0]
  /\ pc       = [d \in Docs |-> "idle"]
  /\ key      = [d \in Docs |-> {}]
  /\ val      = [d \in Docs |-> None]
  /\ todo     = [d \in Docs |-> {}]
  /\ starting = [d \in Docs |-> {}]
  /\ isupdate = [d \in Docs |-> FALSE]
  /\ wrote    = [d \in Docs |-> {}]
  /\ untold   = [d \in Docs |-> {}]
  /\ crashed = FALSE
  /\ calls = MaxCalls

Step(d) == \/ CreateDocument(d) \/ UpdateDocument(d) \/ DeleteDocument(d) \/ ChangeLost(d)
           \/ NotifyBegin(d) \/ Notify(d) \/ OwnLine(d)
           \/ UpdateQuery(d) \/ SetQuery(d)
           \/ RemoveByKeys(d) \/ RemoveThrows(d)
           \/ Reload(d) \/ TestQuery(d) \/ StartRebuild(d) \/ ReloadEnd(d) \/ ReloadThrows(d)
           \/ UpdateQueryThread(d)
           \/ ResetSchema(d) \/ Close(d) \/ Open(d)

Next == \E d \in Docs : Step(d)

Spec == Init /\ [][Next]_vars

(***************************************************************************)
(* Properties                                                              *)
(***************************************************************************)

\* Every variable has its type.
TypeOK ==
  /\ store \in Lines
  /\ open \subseteq Docs
  /\ query \in [Docs -> Queries \cup {NoQuery}]
  /\ table \in [Docs -> Lines]
  /\ pending \in [Docs -> 0 .. MaxPending]
  /\ pc \in [Docs -> {"idle", "loop", "notify", "own", "reload", "rebuild"}]
  /\ key \in [Docs -> SUBSET Ids]
  /\ val \in [Docs -> Vals \cup {None}]
  /\ todo \in [Docs -> SUBSET Docs]
  /\ starting \in [Docs -> SUBSET Docs]
  /\ isupdate \in [Docs -> BOOLEAN]
  /\ wrote \in [Docs -> SUBSET Ids]
  /\ untold \in [Docs -> SUBSET Ids]
  /\ crashed \in BOOLEAN
  /\ calls \in 0 .. MaxCalls

Settled(d, id) == pending[d] = 0 /\ id \notin Busy

\* No stale line: once no call on a record is under way and no rebuild of a table
\* is pending, the line the table has for the record shows what the server
\* stores, unless the last change of the record was by a call that failed before it
\* told this document.  Updates, deletions, bulk removals, reloads that stop
\* half-way, rebuilds and failed selects come in any order.
NoStaleLines ==
  \A d \in Docs, id \in Ids :
    Settled(d, id) /\ id \notin untold[d] => table[d][id] \in {None, store[id]}

\* A client sees its own writes: until its table is next rebuilt or the record is
\* deleted, by a call that tells or by one that fails, a record its document saved
\* has a line, as the server now has it.
OwnWritesShown ==
  \A d \in Docs : \A id \in wrote[d] :
    Settled(d, id) /\ id \notin untold[d] => table[d][id] = store[id]

\* Every rebuild finds its document and the table it is to fill.  The code means to
\* see to it: updateQuery would "wait start thread" (dbdocument.cpp), and the
\* destructor takes last the mutex a rebuild holds.
RebuildsFindTable == ~crashed
=============================================================================
