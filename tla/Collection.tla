----------------------------- MODULE Collection -----------------------------
(***************************************************************************)
(* DBCollection (include/jsonio/dbcollection.h, src/dbcollection.cpp): the *)
(* in-memory list of the keys of one database collection, kept beside the  *)
(* documents a remote ArangoDB server stores, and the detached threads     *)
(* that load it.                                                           *)
(*                                                                         *)
(* Client threads call createDocument, saveDocument, deleteDocument,       *)
(* removeByKeys, deleteEdges, load and reload on one DBCollection object.  *)
(* Every load starts a detached thread that queries all keys and adds them *)
(* to key_record_map.  keysmap_mutex is a std::shared_mutex: `lock` is its *)
(* exclusive owner.  A section under the shared lock reads the map at one  *)
(* instant and is one action, guarded by the lock being free of a writer;  *)
(* a section under the exclusive lock that also calls the server is split  *)
(* at that call, because removeByKeys and deleteEdges reach the server     *)
(* without any lock.                                                       *)
(*                                                                         *)
(* Keys: keyFields() is {"_id"}, so the key of a record is its id and      *)
(* key_record_map maps an id to itself: it is modelled as a set of ids.    *)
(* The contents of the records are left to QueryView.                      *)
(***************************************************************************)
EXTENDS Naturals

CONSTANTS
  Ids,            \* document ids of the collection
  Threads,        \* client threads
  Loaders,        \* slots for live loader threads: a bound on how many overlap
  Free,           \* "no exclusive owner"
  LoadsExclusive, \* TRUE: the clients never overlap a creation with a load
  Faults,         \* what a server call may do besides answering
  MaxCalls        \* bound on the calls the clients make

ASSUME FreeAssumption  == Free \notin Threads \cup Loaders
ASSUME ProcAssumption  == Threads \cap Loaders = {}
ASSUME CallsAssumption == MaxCalls \in Nat
ASSUME FaultAssumption == Faults \subseteq {"refused", "lost"}
ASSUME ExclAssumption  == LoadsExclusive \in BOOLEAN

VARIABLES
  server,   \* ids of the documents the server stores
  keymap,   \* key_record_map
  lock,     \* exclusive owner of keysmap_mutex, or Free
  pc,       \* what each client thread does next
  arg,      \* the ids that call is about
  loader,   \* state of each loader thread
  snap,     \* records the loader's query returned and it has yet to add
  doubtful, \* history: ids removed by a call that reported failure
  calls     \* client calls left

vars == <<server, keymap, lock, pc, arg, loader, snap, doubtful, calls>>

(***************************************************************************)
(* The clients' discipline.  A load is pending from the moment a call that *)
(* ends in load() starts until its loader thread has finished.             *)
(***************************************************************************)
Creating == \E t \in Threads : pc[t] \in {"save", "create", "insert"}

LoadPending == \/ \E t \in Threads : pc[t] \in {"remove", "close", "load"}
               \/ \E l \in Loaders : loader[l] # "none"

MayCreate == LoadsExclusive => ~LoadPending
MayLoad   == LoadsExclusive => ~Creating

Call(t, next, ids) ==
  /\ pc[t] = "idle" /\ calls > 0
  /\ calls' = calls - 1
  /\ pc'  = [pc  EXCEPT ![t] = next]
  /\ arg' = [arg EXCEPT ![t] = ids]

Goto(t, next) == pc' = [pc EXCEPT ![t] = next]

(***************************************************************************)
(* createDocument, saveDocument                                            *)
(***************************************************************************)

\* createDocument up to its lock_guard: a record that carries an id is tested
\* against the key list; one without leaves the choice of the id to the server.
\* The test fails with an exception and no effect, so only its success is a step.
CreateDocument(t) ==
  /\ MayCreate
  /\ \/ Call(t, "create", {})
     \/ \E id \in Ids \ keymap : lock = Free /\ Call(t, "create", {id})
  /\ UNCHANGED <<server, keymap, lock, loader, snap, doubtful>>

\* saveDocument: existsDocument decides between a creation and an update, under
\* a shared lock that is released before either starts.
SaveDocument(t) ==
  /\ lock = Free
  /\ \E id \in Ids :
       IF id \in keymap THEN Call(t, "update", {id})
                        ELSE MayCreate /\ Call(t, "save", {id})
  /\ UNCHANGED <<server, keymap, lock, loader, snap, doubtful>>

\* ... the creation branch runs createDocument, which tests the key again;
SaveCreate(t) ==
  /\ pc[t] = "save" /\ lock = Free
  /\ Goto(t, IF arg[t] \cap keymap = {} THEN "create" ELSE "idle")
  /\ UNCHANGED <<server, keymap, lock, arg, loader, snap, doubtful, calls>>

\* ... the update branch only reads the key list.
SaveUpdate(t) ==
  /\ pc[t] = "update" /\ lock = Free
  /\ Goto(t, "idle")
  /\ UNCHANGED <<server, keymap, lock, arg, loader, snap, doubtful, calls>>

\* The ids create_record may store the record under.
NewIds(t) == IF arg[t] = {} THEN Ids \ server ELSE arg[t] \ server

\* createDocument with the exclusive lock: the server stores the record ...
CreateRecord(t) ==
  /\ pc[t] = "create" /\ lock = Free
  /\ \E id \in NewIds(t) :
       /\ server' = server \cup {id}
       /\ arg' = [arg EXCEPT ![t] = {id}]
       /\ doubtful' = doubtful \ {id}
  /\ lock' = t
  /\ Goto(t, "insert")
  /\ UNCHANGED <<keymap, loader, snap, calls>>

\* Mutation of CreateThrows: lock() and unlock() in place of the lock_guard, so
\* that the exception leaves the mutex locked.
CreateThrowsLocked(t) ==
  /\ pc[t] = "create" /\ lock = Free
  /\ lock' = t
  /\ Goto(t, "idle")
  /\ UNCHANGED <<server, keymap, arg, loader, snap, doubtful, calls>>

\* ... or create_record throws: the id is taken, the server refuses, or its
\* reply is lost after the record was stored.  The lock_guard frees the mutex.
CreateThrows(t) ==
  /\ pc[t] = "create" /\ lock = Free
  /\ \/ NewIds(t) = {} /\ UNCHANGED server
     \/ "refused" \in Faults /\ UNCHANGED server
     \/ "lost" \in Faults /\ \E id \in NewIds(t) : server' = server \cup {id}
  /\ Goto(t, "idle")
  /\ UNCHANGED <<keymap, lock, arg, loader, snap, doubtful, calls>>

\* Mutations of InsertKey: a malformed key is listed; no key is listed.
InsertKeyMalformed(t) ==
  /\ pc[t] = "insert"
  /\ keymap' = keymap \cup {arg[t]}
  /\ lock' = Free
  /\ Goto(t, "idle")
  /\ UNCHANGED <<server, arg, loader, snap, doubtful, calls>>

InsertKeyForgotten(t) ==
  /\ pc[t] = "insert"
  /\ lock' = Free
  /\ Goto(t, "idle")
  /\ UNCHANGED <<server, keymap, arg, loader, snap, doubtful, calls>>

\* ... and the new key is added to the list before the lock is released.
InsertKey(t) ==
  /\ pc[t] = "insert"
  /\ keymap' = keymap \cup arg[t]
  /\ lock' = Free
  /\ Goto(t, "idle")
  /\ UNCHANGED <<server, arg, loader, snap, doubtful, calls>>

(***************************************************************************)
(* deleteDocument                                                          *)
(***************************************************************************)

\* With the exclusive lock: the key must be listed; the server removes the record.
DeleteDocument(t) ==
  /\ lock = Free
  /\ \E id \in keymap \cap server :
       /\ Call(t, "erase", {id})
       /\ server' = server \ {id}
  /\ lock' = t
  /\ UNCHANGED <<keymap, loader, snap, doubtful>>

\* delete_record throws or returns false: no such record, a refusal, or a lost
\* reply.  The key stays.
DeleteThrows(t) ==
  /\ lock = Free
  /\ \E id \in keymap :
       /\ Call(t, "idle", {id})
       /\ \/ (id \notin server \/ "refused" \in Faults) /\ UNCHANGED <<server, doubtful>>
          \/ /\ "lost" \in Faults
             /\ server' = server \ {id}
             /\ doubtful' = doubtful \cup {id}
  /\ UNCHANGED <<keymap, lock, loader, snap>>

\* Mutation of EraseKey: the mutex is not given back.
EraseKeyLocked(t) ==
  /\ pc[t] = "erase"
  /\ keymap' = keymap \ arg[t]
  /\ Goto(t, "idle")
  /\ UNCHANGED <<server, lock, arg, loader, snap, doubtful, calls>>

\* ... and then the key leaves the list.
EraseKey(t) ==
  /\ pc[t] = "erase"
  /\ keymap' = keymap \ arg[t]
  /\ doubtful' = doubtful \ arg[t]
  /\ lock' = Free
  /\ Goto(t, "idle")
  /\ UNCHANGED <<server, arg, loader, snap, calls>>

(***************************************************************************)
(* removeByKeys, deleteEdges: a bulk removal outside the lock, then reload *)
(***************************************************************************)

\* removeByKeys: ids_from_keys keeps the listed keys (shared lock).
RemoveByKeys(t) ==
  /\ MayLoad /\ lock = Free
  /\ \E keys \in SUBSET Ids : Call(t, "remove", keys \cap keymap)
  /\ UNCHANGED <<server, keymap, lock, loader, snap, doubtful>>

\* Mutation of RemoveRecords: no reload follows.
RemoveRecordsNoReload(t) ==
  /\ pc[t] = "remove"
  /\ server' = server \ arg[t]
  /\ Goto(t, "idle")
  /\ UNCHANGED <<keymap, lock, arg, loader, snap, doubtful, calls>>

\* remove_by_ids, with no lock held; the reload that follows is "close", "load".
RemoveRecords(t) ==
  /\ pc[t] = "remove"
  /\ server' = server \ arg[t]
  /\ Goto(t, "close")
  /\ UNCHANGED <<keymap, lock, arg, loader, snap, doubtful, calls>>

\* remove_by_ids throws, having removed some of the records: there is no reload.
RemoveThrows(t) ==
  /\ pc[t] = "remove"
  /\ \/ "refused" \in Faults /\ UNCHANGED <<server, doubtful>>
     \/ /\ "lost" \in Faults
        /\ \E gone \in SUBSET arg[t] :
             server' = server \ gone /\ doubtful' = doubtful \cup gone
  /\ Goto(t, "idle")
  /\ UNCHANGED <<keymap, lock, arg, loader, snap, calls>>

\* deleteEdges: the server removes whatever edges are linked to the vertex.
DeleteEdges(t) ==
  /\ MayLoad
  /\ \E edges \in SUBSET server :
       Call(t, "close", edges) /\ server' = server \ edges
  /\ UNCHANGED <<keymap, lock, loader, snap, doubtful>>

\* delete_edges throws, having removed some of the edges: there is no reload.
DeleteEdgesThrows(t) ==
  /\ MayLoad
  /\ \E gone \in SUBSET server :
       /\ Call(t, "idle", gone)
       /\ \/ "refused" \in Faults /\ gone = {}
          \/ "lost" \in Faults
       /\ server' = server \ gone
       /\ doubtful' = doubtful \cup gone
  /\ UNCHANGED <<keymap, lock, loader, snap>>

(***************************************************************************)
(* reload = close, load; load alone                                        *)
(***************************************************************************)
Load(t) ==
  /\ MayLoad
  /\ \E first \in {"close", "load"} : Call(t, first, {})
  /\ UNCHANGED <<server, keymap, lock, loader, snap, doubtful>>

ClearKeysMap ==
  /\ lock = Free
  /\ keymap' = {}
  /\ doubtful' = {}

\* closeCollection
CloseCollection(t) ==
  /\ pc[t] = "close"
  /\ ClearKeysMap
  /\ Goto(t, "load")
  /\ UNCHANGED <<server, lock, arg, loader, snap, calls>>

\* loadCollection: clear, create_collection, start a detached loader thread and
\* return without waiting for it.
LoadCollection(t) ==
  /\ pc[t] = "load"
  /\ ClearKeysMap
  /\ \E l \in Loaders : loader[l] = "none" /\ loader' = [loader EXCEPT ![l] = "ready"]
  /\ Goto(t, "idle")
  /\ UNCHANGED <<server, lock, arg, snap, calls>>

\* ... create_collection throws: the list is empty and nothing will fill it.
LoadThrows(t) ==
  /\ pc[t] = "load" /\ Faults # {}
  /\ ClearKeysMap
  /\ Goto(t, "idle")
  /\ UNCHANGED <<server, lock, arg, loader, snap, calls>>

(***************************************************************************)
(* loadCollectionFile, in a detached thread                                *)
(***************************************************************************)

\* Mutation of LoadQuery: the loader does not take the mutex.
LoadQueryUnlocked(l) ==
  /\ loader[l] = "ready"
  /\ loader' = [loader EXCEPT ![l] = "fill"]
  /\ snap' = [snap EXCEPT ![l] = server]
  /\ UNCHANGED <<server, keymap, lock, pc, arg, doubtful, calls>>

\* The exclusive lock is taken and the keys of the collection are queried.
LoadQuery(l) ==
  /\ loader[l] = "ready" /\ lock = Free
  /\ lock' = l
  /\ loader' = [loader EXCEPT ![l] = "fill"]
  /\ snap' = [snap EXCEPT ![l] = server]
  /\ UNCHANGED <<server, keymap, pc, arg, doubtful, calls>>

\* add_record_to_map: the key of a record the query returned is new to the list.
LoadRecord(l) ==
  /\ loader[l] = "fill"
  /\ \E id \in snap[l] \ keymap :
       /\ keymap' = keymap \cup {id}
       /\ snap' = [snap EXCEPT ![l] = @ \ {id}]
  /\ UNCHANGED <<server, lock, pc, arg, loader, doubtful, calls>>

\* The thread ends and its lock_guard frees the mutex: every record was added, a
\* record's key was already listed (add_record_to_map throws and the thread
\* abandons the others), or the server failed.
LoadEnd(l) ==
  /\ loader[l] = "fill"
  /\ \/ snap[l] = {}
     \/ snap[l] \cap keymap # {}
     \/ Faults # {}
  /\ loader' = [loader EXCEPT ![l] = "none"]
  /\ snap' = [snap EXCEPT ![l] = {}]
  /\ lock' = Free
  /\ UNCHANGED <<server, keymap, pc, arg, doubtful, calls>>

(***************************************************************************)
(* Specification.  add_collection constructs the object and calls load()   *)
(* before a client can use it: the list is empty and one loader is ready.  *)
(***************************************************************************)
Init ==
  /\ server \in SUBSET Ids
  /\ keymap = {}
  /\ lock = Free
  /\ pc  = [t \in Threads |-> "idle"]
  /\ arg = [t \in Threads |-> {}]
  /\ \E l \in Loaders : loader = [k \in Loaders |-> IF k = l THEN "ready" ELSE "none"]
  /\ snap = [l \in Loaders |-> {}]
  /\ doubtful = {}
  /\ calls = MaxCalls

Begin(t) == \/ CreateDocument(t) \/ SaveDocument(t)
            \/ DeleteDocument(t) \/ DeleteThrows(t)
            \/ RemoveByKeys(t) \/ DeleteEdges(t) \/ DeleteEdgesThrows(t)
            \/ Load(t)

Continue(t) == \/ SaveCreate(t) \/ SaveUpdate(t)
               \/ CreateRecord(t) \/ CreateThrows(t) \/ InsertKey(t)
               \/ EraseKey(t)
               \/ RemoveRecords(t) \/ RemoveThrows(t)
               \/ CloseCollection(t) \/ LoadCollection(t) \/ LoadThrows(t)

Loading(l) == LoadQuery(l) \/ LoadRecord(l) \/ LoadEnd(l)

Next == \/ \E t \in Threads : Begin(t) \/ Continue(t)
        \/ \E l \in Loaders : Loading(l)

Spec == Init /\ [][Next]_vars

\* The operating system keeps running every thread that can run; no client is
\* obliged to make another call.
Fairness == /\ \A t \in Threads : WF_vars(Continue(t))
            /\ \A l \in Loaders : WF_vars(Loading(l))

FairSpec == Spec /\ Fairness

(***************************************************************************)
(* Properties                                                              *)
(***************************************************************************)
PCs == {"idle", "create", "save", "update", "insert", "erase",
        "remove", "close", "load"}

\* Every variable has its type.
TypeOK ==
  /\ server \subseteq Ids
  /\ keymap \subseteq Ids
  /\ lock \in Threads \cup Loaders \cup {Free}
  /\ pc \in [Threads -> PCs]
  /\ arg \in [Threads -> SUBSET Ids]
  /\ loader \in [Loaders -> {"none", "ready", "fill"}]
  /\ snap \in [Loaders -> SUBSET Ids]
  /\ doubtful \subseteq Ids
  /\ calls \in 0 .. MaxCalls

\* The ids of unfinished creations, stored but not listed, and those that some
\* unfinished removal has taken from the server.
Inserting == UNION {arg[t] : t \in {u \in Threads : pc[u] = "insert"}}
Removing  == UNION {arg[t] : t \in {u \in Threads : pc[u] \in {"erase", "close"}}}

\* The key list never names a document the server no longer has, except while
\* the call that removed it is still under way, or after a deleteDocument,
\* removeByKeys or deleteEdges that reported failure although records were gone
\* (none of the three then reloads); the next clearing of the list ends both.
\* Loader threads, creations and bulk removals run at the same time, and the bulk
\* removals hold no lock.
NoGhostKeys == keymap \subseteq server \cup Removing \cup doubtful

\* "List all documents keys into collection": once no load is pending, every
\* stored document is listed, but for one whose creation is under way.
KeysListed == ~LoadPending => server \subseteq keymap \cup Inserting

\* Under the clients' discipline the collection behaves as KeyIndex: what is
\* listed is nothing or all of what is stored.  A creation counts from the moment
\* its key is listed, a removal from the moment the server has done it, and a
\* list that a loader has filled in part counts as empty.
Partial == \E l \in Loaders : snap[l] # {} /\ snap[l] \cap keymap = {}

Docs  == server \ Inserting
Known == IF Partial THEN {} ELSE keymap \cap server

Index == INSTANCE KeyIndex WITH docs <- Docs, known <- Known

ImplementsKeyIndex == Index!Spec

\* Whatever path a call or a load takes, exceptions included, it gives the mutex
\* back: the owner of the lock is exactly the one thread inside a section.
LockOwned ==
  /\ \A t \in Threads : (lock = t) <=> pc[t] \in {"insert", "erase"}
  /\ \A l \in Loaders : (lock = l) <=> loader[l] = "fill"

\* Every call returns and every loader thread ends: nobody waits for ever.
CallsReturn == \A t \in Threads : pc[t] # "idle" ~> pc[t] = "idle"
LoadsEnd    == \A l \in Loaders : loader[l] # "none" ~> loader[l] = "none"
=============================================================================
