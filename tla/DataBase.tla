------------------------------ MODULE DataBase ------------------------------
(***************************************************************************)
(* DataBase (include/jsonio/dbconnect.h, src/dbconnect.cpp): the driver in *)
(* use and the list of the collections opened with it.                     *)
(*                                                                         *)
(* Client threads open collections by name, use them, drop them, and       *)
(* switch the whole database to another driver, which reloads the key list *)
(* of every collection in the list.  driver_mutex covers single reads and  *)
(* writes of current_driver.  collections_mutex is shared by updateDriver  *)
(* while it reloads, and exclusive for one insertion: `readers` holds the  *)
(* threads that share it across steps.  `lock` is keysmap_mutex of each    *)
(* collection object, `loading` counts its detached loader threads.        *)
(*                                                                         *)
(* Of a key list the model keeps which databases its keys come from: what  *)
(* one list holds is the matter of Collection.                             *)
(***************************************************************************)
EXTENDS Naturals, FiniteSets

CONSTANTS
  Names,          \* collection names
  Objects,        \* slots for DBCollection objects
  Threads,        \* client threads
  Drivers,        \* drivers, each connected to a database of its own
  Nil,            \* no object, no driver, nobody
  Loader,         \* owner of a lock: a loader thread
  OpensExclusive, \* TRUE: clients do not overlap the first opening of a name
  SwitchExclusive,\* TRUE: nor an updateDriver with the first opening of a name
  ServerFails,    \* TRUE: create_collection may throw, and so end a load or a switch
  MaxCalls        \* bound on the calls the clients make

ASSUME NilAssumption  == Nil \notin Objects \cup Drivers \cup Threads \cup {Loader}
ASSUME LockAssumption == Loader \notin Threads
ASSUME FlagAssumption ==
  {OpensExclusive, SwitchExclusive, ServerFails} \subseteq BOOLEAN
ASSUME CallsAssumption == MaxCalls \in Nat
ASSUME NamesAssumption == Names # {}

VARIABLES
  driver,   \* current_driver
  listed,   \* collections_list
  readers,  \* threads that share collections_mutex
  live,     \* objects constructed and not destroyed
  keys,     \* databases the keys in key_record_map come from
  lock,     \* exclusive owner of keysmap_mutex
  using,    \* the driver of the server call made under that lock
  loading,  \* loader threads started and not finished
  held,     \* shared_ptr<DBCollection> the clients hold
  pc,       \* what each client does next
  name,     \* the collection it opens
  obj,      \* the object it has constructed, and nobody else knows yet
  todo,     \* the objects it has yet to reload
  reported, \* history: the last updateDriver threw
  calls     \* client calls left

client == <<held, pc, name, obj, todo>>
object == <<live, keys, lock, using, loading>>
vars == <<driver, listed, readers, object, client, reported, calls>>

Goto(t, next) == pc' = [pc EXCEPT ![t] = next]

Call(t, next) == /\ pc[t] = "idle" /\ calls > 0
                 /\ calls' = calls - 1
                 /\ Goto(t, next)

(***************************************************************************)
(* The clients' discipline                                                 *)
(***************************************************************************)
Opening(n)   == \E t \in Threads : pc[t] \in {"open", "publish"} /\ name[t] = n
Switching    == readers # {} \/ \E t \in Threads : pc[t] = "switch"
MayOpen(n)   == (OpensExclusive => ~Opening(n)) /\ (SwitchExclusive => ~Switching)
MaySwitch    == SwitchExclusive => \A n \in Names : ~Opening(n)

(***************************************************************************)
(* collection, add_collection                                              *)
(***************************************************************************)

\* Mutations of Collection: the entry of the list is returned without a test; the
\* shared lock is kept while add_collection runs.
CollectionUntested(t) ==
  /\ \E n \in Names :
       /\ Call(t, "idle")
       /\ held' = [held EXCEPT ![t] = @ \cup {listed[n]}]
  /\ UNCHANGED <<driver, listed, readers, object, name, obj, todo, reported>>

CollectionShared(t) ==
  /\ \E n \in Names :
       IF listed[n] # Nil
       THEN /\ Call(t, "idle")
            /\ held' = [held EXCEPT ![t] = @ \cup {listed[n]}]
            /\ UNCHANGED <<name, readers>>
       ELSE /\ MayOpen(n)
            /\ Call(t, "open")
            /\ name' = [name EXCEPT ![t] = n]
            /\ readers' = readers \cup {t}
            /\ UNCHANGED held
  /\ UNCHANGED <<driver, listed, object, obj, todo, reported>>

\* collection: a listed object is returned.  The shared lock is released before
\* an object that is not listed is constructed.
Collection(t) ==
  /\ \E n \in Names :
       IF listed[n] # Nil
       THEN /\ Call(t, "idle")
            /\ held' = [held EXCEPT ![t] = @ \cup {listed[n]}]
            /\ UNCHANGED name
       ELSE /\ MayOpen(n)
            /\ Call(t, "open")
            /\ name' = [name EXCEPT ![t] = n]
            /\ UNCHANGED held
  /\ UNCHANGED <<driver, listed, readers, object, obj, todo, reported>>

\* add_collection: an object, and load(): the list is empty, the server creates
\* the collection, and a detached loader is started.  If the server throws the
\* object is gone.
Construct(t) ==
  /\ pc[t] = "open"
  /\ \/ \E o \in Objects \ live :
          /\ loading[o] = 0
          /\ live'    = live \cup {o}
          /\ loading' = [loading EXCEPT ![o] = 1]
          /\ obj'     = [obj EXCEPT ![t] = o]
          /\ Goto(t, "publish")
     \/ ServerFails /\ Goto(t, "idle") /\ UNCHANGED <<live, loading, obj>>
  /\ UNCHANGED <<driver, listed, readers, keys, lock, using, held, name, todo,
                 reported, calls>>

\* ~DBCollection of the objects that lose their last shared_ptr: close() waits
\* for keysmap_mutex and clears the list.
Destroy(os) ==
  /\ \A o \in os : lock[o] = Nil
  /\ live' = live \ os
  /\ keys' = [o \in Objects |-> IF o \in os THEN {} ELSE keys[o]]
  /\ UNCHANGED <<lock, using, loading>>

Holders(o) == {t \in Threads : o \in held[t]}

\* ... and the object is listed, in the place of one that may be there.
Publish(t) ==
  /\ pc[t] = "publish" /\ readers = {}
  /\ listed' = [listed EXCEPT ![name[t]] = obj[t]]
  /\ held'   = [held EXCEPT ![t] = @ \cup {obj[t]}]
  /\ Destroy({o \in {listed[name[t]]} \ {Nil} : Holders(o) = {}})
  /\ obj' = [obj EXCEPT ![t] = Nil]
  /\ Goto(t, "idle")
  /\ UNCHANGED <<driver, readers, name, todo, reported, calls>>

\* A client drops a collection: the object goes with its last shared_ptr.
Release(t) ==
  /\ pc[t] = "idle"
  /\ \E o \in held[t] :
       /\ held' = [held EXCEPT ![t] = @ \ {o}]
       /\ Destroy(IF Holders(o) = {t} /\ \A n \in Names : listed[n] # o THEN {o} ELSE {})
  /\ UNCHANGED <<driver, listed, readers, pc, name, obj, todo, reported, calls>>

(***************************************************************************)
(* updateDriver; DBCollection::reload                                      *)
(***************************************************************************)

\* updateDriver replaces the driver ...
UpdateDriver(t) ==
  /\ MaySwitch /\ Call(t, "switch")
  /\ \E d \in Drivers \ {driver} : driver' = d
  /\ reported' = FALSE
  /\ UNCHANGED <<listed, readers, object, held, name, obj, todo>>

\* ... and shares collections_mutex while it reloads every listed collection.
ShareCollections(t) ==
  /\ pc[t] = "switch"
  /\ readers' = readers \cup {t}
  /\ todo' = [todo EXCEPT ![t] = {listed[n] : n \in Names} \ {Nil}]
  /\ Goto(t, "close")
  /\ UNCHANGED <<driver, listed, object, held, name, obj, reported, calls>>

\* reload of one collection, called by a client.
Reload(t) ==
  /\ Call(t, "close")
  /\ \E o \in held[t] : todo' = [todo EXCEPT ![t] = {o}]
  /\ UNCHANGED <<driver, listed, readers, object, held, name, obj, reported>>

\* Mutation of ClearKeys: the list is cleared without its lock.
ClearKeysUnlocked(o) == keys' = [keys EXCEPT ![o] = {}]

\* The key list is cleared once nobody is at work on it.
ClearKeys(o) == lock[o] = Nil /\ keys' = [keys EXCEPT ![o] = {}]

\* close: of one of the collections; after the last one the call returns.
Close(t) ==
  /\ pc[t] = "close"
  /\ \E o \in todo[t] : ClearKeys(o) /\ obj' = [obj EXCEPT ![t] = o]
  /\ Goto(t, "load")
  /\ UNCHANGED <<driver, listed, readers, live, lock, using, loading, held, name,
                 todo, reported, calls>>

Reloaded(t) ==
  /\ pc[t] = "close" /\ todo[t] = {}
  /\ readers' = readers \ {t}
  /\ Goto(t, "idle")
  /\ UNCHANGED <<driver, listed, object, held, name, obj, todo, reported, calls>>

\* load: clear again, create_collection, start a loader.
Load(t) ==
  /\ pc[t] = "load"
  /\ ClearKeys(obj[t])
  /\ loading' = [loading EXCEPT ![obj[t]] = @ + 1]
  /\ todo' = [todo EXCEPT ![t] = @ \ {obj[t]}]
  /\ obj' = [obj EXCEPT ![t] = Nil]
  /\ Goto(t, "close")
  /\ UNCHANGED <<driver, listed, readers, live, lock, using, held, name, reported, calls>>

\* ... create_collection throws: the call ends, other collections are not reloaded.
LoadThrows(t) ==
  /\ pc[t] = "load" /\ ServerFails
  /\ ClearKeys(obj[t])
  /\ reported' = (reported \/ t \in readers)
  /\ readers' = readers \ {t}
  /\ todo' = [todo EXCEPT ![t] = {}]
  /\ obj' = [obj EXCEPT ![t] = Nil]
  /\ Goto(t, "idle")
  /\ UNCHANGED <<driver, listed, live, lock, using, loading, held, name, calls>>

(***************************************************************************)
(* Work under keysmap_mutex: each asks for the driver when it has the lock *)
(***************************************************************************)
Enter(o, owner) == /\ lock[o] = Nil
                   /\ lock'  = [lock  EXCEPT ![o] = owner]
                   /\ using' = [using EXCEPT ![o] = driver]

Leave(o) == /\ lock'  = [lock  EXCEPT ![o] = Nil]
            /\ using' = [using EXCEPT ![o] = Nil]

\* createDocument, until the server has stored the record ...
CreateDocument(t) ==
  /\ Call(t, "insert")
  /\ \E o \in held[t] : Enter(o, t) /\ obj' = [obj EXCEPT ![t] = o]
  /\ UNCHANGED <<driver, listed, readers, live, keys, loading, held, name, todo, reported>>

\* ... and its key is listed, or the server has thrown.
InsertKey(t) ==
  /\ pc[t] = "insert"
  /\ Leave(obj[t])
  /\ \E new \in {{}, {using[obj[t]]}} : keys' = [keys EXCEPT ![obj[t]] = @ \cup new]
  /\ obj' = [obj EXCEPT ![t] = Nil]
  /\ Goto(t, "idle")
  /\ UNCHANGED <<driver, listed, readers, live, loading, held, name, todo, reported, calls>>

\* loadCollectionFile queries the keys, and adds them, none if the server fails.
LoadQuery(o) ==
  /\ loading[o] > 0 /\ o \in live
  /\ Enter(o, Loader)
  /\ UNCHANGED <<driver, listed, readers, live, keys, loading, client, reported, calls>>

LoadEnd(o) ==
  /\ lock[o] = Loader
  /\ Leave(o)
  /\ \E new \in {{}, {using[o]}} : keys' = [keys EXCEPT ![o] = @ \cup new]
  /\ loading' = [loading EXCEPT ![o] = @ - 1]
  /\ UNCHANGED <<driver, listed, readers, live, client, reported, calls>>

(***************************************************************************)
(* ~DataBase, when no client is using it any more.  It destroys the        *)
(* collections, and nothing it calls waits for a loader that has not taken *)
(* the lock yet: such a loader works on freed memory, and is not followed. *)
(***************************************************************************)
DestroyDataBase ==
  /\ \A t \in Threads : pc[t] = "idle" /\ held[t] = {}
  /\ calls' = 0
  /\ listed' = [n \in Names |-> Nil]
  /\ Destroy(live)
  /\ UNCHANGED <<driver, readers, client, reported>>

(***************************************************************************)
(* Specification                                                           *)
(***************************************************************************)
Init ==
  /\ driver \in Drivers
  /\ listed  = [n \in Names |-> Nil]
  /\ readers = {}
  /\ live    = {}
  /\ keys    = [o \in Objects |-> {}]
  /\ lock    = [o \in Objects |-> Nil]
  /\ using   = [o \in Objects |-> Nil]
  /\ loading = [o \in Objects |-> 0]
  /\ held    = [t \in Threads |-> {}]
  /\ pc      = [t \in Threads |-> "idle"]
  /\ name    = [t \in Threads |-> CHOOSE n \in Names : TRUE]
  /\ obj     = [t \in Threads |-> Nil]
  /\ todo    = [t \in Threads |-> {}]
  /\ reported = FALSE
  /\ calls = MaxCalls

Begin(t) == \/ Collection(t) \/ Release(t) \/ UpdateDriver(t) \/ Reload(t)
            \/ CreateDocument(t)

Continue(t) == \/ Construct(t) \/ Publish(t)
               \/ ShareCollections(t) \/ Close(t) \/ Reloaded(t) \/ Load(t) \/ LoadThrows(t)
               \/ InsertKey(t)

Loading(o) == LoadQuery(o) \/ LoadEnd(o)

Next == \/ \E t \in Threads : Begin(t) \/ Continue(t)
        \/ \E o \in Objects : Loading(o)
        \/ DestroyDataBase

Spec == Init /\ [][Next]_vars

\* The operating system keeps running every thread that can run.
Fairness == /\ \A t \in Threads : WF_vars(Continue(t))
            /\ \A o \in Objects : WF_vars(Loading(o))

FairSpec == Spec /\ Fairness

(***************************************************************************)
(* Properties                                                              *)
(***************************************************************************)

\* Every variable has its type.
TypeOK ==
  /\ driver \in Drivers
  /\ listed \in [Names -> Objects \cup {Nil}]
  /\ readers \subseteq Threads
  /\ live \subseteq Objects
  /\ keys \in [Objects -> SUBSET Drivers]
  /\ lock \in [Objects -> Threads \cup {Loader, Nil}]
  /\ using \in [Objects -> Drivers \cup {Nil}]
  /\ loading \in [Objects -> Nat]
  /\ held \in [Threads -> SUBSET Objects]
  /\ pc \in [Threads -> {"idle", "open", "publish", "switch", "close", "load", "insert"}]
  /\ name \in [Threads -> Names]
  /\ obj \in [Threads -> Objects \cup {Nil}]
  /\ todo \in [Threads -> SUBSET Objects]
  /\ reported \in BOOLEAN
  /\ calls \in 0 .. MaxCalls

\* "From this point on, any following action ... will use the specified
\* database": when no updateDriver is under way and the last one did not throw,
\* no key list names documents of a database used before.  Loaders and creations
\* started with the old driver may still be at work when the driver is replaced.
NoForeignKeys ==
  ~Switching /\ ~reported => \A o \in live : keys[o] \subseteq {driver}

\* "wait loading finish", as the destructor of DBCollection has it
\* (dbcollection.h:34): no collection is destroyed while a detached loader has yet
\* to work on it.
LoadersFindObject == \A o \in Objects : loading[o] > 0 => o \in live

\* Every call returns: nobody waits for ever on collections_mutex or on the key
\* list of a collection.
CallsReturn == \A t \in Threads : pc[t] # "idle" ~> pc[t] = "idle"
=============================================================================
