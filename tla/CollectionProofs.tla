-------------------------- MODULE CollectionProofs --------------------------
(***************************************************************************)
(* Proofs about DBCollection's key list, for any number of ids, clients    *)
(* and loader threads, any interleaving and any of the modelled faults:    *)
(* every variable keeps its type, the mutex is always given back, and the  *)
(* list names no document the server has lost.                             *)
(***************************************************************************)
EXTENDS Collection, TLAPS

USE FreeAssumption, ProcAssumption, CallsAssumption, FaultAssumption, ExclAssumption

(***************************************************************************)
(* Type correctness                                                        *)
(***************************************************************************)
LEMMA InitTypeOK == Init => TypeOK
  BY DEF Init, TypeOK, PCs

\* A step of a client keeps every type.
LEMMA ClientTypeOK ==
  ASSUME TypeOK, NEW t \in Threads, Begin(t) \/ Continue(t)
  PROVE  TypeOK'
<1> USE DEF TypeOK, PCs, Call, Goto
<1>1. CASE CreateDocument(t)  BY <1>1 DEF CreateDocument
<1>2. CASE SaveDocument(t)    BY <1>2 DEF SaveDocument
<1>3. CASE DeleteDocument(t)  BY <1>3 DEF DeleteDocument
<1>4. CASE DeleteThrows(t)    BY <1>4 DEF DeleteThrows
<1>5. CASE RemoveByKeys(t)    BY <1>5 DEF RemoveByKeys
<1>6. CASE DeleteEdges(t)     BY <1>6 DEF DeleteEdges
<1>7. CASE Load(t)            BY <1>7 DEF Load
<1>8. CASE SaveCreate(t)      BY <1>8 DEF SaveCreate
<1>9. CASE SaveUpdate(t)      BY <1>9 DEF SaveUpdate
<1>10. CASE CreateRecord(t)   BY <1>10 DEF CreateRecord, NewIds
<1>11. CASE CreateThrows(t)   BY <1>11 DEF CreateThrows, NewIds
<1>12. CASE InsertKey(t)      BY <1>12 DEF InsertKey
<1>13. CASE EraseKey(t)       BY <1>13 DEF EraseKey
<1>14. CASE RemoveRecords(t)  BY <1>14 DEF RemoveRecords
<1>15. CASE RemoveThrows(t)   BY <1>15 DEF RemoveThrows
<1>16. CASE CloseCollection(t) BY <1>16 DEF CloseCollection, ClearKeysMap
<1>17. CASE LoadCollection(t) BY <1>17 DEF LoadCollection, ClearKeysMap
<1>18. CASE LoadThrows(t)     BY <1>18 DEF LoadThrows, ClearKeysMap
<1>19. CASE DeleteEdgesThrows(t) BY <1>19 DEF DeleteEdgesThrows
<1> QED BY <1>1, <1>2, <1>3, <1>4, <1>5, <1>6, <1>7, <1>8, <1>9, <1>10, <1>11,
           <1>12, <1>13, <1>14, <1>15, <1>16, <1>17, <1>18, <1>19 DEF Begin, Continue

LEMMA LoaderTypeOK ==
  ASSUME TypeOK, NEW l \in Loaders, Loading(l)
  PROVE  TypeOK'
  BY DEF Loading, LoadQuery, LoadRecord, LoadEnd, TypeOK

\* Every variable has its type in every reachable state.
THEOREM TypeCorrect == Spec => []TypeOK
<1>1. TypeOK /\ [Next]_vars => TypeOK'
  <2> SUFFICES ASSUME TypeOK, [Next]_vars PROVE TypeOK'
    OBVIOUS
  <2>1. CASE Next
    BY <2>1, ClientTypeOK, LoaderTypeOK DEF Next
  <2>2. CASE UNCHANGED vars
    BY <2>2 DEF vars, TypeOK, PCs
  <2> QED BY <2>1, <2>2
<1> QED BY <1>1, InitTypeOK, PTL DEF Spec

(***************************************************************************)
(* keysmap_mutex is given back on every path                               *)
(***************************************************************************)
LEMMA LockOwnedStep ==
  ASSUME TypeOK, LockOwned, [Next]_vars
  PROVE  LockOwned'
<1> USE DEF TypeOK, PCs, LockOwned, Call, Goto
<1>1. ASSUME NEW t \in Threads, Begin(t) PROVE LockOwned'
  BY <1>1 DEF Begin, CreateDocument, SaveDocument, DeleteDocument, DeleteThrows,
              RemoveByKeys, DeleteEdges, DeleteEdgesThrows, Load
<1>2. ASSUME NEW t \in Threads, Continue(t) PROVE LockOwned'
  BY <1>2 DEF Continue, SaveCreate, SaveUpdate, CreateRecord, CreateThrows, InsertKey,
              EraseKey, RemoveRecords, RemoveThrows, CloseCollection, LoadCollection,
              LoadThrows, ClearKeysMap
<1>3. ASSUME NEW l \in Loaders, Loading(l) PROVE LockOwned'
  BY <1>3 DEF Loading, LoadQuery, LoadRecord, LoadEnd
<1>4. CASE UNCHANGED vars
  BY <1>4 DEF vars
<1> QED BY <1>1, <1>2, <1>3, <1>4 DEF Next

\* In every reachable state the owner of the mutex is the one thread inside a
\* section: no return, exception or abandoned load keeps it.
THEOREM LockIsOwned == Spec => []LockOwned
<1>1. Init => LockOwned
  BY DEF Init, LockOwned
<1> QED BY <1>1, LockOwnedStep, TypeCorrect, PTL DEF Spec

(***************************************************************************)
(* The list names no lost document                                         *)
(*                                                                         *)
(* NoGhostKeys is not inductive: a key comes into the list from a loader's *)
(* query result or from a finished creation, and bulk removals shrink the  *)
(* server without the mutex while either is under way.  So every id on its *)
(* way into the list must be accounted for as well, and a loader that does *)
(* not hold the mutex must have nothing left to add.                       *)
(***************************************************************************)
Accounted == server \cup Removing \cup doubtful

GhostInv ==
  /\ keymap \subseteq Accounted
  /\ \A l \in Loaders : snap[l] \subseteq Accounted
  /\ \A l \in Loaders : loader[l] # "fill" => snap[l] = {}
  /\ \A t \in Threads : pc[t] = "insert" => arg[t] \subseteq Accounted

\* While nobody holds the mutex no loader has records to add and no creation
\* has a key to add.
LEMMA FreeMeansQuiet ==
  ASSUME LockOwned, GhostInv, lock = Free
  PROVE  /\ \A l \in Loaders : snap[l] = {}
         /\ \A t \in Threads : pc[t] \notin {"insert", "erase"}
  BY DEF LockOwned, GhostInv

\* Clearing the list forgets every id that had to be accounted for.
LEMMA ClearGhostInv ==
  ASSUME TypeOK, LockOwned, GhostInv, ClearKeysMap, UNCHANGED <<snap, lock>>,
         \A l \in Loaders : loader'[l] = "fill" => loader[l] = "fill",
         \A t \in Threads : pc'[t] = "insert" => pc[t] = "insert"
  PROVE  GhostInv'
  BY FreeMeansQuiet DEF ClearKeysMap, GhostInv

LEMMA GhostInvStep ==
  ASSUME TypeOK, LockOwned, GhostInv, [Next]_vars
  PROVE  GhostInv'
<1> USE DEF TypeOK, PCs, Call, Goto
<1>1. ASSUME NEW t \in Threads, Begin(t) PROVE GhostInv'
  <2>1. CASE CreateDocument(t)
    BY <1>1, <2>1 DEF CreateDocument, GhostInv, Accounted, Removing
  <2>2. CASE SaveDocument(t)
    BY <1>1, <2>2 DEF SaveDocument, GhostInv, Accounted, Removing
  <2>3. CASE DeleteDocument(t)
    BY <1>1, <2>3 DEF DeleteDocument, GhostInv, Accounted, Removing
  <2>4. CASE DeleteThrows(t)
    BY <1>1, <2>4 DEF DeleteThrows, GhostInv, Accounted, Removing
  <2>5. CASE RemoveByKeys(t)
    BY <1>1, <2>5 DEF RemoveByKeys, GhostInv, Accounted, Removing
  <2>6. CASE DeleteEdges(t)
    BY <1>1, <2>6 DEF DeleteEdges, GhostInv, Accounted, Removing
  <2>7. CASE Load(t)
    BY <1>1, <2>7 DEF Load, GhostInv, Accounted, Removing
  <2>8. CASE DeleteEdgesThrows(t)
    BY <1>1, <2>8 DEF DeleteEdgesThrows, GhostInv, Accounted, Removing
  <2> QED BY <1>1, <2>1, <2>2, <2>3, <2>4, <2>5, <2>6, <2>7, <2>8 DEF Begin
<1>2. ASSUME NEW t \in Threads, Continue(t) PROVE GhostInv'
  <2>1. CASE SaveCreate(t)
    BY <2>1 DEF SaveCreate, GhostInv, Accounted, Removing
  <2>2. CASE SaveUpdate(t)
    BY <2>2 DEF SaveUpdate, GhostInv, Accounted, Removing
  <2>3. CASE CreateRecord(t)
    BY <2>3 DEF CreateRecord, GhostInv, Accounted, Removing
  <2>4. CASE CreateThrows(t)
    BY <2>4 DEF CreateThrows, GhostInv, Accounted, Removing
  <2>5. CASE InsertKey(t)
    BY <2>5 DEF InsertKey, GhostInv, Accounted, Removing
  <2>6. CASE EraseKey(t)
    BY <2>6 DEF EraseKey, LockOwned, GhostInv, Accounted, Removing
  <2>7. CASE RemoveRecords(t)
    BY <2>7 DEF RemoveRecords, GhostInv, Accounted, Removing
  <2>8. CASE RemoveThrows(t)
    BY <2>8 DEF RemoveThrows, GhostInv, Accounted, Removing
  <2>9. CASE CloseCollection(t)
    BY <2>9, ClearGhostInv DEF CloseCollection
  <2>10. CASE LoadCollection(t)
    BY <2>10, ClearGhostInv DEF LoadCollection
  <2>11. CASE LoadThrows(t)
    BY <2>11, ClearGhostInv DEF LoadThrows
  <2> QED BY <1>2, <2>1, <2>2, <2>3, <2>4, <2>5, <2>6, <2>7, <2>8, <2>9, <2>10, <2>11
          DEF Continue
<1>3. ASSUME NEW l \in Loaders, Loading(l) PROVE GhostInv'
  <2>1. CASE LoadQuery(l)
    BY <2>1 DEF LoadQuery, GhostInv, Accounted, Removing
  <2>2. CASE LoadRecord(l)
    BY <2>2 DEF LoadRecord, GhostInv, Accounted, Removing
  <2>3. CASE LoadEnd(l)
    BY <2>3 DEF LoadEnd, GhostInv, Accounted, Removing
  <2> QED BY <1>3, <2>1, <2>2, <2>3 DEF Loading
<1>4. CASE UNCHANGED vars
  BY <1>4 DEF vars, GhostInv, Accounted, Removing
<1> QED BY <1>1, <1>2, <1>3, <1>4 DEF Next

\* The key list never names a document the server no longer has, except during
\* the removal of that document or after a deleteDocument, removeByKeys or
\* deleteEdges that reported failure and so did not reload: for every
\* interleaving of creations, removals, reloads and loader threads.
THEOREM NoGhosts == Spec => []NoGhostKeys
<1>1. Init => GhostInv
  BY DEF Init, GhostInv
<1>2. GhostInv => NoGhostKeys
  BY DEF GhostInv, Accounted, NoGhostKeys
<1> QED BY <1>1, <1>2, GhostInvStep, TypeCorrect, LockIsOwned, PTL DEF Spec

\* The strengthened invariant on its own, for the proofs below.
LEMMA GhostInvHolds == Spec => []GhostInv
<1>1. Init => GhostInv
  BY DEF Init, GhostInv
<1> QED BY <1>1, GhostInvStep, TypeCorrect, LockIsOwned, PTL DEF Spec

(***************************************************************************)
(* The list is complete when no load is pending, if the clients keep their *)
(* creations and their loads apart and the server answers every call.      *)
(*                                                                         *)
(* KeysListed says nothing of the states in between, so it is strengthened *)
(* by what holds there: the list is either empty or complete whenever no   *)
(* loader is filling it, and a loader that is filling it either started    *)
(* from an empty list, and what it has not added it still holds, or found  *)
(* a complete list, and the duplicate that stops it costs nothing.         *)
(***************************************************************************)
Filling   == \E l \in Loaders : loader[l] = "fill"
Complete  == server \subseteq keymap

ListedInv ==
  /\ Creating => ~LoadPending
  /\ ~LoadPending => server \subseteq keymap \cup Inserting
  /\ LoadPending /\ ~Filling => keymap = {} \/ Complete
  /\ \A l \in Loaders : loader[l] = "fill" =>
        Complete \/ (snap[l] \cap keymap = {} /\ server \subseteq keymap \cup snap[l])
  /\ \A t \in Threads : pc[t] = "erase" => arg[t] \cap server = {}

LEMMA ListedInvStep ==
  ASSUME LoadsExclusive, Faults = {}, TypeOK, LockOwned, ListedInv, [Next]_vars
  PROVE  ListedInv'
<1> USE DEF TypeOK, PCs, Call, Goto
<1> USE DEF ListedInv, Creating, LoadPending, Inserting, Filling, Complete
<1>1. ASSUME NEW t \in Threads, Begin(t) PROVE ListedInv'
  <2>1. CASE CreateDocument(t)
    BY <2>1 DEF CreateDocument, MayCreate
  <2>2. CASE SaveDocument(t)
    BY <2>2 DEF SaveDocument, MayCreate
  <2>3. CASE DeleteDocument(t)
    BY <2>3 DEF DeleteDocument
  <2>4. CASE DeleteThrows(t)
    BY <2>4 DEF DeleteThrows
  <2>5. CASE RemoveByKeys(t)
    BY <2>5 DEF RemoveByKeys, MayLoad
  <2>6. CASE DeleteEdges(t)
    BY <2>6 DEF DeleteEdges, MayLoad
  <2>7. CASE Load(t)
    BY <2>7 DEF Load, MayLoad
  <2>8. CASE DeleteEdgesThrows(t)
    BY <2>8 DEF DeleteEdgesThrows
  <2> QED BY <1>1, <2>1, <2>2, <2>3, <2>4, <2>5, <2>6, <2>7, <2>8 DEF Begin
<1>2. ASSUME NEW t \in Threads, Continue(t) PROVE ListedInv'
  <2>1. CASE SaveCreate(t)
    BY <2>1 DEF SaveCreate
  <2>2. CASE SaveUpdate(t)
    BY <2>2 DEF SaveUpdate
  <2>3. CASE CreateRecord(t)
    BY <2>3 DEF CreateRecord, LockOwned
  <2>4. CASE CreateThrows(t)
    BY <2>4 DEF CreateThrows
  <2>5. CASE InsertKey(t)
    BY <2>5 DEF InsertKey
  <2>6. CASE EraseKey(t)
    BY <2>6 DEF EraseKey, LockOwned
  <2>7. CASE RemoveRecords(t)
    BY <2>7 DEF RemoveRecords
  <2>8. CASE RemoveThrows(t)
    BY <2>8 DEF RemoveThrows
  <2>9. CASE CloseCollection(t)
    BY <2>9 DEF CloseCollection, ClearKeysMap, LockOwned
  <2>10. CASE LoadCollection(t)
    BY <2>10 DEF LoadCollection, ClearKeysMap, LockOwned
  <2>11. CASE LoadThrows(t)
    BY <2>11 DEF LoadThrows
  <2> QED BY <1>2, <2>1, <2>2, <2>3, <2>4, <2>5, <2>6, <2>7, <2>8, <2>9, <2>10, <2>11
          DEF Continue
<1>3. ASSUME NEW l \in Loaders, Loading(l) PROVE ListedInv'
  <2>1. CASE LoadQuery(l)
    BY <2>1 DEF LoadQuery, LockOwned
  <2>2. CASE LoadRecord(l)
    BY <2>2 DEF LoadRecord, LockOwned
  <2>3. CASE LoadEnd(l)
    BY <2>3 DEF LoadEnd, LockOwned
  <2> QED BY <1>3, <2>1, <2>2, <2>3 DEF Loading
<1>4. CASE UNCHANGED vars
  BY <1>4 DEF vars
<1> QED BY <1>1, <1>2, <1>3, <1>4 DEF Next

\* Every stored document is listed once no load is pending, provided that the
\* clients never overlap a creation with a load and no server call fails: both
\* provisos are needed (the race run drops the first).
THEOREM AllListed ==
  ASSUME LoadsExclusive, Faults = {}
  PROVE  Spec => []KeysListed
<1>1. Init => ListedInv
  BY DEF Init, ListedInv, Creating, LoadPending, Filling, Complete
<1>2. ListedInv => KeysListed
  BY DEF ListedInv, KeysListed
<1>3. TypeOK /\ LockOwned /\ ListedInv /\ [Next]_vars => ListedInv'
  BY ListedInvStep
<1> QED BY <1>1, <1>2, <1>3, TypeCorrect, LockIsOwned, PTL DEF Spec
(***************************************************************************)
(* Under the same provisos the collection implements KeyIndex              *)
(***************************************************************************)

\* What the mapping needs beside the other invariants: a creation about to list
\* its key has stored that one document, and no loader works on a list that
\* holds some but not all of the records it still has.
MapInv ==
  /\ \A t \in Threads : pc[t] = "insert" =>
        \E id \in server : id \notin keymap /\ arg[t] = {id}
  /\ \A l \in Loaders : snap[l] \subseteq keymap \/ snap[l] \cap keymap = {}
  /\ doubtful = {}

AllInv == TypeOK /\ LockOwned /\ GhostInv /\ ListedInv /\ MapInv

\* A key about to be stored by a disciplined creation is not listed.
LEMMA ListedIsStored ==
  ASSUME LoadsExclusive, AllInv, lock = Free, Creating
  PROVE  keymap \subseteq server
  BY DEF AllInv, LockOwned, GhostInv, Accounted, Removing, ListedInv, LoadPending, MapInv

LEMMA MapInvStep ==
  ASSUME LoadsExclusive, Faults = {}, AllInv, [Next]_vars
  PROVE  MapInv'
<1> USE DEF AllInv, TypeOK, PCs, Call, Goto, MapInv
<1>1. ASSUME NEW t \in Threads, Begin(t) PROVE MapInv'
  <2>1. CASE DeleteDocument(t)
    BY <2>1 DEF DeleteDocument, LockOwned
  <2>2. CASE DeleteEdges(t)
    BY <2>2 DEF DeleteEdges, MayLoad, Creating
  <2> QED BY <1>1, <2>1, <2>2
          DEF Begin, CreateDocument, SaveDocument, DeleteThrows, RemoveByKeys,
              DeleteEdgesThrows, Load
<1>2. ASSUME NEW t \in Threads, Continue(t) PROVE MapInv'
  <2>1. CASE CreateRecord(t)
    <3>1. keymap \subseteq server
      BY <2>1, ListedIsStored DEF CreateRecord, Creating
    <3> QED BY <2>1, <3>1 DEF CreateRecord, NewIds, LockOwned
  <2>2. CASE InsertKey(t)
    BY <2>2 DEF InsertKey, LockOwned, GhostInv
  <2>3. CASE EraseKey(t)
    BY <2>3 DEF EraseKey, LockOwned, GhostInv
  <2>4. CASE RemoveRecords(t)
    BY <2>4 DEF RemoveRecords, ListedInv, Creating, LoadPending
  <2>5. CASE CloseCollection(t)
    BY <2>5, FreeMeansQuiet DEF CloseCollection, ClearKeysMap
  <2>6. CASE LoadCollection(t)
    BY <2>6, FreeMeansQuiet DEF LoadCollection, ClearKeysMap
  <2> QED BY <1>2, <2>1, <2>2, <2>3, <2>4, <2>5, <2>6
          DEF Continue, SaveCreate, SaveUpdate, CreateThrows, RemoveThrows, LoadThrows
<1>3. ASSUME NEW l \in Loaders, Loading(l) PROVE MapInv'
  <2>1. CASE LoadQuery(l)
    <3>1. keymap = {} \/ server \subseteq keymap
      BY <2>1 DEF LoadQuery, LockOwned, ListedInv, LoadPending, Filling, Complete
    <3> QED BY <2>1, <3>1 DEF LoadQuery, LockOwned
  <2>2. CASE LoadRecord(l)
    BY <2>2 DEF LoadRecord, LockOwned, GhostInv
  <2>3. CASE LoadEnd(l)
    BY <2>3 DEF LoadEnd
  <2> QED BY <1>3, <2>1, <2>2, <2>3 DEF Loading
<1>4. CASE UNCHANGED vars
  BY <1>4 DEF vars
<1> QED BY <1>1, <1>2, <1>3, <1>4 DEF Next

\* A step of KeyIndex under the mapping, or a stutter.
IndexNext == \/ \E id \in Ids : Index!Create(id)
             \/ \E ids \in SUBSET Docs : Index!Remove(ids)
             \/ Index!Forget \/ Index!Load
             \/ UNCHANGED <<Docs, Known>>

LEMMA ClearMaps ==
  ASSUME AllInv, ClearKeysMap, UNCHANGED <<server, snap>>, Inserting' = Inserting
  PROVE  Index!Forget
  BY DEF ClearKeysMap, Index!Forget, Docs, Known

LEMMA MapStep ==
  ASSUME LoadsExclusive, Faults = {}, AllInv, [Next]_vars
  PROVE  IndexNext
<1> USE DEF AllInv, TypeOK, PCs, Call, Goto, MapInv, Docs, Known
<1>1. ASSUME NEW t \in Threads, Begin(t) PROVE IndexNext
  <2>1. CASE DeleteDocument(t)
    <3>1. PICK id \in keymap \cap server : Call(t, "erase", {id}) /\ server' = server \ {id}
      BY <2>1 DEF DeleteDocument
    <3>2. Inserting = {} /\ Inserting' = {} /\ ~Partial /\ ~Partial'
      BY <2>1, <3>1, FreeMeansQuiet DEF DeleteDocument, Inserting, Partial
    <3>3. Index!Remove({id}) /\ {id} \in SUBSET Docs
      BY <2>1, <3>1, <3>2 DEF DeleteDocument, Index!Remove, Inserting
    <3> QED BY <3>3 DEF IndexNext
  <2>2. CASE DeleteEdges(t)
    <3>1. PICK edges \in SUBSET server : Call(t, "close", edges) /\ server' = server \ edges
      BY <2>2 DEF DeleteEdges
    <3>2. Inserting = {} /\ Inserting' = {} /\ Partial' = Partial
      BY <2>2, <3>1 DEF DeleteEdges, MayLoad, Creating, Inserting, Partial
    <3>3. Index!Remove(edges) /\ edges \in SUBSET Docs
      BY <2>2, <3>1, <3>2 DEF DeleteEdges, Index!Remove, Inserting
    <3> QED BY <3>3 DEF IndexNext
  <2>3. CASE ~DeleteDocument(t) /\ ~DeleteEdges(t)
    <3>1. UNCHANGED <<server, keymap, snap>> /\ Inserting' = Inserting
      BY <1>1, <2>3 DEF Begin, CreateDocument, SaveDocument, DeleteThrows, RemoveByKeys,
                        DeleteEdgesThrows, Load, Inserting
    <3> QED BY <3>1 DEF IndexNext, Partial
  <2> QED BY <2>1, <2>2, <2>3
<1>2. ASSUME NEW t \in Threads, Continue(t) PROVE IndexNext
  <2>1. CASE CreateRecord(t)
    <3>1. PICK id \in NewIds(t) : server' = server \cup {id} /\ arg' = [arg EXCEPT ![t] = {id}]
      BY <2>1 DEF CreateRecord
    <3>2. id \notin server /\ id \notin keymap
      BY <2>1, <3>1, ListedIsStored DEF CreateRecord, NewIds, Creating
    <3>3. Inserting = {} /\ Inserting' = {id} /\ ~Partial /\ ~Partial'
      BY <2>1, <3>1, FreeMeansQuiet DEF CreateRecord, Inserting, Partial
    <3> QED BY <2>1, <3>1, <3>2, <3>3 DEF CreateRecord, IndexNext
  <2>2. CASE InsertKey(t)
    <3>1. PICK id \in server : id \notin keymap /\ arg[t] = {id}
      BY <2>2 DEF InsertKey
    <3>2. \A u \in Threads : pc[u] = "insert" => u = t
      BY <2>2 DEF InsertKey, LockOwned
    <3>3. Inserting = {id} /\ Inserting' = {}
      BY <2>2, <3>1, <3>2 DEF InsertKey, Inserting
    <3>4. ~Partial /\ ~Partial'
      BY <2>2 DEF InsertKey, LockOwned, GhostInv, Partial
    <3>5. server \subseteq keymap \cup {id}
      BY <2>2, <3>3 DEF InsertKey, ListedInv, Creating
    <3>6. Index!Create(id)
      BY <2>2, <3>1, <3>3, <3>4, <3>5 DEF InsertKey, Index!Create, Inserting
    <3> QED BY <3>1, <3>6 DEF IndexNext
  <2>3. CASE EraseKey(t)
    <3>1. Inserting = {} /\ Inserting' = {} /\ ~Partial /\ ~Partial'
      BY <2>3 DEF EraseKey, LockOwned, GhostInv, Inserting, Partial
    <3> QED BY <2>3, <3>1 DEF EraseKey, ListedInv, IndexNext
  <2>4. CASE RemoveRecords(t)
    <3>1. Inserting = {} /\ Inserting' = {} /\ Partial' = Partial
      BY <2>4 DEF RemoveRecords, ListedInv, Creating, LoadPending, Inserting, Partial
    <3>2. /\ Index!Remove(arg[t] \cap server)
          /\ arg[t] \cap server \in SUBSET Docs
      BY <2>4, <3>1 DEF RemoveRecords, Index!Remove, Inserting
    <3> QED BY <3>2 DEF IndexNext
  <2>5. CASE CloseCollection(t)
    <3>1. Inserting' = Inserting
      BY <2>5 DEF CloseCollection, Inserting
    <3> QED BY <2>5, <3>1, ClearMaps DEF CloseCollection, IndexNext
  <2>6. CASE LoadCollection(t)
    <3>1. Inserting' = Inserting
      BY <2>6 DEF LoadCollection, Inserting
    <3> QED BY <2>6, <3>1, ClearMaps DEF LoadCollection, IndexNext
  <2>7. CASE SaveCreate(t) \/ SaveUpdate(t) \/ CreateThrows(t)
    <3>1. UNCHANGED <<server, keymap, snap>> /\ Inserting' = Inserting
      BY <2>7 DEF SaveCreate, SaveUpdate, CreateThrows, Inserting
    <3> QED BY <3>1 DEF IndexNext, Partial
  <2>8. ~RemoveThrows(t) /\ ~LoadThrows(t)
    BY DEF RemoveThrows, LoadThrows
  <2> QED BY <1>2, <2>1, <2>2, <2>3, <2>4, <2>5, <2>6, <2>7, <2>8 DEF Continue
<1>3. ASSUME NEW l \in Loaders, Loading(l) PROVE IndexNext
  <2>1. UNCHANGED server /\ Inserting' = Inserting
    BY <1>3 DEF Loading, LoadQuery, LoadRecord, LoadEnd, Inserting
  <2>2. \A k \in Loaders : k # l => snap[k] = {} /\ snap'[k] = {}
    BY <1>3 DEF Loading, LoadQuery, LoadRecord, LoadEnd, LockOwned, GhostInv
  <2>3. CASE LoadQuery(l)
    <3>1. keymap = {} \/ server \subseteq keymap
      BY <2>3 DEF LoadQuery, LockOwned, ListedInv, LoadPending, Filling, Complete
    <3>2. ~Partial /\ snap'[l] = server
      BY <2>3, FreeMeansQuiet DEF LoadQuery, Partial
    <3>3. Known' = Known
      BY <2>2, <2>3, <3>1, <3>2 DEF LoadQuery, Partial
    <3> QED BY <2>1, <3>3 DEF IndexNext
  <2>4. CASE LoadRecord(l)
    <3>1. PICK id \in snap[l] \ keymap : /\ keymap' = keymap \cup {id}
                                        /\ snap' = [snap EXCEPT ![l] = @ \ {id}]
      BY <2>4 DEF LoadRecord
    <3>2. snap[l] \cap keymap = {} /\ Partial
      BY <3>1 DEF Partial
    <3>3. Inserting = {} /\ server \subseteq keymap \cup snap[l]
      BY <2>4 DEF LoadRecord, LockOwned, ListedInv, Inserting, Complete
    <3>4. CASE snap'[l] = {}
      <4>1. ~Partial' /\ server \subseteq keymap'
        BY <2>2, <3>1, <3>3, <3>4 DEF Partial
      <4>2. Index!Load
        BY <2>1, <3>3, <4>1 DEF Index!Load, Inserting
      <4> QED BY <4>2 DEF IndexNext
    <3>5. CASE snap'[l] # {}
      <4>1. snap'[l] \cap keymap' = {}
        BY <3>1, <3>2
      <4>2. Partial'
        BY <3>5, <4>1 DEF Partial
      <4> QED BY <2>1, <3>2, <4>2 DEF IndexNext
    <3> QED BY <3>4, <3>5
  <2>5. CASE LoadEnd(l)
    <3>1. ~Partial /\ ~Partial'
      BY <2>2, <2>5 DEF LoadEnd, Partial
    <3> QED BY <2>1, <2>5, <3>1 DEF LoadEnd, IndexNext
  <2> QED BY <1>3, <2>3, <2>4, <2>5 DEF Loading
<1>4. CASE UNCHANGED vars
  BY <1>4 DEF vars, IndexNext, Inserting, Partial
<1> QED BY <1>1, <1>2, <1>3, <1>4 DEF Next

\* Provided that the clients never overlap a creation with a load and that no
\* server call fails, the collection implements KeyIndex: its key list is always
\* nothing or all of what is stored, for any number of clients and loaders.
THEOREM CollectionImplementsKeyIndex ==
  ASSUME LoadsExclusive, Faults = {}
  PROVE  Spec => ImplementsKeyIndex
<1>1. Init => Index!Init
  BY DEF Init, Index!Init, Docs, Known, Inserting
<1>2. Init => ListedInv /\ MapInv
  BY DEF Init, ListedInv, Creating, LoadPending, Filling, Complete, MapInv
<1>3. TypeOK /\ LockOwned /\ ListedInv /\ [Next]_vars => ListedInv'
  BY ListedInvStep
<1>4. TypeOK /\ LockOwned /\ GhostInv /\ ListedInv /\ MapInv /\ [Next]_vars => MapInv'
  BY MapInvStep DEF AllInv
<1>5. AllInv /\ [Next]_vars => [Index!Next]_<<Docs, Known>>
  BY MapStep DEF IndexNext, Index!Next
<1>6. Spec => []AllInv
  BY <1>2, <1>3, <1>4, TypeCorrect, LockIsOwned, GhostInvHolds, PTL DEF Spec, AllInv
<1>7. Spec => Index!Init /\ [][Index!Next]_<<Docs, Known>>
  BY <1>1, <1>5, <1>6, PTL DEF Spec
<1> QED BY <1>7 DEF ImplementsKeyIndex, Index!Spec
=============================================================================
