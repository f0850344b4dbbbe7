--------------------------- MODULE DataBaseProofs ---------------------------
(***************************************************************************)
(* Proofs about DataBase, for any sets of names, objects, clients and      *)
(* drivers and any number of calls, with a server that may fail anywhere.  *)
(***************************************************************************)
EXTENDS DataBase, TLAPS

USE NilAssumption, LockAssumption, FlagAssumption, CallsAssumption, NamesAssumption

(***************************************************************************)
(* Type correctness                                                        *)
(*                                                                         *)
(* TypeOK is not inductive: the count of loaders goes down only because a  *)
(* loader that has the lock is one of them, and a key comes from a driver  *)
(* only because whoever has the lock has asked for one.                    *)
(***************************************************************************)
LockInv ==
  /\ \A t \in Threads : pc[t] = "insert" => obj[t] \in Objects /\ lock[obj[t]] = t
  /\ \A t \in Threads : pc[t] \in {"publish", "load"} => obj[t] \in Objects
  /\ \A o \in Objects : lock[o] # Nil => using[o] \in Drivers
  /\ \A o \in Objects : lock[o] = Loader => loading[o] > 0

LEMMA InitTypes == Init => TypeOK /\ LockInv
<1> SUFFICES ASSUME Init PROVE TypeOK /\ LockInv
  OBVIOUS
<1>1. (CHOOSE n \in Names : TRUE) \in Names
  OBVIOUS
<1>2. TypeOK
  <2>1. name \in [Threads -> Names]
    BY <1>1 DEF Init
  <2>2. reported \in BOOLEAN
    BY DEF Init
  <2> QED BY <2>1, <2>2 DEF Init, TypeOK
<1>3. LockInv
  BY DEF Init, LockInv
<1> QED BY <1>2, <1>3

\* A client's call keeps every type.
LEMMA BeginTypes ==
  ASSUME TypeOK, LockInv, NEW t \in Threads, Begin(t)
  PROVE  TypeOK' /\ LockInv'
<1> USE DEF TypeOK, LockInv, Call, Goto, object
<1>1. CASE Collection(t)
  <2>1. PICK n \in Names : IF listed[n] # Nil
                           THEN /\ Call(t, "idle")
                                /\ held' = [held EXCEPT ![t] = @ \cup {listed[n]}]
                                /\ UNCHANGED name
                           ELSE /\ Call(t, "open")
                                /\ name' = [name EXCEPT ![t] = n]
                                /\ UNCHANGED held
    BY <1>1 DEF Collection
  <2> QED BY <1>1, <2>1 DEF Collection
<1>2. CASE Release(t)         BY <1>2 DEF Release, Destroy
<1>3. CASE UpdateDriver(t)
  <2>1. TypeOK'
    <3>1. reported' \in BOOLEAN
      BY <1>3 DEF UpdateDriver
    <3> QED BY <1>3, <3>1 DEF UpdateDriver
  <2>2. LockInv'
    BY <1>3 DEF UpdateDriver
  <2> QED BY <2>1, <2>2
<1>4. CASE Reload(t)          BY <1>4 DEF Reload
<1>5. CASE CreateDocument(t)  BY <1>5 DEF CreateDocument, Enter
<1> QED BY <1>1, <1>2, <1>3, <1>4, <1>5 DEF Begin

\* The steps of an opening, a switch, a reload and a creation keep every type.
LEMMA ContinueTypes ==
  ASSUME TypeOK, LockInv, NEW t \in Threads, Continue(t)
  PROVE  TypeOK' /\ LockInv'
<1> USE DEF TypeOK, LockInv, Goto, object
<1>1. CASE Construct(t)         BY <1>1 DEF Construct
<1>2. CASE Publish(t)           BY <1>2 DEF Publish, Destroy
<1>3. CASE ShareCollections(t)  BY <1>3 DEF ShareCollections
<1>4. CASE Close(t)             BY <1>4 DEF Close, ClearKeys
<1>5. CASE Reloaded(t)          BY <1>5 DEF Reloaded
<1>6. CASE Load(t)              BY <1>6 DEF Load, ClearKeys
<1>7. CASE LoadThrows(t)        BY <1>7 DEF LoadThrows, ClearKeys
<1>8. CASE InsertKey(t)         BY <1>8 DEF InsertKey, Leave
<1> QED BY <1>1, <1>2, <1>3, <1>4, <1>5, <1>6, <1>7, <1>8 DEF Continue

LEMMA TypesStep ==
  ASSUME TypeOK, LockInv, [Next]_vars
  PROVE  TypeOK' /\ LockInv'
<1> USE DEF TypeOK, LockInv
<1>1. ASSUME NEW o \in Objects, Loading(o) PROVE TypeOK' /\ LockInv'
  <2>1. CASE LoadQuery(o)  BY <2>1 DEF LoadQuery, Enter, client
  <2>2. CASE LoadEnd(o)    BY <2>2 DEF LoadEnd, Leave, client
  <2> QED BY <1>1, <2>1, <2>2 DEF Loading
<1>2. CASE DestroyDataBase
  BY <1>2 DEF DestroyDataBase, Destroy, client
<1>3. CASE UNCHANGED vars
  BY <1>3 DEF vars, object, client
<1> QED BY <1>1, <1>2, <1>3, BeginTypes, ContinueTypes DEF Next

LEMMA TypesHold == Spec => [](TypeOK /\ LockInv)
<1>1. TypeOK /\ LockInv /\ [Next]_vars => (TypeOK /\ LockInv)'
  BY TypesStep
<1> QED BY <1>1, InitTypes, PTL DEF Spec

\* Every variable has its type in every reachable state, with no discipline.
THEOREM TypeCorrect == Spec => []TypeOK
  BY TypesHold, PTL

(***************************************************************************)
(* Who knows an object                                                     *)
(*                                                                         *)
(* A switch reloads what is listed, so that a collection somebody holds    *)
(* must be the listed one.  Clients keep the openings of a name apart: no  *)
(* object that is listed takes the place of another.                       *)
(***************************************************************************)
OneObject == \A t \in Threads : held[t] \subseteq {listed[n] : n \in Names}

Openings ==
  \A t \in Threads : pc[t] \in {"open", "publish"} =>
    /\ listed[name[t]] = Nil
    /\ \A s \in Threads \ {t} : pc[s] \in {"open", "publish"} => name[s] # name[t]

\* Whatever a list or a call has in hand is live, and what is live is listed or
\* about to be.
HandsLive ==
  /\ \A n \in Names : listed[n] # Nil => listed[n] \in live
  /\ \A t \in Threads : pc[t] \in {"publish", "load"} => obj[t] \in live
  /\ \A t \in Threads : todo[t] \subseteq live
  /\ \A t \in Threads : pc[t] \notin {"close", "load"} => todo[t] = {}

LiveKnown ==
  \A o \in live : \/ \E n \in Names : listed[n] = o
                  \/ \E t \in Threads : pc[t] = "publish" /\ obj[t] = o

ObjectInv == Openings /\ OneObject /\ HandsLive /\ LiveKnown

LEMMA InitObjectInv == Init => ObjectInv
  BY DEF Init, ObjectInv, Openings, OneObject, HandsLive, LiveKnown

LEMMA BeginObjectInv ==
  ASSUME OpensExclusive, TypeOK, LockInv, ObjectInv, NEW t \in Threads, Begin(t)
  PROVE  ObjectInv'
<1> USE DEF TypeOK, ObjectInv, Openings, OneObject, HandsLive, LiveKnown, Call, Goto, object
<1>1. CASE Collection(t)
  <2>1. PICK n \in Names : IF listed[n] # Nil
                           THEN /\ Call(t, "idle")
                                /\ held' = [held EXCEPT ![t] = @ \cup {listed[n]}]
                                /\ UNCHANGED name
                           ELSE /\ MayOpen(n)
                                /\ Call(t, "open")
                                /\ name' = [name EXCEPT ![t] = n]
                                /\ UNCHANGED held
    BY <1>1 DEF Collection
  <2>2. UNCHANGED <<listed, live, obj, todo>>
    BY <1>1 DEF Collection
  <2>3. CASE listed[n] # Nil
    BY <2>1, <2>2, <2>3
  <2>4. CASE listed[n] = Nil
    <3>1. \A s \in Threads : pc[s] \in {"open", "publish"} => name[s] # n
      BY <2>1, <2>4 DEF MayOpen, Opening
    <3> QED BY <2>1, <2>2, <2>4, <3>1
  <2> QED BY <2>3, <2>4
<1>2. CASE Release(t)
  <2>1. UNCHANGED <<listed, pc, name, obj, todo>>
    BY <1>2 DEF Release
  <2>2. live' = live
    BY <1>2 DEF Release, Destroy
  <2>3. \A s \in Threads : held'[s] \subseteq held[s]
    BY <1>2 DEF Release
  <2> QED BY <2>1, <2>2, <2>3
<1>3. CASE UpdateDriver(t)    BY <1>3 DEF UpdateDriver
<1>4. CASE Reload(t)
  <2>1. PICK o \in held[t] : todo' = [todo EXCEPT ![t] = {o}]
    BY <1>4 DEF Reload
  <2>2. o \in live
    BY NilAssumption
  <2> QED BY <1>4, <2>1, <2>2 DEF Reload
<1>5. CASE CreateDocument(t)  BY <1>5 DEF CreateDocument
<1> QED BY <1>1, <1>2, <1>3, <1>4, <1>5 DEF Begin

LEMMA ContinueObjectInv ==
  ASSUME OpensExclusive, TypeOK, LockInv, ObjectInv, NEW t \in Threads, Continue(t)
  PROVE  ObjectInv'
<1> USE DEF TypeOK, ObjectInv, Openings, OneObject, HandsLive, LiveKnown, Goto, object
<1>1. CASE Construct(t)         BY <1>1 DEF Construct
<1>2. CASE Publish(t)
  <2>1. listed[name[t]] = Nil /\ obj[t] \in Objects /\ obj[t] \in live
    BY <1>2 DEF Publish, LockInv
  <2>2. /\ listed' = [listed EXCEPT ![name[t]] = obj[t]]
        /\ held' = [held EXCEPT ![t] = @ \cup {obj[t]}]
        /\ obj' = [obj EXCEPT ![t] = Nil]
        /\ pc' = [pc EXCEPT ![t] = "idle"]
        /\ UNCHANGED <<name, todo>>
    BY <1>2 DEF Publish
  <2>3. live' = live
    BY <1>2, <2>1 DEF Publish, Destroy
  <2>4. name[t] \in Names
    OBVIOUS
  <2>5. Openings' /\ HandsLive'
    BY <1>2, <2>1, <2>2, <2>3 DEF Publish
  <2>6. OneObject'
    BY <2>1, <2>2, <2>4
  <2>7. LiveKnown'
    BY <2>1, <2>2, <2>3, <2>4
  <2> QED BY <2>5, <2>6, <2>7
<1>3. CASE ShareCollections(t)  BY <1>3 DEF ShareCollections
<1>4. CASE Close(t)             BY <1>4 DEF Close
<1>5. CASE Reloaded(t)          BY <1>5 DEF Reloaded
<1>6. CASE Load(t)              BY <1>6 DEF Load
<1>7. CASE LoadThrows(t)        BY <1>7 DEF LoadThrows
<1>8. CASE InsertKey(t)         BY <1>8 DEF InsertKey
<1> QED BY <1>1, <1>2, <1>3, <1>4, <1>5, <1>6, <1>7, <1>8 DEF Continue

LEMMA ObjectInvStep ==
  ASSUME OpensExclusive, TypeOK, LockInv, ObjectInv, [Next]_vars
  PROVE  ObjectInv'
<1> USE DEF ObjectInv, Openings, OneObject, HandsLive, LiveKnown
<1>1. ASSUME NEW o \in Objects, Loading(o) PROVE ObjectInv'
  BY <1>1 DEF Loading, LoadQuery, LoadEnd, client
<1>2. CASE DestroyDataBase
  BY <1>2 DEF DestroyDataBase, Destroy, client
<1>3. CASE UNCHANGED vars
  BY <1>3 DEF vars, object, client
<1> QED BY <1>1, <1>2, <1>3, BeginObjectInv, ContinueObjectInv DEF Next

LEMMA ObjectInvHolds ==
  ASSUME OpensExclusive
  PROVE  Spec => [](TypeOK /\ LockInv /\ ObjectInv)
<1>1. TypeOK /\ LockInv /\ ObjectInv /\ [Next]_vars => ObjectInv'
  BY ObjectInvStep
<1> QED BY <1>1, InitObjectInv, TypesHold, PTL DEF Spec

(***************************************************************************)
(* Whose keys an object has                                                *)
(***************************************************************************)
DeadEmpty == \A o \in Objects \ live : keys[o] = {} /\ lock[o] = Nil

\* The keys an object has, and is about to get, come from the driver in use.
Clean(o) == keys[o] \subseteq {driver} /\ (lock[o] # Nil => using[o] = driver)

\* An updateDriver has yet to reload the object.
ToReload(o) == \E t \in Threads : pc[t] = "switch" \/ (t \in readers /\ o \in todo[t])

KeysInv == reported \/ \A o \in live : Clean(o) \/ ToReload(o)

SwitchInv == Switching => \A n \in Names : ~Opening(n)

LEMMA BeginKeysInv ==
  ASSUME SwitchExclusive, TypeOK, LockInv, ObjectInv, DeadEmpty, KeysInv, SwitchInv,
         NEW t \in Threads, Begin(t)
  PROVE  DeadEmpty' /\ KeysInv' /\ SwitchInv'
<1> USE DEF TypeOK, DeadEmpty, KeysInv, Clean, ToReload, SwitchInv, Switching, Opening,
            Call, Goto, object
<1>1. CASE Collection(t)
  BY <1>1 DEF Collection, MayOpen
<1>2. CASE Release(t)
  <2>1. live' = live /\ keys' = keys
    BY <1>2 DEF Release, Destroy, ObjectInv, OneObject
  <2> QED BY <1>2, <2>1 DEF Release, Destroy
<1>3. CASE UpdateDriver(t)
  BY <1>3 DEF UpdateDriver, MaySwitch
<1>4. CASE Reload(t)
  BY <1>4 DEF Reload, ObjectInv, HandsLive
<1>5. CASE CreateDocument(t)
  <2>1. PICK o \in held[t] : Enter(o, t)
    BY <1>5 DEF CreateDocument
  <2>2. o \in live
    BY NilAssumption DEF ObjectInv, OneObject, HandsLive
  <2> QED BY <1>5, <2>1, <2>2 DEF CreateDocument, Enter
<1> QED BY <1>1, <1>2, <1>3, <1>4, <1>5 DEF Begin

LEMMA ContinueKeysInv ==
  ASSUME SwitchExclusive, TypeOK, LockInv, ObjectInv, DeadEmpty, KeysInv, SwitchInv,
         NEW t \in Threads, Continue(t)
  PROVE  DeadEmpty' /\ KeysInv' /\ SwitchInv'
<1> USE DEF TypeOK, DeadEmpty, KeysInv, Clean, ToReload, SwitchInv, Switching, Opening,
            Goto, object
<1>1. CASE Construct(t)
  BY <1>1 DEF Construct
<1>2. CASE Publish(t)
  BY <1>2 DEF Publish, Destroy, ObjectInv, Openings
<1>3. CASE ShareCollections(t)
  BY <1>3 DEF ShareCollections, ObjectInv, LiveKnown
<1>4. CASE Close(t)
  BY <1>4 DEF Close, ClearKeys
<1>5. CASE Reloaded(t)
  BY <1>5 DEF Reloaded
<1>6. CASE Load(t)
  BY <1>6 DEF Load, ClearKeys
<1>7. CASE LoadThrows(t)
  <2>1. DeadEmpty' /\ SwitchInv'
    BY <1>7 DEF LoadThrows, ClearKeys
  <2>2. CASE t \in readers
    <3>1. reported'
      BY <1>7, <2>2 DEF LoadThrows
    <3> QED BY <2>1, <3>1
  <2>3. CASE t \notin readers
    <3>1. reported' = reported
      BY <1>7, <2>3 DEF LoadThrows
    <3>2. ~reported => KeysInv'
      BY <1>7, <2>3 DEF LoadThrows, ClearKeys
    <3> QED BY <2>1, <3>1, <3>2
  <2> QED BY <2>2, <2>3
<1>8. CASE InsertKey(t)
  BY <1>8 DEF InsertKey, Leave, LockInv
<1> QED BY <1>1, <1>2, <1>3, <1>4, <1>5, <1>6, <1>7, <1>8 DEF Continue

LEMMA KeysInvStep ==
  ASSUME SwitchExclusive, TypeOK, LockInv, ObjectInv, DeadEmpty, KeysInv, SwitchInv, [Next]_vars
  PROVE  DeadEmpty' /\ KeysInv' /\ SwitchInv'
<1> USE DEF TypeOK, DeadEmpty, KeysInv, Clean, ToReload, SwitchInv, Switching, Opening
<1>1. ASSUME NEW o \in Objects, Loading(o) PROVE DeadEmpty' /\ KeysInv' /\ SwitchInv'
  BY <1>1 DEF Loading, LoadQuery, LoadEnd, Enter, Leave, LockInv, client
<1>2. CASE DestroyDataBase
  BY <1>2 DEF DestroyDataBase, Destroy, client
<1>3. CASE UNCHANGED vars
  BY <1>3 DEF vars, object, client
<1> QED BY <1>1, <1>2, <1>3, BeginKeysInv, ContinueKeysInv DEF Next

\* If clients keep openings apart from each other and from switches, the key lists
\* name documents of the database in use only, once every updateDriver has returned
\* and none of them threw: loads and creations begun before it leave nothing behind.
THEOREM OwnKeysOnly ==
  ASSUME OpensExclusive, SwitchExclusive
  PROVE  Spec => []NoForeignKeys
<1>1. Init => DeadEmpty /\ KeysInv /\ SwitchInv
  BY DEF Init, DeadEmpty, KeysInv, SwitchInv, Switching
<1>2. TypeOK /\ LockInv /\ ObjectInv /\ (DeadEmpty /\ KeysInv /\ SwitchInv) /\ [Next]_vars
        => (DeadEmpty /\ KeysInv /\ SwitchInv)'
  BY KeysInvStep
<1>3. KeysInv => NoForeignKeys
  BY DEF KeysInv, Clean, ToReload, NoForeignKeys, Switching
<1> QED BY <1>1, <1>2, <1>3, ObjectInvHolds, PTL DEF Spec
=============================================================================
