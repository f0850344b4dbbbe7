--------------------------- MODULE QueryViewProofs ---------------------------
(***************************************************************************)
(* Proofs about the query tables, for any documents, records, contents and *)
(* queries, any number of calls and of rebuilds pending, and calls that    *)
(* fail before, after or amid their work: no line is stale once everything *)
(* about it is over, unless a failing call kept its change from the table, *)
(* and clients see their own writes.                                       *)
(***************************************************************************)
EXTENDS QueryView, TLAPS

USE ValsAssumption, QueryAssumption, BoundAssumption, FlagAssumption

(***************************************************************************)
(* Type correctness                                                        *)
(***************************************************************************)
\* The table OwnLine leaves.
OwnTable(d) ==
  [id \in Ids |-> IF id \in SetLines(d) THEN val[d] ELSE table[d][id]]

LEMMA OwnLineTable ==
  ASSUME NEW d \in Docs, OwnLine(d)
  PROVE  IF query[d] = NoQuery THEN UNCHANGED <<table, wrote, untold>>
         ELSE /\ table' = [table EXCEPT ![d] = OwnTable(d)]
              /\ wrote' = [wrote EXCEPT ![d] = IF val[d] = None THEN @ ELSE @ \cup key[d]]
              /\ untold' = [untold EXCEPT ![d] = @ \ SetLines(d)]
  BY DEF OwnLine, OwnTable

\* What a rebuild finds of the records in got.
Selected(d, got) ==
  [id \in Ids |-> IF id \in got /\ store[id] \in query[d] THEN store[id] ELSE None]

\* The table and the history a rebuild leaves: what the query selects, or a part
\* of it, if there is a document with a query, else what was there.
LEMMA RebuiltTable ==
  ASSUME NEW d \in Docs, UpdateQueryThread(d)
  PROVE  \/ (d \notin open \/ query[d] = NoQuery) /\ UNCHANGED <<table, wrote, untold>>
         \/ /\ d \in open /\ query[d] # NoQuery
            /\ \E got : table' = [table EXCEPT ![d] = Selected(d, got)]
            /\ wrote' = [wrote EXCEPT ![d] = {}]
            /\ untold' = [untold EXCEPT ![d] = {}]
  BY DEF UpdateQueryThread, Selected

\* One step of a document or its client keeps every type.
LEMMA StepTypeOK ==
  ASSUME TypeOK, NEW d \in Docs, Step(d)
  PROVE  TypeOK'
<1> USE DEF TypeOK, Call, Goto, Change, Untell, Emptied, Lines, NoLines
<1>1. CASE CreateDocument(d)     BY <1>1 DEF CreateDocument
<1>2. CASE UpdateDocument(d)     BY <1>2 DEF UpdateDocument
<1>3. CASE DeleteDocument(d)     BY <1>3 DEF DeleteDocument
<1>4. CASE NotifyBegin(d)        BY <1>4 DEF NotifyBegin
<1>5. CASE Notify(d)             BY <1>5 DEF Notify, Overwritten
<1>6. CASE OwnLine(d)
  <2>1. /\ table' \in [Docs -> Lines]
        /\ wrote' \in [Docs -> SUBSET Ids] /\ untold' \in [Docs -> SUBSET Ids]
    <3>1. OwnTable(d) \in Lines
      BY DEF OwnTable
    <3>2. CASE query[d] = NoQuery
      <4>1. UNCHANGED <<table, wrote, untold>>
        BY <1>6, <3>2, OwnLineTable
      <4> QED BY <4>1
    <3>3. CASE query[d] # NoQuery
      <4>1. /\ table' = [table EXCEPT ![d] = OwnTable(d)]
            /\ wrote' = [wrote EXCEPT ![d] = IF val[d] = None THEN @ ELSE @ \cup key[d]]
            /\ untold' = [untold EXCEPT ![d] = @ \ SetLines(d)]
        BY <1>6, <3>3, OwnLineTable
      <4>2. table' \in [Docs -> Lines]
        BY <3>1, <4>1
      <4>3. wrote' \in [Docs -> SUBSET Ids] /\ untold' \in [Docs -> SUBSET Ids]
        BY <4>1
      <4> QED BY <4>2, <4>3
    <3> QED BY <3>2, <3>3
  <2> QED BY <1>6, <2>1 DEF OwnLine
<1>7. CASE UpdateQuery(d)        BY <1>7 DEF UpdateQuery
<1>8. CASE SetQuery(d)           BY <1>8 DEF SetQuery
<1>9. CASE RemoveByKeys(d)       BY <1>9 DEF RemoveByKeys
<1>10. CASE Reload(d)            BY <1>10 DEF Reload
<1>11. CASE UpdateQueryThread(d)
  <2>1. crashed' \in BOOLEAN
    BY <1>11 DEF UpdateQueryThread
  <2>2. /\ table' \in [Docs -> Lines]
        /\ wrote' \in [Docs -> SUBSET Ids] /\ untold' \in [Docs -> SUBSET Ids]
    <3>1. CASE UNCHANGED <<table, wrote, untold>>
      BY <3>1
    <3>2. ASSUME NEW got, table' = [table EXCEPT ![d] = Selected(d, got)],
                 wrote' = [wrote EXCEPT ![d] = {}], untold' = [untold EXCEPT ![d] = {}]
          PROVE  /\ table' \in [Docs -> Lines]
                 /\ wrote' \in [Docs -> SUBSET Ids] /\ untold' \in [Docs -> SUBSET Ids]
      BY <3>2 DEF Selected
    <3> QED BY <1>11, <3>1, <3>2, RebuiltTable
  <2>3. /\ pending' \in [Docs -> 0 .. MaxPending]
        /\ UNCHANGED <<store, open, query, pc, key, val, todo, starting, isupdate, calls>>
    BY <1>11 DEF UpdateQueryThread
  <2> QED BY <2>1, <2>2, <2>3
<1>12. CASE ResetSchema(d)       BY <1>12 DEF ResetSchema
<1>13. CASE Close(d)             BY <1>13 DEF Close
<1>14. CASE Open(d)              BY <1>14 DEF Open
<1>15. CASE ChangeLost(d)        BY <1>15 DEF ChangeLost
<1>16. CASE RemoveThrows(d)      BY <1>16 DEF RemoveThrows
<1>17. CASE TestQuery(d)         BY <1>17 DEF TestQuery
<1>18. CASE StartRebuild(d)
  <2>1. PICK e \in starting[d] :
          /\ starting' = [starting EXCEPT ![d] = @ \ {e}]
          /\ IF query[e] = NoQuery
             THEN crashed' = TRUE /\ UNCHANGED pending
             ELSE /\ pending[e] < MaxPending
                  /\ pending' = [pending EXCEPT ![e] = @ + 1]
                  /\ UNCHANGED crashed
    BY <1>18 DEF StartRebuild
  <2>2. crashed' \in BOOLEAN
    BY <2>1
  <2>3. pending' \in [Docs -> 0 .. MaxPending]
    <3>1. CASE query[e] = NoQuery
      BY <2>1, <3>1
    <3>2. CASE query[e] # NoQuery
      <4>1. pending[e] \in 0 .. MaxPending /\ pending[e] < MaxPending /\ MaxPending \in Nat
        BY <2>1, <3>2
      <4>2. pending[e] + 1 \in 0 .. MaxPending
        BY <4>1
      <4>3. e \in Docs /\ pending' = [pending EXCEPT ![e] = pending[e] + 1]
        BY <2>1, <3>2
      <4> HIDE DEF TypeOK
      <4>4. pending \in [Docs -> 0 .. MaxPending]
        BY DEF TypeOK
      <4> QED BY <4>2, <4>3, <4>4
    <3> QED BY <3>1, <3>2
  <2>4. starting' \in [Docs -> SUBSET Docs]
    BY <2>1
  <2> QED BY <1>18, <2>2, <2>3, <2>4 DEF StartRebuild
<1>19. CASE ReloadEnd(d)         BY <1>19 DEF ReloadEnd
<1>20. CASE ReloadThrows(d)
  <2>1. untold' \in [Docs -> SUBSET Ids]
    <3>1. CASE Untell(open, key[d])
      BY <3>1
    <3>2. CASE Untell(todo[d], key[d])
      BY <3>2
    <3> QED BY <1>20, <3>1, <3>2 DEF ReloadThrows
  <2> QED BY <1>20, <2>1 DEF ReloadThrows
<1> QED BY <1>1, <1>2, <1>3, <1>4, <1>5, <1>6, <1>7, <1>8, <1>9, <1>10, <1>11, <1>12,
           <1>13, <1>14, <1>15, <1>16, <1>17, <1>18, <1>19, <1>20 DEF Step

\* Every variable has its type in every reachable state, with no discipline.
THEOREM TypeCorrect == Spec => []TypeOK
<1>1. ASSUME Init PROVE TypeOK
  <2>1. crashed \in BOOLEAN /\ isupdate \in [Docs -> BOOLEAN]
    BY <1>1 DEF Init
  <2> QED BY <1>1, <2>1 DEF Init, TypeOK, Lines, NoLines
<1>2. TypeOK /\ [Next]_vars => TypeOK'
  <2> SUFFICES ASSUME TypeOK, [Next]_vars PROVE TypeOK'
    OBVIOUS
  <2>1. CASE UNCHANGED vars
    BY <2>1 DEF vars, TypeOK
  <2> QED BY <2>1, StepTypeOK DEF Next
<1> QED BY <1>1, <1>2, PTL DEF Spec

(***************************************************************************)
(* Stale lines                                                             *)
(*                                                                         *)
(* NoStaleLines is not inductive: it says nothing of a line while a call   *)
(* or a rebuild is on its way to it.  LinesInv says that a line that does  *)
(* not show what is stored has someone who will put it right (a rebuild, a *)
(* reload, or a call whose notifications have not come to it yet), or is   *)
(* one that a failing call kept its change from.  A call puts it right     *)
(* because, clients keeping apart, what it tells is what is stored.        *)
(***************************************************************************)
KeysApart ==
  \A d, e \in Docs : d # e /\ pc[d] # "idle" /\ pc[e] # "idle" => key[d] \cap key[e] = {}

TellsStored ==
  \A d \in Docs : pc[d] \in {"loop", "notify", "own"} =>
    \A id \in key[d] : store[id] = val[d]

LinesOfQueries ==
  \A d \in Docs : /\ d \notin open => query[d] = NoQuery
                  /\ query[d] = NoQuery => table[d] = NoLines

WillTell(e, d) ==
  \/ pc[e] \in {"loop", "reload"}
  \/ pc[e] = "notify" /\ d \in todo[e]
  \/ pc[e] = "rebuild" /\ d \in todo[e] \cup starting[e]
  \/ pc[e] = "own" /\ e = d /\ (isupdate[e] \/ val[e] = None)

Stale(d, id) == table[d][id] \notin {None, store[id]}

Told(d, id) == \/ pending[d] > 0 \/ id \in untold[d]
               \/ \E e \in Docs : id \in key[e] /\ WillTell(e, d)

StaleTold == \A d \in Docs, id \in Ids : Stale(d, id) => Told(d, id)

LinesInv == KeysApart /\ TellsStored /\ LinesOfQueries /\ StaleTold

\* What a careful client's call is about, no other call is about.
LEMMA CallApart ==
  ASSUME Serial, KeysApart, NEW d \in Docs, NEW next, NEW ids, Call(d, next, ids), TypeOK
  PROVE  /\ KeysApart'
         /\ \A e \in Docs : pc[e] # "idle" => ids \cap key[e] = {}
<1>1. \A e \in Docs : pc[e] # "idle" => ids \cap key[e] = {}
  BY DEF Call, Busy
<1> QED BY <1>1 DEF Call, KeysApart, TypeOK

LEMMA ChangeLinesInv ==
  ASSUME Serial, TypeOK, LinesInv, NEW d \in Docs, NEW id \in Ids, NEW v \in Vals \cup {None},
         \/ Change(d, "loop", id, v)
         \/ Change(d, "own", id, v) /\ store[id] = None,
         \A e \in Docs \ {d} : isupdate'[e] = isupdate[e]
  PROVE  LinesInv'
<1> USE DEF TypeOK, LinesInv, Lines, Told
<1>1. /\ \A e \in Docs : pc[e] # "idle" => id \notin key[e]
      /\ KeysApart'
  BY CallApart DEF Change
<1>2. /\ pc[d] = "idle" /\ pc'[d] \in {"loop", "own"} /\ key'[d] = {id} /\ val'[d] = v
      /\ \A e \in Docs \ {d} : pc'[e] = pc[e] /\ key'[e] = key[e] /\ val'[e] = val[e]
      /\ store' = [store EXCEPT ![id] = v]
      /\ UNCHANGED <<open, query, table, pending, todo, starting, untold>>
  BY DEF Change, Call
<1>3. TellsStored'
  BY <1>1, <1>2, SMTT(20) DEF TellsStored
<1>4. LinesOfQueries'
  BY <1>2 DEF LinesOfQueries
<1>5. ASSUME NEW f \in Docs, NEW i \in Ids, Stale(f, i)'
      PROVE  Told(f, i)'
  <2>1. CASE i # id
    <3>1. Stale(f, i)
      BY <1>2, <1>5, <2>1 DEF Stale
    <3>2. CASE pending[f] > 0 \/ i \in untold[f]
      BY <1>2, <3>2
    <3>3. ASSUME NEW e \in Docs, i \in key[e], WillTell(e, f)
          PROVE  i \in key'[e] /\ WillTell(e, f)'
      BY <1>2, <3>3 DEF WillTell
    <3> QED BY <3>1, <3>2, <3>3 DEF StaleTold
  <2>2. CASE i = id /\ pc'[d] = "loop"
    BY <1>2, <2>2 DEF WillTell
  <2>3. CASE i = id /\ store[id] = None
    <3>1. Stale(f, i)
      BY <1>2, <1>5, <2>3 DEF Stale
    <3>2. \A e \in Docs : ~(i \in key[e] /\ WillTell(e, f))
      BY <1>1, <2>3 DEF WillTell
    <3> QED BY <1>2, <3>1, <3>2 DEF StaleTold
  <2> QED BY <2>1, <2>2, <2>3 DEF Change, Call
<1> QED BY <1>1, <1>3, <1>4, <1>5 DEF StaleTold

\* Steps of the documents and their threads that start no call: the client stays
\* where it is, the lines are empty, newly selected or as they were.
LEMMA TablesLinesInv ==
  ASSUME TypeOK, LinesInv, NEW d \in Docs,
         UNCHANGED <<store, pc, val, todo, starting, isupdate>>,
         \A e \in Docs : key'[e] = key[e] \/ (pc[e] = "idle" /\ key'[e] = {}),
         \A e \in Docs \ {d} : /\ table'[e] = table[e] /\ query'[e] = query[e]
                               /\ pending'[e] = pending[e] /\ untold'[e] = untold[e]
                               /\ (e \in open' <=> e \in open),
         LinesOfQueries',
         \A id \in Ids : Stale(d, id)' =>
           Stale(d, id) /\ (pending[d] > 0 => pending'[d] > 0) /\ untold'[d] = untold[d]
  PROVE  LinesInv'
<1> USE DEF TypeOK, LinesInv, Lines, Told
<1>1. KeysApart' /\ TellsStored'
  BY DEF KeysApart, TellsStored
<1>2. ASSUME NEW f \in Docs, NEW i \in Ids, Stale(f, i)'
      PROVE  Told(f, i)'
  <2>1. /\ Stale(f, i) /\ (pending[f] > 0 => pending'[f] > 0)
        /\ untold'[f] = untold[f]
    BY <1>2 DEF Stale
  <2>2. ASSUME NEW e \in Docs, i \in key[e], WillTell(e, f)
        PROVE  i \in key'[e] /\ WillTell(e, f)'
    BY <2>2 DEF WillTell
  <2> QED BY <2>1, <2>2 DEF StaleTold
<1> QED BY <1>1, <1>2 DEF StaleTold

LEMMA NotifyLinesInv ==
  ASSUME TypeOK, LinesInv, NEW d \in Docs, NotifyBegin(d) \/ Notify(d)
  PROVE  LinesInv'
<1> USE DEF TypeOK, LinesInv, Lines, Goto, Told
<1>1. CASE NotifyBegin(d)
  <2>1. KeysApart' /\ TellsStored' /\ LinesOfQueries'
    BY <1>1 DEF NotifyBegin, KeysApart, TellsStored, LinesOfQueries
  <2>2. ASSUME NEW f \in Docs, NEW i \in Ids, Stale(f, i)'
        PROVE  Told(f, i)'
    <3>1. Stale(f, i) /\ f \in open
      BY <1>1, <2>2 DEF NotifyBegin, Stale, LinesOfQueries, NoLines
    <3>2. ASSUME NEW e \in Docs, i \in key[e], WillTell(e, f)
          PROVE  i \in key'[e] /\ WillTell(e, f)'
      BY <1>1, <3>1, <3>2 DEF NotifyBegin, WillTell
    <3> QED BY <1>1, <3>1, <3>2 DEF StaleTold, NotifyBegin
  <2> QED BY <2>1, <2>2 DEF StaleTold
<1>2. CASE Notify(d)
  <2>1. PICK g \in todo[d] :
          /\ table' = [table EXCEPT ![g] = Overwritten(@, d)]
          /\ untold' = [untold EXCEPT ![g] = @ \ key[d]]
          /\ todo'  = [todo  EXCEPT ![d] = @ \ {g}]
          /\ Goto(d, IF todo[d] = {g} THEN "own" ELSE "notify")
    BY <1>2 DEF Notify
  <2>2. /\ pc[d] = "notify"
        /\ UNCHANGED <<store, open, query, pending, key, val, starting, isupdate>>
    BY <1>2 DEF Notify
  <2>3. KeysApart' /\ TellsStored'
    BY <2>1, <2>2 DEF KeysApart, TellsStored
  <2>4. LinesOfQueries'
    BY <2>1, <2>2 DEF LinesOfQueries, Overwritten, NoLines
  <2>5. ASSUME NEW f \in Docs, NEW i \in Ids, Stale(f, i)'
        PROVE  Told(f, i)'
    <3>1. Stale(f, i)
      BY <2>1, <2>2, <2>5 DEF Stale, Overwritten, TellsStored
    <3>2. ~(f = g /\ i \in key[d])
      BY <2>1, <2>2, <2>5 DEF Stale, Overwritten, TellsStored
    <3>3. ASSUME NEW e \in Docs, i \in key[e], WillTell(e, f)
          PROVE  i \in key'[e] /\ WillTell(e, f)'
      BY <2>1, <2>2, <3>2, <3>3 DEF WillTell
    <3>4. i \in untold[f] => i \in untold'[f]
      BY <2>1, <3>2
    <3> QED BY <2>2, <3>1, <3>3, <3>4 DEF StaleTold
  <2> QED BY <2>3, <2>4, <2>5 DEF StaleTold
<1> QED BY <1>1, <1>2

LEMMA OwnLineLinesInv ==
  ASSUME TypeOK, LinesInv, NEW d \in Docs, OwnLine(d)
  PROVE  LinesInv'
<1> USE DEF TypeOK, LinesInv, Lines, Goto, Told
<1>1. pc[d] = "own" /\ pc' = [pc EXCEPT ![d] = "idle"]
  BY DEF OwnLine
<1>2. UNCHANGED <<store, open, query, pending, key, val, todo, starting, isupdate>>
  BY DEF OwnLine
<1>3. IF query[d] = NoQuery THEN UNCHANGED <<table, untold>>
      ELSE /\ table' = [table EXCEPT ![d] = OwnTable(d)]
           /\ untold' = [untold EXCEPT ![d] = @ \ SetLines(d)]
  BY OwnLineTable
<1>4. KeysApart' /\ TellsStored'
  BY <1>1, <1>2 DEF KeysApart, TellsStored
<1>5. LinesOfQueries'
  BY <1>2, <1>3 DEF LinesOfQueries
<1>6. ASSUME NEW f \in Docs, NEW i \in Ids, Stale(f, i)'
      PROVE  Told(f, i)'
  <2>1. /\ Stale(f, i) /\ ~(i \in key[d] /\ WillTell(d, f))
        /\ i \in untold[f] => i \in untold'[f]
    <3>1. CASE query[d] = NoQuery
      BY <1>1, <1>2, <1>3, <1>6, <3>1 DEF Stale, WillTell, LinesOfQueries, NoLines
    <3>2. CASE query[d] # NoQuery /\ f # d
      BY <1>1, <1>2, <1>3, <1>6, <3>2 DEF Stale, WillTell
    <3>3. CASE query[d] # NoQuery /\ f = d
      <4>1. table'[f][i] = IF i \in SetLines(d) THEN val[d] ELSE table[d][i]
        BY <1>3, <3>3 DEF OwnTable
      <4>2. i \in key[d] => store[i] = val[d]
        BY <1>1 DEF TellsStored
      <4>3. i \notin SetLines(d)
        BY <1>2, <1>6, <3>3, <4>1, <4>2 DEF Stale, SetLines
      <4> QED BY <1>1, <1>2, <1>3, <1>6, <3>3, <4>1, <4>3 DEF Stale, WillTell, SetLines
    <3> QED BY <3>1, <3>2, <3>3
  <2>2. ASSUME NEW e \in Docs, i \in key[e], WillTell(e, f)
        PROVE  i \in key'[e] /\ WillTell(e, f)'
    BY <1>1, <1>2, <2>1, <2>2 DEF WillTell
  <2> QED BY <1>2, <2>1, <2>2 DEF StaleTold
<1> QED BY <1>4, <1>5, <1>6 DEF StaleTold

\* A call that changes records of nobody else's call, and goes on to a reload or
\* fails without a word to the open documents.
LEMMA BulkLinesInv ==
  ASSUME Serial, TypeOK, LinesInv, NEW d \in Docs, NEW next, NEW ids \in SUBSET Ids,
         Call(d, next, ids),
         \A id \in Ids \ ids : store'[id] = store[id],
         (next = "reload" /\ untold' = untold) \/ (next = "idle" /\ Untell(open, ids)),
         UNCHANGED <<open, query, table, pending, val, todo, starting, isupdate>>
  PROVE  LinesInv'
<1> USE DEF TypeOK, LinesInv, Lines, Told
<1>1. KeysApart' /\ \A e \in Docs : pc[e] # "idle" => ids \cap key[e] = {}
  BY CallApart
<1>2. TellsStored' /\ LinesOfQueries'
  BY <1>1 DEF Call, TellsStored, LinesOfQueries
<1>3. ASSUME NEW f \in Docs, NEW i \in Ids, Stale(f, i)'
      PROVE  Told(f, i)'
  <2>1. CASE i \in ids /\ next = "reload"
    BY <2>1 DEF Call, WillTell
  <2>2. CASE i \in ids /\ next = "idle"
    <3>1. f \in open
      BY <1>3 DEF Stale, LinesOfQueries, NoLines
    <3> QED BY <2>2, <3>1 DEF Untell
  <2>3. CASE i \notin ids
    <3>1. Stale(f, i)
      BY <1>3, <2>3 DEF Stale
    <3>2. ASSUME NEW e \in Docs, i \in key[e], WillTell(e, f)
          PROVE  i \in key'[e] /\ WillTell(e, f)'
      BY <3>2 DEF Call, WillTell
    <3>3. untold[f] \subseteq untold'[f]
      <4>1. CASE untold' = untold
        BY <4>1
      <4>2. CASE Untell(open, ids)
        BY <4>2 DEF Untell
      <4> QED BY <4>1, <4>2
    <3> QED BY <3>1, <3>2, <3>3 DEF StaleTold
  <2> QED BY <2>1, <2>2, <2>3
<1> QED BY <1>1, <1>2, <1>3 DEF StaleTold

\* The steps of a reload: what it has yet to run again it will, or it says so when
\* it stops.
LEMMA ReloadLinesInv ==
  ASSUME TypeOK, LinesInv, NEW d \in Docs,
         Reload(d) \/ TestQuery(d) \/ StartRebuild(d) \/ ReloadEnd(d) \/ ReloadThrows(d)
  PROVE  LinesInv'
<1> USE DEF TypeOK, LinesInv, Lines, Goto, Told
<1>1. UNCHANGED <<store, open, query, table, key, val, isupdate>>
  BY DEF Reload, TestQuery, StartRebuild, ReloadEnd, ReloadThrows
<1>2. /\ \A e \in Docs \ {d} : /\ pc'[e] = pc[e] /\ todo'[e] = todo[e]
                               /\ starting'[e] = starting[e]
      /\ pc'[d] = pc[d] \/ (pc[d] \in {"reload", "rebuild"} /\ pc'[d] \in {"rebuild", "idle"})
  BY DEF Reload, TestQuery, StartRebuild, ReloadEnd, ReloadThrows
<1>3. KeysApart' /\ TellsStored' /\ LinesOfQueries'
  <2>1. \A e \in Docs : /\ pc'[e] # "idle" => pc[e] # "idle"
                        /\ pc'[e] \in {"loop", "notify", "own"} => pc[e] \in {"loop", "notify", "own"}
    BY <1>2
  <2> QED BY <1>1, <2>1 DEF KeysApart, TellsStored, LinesOfQueries
<1>4. ASSUME NEW f \in Docs, NEW i \in Ids, Stale(f, i)'
      PROVE  Told(f, i)'
  <2>1. Stale(f, i) /\ f \in open /\ query[f] # NoQuery
    BY <1>1, <1>4 DEF Stale, LinesOfQueries, NoLines
  <2>2. pending[f] > 0 => pending'[f] > 0
    BY DEF Reload, TestQuery, StartRebuild, ReloadEnd, ReloadThrows
  <2>3. i \in untold[f] => i \in untold'[f]
    BY DEF Reload, TestQuery, StartRebuild, ReloadEnd, ReloadThrows, Untell
  <2>4. ASSUME NEW e \in Docs \ {d}, i \in key[e], WillTell(e, f)
        PROVE  i \in key'[e] /\ WillTell(e, f)'
    BY <1>1, <1>2, <2>4 DEF WillTell
  <2>5. ASSUME i \in key[d], WillTell(d, f) PROVE Told(f, i)'
    <3>1. CASE Reload(d)
      BY <1>1, <2>1, <2>5, <3>1 DEF Reload, WillTell
    <3>2. CASE TestQuery(d)
      <4>1. PICK e \in todo[d] :
              /\ todo' = [todo EXCEPT ![d] = @ \ {e}]
              /\ starting' = [starting EXCEPT ![d] = IF query[e] = NoQuery THEN {} ELSE {e}]
        BY <3>2 DEF TestQuery
      <4>2. pc'[d] = "rebuild" /\ starting[d] = {} /\ f \in todo[d]
        BY <2>5, <3>2 DEF TestQuery, WillTell
      <4>3. f \in todo'[d] \cup starting'[d]
        BY <2>1, <4>1, <4>2
      <4> QED BY <1>1, <2>5, <4>2, <4>3 DEF WillTell
    <3>3. CASE StartRebuild(d)
      <4>1. pc' = pc /\ todo' = todo
        BY <3>3 DEF StartRebuild
      <4>2. f \in starting[d] => pending'[f] > 0 \/ f \in starting'[d]
        BY <2>1, <3>3 DEF StartRebuild
      <4> QED BY <1>1, <2>5, <4>1, <4>2 DEF WillTell
    <3>4. CASE ReloadEnd(d)
      BY <2>5, <3>4 DEF ReloadEnd, WillTell
    <3>5. CASE ReloadThrows(d)
      BY <2>1, <2>5, <3>5 DEF ReloadThrows, WillTell, Untell
    <3> QED BY <3>1, <3>2, <3>3, <3>4, <3>5
  <2>6. Told(f, i)
    BY <2>1 DEF StaleTold
  <2>7. CASE pending[f] > 0
    BY <2>2, <2>7
  <2>8. CASE i \in untold[f]
    BY <2>3, <2>8
  <2>9. CASE \E e \in Docs : i \in key[e] /\ WillTell(e, f)
    <3>1. PICK e \in Docs : i \in key[e] /\ WillTell(e, f)
      BY <2>9
    <3>2. CASE e = d
      BY <2>5, <3>1, <3>2
    <3>3. CASE e # d
      BY <2>4, <3>1, <3>3
    <3> QED BY <3>2, <3>3
  <2> QED BY <2>6, <2>7, <2>8, <2>9
<1> QED BY <1>3, <1>4 DEF StaleTold

LEMMA StepLinesInv ==
  ASSUME Serial, TypeOK, LinesInv, NEW d \in Docs, Step(d)
  PROVE  LinesInv'
<1> USE DEF TypeOK
<1>1. CASE CreateDocument(d) \/ UpdateDocument(d) \/ DeleteDocument(d)
  <2>1. \A e \in Docs \ {d} : isupdate'[e] = isupdate[e]
    BY <1>1 DEF CreateDocument, UpdateDocument, DeleteDocument
  <2>2. \E id \in Ids, v \in Vals \cup {None} :
          \/ Change(d, "loop", id, v)
          \/ Change(d, "own", id, v) /\ store[id] = None
    BY <1>1 DEF CreateDocument, UpdateDocument, DeleteDocument
  <2> QED BY <2>1, <2>2, ChangeLinesInv
<1>2. CASE UpdateQuery(d)
  <2>1. LinesOfQueries'
    BY <1>2 DEF UpdateQuery, LinesInv, LinesOfQueries
  <2> QED BY <1>2, <2>1, TablesLinesInv DEF UpdateQuery, Call, Stale
<1>3. CASE SetQuery(d)
  <2>1. LinesOfQueries'
    BY <1>3 DEF SetQuery, Call, LinesInv, LinesOfQueries
  <2> QED BY <1>3, <2>1, TablesLinesInv DEF SetQuery, Call, Stale, NoLines
<1>4. CASE ResetSchema(d)
  <2>1. LinesOfQueries'
    BY <1>4 DEF ResetSchema, Emptied, LinesInv, LinesOfQueries
  <2> QED BY <1>4, <2>1, TablesLinesInv DEF ResetSchema, Emptied, Call, Stale, NoLines
<1>5. CASE Close(d)
  <2>1. LinesOfQueries'
    BY <1>5 DEF Close, Emptied, LinesInv, LinesOfQueries
  <2> QED BY <1>5, <2>1, TablesLinesInv DEF Close, Emptied, Call, Stale, NoLines
<1>6. CASE Open(d)
  <2>1. LinesOfQueries'
    BY <1>6 DEF Open, LinesInv, LinesOfQueries
  <2> QED BY <1>6, <2>1, TablesLinesInv DEF Open, Stale
<1>7. CASE UpdateQueryThread(d)
  <2>1. /\ pending' = [pending EXCEPT ![d] = @ - 1]
        /\ UNCHANGED <<store, open, query, pc, key, val, todo, starting, isupdate>>
    BY <1>7 DEF UpdateQueryThread
  <2>2. CASE d \notin open \/ query[d] = NoQuery
    <3>1. table' = table /\ untold' = untold
      BY <1>7, <2>2, RebuiltTable
    <3>2. LinesOfQueries' /\ \A id \in Ids : ~Stale(d, id)'
      BY <2>1, <2>2, <3>1 DEF LinesInv, LinesOfQueries, Stale, NoLines
    <3> QED BY <2>1, <3>1, <3>2, TablesLinesInv
  <2>3. CASE d \in open /\ query[d] # NoQuery
    <3>1. /\ untold' = [untold EXCEPT ![d] = {}]
          /\ \E got : table' = [table EXCEPT ![d] = Selected(d, got)]
      BY <1>7, <2>3, RebuiltTable
    <3>2. LinesOfQueries' /\ \A id \in Ids : ~Stale(d, id)'
      BY <2>1, <2>3, <3>1 DEF LinesInv, LinesOfQueries, Stale, Selected
    <3> QED BY <2>1, <3>1, <3>2, TablesLinesInv
  <2> QED BY <2>2, <2>3
<1>8. CASE ChangeLost(d)
  <2>1. PICK id \in Ids, v \in Vals \cup {None} :
          /\ Call(d, "idle", {id}) /\ Untell(open, {id})
          /\ store' = [store EXCEPT ![id] = v]
    BY <1>8 DEF ChangeLost
  <2>2. \A i \in Ids \ {id} : store'[i] = store[i]
    BY <2>1 DEF Lines
  <2> QED BY <1>8, <2>1, <2>2, BulkLinesInv DEF ChangeLost
<1>9. CASE RemoveByKeys(d) \/ RemoveThrows(d)
  <2>1. PICK ids \in SUBSET Ids, next \in {"idle", "reload"} :
          /\ Call(d, next, ids)
          /\ (next = "reload" /\ untold' = untold) \/ (next = "idle" /\ Untell(open, ids))
          /\ store' = [id \in Ids |-> IF id \in ids THEN None ELSE store[id]]
    <3>1. CASE RemoveByKeys(d)
      BY <3>1 DEF RemoveByKeys
    <3>2. CASE RemoveThrows(d)
      BY <3>2 DEF RemoveThrows
    <3> QED BY <1>9, <3>1, <3>2
  <2>2. \A id \in Ids \ ids : store'[id] = store[id]
    BY <2>1
  <2>3. UNCHANGED <<open, query, table, pending, val, todo, starting, isupdate>>
    BY <1>9 DEF RemoveByKeys, RemoveThrows
  <2> QED BY <2>1, <2>2, <2>3, BulkLinesInv
<1> QED BY <1>1, <1>2, <1>3, <1>4, <1>5, <1>6, <1>7, <1>8, <1>9, NotifyLinesInv,
           OwnLineLinesInv, ReloadLinesInv DEF Step

LEMMA LinesInvHolds ==
  ASSUME Serial
  PROVE  Spec => [](TypeOK /\ LinesInv)
<1>1. Init => LinesInv
  BY DEF Init, LinesInv, KeysApart, TellsStored, LinesOfQueries, StaleTold, Stale, NoLines
<1>2. TypeOK /\ LinesInv /\ [Next]_vars => LinesInv'
  <2> SUFFICES ASSUME TypeOK, LinesInv, [Next]_vars PROVE LinesInv'
    OBVIOUS
  <2>1. CASE UNCHANGED vars
    BY <2>1 DEF vars, LinesInv, KeysApart, TellsStored, LinesOfQueries, StaleTold, Stale, Told, WillTell
  <2> QED BY <2>1, StepLinesInv DEF Next
<1> QED BY <1>1, <1>2, TypeCorrect, PTL DEF Spec

\* If clients do not overlap calls on one record, no table has a stale line for a
\* record once its calls and the rebuilds of the table are over, unless the last
\* change of the record was by a call that failed before it told the document:
\* whatever updates, deletions, bulk removals, reloads that stop half-way, rebuilds
\* and failed selects came in whatever order.
THEOREM LinesNotStale ==
  ASSUME Serial
  PROVE  Spec => []NoStaleLines
<1>1. TypeOK /\ LinesInv => NoStaleLines
  <2> SUFFICES ASSUME TypeOK, LinesInv, NEW d \in Docs, NEW id \in Ids, Settled(d, id),
                      id \notin untold[d]
               PROVE  ~Stale(d, id)
    BY DEF NoStaleLines, Stale
  <2>1. \A e \in Docs : ~(id \in key[e] /\ WillTell(e, d))
    BY DEF Settled, Busy, WillTell
  <2> QED BY <2>1 DEF LinesInv, StaleTold, Told, Settled, TypeOK
<1> QED BY <1>1, LinesInvHolds, PTL

(***************************************************************************)
(* Own writes                                                              *)
(***************************************************************************)
\* A record in `wrote` has a line, and a deletion has taken its record out of
\* `wrote` before it comes to the document's own line.
WroteShown == \A d \in Docs : \A id \in wrote[d] : table[d][id] # None

DeletesTold ==
  \A d \in Docs :
    /\ pc[d] # "idle" => d \in open
    /\ val[d] = None /\ (pc[d] = "own" \/ (pc[d] = "notify" /\ d \notin todo[d]))
         => key[d] \cap wrote[d] = {}

WroteInv == WroteShown /\ DeletesTold

LEMMA ChangeWroteInv ==
  ASSUME TypeOK, WroteInv, NEW d \in Docs, NEW id \in Ids, NEW v \in Vals \cup {None},
         NEW next \in {"loop", "own"}, Change(d, next, id, v), next = "own" => v \in Vals
  PROVE  WroteInv'
  BY DEF TypeOK, WroteInv, WroteShown, DeletesTold, Change, Call

\* Steps after which the lines and the history of d are empty, or as they were.
LEMMA TablesWroteInv ==
  ASSUME TypeOK, WroteInv, NEW d \in Docs,
         UNCHANGED val,
         \A e \in Docs : key'[e] = key[e] \/ pc'[e] \notin {"notify", "own"},
         \A e \in Docs : pc'[e] \in {pc[e], "idle", "reload", "rebuild"},
         \A e \in Docs : todo'[e] = todo[e] \/ pc'[e] # "notify",
         \A e \in Docs : pc'[e] # "idle" => e \in open',
         \A e \in Docs \ {d} : table'[e] = table[e] /\ wrote'[e] = wrote[e],
         wrote'[d] = {} \/ (wrote'[d] = wrote[d] /\ table'[d] = table[d])
  PROVE  WroteInv'
<1> USE DEF TypeOK, WroteInv
<1>1. WroteShown'
  BY DEF WroteShown
<1>2. DeletesTold'
  BY DEF DeletesTold
<1> QED BY <1>1, <1>2

LEMMA NotifyWroteInv ==
  ASSUME TypeOK, WroteInv, NEW d \in Docs, Notify(d)
  PROVE  WroteInv'
<1> USE DEF TypeOK, WroteInv, Lines, Goto
<1>1. PICK g \in todo[d] :
        /\ table' = [table EXCEPT ![g] = Overwritten(@, d)]
        /\ wrote' = [wrote EXCEPT ![g] = IF val[d] = None THEN @ \ key[d] ELSE @]
        /\ todo'  = [todo  EXCEPT ![d] = @ \ {g}]
        /\ pc' = [pc EXCEPT ![d] = IF todo[d] = {g} THEN "own" ELSE "notify"]
  BY DEF Notify
<1>2. pc[d] = "notify" /\ UNCHANGED <<open, key, val>>
  BY DEF Notify
<1>3. WroteShown'
  <2> SUFFICES ASSUME NEW e \in Docs, NEW id \in wrote'[e] PROVE table'[e][id] # None
    BY DEF WroteShown
  <2>1. id \in wrote[e] /\ id \in Ids
    BY <1>1
  <2>2. e = g /\ val[d] = None => id \notin key[d]
    BY <1>1
  <2> QED BY <1>1, <2>1, <2>2 DEF WroteShown, Overwritten
<1>4. DeletesTold'
  <2> SUFFICES ASSUME NEW e \in Docs
               PROVE  /\ pc'[e] # "idle" => e \in open'
                      /\ val'[e] = None /\ (pc'[e] = "own" \/ (pc'[e] = "notify" /\ e \notin todo'[e]))
                           => key'[e] \cap wrote'[e] = {}
    BY DEF DeletesTold
  <2>1. wrote'[e] \subseteq wrote[e]
    BY <1>1
  <2>2. CASE e # d
    BY <1>1, <1>2, <2>1, <2>2 DEF DeletesTold
  <2>3. CASE e = d
    BY <1>1, <1>2, <2>1, <2>3 DEF DeletesTold
  <2> QED BY <2>2, <2>3
<1> QED BY <1>3, <1>4

LEMMA OwnLineWroteInv ==
  ASSUME TypeOK, WroteInv, NEW d \in Docs, OwnLine(d)
  PROVE  WroteInv'
<1> USE DEF TypeOK, WroteInv, Lines, Goto
<1>1. pc[d] = "own" /\ pc' = [pc EXCEPT ![d] = "idle"] /\ UNCHANGED <<open, key, val, todo>>
  BY DEF OwnLine
<1>2. IF query[d] = NoQuery THEN UNCHANGED wrote
      ELSE wrote' = [wrote EXCEPT ![d] = IF val[d] = None THEN @ ELSE @ \cup key[d]]
  BY DEF OwnLine
<1>3. DeletesTold'
  BY <1>1, <1>2 DEF DeletesTold
<1>4. ASSUME NEW e \in Docs, NEW id \in wrote'[e] PROVE table'[e][id] # None
  <2>1. CASE e # d \/ query[d] = NoQuery
    <3>1. table'[e] = table[e] /\ wrote'[e] = wrote[e]
      BY <1>2, <2>1, OwnLineTable
    <3> QED BY <1>4, <3>1 DEF WroteShown
  <2>2. CASE e = d /\ query[d] # NoQuery
    <3>1. id \in Ids /\ table'[d] = OwnTable(d)
      BY <1>2, <1>4, <2>2, OwnLineTable
    <3>2. table'[d][id] = IF id \in key[d] /\ (table[d][id] = None \/ isupdate[d] \/ val[d] = None)
                          THEN val[d] ELSE table[d][id]
      BY <3>1 DEF OwnTable, SetLines
    <3>3. CASE val[d] = None
      BY <1>1, <1>2, <1>4, <2>2, <3>2, <3>3 DEF WroteShown, DeletesTold
    <3>4. CASE val[d] # None
      <4>1. CASE id \in key[d]
        BY <2>2, <3>2, <3>4, <4>1
      <4>2. CASE id \notin key[d]
        BY <1>2, <1>4, <2>2, <3>2, <3>4, <4>2 DEF WroteShown
      <4> QED BY <4>1, <4>2
    <3> QED BY <3>3, <3>4
  <2> QED BY <2>1, <2>2
<1> QED BY <1>3, <1>4 DEF WroteShown

LEMMA StepWroteInv ==
  ASSUME TypeOK, WroteInv, NEW d \in Docs, Step(d)
  PROVE  WroteInv'
<1> USE DEF TypeOK
<1>1. CASE CreateDocument(d) \/ UpdateDocument(d) \/ DeleteDocument(d)
  <2>1. \E id \in Ids, v \in Vals \cup {None}, next \in {"loop", "own"} :
          Change(d, next, id, v) /\ (next = "own" => v \in Vals)
    BY <1>1 DEF CreateDocument, UpdateDocument, DeleteDocument
  <2> QED BY <2>1, ChangeWroteInv
<1>2. CASE NotifyBegin(d)
  BY <1>2 DEF NotifyBegin, Goto, WroteInv, WroteShown, DeletesTold
<1>3. CASE UpdateQuery(d)
  BY <1>3, TablesWroteInv DEF UpdateQuery, Call, WroteInv, DeletesTold
<1>4. CASE SetQuery(d)
  BY <1>4, TablesWroteInv DEF SetQuery, Call, WroteInv, DeletesTold
<1>5. CASE ResetSchema(d)
  BY <1>5, TablesWroteInv DEF ResetSchema, Emptied, Call, WroteInv, DeletesTold
<1>6. CASE Close(d)
  BY <1>6, TablesWroteInv DEF Close, Emptied, Call, WroteInv, DeletesTold
<1>7. CASE Open(d)
  BY <1>7, TablesWroteInv DEF Open, WroteInv, DeletesTold
<1>8. CASE RemoveByKeys(d) \/ RemoveThrows(d) \/ ChangeLost(d)
  <2>1. UNCHANGED <<open, val, table, wrote, todo>>
    BY <1>8 DEF RemoveByKeys, RemoveThrows, ChangeLost
  <2>2. PICK ids \in SUBSET Ids, next \in {"idle", "reload"} : Call(d, next, ids)
    BY <1>8 DEF RemoveByKeys, RemoveThrows, ChangeLost
  <2> QED BY <2>1, <2>2, TablesWroteInv DEF Call, WroteInv, DeletesTold
<1>9. CASE Reload(d) \/ TestQuery(d) \/ StartRebuild(d) \/ ReloadEnd(d) \/ ReloadThrows(d)
  <2>1. UNCHANGED <<open, val, key, table, wrote>>
    BY <1>9 DEF Reload, TestQuery, StartRebuild, ReloadEnd, ReloadThrows
  <2>2. \A e \in Docs : /\ pc'[e] \in {pc[e], "idle", "rebuild"}
                        /\ pc'[e] # "idle" => pc[e] # "idle"
                        /\ todo'[e] = todo[e] \/ pc'[e] # "notify"
    BY <1>9 DEF Reload, TestQuery, StartRebuild, ReloadEnd, ReloadThrows, Goto
  <2> QED BY <2>1, <2>2, TablesWroteInv DEF WroteInv, DeletesTold
<1>10. CASE UpdateQueryThread(d)
  <2>1. UNCHANGED <<open, pc, key, val, todo>>
    BY <1>10 DEF UpdateQueryThread
  <2>2. /\ \A e \in Docs \ {d} : table'[e] = table[e] /\ wrote'[e] = wrote[e]
        /\ wrote'[d] = {} \/ (wrote'[d] = wrote[d] /\ table'[d] = table[d])
    BY <1>10, RebuiltTable
  <2> QED BY <2>1, <2>2, TablesWroteInv DEF WroteInv, DeletesTold
<1> QED BY <1>1, <1>2, <1>3, <1>4, <1>5, <1>6, <1>7, <1>8, <1>9, <1>10, NotifyWroteInv,
           OwnLineWroteInv DEF Step

\* Under the same discipline a client sees its own writes: what its document saved
\* since its last rebuild, and nobody deleted by a call that tells or one that fails,
\* has a line as it is stored now.
THEOREM OwnWritesHaveLines ==
  ASSUME Serial
  PROVE  Spec => []OwnWritesShown
<1>1. Init => WroteInv
  BY DEF Init, WroteInv, WroteShown, DeletesTold
<1>2. TypeOK /\ WroteInv /\ [Next]_vars => WroteInv'
  <2> SUFFICES ASSUME TypeOK, WroteInv, [Next]_vars PROVE WroteInv'
    OBVIOUS
  <2>1. CASE UNCHANGED vars
    BY <2>1 DEF vars, WroteInv, WroteShown, DeletesTold
  <2> QED BY <2>1, StepWroteInv DEF Next
<1>3. TypeOK /\ WroteInv /\ NoStaleLines => OwnWritesShown
  BY DEF TypeOK, WroteInv, WroteShown, NoStaleLines, OwnWritesShown
<1> QED BY <1>1, <1>2, <1>3, TypeCorrect, LinesNotStale, PTL DEF Spec
=============================================================================
