------------------------------ MODULE KeyIndex ------------------------------
(***************************************************************************)
(* What the key list of a collection promises the threads that use it: it  *)
(* is either empty, because the collection is being (re)loaded, or it      *)
(* lists exactly the documents the collection stores.  No thread ever      *)
(* works on a list that is loaded in part.                                 *)
(***************************************************************************)
CONSTANT Ids

VARIABLES
  docs,    \* the documents of the collection
  known    \* the documents its key list names

Init == docs \in SUBSET Ids /\ known = {}

\* A document is stored and listed in one step, in a list that is loaded.
Create(id) ==
  /\ known = docs /\ id \notin docs
  /\ docs' = docs \cup {id} /\ known' = known \cup {id}

\* Documents go from the store and from the list in one step.
Remove(ids) == docs' = docs \ ids /\ known' = known \ ids

\* A (re)load empties the list, and later fills it with all there is at once.
Forget == known' = {} /\ UNCHANGED docs
Load   == known' = docs /\ UNCHANGED docs

Next == \/ \E id \in Ids : Create(id)
        \/ \E ids \in SUBSET docs : Remove(ids)
        \/ Forget
        \/ Load

Spec == Init /\ [][Next]_<<docs, known>>
=============================================================================
