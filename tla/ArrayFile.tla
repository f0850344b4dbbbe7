----------------------------- MODULE ArrayFile -----------------------------
(* JsonArrayFile objects of one path (txt2file.h, txt2file.cpp): they collect *)
(* records and save them when they are closed, or load the file when they    *)
(* are opened and give its records one by one.                               *)
EXTENDS TextFile, Integers, FiniteSets, SequencesExt

CONSTANTS Objs,       \* JsonArrayFile objects of one path
          Records,    \* records that are legal JSON
          MaxRecords, \* bound on the records of an object
          InSession,  \* records are read and saved between Open and Close
          Legal       \* saveNext is given legal JSON

VARIABLES
    file,   \* the file at the path
    obj,    \* JsonArrayFile: opened, mode, arr, ndx; "none" when there is none
    given,  \* records accepted by saveNext since the last Open
    got,    \* records returned by loadNext since the last Open
    found,  \* what Open(ReadOnly) or loadString found
    kept    \* the accepted records of the object that saved last

fileVars == <<file, obj, given, got, found, kept>>

------------------------------------------------------------------------------
(* JsonArrayFile. *)

New == [opened |-> FALSE, mode |-> "WriteOnly", arr |-> <<>>, ndx |-> 0]
Gone == [opened |-> FALSE, mode |-> "none", arr |-> <<>>, ndx |-> 0]
Exists(f) == obj[f].mode # "none"

InitFiles ==
    /\ file = Absent
    /\ obj = [f \in Objs |-> Gone]
    /\ given = [f \in Objs |-> <<>>] /\ got = [f \in Objs |-> <<>>] /\ found = [f \in Objs |-> <<>>]
    /\ kept = <<>>

Construct(f) ==
    /\ ~Exists(f)
    /\ obj' = [obj EXCEPT ![f] = New]
    /\ UNCHANGED <<file, given, got, found, kept>>

\* Mutation of Cleared: Open goes on where the object was.
ClearedKeeps(o, mode) == [o EXCEPT !.mode = mode]

\* Open clears before it knows whether it can load.
Cleared(o, mode) == [o EXCEPT !.mode = mode, !.ndx = 0, !.arr = <<>>]

\* The array of a file or of a text, in a cleared object.
Loaded(o, opened, doc) == [o EXCEPT !.opened = opened, !.arr = @ \o doc]

\* Open of an opened object returns, or throws when the mode is another one; a
\* mode that is none of the two throws when all is cleared.
Open(f, mode) ==
    /\ Exists(f) /\ ~obj[f].opened
    /\ LET loads == mode = "ReadOnly" /\ Loads(file)
           doc == IF loads THEN file.doc ELSE <<>>
       IN /\ obj' = [obj EXCEPT ![f] = Loaded(Cleared(@, mode), loads \/ mode = "WriteOnly", doc)]
          /\ found' = [found EXCEPT ![f] = doc]
    /\ given' = [given EXCEPT ![f] = <<>>]
    /\ got' = [got EXCEPT ![f] = <<>>]
    /\ UNCHANGED <<file, kept>>

\* loadString: as a session for reading, but the object is not opened.
loadString(f, doc) ==
    /\ Exists(f) /\ ~obj[f].opened
    /\ obj' = [obj EXCEPT ![f] = Loaded(Cleared(@, "ReadOnly"), FALSE, doc)]
    /\ given' = [given EXCEPT ![f] = <<>>]
    /\ got' = [got EXCEPT ![f] = <<>>]
    /\ found' = [found EXCEPT ![f] = doc]
    /\ UNCHANGED <<file, kept>>

loadNext(f) ==
    /\ Exists(f) /\ (InSession => obj[f].mode = "ReadOnly")
    /\ obj[f].ndx < Len(obj[f].arr)
    /\ got' = [got EXCEPT ![f] = Append(@, obj[f].arr[obj[f].ndx + 1])]
    /\ obj' = [obj EXCEPT ![f].ndx = @ + 1]
    /\ UNCHANGED <<file, given, found, kept>>

\* saveNext, in any mode: the element is there before its text is parsed.
saveNext(f, record) ==
    /\ Exists(f) /\ (InSession => obj[f].opened /\ obj[f].mode = "WriteOnly")
    /\ Len(obj[f].arr) < MaxRecords
    /\ record \in Records \/ ~Legal
    /\ obj' = [obj EXCEPT ![f].ndx = Len(obj[f].arr), ![f].arr = Append(@, record)]
    /\ given' = [given EXCEPT ![f] = IF record \in Records THEN Append(@, record) ELSE @]
    /\ UNCHANGED <<file, got, found, kept>>

\* Close saves in the mode WriteOnly, which a new object has; when the file
\* refuses it throws and stays open.
Closed(f, outcome, after) ==
    /\ IF obj[f].mode = "WriteOnly"
       THEN /\ file' = Saved(file, obj[f].arr, outcome)
            /\ kept' = IF outcome = "refused" THEN kept ELSE given[f]
            /\ obj' = [obj EXCEPT ![f] = IF outcome = "refused" THEN @ ELSE after]
       ELSE /\ obj' = [obj EXCEPT ![f] = after]
            /\ UNCHANGED <<file, kept>>
    /\ UNCHANGED <<given, got, found>>

Close(f) ==
    /\ Exists(f) /\ (InSession => obj[f].opened)
    /\ \E outcome \in Outcomes : Closed(f, outcome, [obj[f] EXCEPT !.opened = FALSE])

\* The destructor closes what is open. (A refusal would end the program.)
Destroy(f) ==
    /\ Exists(f)
    /\ IF obj[f].opened THEN \E outcome \in Outcomes \ {"refused"} : Closed(f, outcome, Gone)
       ELSE obj' = [obj EXCEPT ![f] = Gone] /\ UNCHANGED <<file, given, got, found, kept>>

\* The copy of an object is one more that saves when it is closed.
CopyConstruct(f, s) ==
    /\ ~Exists(f) /\ Exists(s)
    /\ obj' = [obj EXCEPT ![f] = obj[s]]
    /\ given' = [given EXCEPT ![f] = given[s]]
    /\ got' = [got EXCEPT ![f] = got[s]]
    /\ found' = [found EXCEPT ![f] = found[s]]
    /\ UNCHANGED <<file, kept>>

\* A program that crashes closes nothing.
CrashFiles == obj' = [f \in Objs |-> Gone] /\ UNCHANGED <<file, given, got, found, kept>>

Texts == Records \cup {"broken"}

NextFiles ==
    \E f \in Objs :
        \/ Construct(f) \/ Close(f) \/ Destroy(f) \/ loadNext(f)
        \/ \E s \in Objs : CopyConstruct(f, s)
        \/ \E mode \in {"ReadOnly", "WriteOnly", "Append"} : Open(f, mode)
        \/ \E record \in Texts : saveNext(f, record) \/ loadString(f, <<record>>)

SpecFiles == InitFiles /\ [][NextFiles \/ CrashFiles]_fileVars

------------------------------------------------------------------------------
(* What must hold. *)

\* A file that is there has exactly the records that saveNext accepted in the
\* session that was closed last, in their order: none of an earlier session of
\* the object, none of another object, none that was refused, and all of them,
\* after any closes, failed opens, refusals and crashes. (Backups of a graph
\* are restored from such files.)
HoldsAccepted == file = Absent \/ file = Whole(kept)

\* Who reads until nothing is left gets every record that Open or loadString
\* found, once, in order, whatever was opened, failed or closed before.
ReadsAll ==
    \A f \in Objs : obj[f].mode = "ReadOnly" =>
        /\ IsPrefix(got[f], found[f])
        /\ obj[f].ndx = Len(obj[f].arr) => got[f] = found[f]

\* What was saved is what is read: nothing of it is lost, repeated or mixed up
\* between saveNext and loadNext, through the file.
RecordsKept == HoldsAccepted /\ ReadsAll
=============================================================================
