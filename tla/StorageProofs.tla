---------------------------- MODULE StorageProofs ----------------------------
(***************************************************************************)
(* Proofs about array files and about the settings, for any objects of one *)
(* file, any records and any number of them, any names, levels, directories*)
(* and schemas, and any number of calls: no record is lost, repeated or    *)
(* mixed up between saveNext and loadNext, and what is in use is what the  *)
(* settings say.                                                           *)
(***************************************************************************)
EXTENDS ArrayFile, Settings, SequenceTheorems, TLAPS

(***************************************************************************)
(* Array files                                                             *)
(***************************************************************************)
Docs    == Seq(Texts)
Modes   == {"none", "ReadOnly", "WriteOnly", "Append"}
Objects == [opened : BOOLEAN, mode : Modes, arr : Docs, ndx : Nat]

\* An object opened for writing has what it accepted, one opened for reading what
\* it found, and it has given the first ndx records of that.
ObjectInv(o, g, t, d) ==
  /\ o.opened /\ o.mode = "WriteOnly" => o.arr = g
  /\ o.mode = "ReadOnly" =>
       /\ o.arr = d /\ o.ndx <= Len(d)
       /\ Len(t) = o.ndx /\ \A i \in 1 .. o.ndx : t[i] = d[i]

FilesType ==
  /\ kept \in Docs /\ obj \in [Objs -> Objects]
  /\ given \in [Objs -> Docs] /\ got \in [Objs -> Docs] /\ found \in [Objs -> Docs]

FilesInv ==
  /\ HoldsAccepted /\ FilesType
  /\ \A f \in Objs : ObjectInv(obj[f], given[f], got[f], found[f])

\* It is enough to look at the one object a call is made on.
OthersStay(f) ==
  \A h \in Objs \ {f} : /\ obj'[h] = obj[h] /\ given'[h] = given[h]
                        /\ got'[h] = got[h] /\ found'[h] = found[h]

LEMMA OneObjectChanges ==
  ASSUME FilesInv, HoldsAccepted', FilesType', NEW f \in Objs, OthersStay(f),
         ObjectInv(obj'[f], given'[f], got'[f], found'[f])
  PROVE  FilesInv'
<1> SUFFICES ASSUME NEW h \in Objs PROVE ObjectInv(obj'[h], given'[h], got'[h], found'[h])
  BY DEF FilesInv
<1>1. CASE h = f
  BY <1>1
<1>2. CASE h # f
  BY <1>2 DEF OthersStay, FilesInv
<1> QED BY <1>1, <1>2

LEMMA NoDoc == <<>> \in Docs /\ Len(<<>>) = 0 /\ \A doc \in Docs : <<>> \o doc = doc
BY DEF Docs

\* An object cleared for a mode, and then loaded.
LEMMA LoadedIs ==
  ASSUME NEW o \in Objects, NEW mode \in Modes, NEW b \in BOOLEAN, NEW doc \in Docs,
         NEW r, r = Loaded(Cleared(o, mode), b, doc)
  PROVE  r \in Objects /\ r.mode = mode /\ r.ndx = 0 /\ r.arr = doc
<1>1. PICK e : e = <<>>
  OBVIOUS
<1>2. e \in Docs /\ e \o doc = doc
  BY <1>1, NoDoc
<1> DEFINE c == [o EXCEPT !.mode = mode, !.ndx = 0, !.arr = e]
           s == [c EXCEPT !.opened = b, !.arr = @ \o doc]
<1>3. c = Cleared(o, mode)
  BY <1>1, Zenon DEF Cleared
<1>4. c \in Objects /\ c.arr = e /\ c.mode = mode /\ c.ndx = 0
  BY <1>2 DEF Objects
<1> HIDE DEF c
<1>5. s.arr = c.arr \o doc /\ s.mode = c.mode /\ s.ndx = c.ndx
  BY <1>2, <1>4 DEF Objects
<1>6. s \in Objects
  BY <1>2, <1>4 DEF Objects
<1>7. r = s
  BY <1>3, Zenon DEF Loaded
<1> HIDE DEF s
<1> QED BY <1>2, <1>4, <1>5, <1>6, <1>7

LEMMA StepOpen ==
  ASSUME FilesInv, NEW f \in Objs, NEW mode \in {"ReadOnly", "WriteOnly", "Append"}, Open(f, mode)
  PROVE  FilesInv'
<1> DEFINE loads == mode = "ReadOnly" /\ Loads(file)
<1>1. PICK doc : doc = IF loads THEN file.doc ELSE <<>>
  OBVIOUS
<1>2. doc \in Docs /\ (mode # "ReadOnly" => doc = <<>>)
  BY <1>1, NoDoc DEF FilesInv, FilesType, HoldsAccepted, Loads, Absent, Whole
<1>3. PICK b \in BOOLEAN : b = (loads \/ mode = "WriteOnly")
  OBVIOUS
<1>4. PICK r : r = Loaded(Cleared(obj[f], mode), b, doc)
  OBVIOUS
<1>5. obj[f] \in Objects /\ mode \in Modes
  BY DEF FilesInv, FilesType, Modes
<1>6. r \in Objects /\ r.mode = mode /\ r.ndx = 0 /\ r.arr = doc
  BY <1>2, <1>4, <1>5, LoadedIs
<1>7. /\ obj' = [obj EXCEPT ![f] = r] /\ found' = [found EXCEPT ![f] = doc]
      /\ given' = [given EXCEPT ![f] = <<>>] /\ got' = [got EXCEPT ![f] = <<>>]
      /\ UNCHANGED <<file, kept>>
  BY <1>1, <1>3, <1>4, Zenon DEF Open
<1>8. FilesType'
  BY <1>2, <1>6, <1>7, NoDoc DEF FilesInv, FilesType
<1>9. OthersStay(f) /\ HoldsAccepted'
  BY <1>7 DEF OthersStay, FilesInv, FilesType, HoldsAccepted
<1>10. obj'[f] = r /\ given'[f] = <<>> /\ got'[f] = <<>> /\ found'[f] = doc
  BY <1>7 DEF FilesInv, FilesType
<1>11. ObjectInv(r, <<>>, <<>>, doc)
  BY <1>2, <1>6, NoDoc DEF ObjectInv, Docs
<1> QED BY <1>8, <1>9, <1>10, <1>11, OneObjectChanges

LEMMA StepLoadString ==
  ASSUME FilesInv, NEW f \in Objs, NEW doc \in Docs, loadString(f, doc)
  PROVE  FilesInv'
<1>1. PICK r : r = Loaded(Cleared(obj[f], "ReadOnly"), FALSE, doc)
  OBVIOUS
<1>2. obj[f] \in Objects /\ "ReadOnly" \in Modes /\ FALSE \in BOOLEAN
  BY DEF FilesInv, FilesType, Modes
<1>3. r \in Objects /\ r.mode = "ReadOnly" /\ r.ndx = 0 /\ r.arr = doc
  <2>1. PICK b \in BOOLEAN : b = FALSE
    OBVIOUS
  <2>2. r = Loaded(Cleared(obj[f], "ReadOnly"), b, doc)
    BY <1>1, <2>1, Zenon
  <2> QED BY <1>2, <2>2, LoadedIs
<1>4. /\ obj' = [obj EXCEPT ![f] = r] /\ found' = [found EXCEPT ![f] = doc]
      /\ given' = [given EXCEPT ![f] = <<>>] /\ got' = [got EXCEPT ![f] = <<>>]
      /\ UNCHANGED <<file, kept>>
  BY <1>1, Zenon DEF loadString
<1>5. FilesType'
  BY <1>3, <1>4, NoDoc DEF FilesInv, FilesType
<1>6. OthersStay(f) /\ HoldsAccepted'
  BY <1>4 DEF OthersStay, FilesInv, FilesType, HoldsAccepted
<1>7. obj'[f] = r /\ given'[f] = <<>> /\ got'[f] = <<>> /\ found'[f] = doc
  BY <1>4 DEF FilesInv, FilesType
<1>8. ObjectInv(r, <<>>, <<>>, doc)
  BY <1>3, NoDoc DEF ObjectInv, Docs
<1> QED BY <1>5, <1>6, <1>7, <1>8, OneObjectChanges

LEMMA StepConstruct ==
  ASSUME FilesInv, NEW f \in Objs, Construct(f)
  PROVE  FilesInv'
<1>1. PICK r : r = New
  OBVIOUS
<1>2. r \in Objects /\ ~r.opened /\ r.mode = "WriteOnly"
  BY <1>1, NoDoc DEF New, Objects, Modes
<1>3. obj' = [obj EXCEPT ![f] = r] /\ UNCHANGED <<file, given, got, found, kept>>
  BY <1>1, Zenon DEF Construct
<1>4. FilesType'
  BY <1>2, <1>3 DEF FilesInv, FilesType
<1>5. OthersStay(f) /\ HoldsAccepted' /\ obj'[f] = r
  BY <1>3 DEF OthersStay, FilesInv, FilesType, HoldsAccepted
<1>6. ObjectInv(r, given'[f], got'[f], found'[f])
  BY <1>2 DEF ObjectInv
<1> QED BY <1>4, <1>5, <1>6, OneObjectChanges

LEMMA StepLoadNext ==
  ASSUME InSession, FilesInv, NEW f \in Objs, loadNext(f)
  PROVE  FilesInv'
<1> DEFINE o == obj[f]
           d == found[f]
           x == o.arr[o.ndx + 1]
<1>1. /\ o \in Objects /\ o.mode = "ReadOnly" /\ o.arr = d /\ o.ndx < Len(d)
      /\ o.ndx \in Nat /\ d \in Docs
      /\ got[f] \in Docs /\ Len(got[f]) = o.ndx /\ \A i \in 1 .. o.ndx : got[f][i] = d[i]
  BY DEF loadNext, FilesInv, FilesType, ObjectInv, Objects
<1>2. x \in Texts /\ x = d[o.ndx + 1]
  BY <1>1 DEF Docs
<1>3. /\ got' = [got EXCEPT ![f] = Append(@, x)]
      /\ obj' = [obj EXCEPT ![f] = [o EXCEPT !.ndx = o.ndx + 1]]
      /\ UNCHANGED <<file, given, found, kept>>
  BY DEF loadNext
<1>4. PICK g : g = Append(got[f], x)
  OBVIOUS
<1>5. /\ g \in Docs /\ Len(g) = o.ndx + 1 /\ \A i \in 1 .. o.ndx : g[i] = got[f][i]
      /\ g[o.ndx + 1] = x
  BY <1>1, <1>2, <1>4 DEF Docs
<1>6. PICK r : r = [o EXCEPT !.ndx = o.ndx + 1]
  OBVIOUS
<1>7. r \in Objects /\ r.mode = "ReadOnly" /\ r.arr = d /\ r.ndx = o.ndx + 1
  BY <1>1, <1>6 DEF Objects
<1>8. obj' = [obj EXCEPT ![f] = r] /\ got' = [got EXCEPT ![f] = g]
  <2> HIDE DEF o, x
  <2> QED BY <1>3, <1>4, <1>6
<1>9. FilesType'
  <2>1. FilesType
    BY DEF FilesInv
  <2>2. obj' \in [Objs -> Objects] /\ got' \in [Objs -> Docs]
    BY <1>5, <1>7, <1>8, <2>1 DEF FilesType
  <2> QED BY <1>3, <2>1, <2>2 DEF FilesType
<1>10. OthersStay(f) /\ HoldsAccepted' /\ obj'[f] = r /\ got'[f] = g /\ found'[f] = d
  BY <1>3, <1>8 DEF OthersStay, FilesInv, FilesType, HoldsAccepted
<1>11. \A i \in 1 .. o.ndx + 1 : g[i] = d[i]
  <2>1. \A i \in 1 .. o.ndx : g[i] = d[i]
    BY <1>1, <1>5
  <2>2. g[o.ndx + 1] = d[o.ndx + 1]
    BY <1>1, <1>2, <1>5
  <2>3. \A i \in 1 .. o.ndx + 1 : i \in 1 .. o.ndx \/ i = o.ndx + 1
    <3>1. o.ndx \in Nat
      BY <1>1 DEF Objects
    <3> HIDE DEF o
    <3> QED BY <3>1
  <2> HIDE DEF o, d
  <2> QED BY <2>1, <2>2, <2>3
<1>12. ObjectInv(r, given'[f], g, d)
  <2> HIDE DEF o, d, x
  <2>1. o.ndx + 1 <= Len(d)
    BY <1>1 DEF Docs
  <2> QED BY <1>5, <1>7, <1>11, <2>1 DEF ObjectInv
<1> QED BY <1>9, <1>10, <1>12, OneObjectChanges

LEMMA StepSaveNext ==
  ASSUME InSession, Legal, FilesInv, NEW f \in Objs, NEW record \in Texts, saveNext(f, record)
  PROVE  FilesInv'
<1> DEFINE o == obj[f]
<1>1. /\ o \in Objects /\ o.opened /\ o.mode = "WriteOnly" /\ o.arr = given[f]
      /\ o.arr \in Docs /\ record \in Records
  BY DEF saveNext, FilesInv, FilesType, ObjectInv, Objects
<1>2. PICK g : g = Append(given[f], record)
  OBVIOUS
<1>3. g \in Docs /\ Len(o.arr) \in Nat
  BY <1>1, <1>2 DEF Docs
<1>4. PICK r : r = [[o EXCEPT !.ndx = Len(o.arr)] EXCEPT !.arr = Append(@, record)]
  OBVIOUS
<1>5. r \in Objects /\ r.mode = "WriteOnly" /\ r.arr = Append(o.arr, record)
  <2>1. PICK n \in Nat : n = Len(o.arr)
    BY <1>3
  <2> DEFINE p == [o EXCEPT !.ndx = n]
  <2>2. p \in Objects /\ p.mode = o.mode /\ p.arr = o.arr
    BY <1>1 DEF Objects
  <2>3. r = [p EXCEPT !.arr = g]
    BY <1>1, <1>2, <1>4, <2>1, <2>2
  <2> QED BY <1>1, <1>2, <1>3, <2>2, <2>3 DEF Objects
<1>6. obj' = [obj EXCEPT ![f] = r] /\ given' = [given EXCEPT ![f] = g]
      /\ UNCHANGED <<file, got, found, kept>>
  BY <1>1, <1>2, <1>4 DEF saveNext
<1>7. FilesType'
  BY <1>3, <1>5, <1>6 DEF FilesInv, FilesType
<1>8. OthersStay(f) /\ HoldsAccepted' /\ obj'[f] = r /\ given'[f] = g
  BY <1>6 DEF OthersStay, FilesInv, FilesType, HoldsAccepted
<1>9. ObjectInv(r, g, got'[f], found'[f])
  BY <1>1, <1>2, <1>5 DEF ObjectInv
<1> QED BY <1>7, <1>8, <1>9, OneObjectChanges

LEMMA StepClosed ==
  ASSUME ~FullDisk, FilesInv, NEW f \in Objs, obj[f].opened, NEW outcome \in Outcomes,
         NEW after \in Objects, ObjectInv(after, given[f], got[f], found[f]),
         Closed(f, outcome, after)
  PROVE  FilesInv'
<1>1. obj \in [Objs -> Objects] /\ given \in [Objs -> Docs]
  BY DEF FilesInv, FilesType
<1>2. UNCHANGED <<given, got, found>>
  BY DEF Closed
<1>3. CASE obj[f].mode = "WriteOnly" /\ outcome = "refused"
  <2>1. UNCHANGED <<obj, file, kept>>
    BY <1>1, <1>3 DEF Closed, Saved
  <2> QED BY <1>2, <2>1 DEF FilesInv, FilesType, HoldsAccepted
<1>4. CASE ~(obj[f].mode = "WriteOnly" /\ outcome = "refused")
  <2>1. obj' = [obj EXCEPT ![f] = after]
    BY <1>4 DEF Closed
  <2>2. HoldsAccepted' /\ kept' \in Docs
    <3>1. CASE obj[f].mode = "WriteOnly"
      <4>1. outcome = "saved"
        BY <1>4, <3>1 DEF Outcomes
      <4>2. file' = Whole(obj[f].arr) /\ kept' = given[f]
        BY <3>1, <4>1 DEF Closed, Saved
      <4>3. obj[f].arr = given[f]
        BY <3>1 DEF FilesInv, ObjectInv
      <4> QED BY <1>1, <4>2, <4>3 DEF HoldsAccepted
    <3>2. CASE obj[f].mode # "WriteOnly"
      BY <3>2 DEF Closed, FilesInv, FilesType, HoldsAccepted
    <3> QED BY <3>1, <3>2
  <2>3. FilesType'
    BY <1>2, <2>1, <2>2 DEF FilesInv, FilesType
  <2>4. OthersStay(f) /\ obj'[f] = after
    BY <1>1, <1>2, <2>1 DEF OthersStay
  <2> QED BY <1>2, <2>2, <2>3, <2>4, OneObjectChanges
<1> QED BY <1>3, <1>4

LEMMA StepClose ==
  ASSUME InSession, ~FullDisk, FilesInv, NEW f \in Objs, Close(f)
  PROVE  FilesInv'
<1>1. PICK outcome \in Outcomes : Closed(f, outcome, [obj[f] EXCEPT !.opened = FALSE])
  BY DEF Close
<1>2. PICK after : after = [obj[f] EXCEPT !.opened = FALSE]
  OBVIOUS
<1>3. obj[f] \in Objects /\ obj[f].opened
  BY DEF Close, FilesInv, FilesType
<1>4. /\ after \in Objects /\ ~after.opened /\ after.mode = obj[f].mode
      /\ after.arr = obj[f].arr /\ after.ndx = obj[f].ndx
  BY <1>2, <1>3 DEF Objects
<1>5. ObjectInv(after, given[f], got[f], found[f])
  BY <1>4 DEF FilesInv, ObjectInv
<1>6. Closed(f, outcome, after)
  BY <1>1, <1>2, Zenon
<1> QED BY <1>3, <1>4, <1>5, <1>6, StepClosed

LEMMA GoneIs == Gone \in Objects /\ \A g, t, d : ObjectInv(Gone, g, t, d)
BY NoDoc DEF Gone, Objects, Modes, ObjectInv

LEMMA StepDestroy ==
  ASSUME ~FullDisk, FilesInv, NEW f \in Objs, Destroy(f)
  PROVE  FilesInv'
<1>1. CASE obj[f].opened
  <2>1. PICK outcome \in Outcomes : Closed(f, outcome, Gone)
    BY <1>1 DEF Destroy
  <2> QED BY <1>1, <2>1, GoneIs, StepClosed
<1>2. CASE ~obj[f].opened
  <2>1. obj' = [obj EXCEPT ![f] = Gone] /\ UNCHANGED <<file, given, got, found, kept>>
    BY <1>2, Zenon DEF Destroy
  <2>2. FilesType' /\ OthersStay(f) /\ HoldsAccepted' /\ obj'[f] = Gone
    BY <2>1, GoneIs DEF FilesInv, FilesType, OthersStay, HoldsAccepted
  <2> QED BY <2>2, GoneIs, OneObjectChanges
<1> QED BY <1>1, <1>2

LEMMA StepCopyConstruct ==
  ASSUME FilesInv, NEW f \in Objs, NEW s \in Objs, CopyConstruct(f, s)
  PROVE  FilesInv'
<1>1. /\ obj' = [obj EXCEPT ![f] = obj[s]] /\ given' = [given EXCEPT ![f] = given[s]]
      /\ got' = [got EXCEPT ![f] = got[s]] /\ found' = [found EXCEPT ![f] = found[s]]
      /\ UNCHANGED <<file, kept>>
  BY DEF CopyConstruct
<1>2. FilesType' /\ OthersStay(f) /\ HoldsAccepted'
  BY <1>1 DEF FilesInv, FilesType, OthersStay, HoldsAccepted
<1>3. obj'[f] = obj[s] /\ given'[f] = given[s] /\ got'[f] = got[s] /\ found'[f] = found[s]
  BY <1>1 DEF FilesInv, FilesType
<1> QED BY <1>2, <1>3, OneObjectChanges DEF FilesInv

LEMMA StepCrash ==
  ASSUME FilesInv, CrashFiles
  PROVE  FilesInv'
<1>1. obj' = [f \in Objs |-> Gone] /\ UNCHANGED <<file, given, got, found, kept>>
  BY DEF CrashFiles
<1> QED BY <1>1, GoneIs DEF FilesInv, FilesType, HoldsAccepted

LEMMA InitFilesInv ==
  ASSUME InitFiles
  PROVE  FilesInv
<1>1. obj = [f \in Objs |-> Gone] /\ kept = <<>> /\ file = Absent
  BY DEF InitFiles
<1>2. FilesType
  BY <1>1, GoneIs, NoDoc DEF InitFiles, FilesType
<1> QED BY <1>1, <1>2, GoneIs DEF FilesInv, HoldsAccepted

LEMMA ReadsAllFollows ==
  ASSUME FilesInv
  PROVE  RecordsKept
<1> SUFFICES ASSUME NEW f \in Objs, obj[f].mode = "ReadOnly"
             PROVE  /\ IsPrefix(got[f], found[f])
                    /\ obj[f].ndx = Len(obj[f].arr) => got[f] = found[f]
  BY DEF FilesInv, RecordsKept, ReadsAll
<1>1. PICK t \in Docs : t = got[f]
  BY DEF FilesInv, FilesType
<1>2. PICK d \in Docs : d = found[f]
  BY DEF FilesInv, FilesType
<1>3. /\ Len(t) <= Len(d) /\ \A i \in 1 .. Len(t) : t[i] = d[i]
      /\ obj[f].ndx = Len(t) /\ obj[f].arr = d
  BY <1>1, <1>2 DEF FilesInv, ObjectInv
<1>4. Len(t) \in Nat /\ Len(d) \in Nat
  BY DEF Docs
<1>5. SubSeq(t, 1, Len(t)) = t
  BY SubSeqFull DEF Docs
<1>6. PICK p : p = SubSeq(d, 1, Len(t))
  OBVIOUS
<1>7. p \in Docs /\ Len(p) = Len(t) /\ \A i \in 1 .. Len(t) : p[i] = d[i]
  <2>1. \A i \in 1 .. Len(t) : d[i] \in Texts
    BY <1>3, <1>4 DEF Docs
  <2>2. /\ SubSeq(d, 1, Len(t)) \in Seq(Texts)
        /\ Len(SubSeq(d, 1, Len(t))) = IF 1 <= Len(t) THEN Len(t) - 1 + 1 ELSE 0
        /\ \A i \in 1 .. Len(t) - 1 + 1 : SubSeq(d, 1, Len(t))[i] = d[1 + i - 1]
    <3>1. PICK n \in Int : n = Len(t)
      BY <1>4
    <3>2. \A i \in 1 .. n : d[i] \in Texts
      BY <2>1, <3>1
    <3>3. /\ SubSeq(d, 1, n) \in Seq(Texts)
          /\ Len(SubSeq(d, 1, n)) = IF 1 <= n THEN n - 1 + 1 ELSE 0
          /\ \A i \in 1 .. n - 1 + 1 : SubSeq(d, 1, n)[i] = d[1 + i - 1]
      BY <3>2, SubSeqProperties
    <3> QED BY <3>1, <3>3
  <2>3. /\ p \in Docs /\ Len(p) = IF 1 <= Len(t) THEN Len(t) - 1 + 1 ELSE 0
        /\ \A i \in 1 .. Len(t) - 1 + 1 : p[i] = d[1 + i - 1]
    BY <1>6, <2>2, Zenon DEF Docs
  <2> QED BY <1>4, <2>3
<1>8. p = t
  BY <1>3, <1>7, SeqEqual DEF Docs
<1>9. IsPrefix(t, d)
  BY <1>3, <1>5, <1>6, <1>8 DEF IsPrefix
<1>10. obj[f].ndx = Len(obj[f].arr) => t = d
  BY <1>3, SeqEqual DEF Docs
<1> QED BY <1>1, <1>2, <1>9, <1>10

\* Files used in sessions, with legal records and a disk that is not full: the file
\* has what was accepted in the session closed last, and who reads until nothing
\* is left gets all that was found, once and in order, through any closes, copies,
\* failed opens, refusals and crashes.
THEOREM RecordsAreKept ==
  ASSUME InSession, Legal, ~FullDisk
  PROVE  SpecFiles => []RecordsKept
<1>1. InitFiles => FilesInv
  BY InitFilesInv
<1>2. FilesInv /\ [NextFiles \/ CrashFiles]_fileVars => FilesInv'
  <2> SUFFICES ASSUME FilesInv, [NextFiles \/ CrashFiles]_fileVars
               PROVE  FilesInv'
    OBVIOUS
  <2>1. CASE UNCHANGED fileVars
    BY <2>1 DEF fileVars, FilesInv, FilesType, HoldsAccepted
  <2>2. CASE CrashFiles
    BY <2>2, StepCrash
  <2>3. ASSUME NEW f \in Objs, Construct(f) \/ Close(f) \/ Destroy(f) \/ loadNext(f)
        PROVE  FilesInv'
    BY <2>3, StepConstruct, StepClose, StepDestroy, StepLoadNext
  <2>4. ASSUME NEW f \in Objs, NEW s \in Objs, CopyConstruct(f, s) PROVE FilesInv'
    BY <2>4, StepCopyConstruct
  <2>5. ASSUME NEW f \in Objs, NEW mode \in {"ReadOnly", "WriteOnly", "Append"}, Open(f, mode)
        PROVE  FilesInv'
    BY <2>5, StepOpen
  <2>6. ASSUME NEW f \in Objs, NEW record \in Texts, saveNext(f, record) PROVE FilesInv'
    BY <2>6, StepSaveNext
  <2>7. ASSUME NEW f \in Objs, NEW record \in Texts, loadString(f, <<record>>) PROVE FilesInv'
    <3>1. <<record>> \in Docs
      BY DEF Docs
    <3> QED BY <2>7, <3>1, StepLoadString
  <2> QED BY <2>1, <2>2, <2>3, <2>4, <2>5, <2>6, <2>7 DEF NextFiles
<1>3. FilesInv => RecordsKept
  BY ReadsAllFollows
<1> QED BY <1>1, <1>2, <1>3, PTL DEF SpecFiles

(***************************************************************************)
(* Settings                                                                *)
(***************************************************************************)
\* What may be set, and the directories that come of it.
Paths    == Dirs \cup {"", ".", "$HOME", Unset}
Marks    == Levels \cup {Unset, "info"}
AllSettings == [home : Paths, work : Paths, schemas : Paths, level : Marks,
                modules : SUBSET Modules, module_level : [Modules -> Marks]]
Loggers  == [level : [Modules -> Marks], linked : SUBSET Modules, loggers : SUBSET Modules]

ConfigOk(c) == c.kind = "whole" => c.doc \in AllSettings

SettingsType ==
  /\ all \in AllSettings /\ log \in Loggers
  /\ dirs \in [home : Paths, user : Paths, schem : Paths]
  /\ ConfigOk(config)

SettingsInv == SettingsType /\ SettingsAgree

LEMMA PathsAre ==
  ASSUME NEW a \in AllSettings, NEW home \in Paths
  PROVE  /\ HomeOf(a) \in Paths /\ UserOf(a, home) \in Paths /\ SchemOf(a, home) \in Paths
         /\ \A m \in Modules : get_level(a, m) \in Marks
BY DEF AllSettings, HomeOf, UserOf, SchemOf, expand_home_dir, value, get_level, Paths, Marks

\* The directories come of the paths that are set, and the levels of the levels.
LEMMA SameSettings ==
  ASSUME NEW a, NEW b
  PROVE  /\ a.home = b.home => HomeOf(a) = HomeOf(b)
         /\ a.work = b.work => \A home : UserOf(a, home) = UserOf(b, home)
         /\ a.level = b.level /\ a.module_level = b.module_level
            => \A m : get_level(a, m) = get_level(b, m)
BY DEF HomeOf, UserOf, get_level

\* What is in the file after a save was in it, or has been given.
LEMMA SavedOk ==
  ASSUME NEW c, ConfigOk(c), NEW a \in AllSettings, NEW outcome
  PROVE  ConfigOk(Saved(c, a, outcome))
<1>1. Saved(c, a, outcome) \in {Whole(a), Cut, c}
  BY DEF Saved
<1>2. ConfigOk(Whole(a)) /\ ConfigOk(Cut)
  BY DEF ConfigOk, Whole, Cut
<1> QED BY <1>1, <1>2

LEMMA SetIs ==
  ASSUME SettingsType, NEW a \in AllSettings, NEW outcome, Set(a, outcome)
  PROVE  all' = a /\ ConfigOk(config')
BY SavedOk DEF Set, SettingsType

LEMMA StepSetValue ==
  ASSUME SettingsInv, NEW key \in {"home", "work", "schemas", "level"}, NEW v,
         IF key = "level" THEN v \in Levels ELSE v \in Dirs, setValue(key, v)
  PROVE  SettingsInv'
<1>1. PICK a : a = [all EXCEPT ![key] = v]
  OBVIOUS
<1>2. /\ a \in AllSettings
      /\ key # "home" => a.home = all.home
      /\ key # "work" => a.work = all.work
      /\ key # "level" => a.level = all.level
      /\ a.module_level = all.module_level
  BY <1>1 DEF SettingsInv, SettingsType, AllSettings, Paths, Marks
<1>3. PICK outcome \in Outcomes : Set(a, outcome)
  BY <1>1 DEF setValue
<1>4. all' = a /\ ConfigOk(config')
  BY <1>2, <1>3, SetIs DEF SettingsInv
<1>5. up /\ UNCHANGED <<up, dirs, log>>
  BY DEF setValue, Called
<1>6. SettingsType'
  BY <1>2, <1>4, <1>5 DEF SettingsInv, SettingsType
<1>7. /\ behind'.logs = behind.logs \cup (IF key = "level" THEN log.loggers ELSE {})
      /\ behind'.dirs = behind.dirs \cup ({key} \cap {"home", "work"})
  BY DEF setValue, Behind
<1>8. \A m \in log'.loggers \ behind'.logs : log'.level[m] = get_level(a, m)
  BY <1>2, <1>5, <1>7, SameSettings DEF SettingsInv, SettingsAgree
<1>9. "home" \notin behind'.dirs => dirs'.home = HomeOf(a)
  BY <1>2, <1>5, <1>7, SameSettings DEF SettingsInv, SettingsAgree
<1>10. "work" \notin behind'.dirs => dirs'.user = UserOf(a, dirs'.home)
  <2> SUFFICES ASSUME "work" \notin behind'.dirs PROVE dirs.user = UserOf(a, dirs.home)
    BY <1>5
  <2>1. key # "work" /\ "work" \notin behind.dirs
    BY <1>7
  <2>2. dirs.user = UserOf(all, dirs.home)
    BY <1>5, <2>1 DEF SettingsInv, SettingsAgree
  <2>3. \A home : UserOf(a, home) = UserOf(all, home)
    BY <1>2, <2>1, SameSettings
  <2> QED BY <2>2, <2>3
<1> QED BY <1>4, <1>6, <1>8, <1>9, <1>10 DEF SettingsInv, SettingsAgree

LEMMA StepSetUserDir ==
  ASSUME SettingsInv, NEW path \in Dirs, setUserDir(path)
  PROVE  SettingsInv'
<1>1. PICK a : a = [all EXCEPT !.work = path]
  OBVIOUS
<1>2. /\ a \in AllSettings /\ a.home = all.home /\ a.level = all.level
      /\ a.module_level = all.module_level
  BY <1>1 DEF SettingsInv, SettingsType, AllSettings, Paths
<1>3. PICK outcome \in Outcomes :
        /\ Set(a, outcome)
        /\ IF Done(outcome)
           THEN dirs' = [dirs EXCEPT !.user = UserOf(all', dirs.home)] /\ Ahead({}, {"work"})
           ELSE Behind({}, {"work"}) /\ UNCHANGED dirs
  BY <1>1 DEF setUserDir
<1>4. all' = a /\ ConfigOk(config')
  BY <1>2, <1>3, SetIs DEF SettingsInv
<1>5. up /\ UNCHANGED <<up, log>>
  BY DEF setUserDir, Called
<1>6. HomeOf(a) = HomeOf(all) /\ \A m : get_level(a, m) = get_level(all, m)
  BY <1>2, SameSettings
<1>7. /\ dirs' \in [home : Paths, user : Paths, schem : Paths] /\ dirs'.home = dirs.home
      /\ behind'.logs = behind.logs
      /\ "home" \in behind.dirs => "home" \in behind'.dirs
      /\ "work" \in behind'.dirs \/ dirs'.user = UserOf(a, dirs.home)
  <2>1. CASE Done(outcome)
    <3>1. dirs' = [dirs EXCEPT !.user = UserOf(a, dirs.home)] /\ Ahead({}, {"work"})
      BY <1>3, <1>4, <2>1
    <3>2. UserOf(a, dirs.home) \in Paths
      BY <1>2, PathsAre DEF SettingsInv, SettingsType
    <3>3. behind' = [logs |-> behind.logs \ {}, dirs |-> behind.dirs \ {"work"}]
      BY <3>1 DEF Ahead
    <3> QED BY <3>1, <3>2, <3>3 DEF SettingsInv, SettingsType
  <2>2. CASE ~Done(outcome)
    <3>1. Behind({}, {"work"}) /\ UNCHANGED dirs
      BY <1>3, <2>2
    <3>2. behind' = [logs |-> behind.logs \cup {}, dirs |-> behind.dirs \cup {"work"}]
      BY <3>1 DEF Behind
    <3> QED BY <3>1, <3>2 DEF SettingsInv, SettingsType
  <2> QED BY <2>1, <2>2
<1>8. SettingsType'
  BY <1>2, <1>4, <1>5, <1>7 DEF SettingsInv, SettingsType
<1>9. SettingsAgree'
  BY <1>4, <1>5, <1>6, <1>7 DEF SettingsInv, SettingsAgree
<1> QED BY <1>8, <1>9 DEF SettingsInv

\* A work directory that is not "~" is the same in every home.
LEMMA StepSetHomeDir ==
  ASSUME SettingsInv, NEW path \in Dirs, setHomeDir(path)
  PROVE  SettingsInv'
<1>1. PICK a : a = [all EXCEPT !.home = path]
  OBVIOUS
<1>2. /\ a \in AllSettings /\ a.work = all.work /\ a.level = all.level
      /\ a.module_level = all.module_level
  BY <1>1 DEF SettingsInv, SettingsType, AllSettings, Paths
<1>3. PICK outcome \in Outcomes :
        /\ Set(a, outcome)
        /\ IF Done(outcome)
           THEN /\ dirs' = [dirs EXCEPT !.home = HomeOf(all')]
                /\ behind' = [logs |-> behind.logs,
                              dirs |-> (behind.dirs \ {"home"}) \cup (IF all.work = "~" THEN {"work"} ELSE {})]
           ELSE Behind({}, {"home"}) /\ UNCHANGED dirs
  BY <1>1 DEF setHomeDir
<1>4. all' = a /\ ConfigOk(config')
  BY <1>2, <1>3, SetIs DEF SettingsInv
<1>5. up /\ UNCHANGED <<up, log>>
  BY DEF setHomeDir, Called
<1>6. \A m : get_level(a, m) = get_level(all, m)
  BY <1>2, SameSettings
<1>7. all.work = "~" \/ \A home : UserOf(a, home) = UserOf(all, dirs.home)
  BY <1>2 DEF UserOf, expand_home_dir, value
<1>8. \A home : UserOf(a, home) = UserOf(all, home)
  BY <1>2, SameSettings
<1>9. /\ dirs' \in [home : Paths, user : Paths, schem : Paths] /\ dirs'.user = dirs.user
      /\ behind'.logs = behind.logs
      /\ "home" \in behind'.dirs \/ dirs'.home = HomeOf(a)
      /\ \/ "work" \in behind'.dirs
         \/ "work" \notin behind.dirs /\ (all.work # "~" \/ dirs'.home = dirs.home)
  <2>1. CASE Done(outcome)
    <3>1. dirs' = [dirs EXCEPT !.home = HomeOf(a)]
      BY <1>3, <1>4, <2>1
    <3>2. "" \in Paths
      BY DEF Paths
    <3>3. HomeOf(a) \in Paths
      BY <1>2, <3>2, PathsAre
    <3>4. behind' = [logs |-> behind.logs,
                     dirs |-> (behind.dirs \ {"home"}) \cup (IF all.work = "~" THEN {"work"} ELSE {})]
      BY <1>3, <2>1
    <3> QED BY <3>1, <3>3, <3>4 DEF SettingsInv, SettingsType
  <2>2. CASE ~Done(outcome)
    <3>1. Behind({}, {"home"}) /\ UNCHANGED dirs
      BY <1>3, <2>2
    <3>2. behind' = [logs |-> behind.logs \cup {}, dirs |-> behind.dirs \cup {"home"}]
      BY <3>1 DEF Behind
    <3> QED BY <3>1, <3>2 DEF SettingsInv, SettingsType
  <2> QED BY <2>1, <2>2
<1>10. SettingsType'
  BY <1>2, <1>4, <1>5, <1>9 DEF SettingsInv, SettingsType
<1>11. \A m \in log'.loggers \ behind'.logs : log'.level[m] = get_level(a, m)
  BY <1>5, <1>6, <1>9 DEF SettingsInv, SettingsAgree
<1>12. "work" \notin behind'.dirs => dirs'.user = UserOf(a, dirs'.home)
  <2> SUFFICES ASSUME "work" \notin behind'.dirs PROVE dirs'.user = UserOf(a, dirs'.home)
    OBVIOUS
  <2>1. dirs.user = UserOf(all, dirs.home)
    BY <1>5, <1>9 DEF SettingsInv, SettingsAgree
  <2> QED BY <1>7, <1>8, <1>9, <2>1
<1> QED BY <1>4, <1>9, <1>10, <1>11, <1>12 DEF SettingsInv, SettingsAgree

LEMMA StepSchemas ==
  ASSUME SettingsInv,
         updateSchemaDir \/ \E file1 : addSchemaFile(file1) \/ addSchemaFormat(file1)
  PROVE  SettingsInv'
<1>1. UNCHANGED <<up, config, all, log, behind>>
  BY DEF updateSchemaDir, addSchemaFile, addSchemaFormat, Called
<1>2. /\ dirs' \in [home : Paths, user : Paths, schem : Paths]
      /\ dirs'.home = dirs.home /\ dirs'.user = dirs.user
  <2>1. CASE updateSchemaDir
    <3>1. dirs' = [dirs EXCEPT !.schem = SchemOf(all, dirs.home)]
      BY <2>1 DEF updateSchemaDir
    <3>2. SchemOf(all, dirs.home) \in Paths
      BY PathsAre DEF SettingsInv, SettingsType
    <3> QED BY <3>1, <3>2 DEF SettingsInv, SettingsType
  <2>2. CASE UNCHANGED dirs
    BY <2>2 DEF SettingsInv, SettingsType
  <2> QED BY <2>1, <2>2 DEF addSchemaFile, addSchemaFormat
<1>3. SettingsType'
  BY <1>1, <1>2 DEF SettingsInv, SettingsType
<1> QED BY <1>1, <1>2, <1>3 DEF SettingsInv, SettingsAgree

LEMMA LevelIs ==
  ASSUME NEW k \in Loggers, NEW m \in Modules, NEW v \in Marks
  PROVE  LET l == [k EXCEPT !.level[m] = v]
         IN  /\ l \in Loggers /\ l.loggers = k.loggers /\ l.linked = k.linked
             /\ l.level[m] = v /\ \A n \in Modules \ {m} : l.level[n] = k.level[n]
<1>1. PICK lev : lev = [k.level EXCEPT ![m] = v]
  OBVIOUS
<1>2. lev \in [Modules -> Marks] /\ lev[m] = v /\ \A n \in Modules \ {m} : lev[n] = k.level[n]
  BY <1>1 DEF Loggers
<1>3. [k EXCEPT !.level[m] = v] = [k EXCEPT !.level = lev]
  BY <1>1 DEF Loggers
<1> QED BY <1>2, <1>3 DEF Loggers

LEMMA LevelSet ==
  ASSUME NEW a \in AllSettings, NEW m \in Modules
  PROVE  get_level(a, m) # Unset
BY SettingsAssumption DEF get_level, value, AllSettings, Marks, Unset

LEMMA StepRegister ==
  ASSUME SettingsInv, NEW m \in Modules, Register(m)
  PROVE  SettingsInv'
<1>1. log' = [log EXCEPT !.level[m] = "info"] /\ log.level[m] = Unset
  BY DEF Register
<1>2. UNCHANGED <<up, config, all, dirs, behind>>
  BY DEF Register
<1>3. log \in Loggers /\ all \in AllSettings /\ "info" \in Marks
  BY DEF SettingsInv, SettingsType, Marks
<1>4. /\ log' \in Loggers /\ log'.loggers = log.loggers
      /\ \A n \in Modules \ {m} : log'.level[n] = log.level[n]
  BY <1>1, <1>3, LevelIs
<1>5. up => \A n \in log'.loggers \ behind.logs : log'.level[n] = get_level(all, n)
  <2> SUFFICES ASSUME up, NEW n \in log'.loggers \ behind.logs
               PROVE  log'.level[n] = get_level(all, n)
    OBVIOUS
  <2>1. n \in Modules /\ log.level[n] = get_level(all, n)
    BY <1>3, <1>4 DEF SettingsInv, SettingsAgree, Loggers
  <2>2. n # m
    BY <1>1, <1>3, <2>1, LevelSet
  <2> QED BY <1>4, <2>1, <2>2
<1>6. SettingsType'
  BY <1>2, <1>4 DEF SettingsInv, SettingsType
<1>7. SettingsAgree'
  BY <1>2, <1>5 DEF SettingsInv, SettingsAgree
<1> QED BY <1>6, <1>7 DEF SettingsInv

\* A logger that is made has the level that is set; one that is found, and was not
\* handed out, keeps its own.
LEMMA LoggerIs ==
  ASSUME log \in Loggers, NEW m \in Modules, NEW a \in AllSettings, NEW l, l = Logger(log, a, m)
  PROVE  /\ l \in Loggers /\ l.loggers = log.loggers \cup {m}
         /\ l.level[m] = IF log.level[m] = Unset THEN get_level(a, m) ELSE log.level[m]
         /\ \A n \in Modules \ {m} : l.level[n] = log.level[n]
<1> DEFINE v == IF log.level[m] = Unset THEN get_level(a, m) ELSE log.level[m]
<1>1. PICK k : k = [log EXCEPT !.linked = log.linked \cup {m}, !.loggers = log.loggers \cup {m}]
  OBVIOUS
<1>2. /\ k \in Loggers /\ k.loggers = log.loggers \cup {m} /\ k.level = log.level
  BY <1>1 DEF Loggers
<1>3. v \in Marks
  <2>1. "" \in Paths
    BY DEF Paths
  <2> QED BY <2>1, PathsAre DEF Loggers
<1>4. l = [k EXCEPT !.level[m] = v]
  BY <1>1 DEF Logger, Loggers
<1> HIDE DEF v
<1>5. /\ l \in Loggers /\ l.loggers = k.loggers
      /\ l.level[m] = v /\ \A n \in Modules \ {m} : l.level[n] = k.level[n]
  BY <1>2, <1>3, <1>4, LevelIs
<1> QED BY <1>2, <1>5 DEF v

\* With a logger made, or found and left behind, the others are as they were.
LEMMA LoggerAgrees ==
  ASSUME SettingsInv, up, NEW m \in Modules, NEW a \in AllSettings,
         \A n : get_level(a, n) = get_level(all, n), NEW l, l = Logger(log, all, m)
  PROVE  /\ l \in Loggers
         /\ \A n \in l.loggers \ (behind.logs \cup ({m} \cap {k \in Modules : Found(k)})) :
               l.level[n] = get_level(a, n)
<1>1. log \in Loggers /\ all \in AllSettings
  BY DEF SettingsInv, SettingsType
<1>2. /\ l \in Loggers /\ l.loggers = log.loggers \cup {m}
      /\ l.level[m] = IF log.level[m] = Unset THEN get_level(all, m) ELSE log.level[m]
      /\ \A n \in Modules \ {m} : l.level[n] = log.level[n]
  BY <1>1, LoggerIs
<1>3. \A n \in log.loggers \ behind.logs : log.level[n] = get_level(all, n)
  BY DEF SettingsInv, SettingsAgree
<1>4. log.loggers \subseteq Modules
  BY <1>1 DEF Loggers
<1>5. ASSUME NEW n \in l.loggers \ (behind.logs \cup ({m} \cap {k \in Modules : Found(k)}))
      PROVE  l.level[n] = get_level(a, n)
  <2>1. CASE n # m
    BY <1>2, <1>3, <1>4, <1>5, <2>1
  <2>2. CASE n = m
    BY <1>2, <1>3, <1>5, <2>2 DEF Found
  <2> QED BY <2>1, <2>2
<1> QED BY <1>2, <1>5

\* The names of loggers are no level and no directory.
LEMMA NamesOnly ==
  ASSUME SettingsType, NEW names \in SUBSET Modules, NEW a, a = [all EXCEPT !.modules = names]
  PROVE  /\ a \in AllSettings /\ HomeOf(a) = HomeOf(all)
         /\ \A home : UserOf(a, home) = UserOf(all, home)
         /\ \A n : get_level(a, n) = get_level(all, n)
<1>1. /\ a \in AllSettings /\ a.home = all.home /\ a.work = all.work
      /\ a.level = all.level /\ a.module_level = all.module_level
  BY DEF SettingsType, AllSettings
<1> QED BY <1>1, SameSettings

LEMMA StepGetLogger ==
  ASSUME SettingsInv, NEW m \in Modules, get_logger(m)
  PROVE  SettingsInv'
<1>1. up /\ UNCHANGED <<up, dirs>> /\ log \in Loggers /\ all \in AllSettings
  BY DEF get_logger, Called, SettingsInv, SettingsType
<1>2. PICK l : l = Logger(log, all, m)
  OBVIOUS
<1>3. PICK a : a = [all EXCEPT !.modules = log.linked \cup {m}]
  OBVIOUS
<1>4. /\ a \in AllSettings /\ HomeOf(a) = HomeOf(all)
      /\ \A home : UserOf(a, home) = UserOf(all, home)
      /\ \A n : get_level(a, n) = get_level(all, n)
  <2>1. log.linked \cup {m} \in SUBSET Modules
    BY <1>1 DEF Loggers
  <2> QED BY <1>3, <2>1, NamesOnly DEF SettingsInv
<1>5. /\ l \in Loggers
      /\ \A n \in l.loggers \ (behind.logs \cup ({m} \cap {k \in Modules : Found(k)})) :
            l.level[n] = get_level(all, n)
  BY <1>1, <1>2, LoggerAgrees
<1>6. /\ all' \in {all, a} /\ ConfigOk(config')
      /\ \/ log' = l /\ Behind({m} \cap {n \in Modules : Found(n)}, {})
         \/ log' = [log EXCEPT !.linked = log.linked \cup {m}] /\ UNCHANGED behind
  <2>1. CASE m \in log.linked
    BY <1>2, <2>1 DEF get_logger, SettingsInv, SettingsType
  <2>2. CASE m \notin log.linked
    <3>1. PICK outcome \in Outcomes :
            /\ Set(a, outcome)
            /\ IF Done(outcome)
               THEN log' = Logger(log, all', m) /\ Behind({m} \cap {n \in Modules : Found(n)}, {})
               ELSE log' = [log EXCEPT !.linked = log.linked \cup {m}] /\ UNCHANGED behind
      BY <1>3, <2>2 DEF get_logger
    <3>2. all' = a /\ ConfigOk(config')
      BY <1>4, <3>1, SetIs DEF SettingsInv
    <3>3. get_level(a, m) = get_level(all, m)
      BY <1>4
    <3>4. Logger(log, a, m) = l
      BY <1>2, <3>3, Zenon DEF Logger
    <3> QED BY <3>1, <3>2, <3>4
  <2> QED BY <2>1, <2>2
<1>7. /\ log' \in Loggers /\ behind'.dirs = behind.dirs
      /\ \A n \in log'.loggers \ behind'.logs : log'.level[n] = get_level(all, n)
  <2>1. CASE log' = l /\ Behind({m} \cap {n \in Modules : Found(n)}, {})
    BY <1>5, <2>1 DEF Behind
  <2>2. CASE log' = [log EXCEPT !.linked = log.linked \cup {m}] /\ UNCHANGED behind
    <3>1. log' \in Loggers /\ log'.level = log.level /\ log'.loggers = log.loggers
      <4>1. PICK names : names = log.linked \cup {m}
        OBVIOUS
      <4>2. names \subseteq Modules /\ log' = [log EXCEPT !.linked = names]
        BY <1>1, <2>2, <4>1 DEF Loggers
      <4> QED BY <1>1, <4>2 DEF Loggers
    <3> QED BY <1>1, <2>2, <3>1 DEF SettingsInv, SettingsAgree
  <2> QED BY <1>6, <2>1, <2>2
<1>8. SettingsType'
  BY <1>1, <1>4, <1>6, <1>7 DEF SettingsInv, SettingsType
<1>9. /\ HomeOf(all') = HomeOf(all) /\ \A home : UserOf(all', home) = UserOf(all, home)
      /\ \A n : get_level(all', n) = get_level(all, n)
  BY <1>4, <1>6
<1>10. SettingsAgree'
  BY <1>1, <1>7, <1>9 DEF SettingsInv, SettingsAgree
<1> QED BY <1>8, <1>10 DEF SettingsInv

LEMMA RelevelledIs ==
  ASSUME NEW k \in Loggers, NEW a \in AllSettings, NEW l, l = Relevelled(k, a)
  PROVE  /\ l \in Loggers /\ l.loggers = k.loggers
         /\ \A m \in k.loggers : l.level[m] = get_level(a, m)
<1> DEFINE lev == [m \in Modules |-> IF m \in k.loggers THEN get_level(a, m) ELSE k.level[m]]
<1>1. l = [k EXCEPT !.level = lev]
  BY DEF Relevelled
<1>2. "" \in Paths
  BY DEF Paths
<1>3. lev \in [Modules -> Marks]
  BY <1>2, PathsAre DEF Loggers
<1>4. \A m \in Modules \cap k.loggers : lev[m] = get_level(a, m)
  OBVIOUS
<1>5. k.loggers \subseteq Modules
  BY DEF Loggers
<1> HIDE DEF lev
<1>6. l \in Loggers /\ l.loggers = k.loggers /\ l.level = lev
  BY <1>1, <1>3 DEF Loggers
<1> QED BY <1>4, <1>5, <1>6

LEMMA StepSetLevels ==
  ASSUME SettingsInv, NEW level \in Levels, set_levels(level)
  PROVE  SettingsInv'
<1>1. up /\ UNCHANGED <<up, dirs>> /\ log \in Loggers /\ all \in AllSettings
  BY DEF set_levels, Called, SettingsInv, SettingsType
<1>2. PICK a : a = [all EXCEPT !.level = level]
  OBVIOUS
<1>3. a \in AllSettings /\ a.home = all.home /\ a.work = all.work
  BY <1>1, <1>2 DEF AllSettings, Marks
<1>4. PICK outcome \in Outcomes :
        /\ Set(a, outcome)
        /\ IF Done(outcome) THEN log' = Relevelled(log, all') /\ Ahead(log.loggers, {})
           ELSE Behind(log.loggers, {}) /\ UNCHANGED log
  BY <1>2 DEF set_levels
<1>5. all' = a /\ ConfigOk(config')
  BY <1>3, <1>4, SetIs DEF SettingsInv
<1>6. HomeOf(a) = HomeOf(all) /\ \A home : UserOf(a, home) = UserOf(all, home)
  BY <1>3, SameSettings
<1>7. /\ log' \in Loggers /\ behind'.dirs = behind.dirs
      /\ \A n \in log'.loggers \ behind'.logs : log'.level[n] = get_level(a, n)
  <2>1. CASE Done(outcome)
    <3>1. log' = Relevelled(log, a) /\ behind'.dirs = behind.dirs \ {}
      BY <1>4, <1>5, <2>1 DEF Ahead
    <3>2. /\ log' \in Loggers /\ log'.loggers = log.loggers
          /\ \A m \in log.loggers : log'.level[m] = get_level(a, m)
      BY <1>1, <1>3, <3>1, RelevelledIs
    <3> QED BY <3>1, <3>2
  <2>2. CASE ~Done(outcome)
    BY <1>1, <1>4, <2>2 DEF Behind
  <2> QED BY <2>1, <2>2
<1>8. SettingsType'
  BY <1>1, <1>3, <1>5, <1>7 DEF SettingsInv, SettingsType
<1>9. SettingsAgree'
  BY <1>1, <1>5, <1>6, <1>7 DEF SettingsInv, SettingsAgree
<1> QED BY <1>8, <1>9 DEF SettingsInv

\* The level of one module is no other's, nor a directory.
LEMMA StepSetModuleLevel ==
  ASSUME SettingsInv, NEW m \in Modules, NEW level \in Levels, set_module_level(m, level)
  PROVE  SettingsInv'
<1>1. up /\ UNCHANGED <<up, dirs>> /\ log \in Loggers /\ all \in AllSettings
  BY DEF set_module_level, Called, SettingsInv, SettingsType
<1>2. PICK names : names = log.linked \cup {m}
  OBVIOUS
<1>3. names \in SUBSET Modules
  BY <1>1, <1>2 DEF Loggers
<1>4. PICK named : named = IF m \in log.linked THEN all ELSE [all EXCEPT !.modules = names]
  OBVIOUS
<1>5. /\ named \in AllSettings /\ HomeOf(named) = HomeOf(all)
      /\ \A home : UserOf(named, home) = UserOf(all, home)
      /\ \A n : get_level(named, n) = get_level(all, n)
  BY <1>1, <1>3, <1>4, NamesOnly DEF SettingsInv
<1>6. PICK a : a = [named EXCEPT !.module_level[m] = level]
  OBVIOUS
<1>7. /\ a \in AllSettings /\ a.home = named.home /\ a.work = named.work /\ a.level = named.level
      /\ a.module_level[m] = level
      /\ \A n \in Modules \ {m} : a.module_level[n] = named.module_level[n]
  <2>1. PICK lev : lev = [named.module_level EXCEPT ![m] = level]
    OBVIOUS
  <2>2. /\ lev \in [Modules -> Marks] /\ lev[m] = level
        /\ \A n \in Modules \ {m} : lev[n] = named.module_level[n]
    BY <1>5, <2>1 DEF AllSettings, Marks
  <2>3. a = [named EXCEPT !.module_level = lev]
    BY <1>5, <1>6, <2>1 DEF AllSettings
  <2> QED BY <1>5, <2>2, <2>3 DEF AllSettings
<1>8. /\ HomeOf(a) = HomeOf(all) /\ \A home : UserOf(a, home) = UserOf(all, home)
      /\ get_level(a, m) = level
      /\ \A n \in Modules \ {m} : get_level(a, n) = get_level(all, n)
  <2>1. HomeOf(a) = HomeOf(named) /\ \A home : UserOf(a, home) = UserOf(named, home)
    BY <1>7, SameSettings
  <2>2. level # Unset
    BY SettingsAssumption
  <2>3. get_level(a, m) = level
    BY <1>7, <2>2 DEF get_level, value
  <2>4. \A n \in Modules \ {m} : get_level(a, n) = get_level(named, n)
    BY <1>7 DEF get_level
  <2> QED BY <1>5, <2>1, <2>3, <2>4
<1>9. CASE /\ Set(named, "refused")
           /\ log' = [log EXCEPT !.linked = names] /\ UNCHANGED behind
  <2>1. all' = named /\ ConfigOk(config')
    BY <1>5, <1>9, SetIs DEF SettingsInv
  <2>2. log' \in Loggers /\ log'.level = log.level /\ log'.loggers = log.loggers
    BY <1>1, <1>3, <1>9 DEF Loggers
  <2>3. SettingsType'
    BY <1>1, <1>5, <2>1, <2>2 DEF SettingsInv, SettingsType
  <2>4. SettingsAgree'
    BY <1>1, <1>5, <1>9, <2>1, <2>2 DEF SettingsInv, SettingsAgree
  <2> QED BY <2>3, <2>4 DEF SettingsInv
<1>10. CASE \E first \in Outcomes \ {"refused"}, last \in Outcomes :
               /\ all' = a
               /\ config' = Saved(IF m \in log.linked THEN config ELSE Saved(config, named, first), a, last)
               /\ log' = [Logger(log, all, m) EXCEPT !.level[m] = level]
               /\ Ahead({m}, {})
  <2>1. PICK first, last :
          config' = Saved(IF m \in log.linked THEN config ELSE Saved(config, named, first), a, last)
    BY <1>10
  <2>2. ConfigOk(config')
    <3>1. ConfigOk(IF m \in log.linked THEN config ELSE Saved(config, named, first))
      BY <1>5, SavedOk DEF SettingsInv, SettingsType
    <3> QED BY <1>7, <2>1, <3>1, SavedOk
  <2>3. PICK l : l = Logger(log, all, m)
    OBVIOUS
  <2>4. /\ l \in Loggers /\ l.loggers = log.loggers \cup {m}
        /\ \A n \in Modules \ {m} : l.level[n] = log.level[n]
    BY <1>1, <2>3, LoggerIs
  <2>5. level \in Marks
    BY DEF Marks
  <2>6. log' = [l EXCEPT !.level[m] = level]
    BY <1>10, <2>3
  <2>7. /\ log' \in Loggers /\ log'.loggers = log.loggers \cup {m}
        /\ log'.level[m] = level /\ \A n \in Modules \ {m} : log'.level[n] = log.level[n]
    BY <2>4, <2>5, <2>6, LevelIs
  <2>8. behind'.logs = behind.logs \ {m} /\ behind'.dirs = behind.dirs /\ all' = a
    BY <1>10 DEF Ahead
  <2>9. ASSUME NEW n \in log'.loggers \ behind'.logs
        PROVE  log'.level[n] = get_level(a, n)
    <3>1. n \in Modules
      BY <2>7, <2>9 DEF Loggers
    <3>2. CASE n = m
      BY <1>8, <2>7, <3>2
    <3>3. CASE n # m
      BY <1>1, <1>8, <2>7, <2>8, <2>9, <3>1, <3>3 DEF SettingsInv, SettingsAgree
    <3> QED BY <3>2, <3>3
  <2>10. SettingsType'
    BY <1>1, <1>7, <2>2, <2>7, <2>8 DEF SettingsInv, SettingsType
  <2>11. SettingsAgree'
    BY <1>1, <1>8, <2>8, <2>9 DEF SettingsInv, SettingsAgree
  <2> QED BY <2>10, <2>11 DEF SettingsInv
<1> QED BY <1>2, <1>4, <1>6, <1>9, <1>10 DEF set_module_level

LEMMA NothingSet ==
  /\ NoSettings \in AllSettings /\ NoLog \in Loggers /\ ToSet(BaseModules) \subseteq Modules
  /\ NoDirs \in [home : Paths, user : Paths, schem : Paths]
<1>1. /\ Unset \in Paths /\ Unset \in Marks /\ "." \in Paths /\ "" \in Paths /\ "info" \in Marks
  BY DEF Paths, Marks
<1>2. NoSettings \in AllSettings
  BY <1>1 DEF NoSettings, AllSettings
<1>3. NoLog \in Loggers
  BY <1>1 DEF NoLog, Loggers
<1>4. ToSet(BaseModules) \subseteq Modules
  BY SettingsAssumption DEF ToSet
<1> QED BY <1>1, <1>2, <1>3, <1>4 DEF NoDirs

\* The settings are loaded, or there are none, and the loggers of the names in them
\* have the levels in them, those that spdlog had before too.
LEMMA StepStarted ==
  ASSUME SettingsType, NEW loaded \in AllSettings, Started(loaded)
  PROVE  /\ all' = Logged(loaded) /\ all' \in AllSettings /\ ConfigOk(config') /\ log' \in Loggers
         /\ \A m \in log'.loggers : log'.level[m] = get_level(all', m)
<1>1. PICK a : a = Logged(loaded)
  OBVIOUS
<1>2. Names(loaded) \subseteq Modules
  BY NothingSet DEF Names, AllSettings
<1>3. a \in AllSettings /\ a.modules = Names(loaded)
  <2>1. a = [loaded EXCEPT !.modules = Names(loaded), !.level = value(loaded.level, "info")]
    BY <1>1 DEF Logged
  <2>2. value(loaded.level, "info") \in Marks
    BY DEF AllSettings, Marks, value
  <2> QED BY <1>2, <2>1, <2>2 DEF AllSettings
<1>4. all' = a /\ \E outcome : config' = Saved(config, a, outcome)
  BY <1>1 DEF Started
<1>5. ConfigOk(config')
  BY <1>3, <1>4, SavedOk DEF SettingsType
<1>6. PICK k : k = [log EXCEPT !.linked = Names(loaded), !.loggers = Names(loaded)]
  OBVIOUS
<1>7. k \in Loggers
  BY <1>2, <1>6 DEF SettingsType, Loggers
<1>8. PICK l : l = Relevelled(k, a)
  OBVIOUS
<1>9. log' = l
  BY <1>4, <1>6, <1>8 DEF Started
<1>10. l \in Loggers /\ l.loggers = k.loggers /\ \A m \in k.loggers : l.level[m] = get_level(a, m)
  BY <1>3, <1>7, <1>8, RelevelledIs
<1> QED BY <1>1, <1>3, <1>4, <1>5, <1>9, <1>10

LEMMA StepStartRefused ==
  ASSUME SettingsType, NEW loaded \in AllSettings, StartRefused(loaded)
  PROVE  SettingsType' /\ ~up'
<1>1. PICK k \in 0..Len(BaseModules) :
        LET made == IF loaded.modules = {} THEN {BaseModules[i] : i \in 1..k} ELSE loaded.modules
        IN /\ NotUp
           /\ \E outcome \in Outcomes \ {"refused"} :
                 config' = IF loaded.modules = {} /\ k > 0
                           THEN Saved(config, [loaded EXCEPT !.modules = made], outcome) ELSE config
           /\ log' = [NoLog EXCEPT !.level = [m \in Modules |->
                         IF m \in made /\ log.level[m] = Unset THEN get_level(loaded, m) ELSE log.level[m]]]
  BY DEF StartRefused
<1>2. PICK made : made = IF loaded.modules = {} THEN {BaseModules[i] : i \in 1..k} ELSE loaded.modules
  OBVIOUS
<1>3. made \subseteq Modules
  BY <1>2, SettingsAssumption DEF AllSettings
<1>4. PICK a : a = [loaded EXCEPT !.modules = made]
  OBVIOUS
<1>5. a \in AllSettings
  BY <1>3, <1>4 DEF AllSettings
<1>6. PICK outcome : config' = IF loaded.modules = {} /\ k > 0 THEN Saved(config, a, outcome) ELSE config
  BY <1>1, <1>2, <1>4
<1>7. ConfigOk(config')
  BY <1>5, <1>6, SavedOk DEF SettingsType
<1>8. PICK lev : lev = [m \in Modules |->
                          IF m \in made /\ log.level[m] = Unset THEN get_level(loaded, m) ELSE log.level[m]]
  OBVIOUS
<1>9. lev \in [Modules -> Marks]
  <2>1. "" \in Paths
    BY DEF Paths
  <2>2. \A m \in Modules : get_level(loaded, m) \in Marks /\ log.level[m] \in Marks
    BY <2>1, PathsAre DEF SettingsType, Loggers
  <2> QED BY <1>8, <2>2
<1>10. log' = [NoLog EXCEPT !.level = lev]
  BY <1>1, <1>2, <1>8
<1>11. log' \in Loggers
  BY <1>9, <1>10, NothingSet DEF Loggers
<1> QED BY <1>1, <1>7, <1>11, NothingSet DEF NotUp, SettingsType

LEMMA StepStart ==
  ASSUME SettingsInv, Start
  PROVE  SettingsInv'
<1>1. PICK loaded : loaded = IF Loads(config) THEN config.doc ELSE NoSettings
  OBVIOUS
<1>2. PICK home : home = HomeOf(loaded)
  OBVIOUS
<1>3. loaded \in AllSettings
  BY <1>1, NothingSet DEF SettingsInv, SettingsType, ConfigOk, Loads
<1>4. \/ /\ Started(loaded)
         /\ dirs' = [home |-> home, user |-> UserOf(loaded, home), schem |-> SchemOf(loaded, home)]
      \/ StartRefused(loaded)
      \/ NotUp /\ UNCHANGED <<config, log>>
  BY <1>1, <1>2 DEF Start
<1>5. CASE /\ Started(loaded)
           /\ dirs' = [home |-> home, user |-> UserOf(loaded, home), schem |-> SchemOf(loaded, home)]
  <2>1. /\ all' = Logged(loaded) /\ all' \in AllSettings /\ ConfigOk(config') /\ log' \in Loggers
        /\ \A m \in log'.loggers : log'.level[m] = get_level(all', m)
    BY <1>3, <1>5, StepStarted DEF SettingsInv
  <2>2. all'.home = loaded.home /\ all'.work = loaded.work
    BY <1>3, <2>1 DEF Logged, AllSettings
  <2>3. HomeOf(all') = home /\ UserOf(all', home) = UserOf(loaded, home)
    BY <1>2, <2>2, SameSettings
  <2>4. "" \in Paths
    BY DEF Paths
  <2>5. home \in Paths
    BY <1>2, <1>3, <2>4, PathsAre
  <2>6. dirs' \in [home : Paths, user : Paths, schem : Paths]
    BY <1>3, <1>5, <2>5, PathsAre
  <2>7. SettingsType'
    BY <2>1, <2>6 DEF SettingsType
  <2>8. SettingsAgree'
    BY <1>5, <2>1, <2>3 DEF SettingsAgree
  <2> QED BY <2>7, <2>8 DEF SettingsInv
<1>6. CASE StartRefused(loaded)
  BY <1>3, <1>6, StepStartRefused DEF SettingsInv, SettingsAgree
<1>7. CASE NotUp /\ UNCHANGED <<config, log>>
  BY <1>7, NothingSet DEF NotUp, SettingsInv, SettingsType, SettingsAgree
<1> QED BY <1>4, <1>5, <1>6, <1>7

LEMMA StepStop ==
  ASSUME SettingsInv, Stop
  PROVE  SettingsInv'
BY NothingSet DEF Stop, NotUp, SettingsInv, SettingsType, SettingsAgree

\* After any calls, refused ones too, cut files and restarts, and with any loggers
\* that the program made in spdlog, what is in use is what the settings say: the
\* level of every logger and the directories, but for what is behind.
THEOREM SettingsAreUsed == SpecSettings => []SettingsAgree
<1>1. InitSettings => SettingsInv
  <2> SUFFICES ASSUME InitSettings PROVE SettingsInv
    OBVIOUS
  <2>1. SettingsType
    BY NothingSet DEF InitSettings, SettingsType, ConfigOk, Absent
  <2> QED BY <2>1 DEF InitSettings, SettingsInv, SettingsAgree
<1>2. SettingsInv /\ [NextSettings]_settingsVars => SettingsInv'
  <2> SUFFICES ASSUME SettingsInv, [NextSettings]_settingsVars PROVE SettingsInv'
    OBVIOUS
  <2>1. CASE UNCHANGED settingsVars
    BY <2>1 DEF settingsVars, SettingsInv, SettingsType, SettingsAgree
  <2>2. CASE Start \/ Stop
    BY <2>2, StepStart, StepStop
  <2>3. CASE \/ updateSchemaDir
             \/ \E name \in DOMAIN Content : addSchemaFile(name) \/ addSchemaFormat(name)
    BY <2>3, StepSchemas
  <2>4. ASSUME NEW v \in Dirs, NEW key \in {"home", "work", "schemas"}, setValue(key, v)
        PROVE  SettingsInv'
    BY <2>4, StepSetValue
  <2>5. ASSUME NEW l \in Levels, setValue("level", l) \/ set_levels(l)
        PROVE  SettingsInv'
    BY <2>5, StepSetValue, StepSetLevels
  <2>6. ASSUME NEW path \in Dirs, setUserDir(path) \/ setHomeDir(path)
        PROVE  SettingsInv'
    BY <2>6, StepSetUserDir, StepSetHomeDir
  <2>7. ASSUME NEW m \in Modules, Register(m) \/ get_logger(m) PROVE SettingsInv'
    BY <2>7, StepRegister, StepGetLogger
  <2>8. ASSUME NEW m \in Modules, NEW l \in Levels, set_module_level(m, l)
        PROVE  SettingsInv'
    BY <2>8, StepSetModuleLevel
  <2> QED BY <2>1, <2>2, <2>3, <2>4, <2>5, <2>6, <2>7, <2>8 DEF NextSettings
<1> QED BY <1>1, <1>2, PTL DEF SpecSettings, SettingsInv
=============================================================================
