------------------------------ MODULE TextFile ------------------------------
(* A file as TxtFile and JsonFile see it (txt2file.cpp): absent, cut short,  *)
(* or with a whole document.                                                 *)

CONSTANTS FullDisk,   \* writes may be cut short
          Refusals    \* the file may refuse to be opened for writing

Absent == [kind |-> "absent"]
Cut == [kind |-> "cut"]
Whole(doc) == [kind |-> "whole", doc |-> doc]

\* saveJson truncates and then dumps; only the opening is tested.
Outcomes == {"saved"} \cup (IF FullDisk THEN {"cut"} ELSE {}) \cup (IF Refusals THEN {"refused"} ELSE {})

Saved(old, doc, outcome) ==
    CASE outcome = "saved" -> Whole(doc)
      [] outcome = "cut" -> Cut
      [] OTHER -> old

\* load_all and loads throw when there is no file, or half of one.
Loads(content) == content.kind = "whole"
=============================================================================
