----------------------------- MODULE MCStorage -----------------------------
(* A program that uses array files, or its settings: they share no state, so *)
(* a behaviour exercises one of the two.                                     *)
EXTENDS ArrayFile, Settings

VARIABLE part

MCBaseModules == <<"jsonio", "arango">>
MCSchemaFiles == ("" :> {}) @@ ("d1" :> {"v.json", "e.json"}) @@ ("$HOME" :> {"bad.json", "v.json"}) @@ ("d2" :> {})
MCContent == ("v.json" :> {"Vertex", "Plain"}) @@ ("e.json" :> {"Edge"}) @@ ("bad.json" :> {"Edge", "broken"}) @@ ("p.json" :> {"Plain"})
MCTypeOf == ("Vertex" :> "vertex") @@ ("Edge" :> "edge") @@ ("Plain" :> "none")

Init == InitFiles /\ InitSettings /\ part \in {"files", "settings"}
Next ==
    /\ \/ part = "files" /\ (NextFiles \/ CrashFiles) /\ UNCHANGED settingsVars
       \/ part = "settings" /\ NextSettings /\ UNCHANGED fileVars
    /\ UNCHANGED part
Spec == Init /\ [][Next]_<<fileVars, settingsVars, part>>
=============================================================================
