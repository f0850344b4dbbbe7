---------------------------- MODULE MCDocuments ----------------------------
(* A vertex document on two schemas, one of which has a key template, and a  *)
(* json document on the collection of that one.  The template "a" starts     *)
(* the template "ab".                                                        *)
EXTENDS Documents, TLC

MCKind == ("v" :> "vertex") @@ ("j" :> "json")
MCTypeOf == ("A" :> "vertex") @@ ("B" :> "vertex") @@ ("E" :> "edge") @@ ("P" :> "none") @@ ("?" :> "unknown")
MCTemplate == ("x" :> "a") @@ ("y" :> "ab")
MCShown == ("x" :> "x") @@ ("y" :> "y")
MCLonger == ("a" :> {"a", "ab"}) @@ ("ab" :> {"ab"})
MCFirst == {[coll |-> "A", head |-> "a", n |-> 0]}
=============================================================================
