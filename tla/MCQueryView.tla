---------------------------- MODULE MCQueryView -----------------------------
(* Instances of QueryView for TLC: two documents and their clients, records *)
(* with one of two contents, and a query for all of them and one for some.  *)
EXTENDS QueryView, TLC

CONSTANTS old, new

MCVals    == {old, new}
MCQueries == {{old, new}, {new}}

Symmetry == Permutations(Ids) \cup Permutations(Docs)
=============================================================================
