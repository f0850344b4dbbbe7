---------------------------- MODULE MCCollection ----------------------------
(* Instances of Collection for TLC: model values for the ids, threads and  *)
(* loader slots, which are interchangeable.                                *)
EXTENDS Collection, TLC

Symmetry == Permutations(Ids) \cup Permutations(Threads) \cup Permutations(Loaders)
=============================================================================
