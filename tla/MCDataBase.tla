----------------------------- MODULE MCDataBase -----------------------------
(* Instances of DataBase for TLC: the objects and threads are               *)
(* interchangeable where no liveness is checked.                            *)
EXTENDS DataBase, TLC

Symmetry == Permutations(Objects) \cup Permutations(Threads) \cup Permutations(Drivers)
=============================================================================
