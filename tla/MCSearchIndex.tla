---------------------------- MODULE MCSearchIndex ----------------------------
(* Symmetry of the instances of SearchIndex that TLC checks.              *)
EXTENDS SearchIndex, TLC

Symmetry == Permutations(Records) \cup Permutations(Values) \cup Permutations(Txs)
=============================================================================
