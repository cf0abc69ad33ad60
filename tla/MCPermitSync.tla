---------------------------- MODULE MCPermitSync ----------------------------
(* Symmetry of the instances of PermitSync that TLC checks.               *)
EXTENDS PermitSync, TLC

Symmetry == Permutations(Docs) \cup Permutations(Titles) \cup Permutations(Requests)
=============================================================================
