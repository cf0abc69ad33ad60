-------------------------- MODULE MCChatAttachments --------------------------
(* Symmetry of the instance of ChatAttachments that TLC checks.           *)
EXTENDS ChatAttachments, TLC
Symmetry == Permutations(Users) \cup Permutations(Messages) \cup Permutations(Files)
=============================================================================
