------------------------------ MODULE MCChats ------------------------------
EXTENDS Chats, TLC
Symmetry == Permutations(Actors) \cup Permutations(Users \ Actors) \cup Permutations(Messages) \cup Permutations(Chats) \cup Permutations(Txs)
=============================================================================
