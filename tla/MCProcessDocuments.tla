------------------------- MODULE MCProcessDocuments -------------------------
EXTENDS ProcessDocuments, TLC
Symmetry == Permutations(Shipments) \cup Permutations(Folders) \cup Permutations(Docs) \cup Permutations(Requests)
=============================================================================
