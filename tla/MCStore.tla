------------------------------ MODULE MCStore ------------------------------
EXTENDS Store, TLC, FiniteSets

\* Programs are alike, and so are the documents: nothing in the Store treats
\* one of them apart.
StoreSymmetry == Permutations(Procs) \cup Permutations(Docs)
=============================================================================
