-------------------------- MODULE MCV4WriteSession --------------------------
EXTENDS V4WriteSession, TLC, FiniteSets

\* Programs are alike, and so are the artifacts: only the ledger is apart.
SessionSymmetry == Permutations(Procs) \cup Permutations(Artifacts)
=============================================================================
