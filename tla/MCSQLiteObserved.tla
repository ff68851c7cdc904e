-------------------------- MODULE MCSQLiteObserved --------------------------
\* SQLiteObserved with symmetric constants for TLC.
EXTENDS SQLiteObserved, TLC

Symmetry == Permutations(Ids) \cup Permutations(Reqs)
============================================================================
