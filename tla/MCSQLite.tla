------------------------------ MODULE MCSQLite ------------------------------
\* SQLiteRepository with constants for TLC: Reqs and Ids are sets of model
\* values, exchanged freely by a safety run.
EXTENDS SQLiteRepository, TLC

Symmetry == Permutations(Ids) \cup Permutations(Reqs)
============================================================================
