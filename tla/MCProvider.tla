----------------------------- MODULE MCProvider -----------------------------
\* RepositoryProvider with symmetric constants for TLC.
EXTENDS RepositoryProvider, TLC

Symmetry == Permutations(Ids) \cup Permutations(Reqs) \cup Permutations(Stores)
=============================================================================
