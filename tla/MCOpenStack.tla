---------------------------- MODULE MCOpenStack ----------------------------
\* OpenStackRepository with constants for TLC.  Ids are symmetric, and so are
\* requests; the liveness run uses no symmetry.
EXTENDS OpenStackRepository, TLC

Symmetry == Permutations(Ids) \cup Permutations(Reqs)
=============================================================================
