--------------------------- MODULE MCMeshCensus ---------------------------
EXTENDS MeshCensus, TLC

Symmetry == Permutations(Clients)
=============================================================================
