--------------------------- MODULE MCMacReplacement ---------------------------
EXTENDS MacReplacement, TLC

Symmetry == Permutations(Nodes) \cup Permutations(Macs) \cup Permutations(Names)
=============================================================================
