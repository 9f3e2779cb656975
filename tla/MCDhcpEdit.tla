----------------------------- MODULE MCDhcpEdit -----------------------------
EXTENDS DhcpEdit, TLC

Symmetry == Permutations(Macs) \cup Permutations(Addrs) \cup Permutations(Tasks)
=============================================================================
