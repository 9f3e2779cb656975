---------------------------- MODULE MCClientRows ----------------------------
EXTENDS ClientRows, TLC

\* Bound: no more than one entry was unloaded with clients since the last start.
OneUnloaded == \A n, m \in Nodes : Holds(old[n]) # {} /\ Holds(old[m]) # {} => n = m
=============================================================================
