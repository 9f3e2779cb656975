--------------------------- MODULE MCTrackerPresence ---------------------------
EXTENDS TrackerPresence, TLC
=============================================================================
