----------------------------- MODULE MCAutoPurge -----------------------------
EXTENDS AutoPurge
=============================================================================
