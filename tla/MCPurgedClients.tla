--------------------------- MODULE MCPurgedClients ---------------------------
EXTENDS PurgedClients, TLC
=============================================================================
