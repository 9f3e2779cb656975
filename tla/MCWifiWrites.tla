---------------------------- MODULE MCWifiWrites ----------------------------
EXTENDS WifiWrites, TLC
=============================================================================
