---------------------------- MODULE MCLuciSession ----------------------------
EXTENDS LuciSession, TLC
=============================================================================
