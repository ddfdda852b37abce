---------------------------- MODULE MCSwitchGame ----------------------------
EXTENDS SwitchGame
=============================================================================
