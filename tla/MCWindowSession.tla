-------------------------- MODULE MCWindowSession --------------------------
EXTENDS WindowSession
=============================================================================
