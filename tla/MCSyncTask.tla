----------------------------- MODULE MCSyncTask -----------------------------
EXTENDS SyncTask
=============================================================================
