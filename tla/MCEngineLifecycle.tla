-------------------------- MODULE MCEngineLifecycle --------------------------
EXTENDS EngineHistory
=============================================================================
