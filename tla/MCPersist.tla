----------------------------- MODULE MCPersist -----------------------------
EXTENDS Persist
=============================================================================
