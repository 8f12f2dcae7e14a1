--------------------------- MODULE MCTaskManager ---------------------------
EXTENDS TaskManager
=============================================================================
