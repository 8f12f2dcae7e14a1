-------------------------- MODULE MCContextHistory --------------------------
EXTENDS ContextHistory
=============================================================================
