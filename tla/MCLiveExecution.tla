-------------------------- MODULE MCLiveExecution --------------------------
EXTENDS LiveExecution
=============================================================================
