----------------------------- MODULE MCRunPool -----------------------------
EXTENDS RunPool
=============================================================================
