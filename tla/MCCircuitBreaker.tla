--------------------------- MODULE MCCircuitBreaker ---------------------------
EXTENDS CircuitBreaker
=============================================================================
