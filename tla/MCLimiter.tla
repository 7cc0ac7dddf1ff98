----------------------------- MODULE MCLimiter ------------------------------
EXTENDS Limiter
=============================================================================
