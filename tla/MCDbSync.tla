------------------------------- MODULE MCDbSync -------------------------------
EXTENDS DbSync
=============================================================================
