------------------------------ MODULE MCSignals ------------------------------
EXTENDS Signals
=============================================================================
