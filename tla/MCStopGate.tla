----------------------------- MODULE MCStopGate -----------------------------
EXTENDS StopGate
=============================================================================
