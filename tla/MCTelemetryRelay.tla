--------------------------- MODULE MCTelemetryRelay ---------------------------
EXTENDS TelemetryRelay
=============================================================================
