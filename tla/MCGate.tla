------------------------------- MODULE MCGate -------------------------------
EXTENDS PreviewGate
=============================================================================
