--------------------------- MODULE MCRegistration ---------------------------
EXTENDS RelayRegistration
=============================================================================
