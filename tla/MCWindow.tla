------------------------------ MODULE MCWindow ------------------------------
EXTENDS CreditWindow
=============================================================================
