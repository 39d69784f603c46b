------------------------------ MODULE MCDispatch ------------------------------
EXTENDS PendingDispatch
CONSTANTS p1, p2
===============================================================================
