------------------------------ MODULE MCE1000 -------------------------------
EXTENDS E1000
=============================================================================
