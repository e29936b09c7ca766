------------------------------ MODULE MCDesktop ------------------------------
EXTENDS Desktop
CONSTANTS A, B, k1
==============================================================================
