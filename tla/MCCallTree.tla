------------------------------ MODULE MCCallTree ------------------------------
\* CallTree on its own: any sequence of entered and exited frames.
EXTENDS CallTree
=============================================================================
