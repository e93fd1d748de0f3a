--------------------------- MODULE MCMultiRecorder ---------------------------
\* Values for TLC: one line of the sources, or two.
EXTENDS MultiRecorder

MCLocs == {[line |-> 1, column |-> 0], [line |-> 2, column |-> 0]}
MCOneLoc == {[line |-> 1, column |-> 0]}
=============================================================================
