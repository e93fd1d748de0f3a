--------------------------- MODULE MCSingleRecorder ---------------------------
\* Values for TLC: two columns of one line, and one of another.
EXTENDS SingleRecorder

MCLocs == {[line |-> 1, column |-> 0], [line |-> 1, column |-> 1],
           [line |-> 2, column |-> 0]}
MCOneLoc == {[line |-> 1, column |-> 0]}
=============================================================================
