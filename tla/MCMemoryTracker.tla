--------------------------- MODULE MCMemoryTracker ---------------------------
\* Values for TLC: the memory locals of a function.
EXTENDS MemoryTracker

MCVars == <<"u", "v", "w">>
=============================================================================
