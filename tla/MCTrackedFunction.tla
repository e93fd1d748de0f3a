-------------------------- MODULE MCTrackedFunction --------------------------
\* Values for TLC: the variables of a function, and two of the opcodes an
\* expression may use.
EXTENDS TrackedFunction

MCOne == <<"x">>
MCLocal == <<"y">>
MCLocals == <<"y", "w">>
MCAdd == {1, 85}
=============================================================================
