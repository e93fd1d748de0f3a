------------------------------ MODULE Options ------------------------------
\* What the modules about artifacts share: the absent value, and filtering.
EXTENDS Integers, Sequences, FiniteSets, FiniteSetsExt, SequencesExt

CONSTANTS None      \* Option::None

\* The elements of a sequence that are in a set, in their order.
Only(s, T) == FlattenSeq([i \in DOMAIN s |-> IF s[i] \in T THEN << s[i] >> ELSE << >>])
=============================================================================
