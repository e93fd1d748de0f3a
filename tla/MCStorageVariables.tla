-------------------------- MODULE MCStorageVariables --------------------------
\* Values for TLC: neighbouring variables of every kind.
EXTENDS StorageVariables

Variable(label, slot, encoding, size) ==
    [label |-> label, slot |-> slot, encoding |-> encoding, size |-> size,
     elem |-> 0, members |-> <<>>, keys |-> <<>>, wide |-> FALSE, inner |-> {}]

\* uint[2] a; struct {uint8 x; uint8 y; uint[2] z;} r; mapping(uint =>
\* mapping(address => uint)) mm; a mapping ms by strings to structs with a mapping
\* and another member after their first one; uint[] d.
MCLayout == <<
    [Variable("a", 0, "inplace", 2) EXCEPT !.elem = 1],
    [Variable("r", 2, "inplace", 3) EXCEPT !.members = <<0, 0, 1>>],
    [Variable("mm", 5, "mapping", 1) EXCEPT !.keys = <<"uint", "address">>],
    [Variable("ms", 6, "mapping", 1) EXCEPT !.keys = <<"bytes">>, !.wide = TRUE,
                                            !.inner = {-1}],
    [Variable("d", 7, "dynamic_array", 1) EXCEPT !.elem = 1, !.wide = TRUE]>>

ASSUME LayoutAssumption == WellFormedLayout /\ KeysDiffer
=============================================================================
