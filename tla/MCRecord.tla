------------------------------ MODULE MCRecord ------------------------------
\* Values for TLC: contracts with and without the function asked for, with
\* overloads, errors, arguments nobody can make up; what reverts return: encoded
\* reasons, parts of them, lengths and offsets that lead elsewhere in the payload
\* or out of it, bytes that are no text, errors with arrays and structs.
EXTENDS Record

E(kind, name, inputs) == [kind |-> kind, name |-> name, inputs |-> inputs]
Denied == E("error", "Denied", << "address", "string", "uint" >>)
Seen == E("error", "Seen", << "tuple", "uint" >>)
Flagged == E("error", "Flagged", << "bool", "uint[2]", "bytesN" >>)
Listed == E("error", "Listed", << "uint[]", "address[]", "int" >>)
Foreign == E("error", "Foreign", << "uint" >>)

MCAbis == {
    << >>,
    << E("constructor", "", << "uint" >>), E("function", "get", << >>), E("function", "run", << >>) >>,
    << E("function", "set", << "uint", "bool" >>), E("function", "set", << "string" >>),
       Denied, Seen, Flagged, Listed >>,
    << E("function", "put", << "tuple" >>) >>,
    << E("constructor", "", << "address" >>), E("function", "run", << >>) >> }
MCOneAbi == {<< E("function", "run", << >>) >>}
MCErrorAbi == {<< E("function", "run", << >>), Denied, Flagged, Listed >>}

Padded(bytes) == bytes \o Zeros((WordSize - (Len(bytes) % WordSize)) % WordSize)
EncodedString(bytes) == WordOf(WordSize) \o WordOf(Len(bytes)) \o Padded(bytes)

Bytes(n) == UNION {[1..k -> Byte] : k \in 0..n}
Encoded == {EncodedString(bytes) : bytes \in Bytes(2)}
Cut == {SubSeq(p, 1, n) : p \in Encoded, n \in 0..4}
Elsewhere == {WordOf(n) \o << 0, 0, 1, 2 >> : n \in {3, 4, 5}} \cup {<< 0, 0, 2, 1 >>, << 0, 1, 0, 0 >>}
Bad == {WordOf(9) \o WordOf(1), WordOf(2) \o WordOf(9), << 1, 2, 0, 1, 0, 0 >>, << 0, 2, 1, 0, 0, 0 >>,
        WordOf(4) \o WordOf(4)}
Words == {<< 0, 1, 0, 6, 1, 1 >>, << 0, 1, 0, 1, 0, 2, 1, 2 >>, << 1, 0, 0, 2, 0, 0 >>, << 1, 0, 0 >>, << >>}
Declared == {Denied, Seen, Flagged, Listed, Foreign}

MCOutputs ==
    {Reverts!NoOutput}
    \cup [selector : {Reverts!ErrorString}, payload : Encoded \cup Cut \cup Elsewhere \cup Bad]
    \cup [selector : {Reverts!PanicUint256}, payload : {WordOf(b) : b \in Byte} \cup {<< 1 >>}]
    \cup [selector : {Selector(e) : e \in Declared}, payload : Words]
    \cup {[selector |-> None, payload |-> << 1 >>]}
MCOneOutput == {Reverts!NoOutput}
MCErrorOutputs == [selector : {Selector(Denied), Selector(Flagged), Selector(Listed)}, payload : Words]

\* Bound: reasons and calls vary in the first run only; later runs meet a trace
\* without a payload and revert without one.
DataOnce ==
    runs > 1 => /\ run.output = Reverts!NoOutput /\ Len(run.abi) \in {0, 3}
                /\ trace # None => trace.error \in {None, Reverts!Decoded("RevertEmpty", << >>)}
=============================================================================
