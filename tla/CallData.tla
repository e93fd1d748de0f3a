------------------------------ MODULE CallData ------------------------------
\* What the record command sends to the contract: the function it calls and the
\* arguments it makes up for it, from the ABI. An ABI is a sequence of entries
\* with a kind, a name and the types of the inputs.
EXTENDS Integers, Sequences

CONSTANT None

Numbers == {"uint", "int", "uint[]", "uint[2]"}     \* whatever starts with uint or int
Zeros == {"bool", "address", "bytesN"}              \* default to a word of zeros

Functions(abi) == {i \in DOMAIN abi : abi[i].kind = "function"}
First(S) == CHOOSE i \in S : \A j \in S : i <= j

\* Mutant of ResolveFunctionName: the first function, whichever is asked for.
MutResolveFunctionName(abi, preferred) ==
    IF Functions(abi) = {} THEN preferred ELSE abi[First(Functions(abi))].name

\* The function asked for, or else the first one, or else the one asked for.
ResolveFunctionName(abi, preferred) ==
    IF Functions(abi) = {} \/ \E i \in Functions(abi) : abi[i].name = preferred
    THEN preferred ELSE abi[First(Functions(abi))].name

DefaultArg(type) ==
    IF type \in Numbers THEN 7 ELSE IF type \in Zeros THEN 0 ELSE None

\* The signature whose selector is called, and the arguments: those of the first
\* overload; none for a function the ABI does not have; no call at all when one
\* of the types has no default.
CallSignatureAndArgs(abi, name) ==
    LET named == {i \in Functions(abi) : abi[i].name = name}
        types == IF named = {} THEN << >> ELSE abi[First(named)].inputs
    IN  IF \E i \in DOMAIN types : DefaultArg(types[i]) = None THEN None
        ELSE [name |-> name, types |-> types, args |-> [i \in DOMAIN types |-> DefaultArg(types[i])]]

\* A single parameter that starts with uint gets 10; other arguments are refused.
ConstructorArgs(abi) ==
    LET constructors == {i \in DOMAIN abi : abi[i].kind = "constructor"}
        types == IF constructors = {} THEN << >> ELSE abi[First(constructors)].inputs
    IN  CASE types = << >> -> << >>
          [] types \in {<< "uint" >>, << "uint[]" >>, << "uint[2]" >>} -> << 10 >>
          [] OTHER -> None
=============================================================================
