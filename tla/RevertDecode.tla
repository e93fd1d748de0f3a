---------------------------- MODULE RevertDecode ----------------------------
\* What a reverted transaction returned, read as the reason of the revert. An
\* output is its selector (None when it has fewer than 4 bytes) and the payload
\* that follows. A selector stands for the signature it is the hash of; a payload
\* is a sequence of bytes, and a word has WordSize bytes of which the last one
\* fits the machine's integers, and all but the first one make an address (32, 8
\* and 20 in the code). A byte of Invalid is one that is no character of UTF-8.
EXTENDS Integers, Sequences

CONSTANTS None, WordSize, Byte, Invalid

Signature(name, types) == [name |-> name, types |-> types]

ErrorString == Signature("Error", << "string" >>)
PanicUint256 == Signature("Panic", << "uint" >>)
NoOutput == [selector |-> None, payload |-> << >>]

Word(bytes, at) == SubSeq(bytes, at + 1, at + WordSize)
From(bytes, at) == SubSeq(bytes, at + 1, Len(bytes))

\* Mutant of ToUsize: the word is read from its other end.
MutToUsize(word) ==
    IF \A i \in 2..WordSize : word[i] = 0 THEN word[1] ELSE None

\* The value of a word, when a machine integer holds it.
ToUsize(word) ==
    IF \A i \in 1..(WordSize - 1) : word[i] = 0 THEN word[WordSize] ELSE None

\* The text of a string: the replacement character stands for what is no text.
Replacement == -1
Lossy(bytes) == [i \in DOMAIN bytes |-> IF bytes[i] \in Invalid THEN Replacement ELSE bytes[i]]

\* The string of Error(string): wherever the offset says, and only if all of it
\* is there.
ErrorStringPayload(payload) ==
    LET offset == ToUsize(Word(payload, 0))
        after == From(payload, offset)
        length == ToUsize(Word(after, 0))
        body == From(after, WordSize)
    IN  CASE Len(payload) < 2 * WordSize -> None
          [] offset = None -> None
          [] offset > Len(payload) -> None
          [] Len(after) < WordSize -> None
          [] length = None -> None
          [] Len(body) < length -> None
          [] OTHER -> Lossy(SubSeq(body, 1, length))

\* One word of a type as it is shown. What starts with uint or int is a number,
\* arrays among them, because that is asked first; other arrays are dynamic,
\* those of a fixed length among them.
Numbers == {"uint", "int", "uint[]", "uint[2]"}
Dynamic == {"string", "bytes", "address[]", "address[2]"}
Shown(as, of) == [as |-> as, of |-> of]

Rendered(word, type) ==
    CASE type \in Numbers -> Shown("number", word)
      [] type = "address" -> Shown("address", SubSeq(word, 2, WordSize))
      [] type = "bool" -> Shown("bool", IF \E i \in 1..WordSize : word[i] # 0 THEN << 1 >> ELSE << 0 >>)
      [] type \in Dynamic -> Shown("dynamic", << >>)
      [] OTHER -> Shown("hex", word)

\* One word for each parameter, as far as the payload goes.
CustomErrorArgs(payload, types) ==
    [i \in {n \in 1..Len(types) : n * WordSize <= Len(payload)} |->
        Rendered(Word(payload, (i - 1) * WordSize), types[i])]

Decoded(kind, message) == [kind |-> kind, message |-> message]

\* registry holds the signatures of the errors the contract declares.
DecodeRevert(output, registry) ==
    LET payload == output.payload
        string == ErrorStringPayload(payload)
        Raw == Decoded("RevertRaw", << output.selector, payload >>)
    IN  CASE output = NoOutput -> Decoded("RevertEmpty", << >>)
          [] output.selector = ErrorString ->
                IF string = None THEN Raw ELSE Decoded("Revert", string)
          [] output.selector = PanicUint256 /\ Len(payload) >= WordSize ->
                Decoded("Panic", payload[WordSize])
          [] output.selector \in registry ->
                Decoded("CustomError",
                        << output.selector, CustomErrorArgs(payload, output.selector.types) >>)
          [] OTHER -> Raw
=============================================================================
