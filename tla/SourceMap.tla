----------------------------- MODULE SourceMap -----------------------------
\* From a program counter to a line and a column: the run-length encoded source
\* map of solc, the index of instructions in the bytecode, and the two scans of
\* the source text that have to agree on what a line is.
\*
\* Bytecode is a function from program counters (from 0) to the bytes of data
\* the byte would push as an opcode (0 for all but PUSH1 to PUSH32). A text is
\* a sequence of the characters below.
EXTENDS Options

CONSTANTS
    Kept    \* a field left empty, missing, or not a number

Newline == "newline"     \* one byte
Ascii == "ascii"         \* any other character of one byte
Wide == "wide"           \* a character of two bytes

DefaultEntry == [offset |-> 0, length |-> 0, file |-> 0, jump |-> "regular"]

\* Entries of a raw map: each part gives some fields and keeps the others.
Parse(raw) ==
    LET Field(said, prev) == IF said = Kept THEN prev ELSE said
        entries[i \in 0..Len(raw)] ==
            IF i = 0 THEN DefaultEntry
            ELSE LET prev == entries[i - 1] IN
                 [offset |-> Field(raw[i].offset, prev.offset), length |-> Field(raw[i].length, prev.length),
                  file |-> Field(raw[i].file, prev.file), jump |-> Field(raw[i].jump, prev.jump)]
    IN  [i \in 1..Len(raw) |-> entries[i]]

\* The entries of a Yul object: its instructions without the labels, which are
\* no bytes of the code.
SynthesizeSourceMap(asm) ==
    LET length(inst) == IF inst.end > inst.begin THEN inst.end - inst.begin ELSE 0
        code == Only(asm, {asm[i] : i \in {j \in DOMAIN asm : asm[j].name # "tag"}})
    IN  [i \in DOMAIN code |-> [offset |-> code[i].begin, length |-> length(code[i]),
                                file |-> 0, jump |-> code[i].jump]]

\* A byte begins an instruction unless it is data the last one pushes, as far as
\* the bytecode goes; data have the number of their instruction.
PcToInstructionIndex(code) ==
    LET read[i \in 0..Cardinality(DOMAIN code)] ==
            IF i = 0 THEN [idx |-> 0, data |-> 0]
            ELSE LET before == read[i - 1] IN
                 IF before.data > 0 THEN [idx |-> before.idx, data |-> before.data - 1]
                                    ELSE [idx |-> before.idx + 1, data |-> code[i - 1]]
    IN  [pc \in DOMAIN code |-> read[pc + 1].idx - 1]

EntryForPc(entries, code, pc) ==
    LET idx == PcToInstructionIndex(code)
    IN  IF pc \in DOMAIN idx /\ idx[pc] + 1 <= Len(entries)
        THEN entries[idx[pc] + 1] ELSE None

-----------------------------------------------------------------------------
Width(char) == IF char = Wide THEN 2 ELSE 1

\* The byte at which each character starts, and the size of the text.
Starts(text) ==
    LET starts[i \in 1..(Len(text) + 1)] == IF i = 1 THEN 0 ELSE starts[i - 1] + Width(text[i - 1])
    IN  starts
Size(text) == Starts(text)[Len(text) + 1]

\* Mutant of OffsetToLineCol: columns count characters, not bytes.
MutOffsetToLineCol(text, offset) ==
    LET scan[i \in 1..(Len(text) + 1)] ==
            IF i = 1 THEN [line |-> 1, column |-> 0]
            ELSE LET at == scan[i - 1] IN
                 IF Starts(text)[i - 1] >= offset THEN at
                 ELSE IF text[i - 1] = Newline THEN [line |-> at.line + 1, column |-> 0]
                 ELSE [line |-> at.line, column |-> at.column + 1]
    IN  scan[Len(text) + 1]

\* The scan stops at the first character that starts at the offset or after it.
OffsetToLineCol(text, offset) ==
    LET scan[i \in 1..(Len(text) + 1)] ==
            IF i = 1 THEN [line |-> 1, column |-> 0]
            ELSE LET at == scan[i - 1] IN
                 IF Starts(text)[i - 1] >= offset THEN at
                 ELSE IF text[i - 1] = Newline THEN [line |-> at.line + 1, column |-> 0]
                 ELSE [line |-> at.line, column |-> at.column + Width(text[i - 1])]
    IN  scan[Len(text) + 1]

\* Mutant of LineLengths: the last line counts only when it is terminated.
MutLineLengths(text) ==
    LET scan[i \in 0..Len(text)] ==
            IF i = 0 THEN [done |-> << >>, open |-> 0]
            ELSE LET at == scan[i - 1] IN
                 IF text[i] = Newline THEN [done |-> Append(at.done, at.open), open |-> 0]
                 ELSE [done |-> at.done, open |-> at.open + Width(text[i])]
    IN  scan[Len(text)].done

\* The line table of a text: a length per line, the last one only when the text
\* does not end there.
LineLengths(text) ==
    LET scan[i \in 0..Len(text)] ==
            IF i = 0 THEN [done |-> << >>, open |-> 0]
            ELSE LET at == scan[i - 1] IN
                 IF text[i] = Newline THEN [done |-> Append(at.done, at.open), open |-> 0]
                 ELSE [done |-> at.done, open |-> at.open + Width(text[i])]
        end == scan[Len(text)]
    IN  IF end.open > 0 THEN Append(end.done, end.open) ELSE end.done

\* The location of a program counter: none for generated code, for files nobody
\* gave, and for offsets past the end of the text.
ResolvePc(entries, code, pc, texts) ==
    LET entry == EntryForPc(entries, code, pc) IN
    IF entry = None THEN None
    ELSE IF entry.file \notin 0..(Len(texts) - 1) THEN None
    ELSE LET text == texts[entry.file + 1]
             place == OffsetToLineCol(text, entry.offset)
         IN  IF entry.offset \notin 0..Size(text) THEN None
             ELSE [file |-> entry.file, line |-> place.line, column |-> place.column]
=============================================================================
