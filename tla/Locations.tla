----------------------------- MODULE Locations -----------------------------
\* From the entries of a structLog to the steps of the trace: where the artifacts
\* come from (a source file, a Yul object, a verified contract), how a program
\* counter becomes a path, a line and a column, when the trace writer learns the
\* line table of a path, and which variables of which function the trackers look
\* for at an entry.
\*
\* The files solc compiled are those of the response, in any case; it numbers
\* them by path. The recorder only sees `given', the artifacts handed to it.
EXTENDS SourceMap, SolidityAst, Sourcify

CONSTANTS
    Inputs,         \* [origin, response, out, preferred]: a source file, a Yul object or a
                    \* verified contract; what Sourcify answers, the files of the other
                    \* origins too; what solc reports, [success, contracts, units], for
                    \* Yul with the asm-json as map; the contract asked for
    Err,
    MaxSteps        \* bound on the entries processed

ASSUME LocationsAssumption == MaxSteps \in Nat /\ None # Err

\* None is none of the values it stands beside.
Jumps == {"regular", "in", "out"}
ASSUME NoneAssumption ==
    /\ None \notin [offset : Int, length : Int, file : Int, jump : Jumps]
    /\ None \notin [file : Nat, line : Nat, column : Nat]
    /\ None \notin Seq(Nat)
    /\ None \notin {ParseFunction(n, h) : n \in {m \in Nodes : IsFunction(m)}, h \in Holders}

\* The files of an answer have a path each.
ASSUME ResponseAssumption ==
    \A input \in Inputs :
        LET files == input.response.files
            sources == {f \in Range(files) : f.kind = "sol"}
        IN  /\ files \in Seq(Range(files))
            /\ \A f \in sources : f.path \in Nat /\ f.text \in Seq({Newline, Ascii, Wide})
            /\ \A f, g \in sources : f.path = g.path => f = g

\* What solc reports: bytecode, with a map or an assembly when there is any.
IsCode(code) == /\ IsFiniteSet(DOMAIN code)
                /\ code \in [0..(Cardinality(DOMAIN code) - 1) -> 0..32]
IsMap(srcmap) ==
    /\ srcmap \in Seq(Range(srcmap))
    /\ \A part \in Range(srcmap) : /\ {part.offset, part.length, part.file} \subseteq Int \cup {Kept}
                                  /\ part.jump \in Jumps \cup {Kept}
IsAssembly(asm) ==
    /\ asm \in Seq(Range(asm))
    /\ \A inst \in Range(asm) : {inst.begin, inst.end} \subseteq Int /\ inst.jump \in Jumps
ASSUME ReportAssumption ==
    \A input \in Inputs :
        /\ input.out.contracts \in Seq(Range(input.out.contracts))
        /\ \A contract \in Range(input.out.contracts) :
               /\ IsCode(contract.code) /\ contract.linked \in BOOLEAN
               /\ IF input.origin = "yul" THEN IsAssembly(contract.srcmap) ELSE IsMap(contract.srcmap)
               /\ DOMAIN contract.code # {} => contract.srcmap # << >>

\* Functions of a file are apart from each other.
ASSUME UnitsAssumption ==
    \A input \in Inputs :
        /\ input.out.units \in Seq(Nodes)
        /\ \A f, g \in UNION {Functions(u) : u \in Range(input.out.units)} :
               \/ f = g
               \/ f.src.file # g.src.file
               \/ f.src.offset + f.src.length <= g.src.offset
               \/ g.src.offset + g.src.length <= f.src.offset

VARIABLES
    origin, response, out, preferred,
    pc,             \* "artifacts", "start", "steps", "none" or "failed"
    given,          \* the artifacts
    tables,         \* the writer: the line table of each interned path, Err if it was
                    \* rejected, None if the path was interned without one
    registered,     \* paths_with_line_lengths
    prev_line,
    step,           \* the last step of the trace, and the pc it is of
    in_scope,       \* the pc of the last located entry and the variables the trackers
                    \* were given for it
    count

handed == << origin, response, out, preferred, given >>
writer == << tables, registered, prev_line, step >>
vars == << handed, pc, writer, in_scope, count >>

-----------------------------------------------------------------------------
\* Artifacts

SolFiles == {f \in Range(response.files) : f.kind = "sol"}

\* solc's number of a path, and the file of a number.
Rank(path) == Cardinality({f \in SolFiles : f.path < path})
Source(k) == CHOOSE f \in SolFiles : Rank(f.path) = k

Init ==
    /\ \E input \in Inputs :
           /\ origin = input.origin /\ response = input.response
           /\ out = input.out /\ preferred = input.preferred
    /\ pc = "artifacts" /\ given = None
    /\ tables = [p \in {} |-> None] /\ registered = {}
    /\ prev_line = None /\ step = None /\ in_scope = None /\ count = 0

Given(artifacts, entries) ==
    /\ given' = [code |-> artifacts.code, srcmap |-> artifacts.srcmap, entries |-> entries,
                 functions |-> IF origin = "yul" THEN << >> ELSE FromCombinedJson(out.units),
                 paths |-> artifacts.paths, texts |-> artifacts.texts]
    /\ pc' = "start"
    /\ UNCHANGED << origin, response, out, preferred, writer, in_scope, count >>

Stops(how) ==
    /\ pc' = how
    /\ UNCHANGED << handed, writer, in_scope, count >>

OneFile(file, contract) ==
    [code |-> contract.code, srcmap |-> contract.srcmap,
     paths |-> << file.path >>, texts |-> << file.text >>]

\* The record command hands over the file it was given, whatever it imports.
RecordFile ==
    /\ origin = "file" /\ pc = "artifacts" /\ out.success
    /\ out.contracts # << >> /\ out.contracts[1].linked
    /\ \E main \in SolFiles :
           Given(OneFile(main, out.contracts[1]), Parse(out.contracts[1].srcmap))

RecordYul ==
    /\ origin = "yul" /\ pc = "artifacts" /\ out.success
    /\ out.contracts # << >> /\ out.contracts[1].linked
    /\ \E object \in SolFiles :
           /\ SolFiles = {object}
           /\ Given(OneFile(object, out.contracts[1]), SynthesizeSourceMap(out.contracts[1].srcmap))

RecordVerified ==
    /\ origin = "verified" /\ pc = "artifacts"
    /\ LET artifacts == FetchContractSource(response, out, preferred) IN
       IF artifacts.is # "start" THEN Stops(artifacts.is) ELSE Given(artifacts, Parse(artifacts.srcmap))

-----------------------------------------------------------------------------
\* The recorder

\* The writer interns a path it does not know, with what it is told of its lines.
Interned(known, path, table) ==
    IF path \in DOMAIN known THEN known
    ELSE [p \in DOMAIN known \cup {path} |-> IF p = path THEN table ELSE known[p]]

\* The first registration of a path is the only one, even if the writer rejects
\* it; a path it has interned stays as it is.
EnsurePathWithLineLengths(known, path, text, accepted) ==
    IF path \in registered THEN known
    ELSE Interned(known, path, IF accepted THEN LineLengths(text) ELSE Err)

\* Mutant of Uses: the path is interned by its use, and its table comes too late.
MutUses(path, text, accepted) ==
    /\ registered' = registered \cup {path}
    /\ tables' = EnsurePathWithLineLengths(Interned(tables, path, None), path, text, accepted)

\* A path gets its table, and is then interned, without any, by the call that uses
\* it: the start of the trace or a step.
Uses(path, text, accepted) ==
    /\ registered' = registered \cup {path}
    /\ tables' = Interned(EnsurePathWithLineLengths(tables, path, text, accepted), path, None)

Start ==
    /\ pc = "start"
    /\ \E accepted \in BOOLEAN : Uses(given.paths[1], given.texts[1], accepted)
    /\ pc' = "steps"
    /\ UNCHANGED << handed, prev_line, step, in_scope, count >>

\* The variables at an entry: those of the function its offset is in.
InScope(entry) ==
    LET f == FunctionAt(given.functions, entry.offset, entry.file)
    IN  IF f = None THEN << >> ELSE VarsInScopeAt(f, entry.offset)

\* An entry of the structLog at a program counter.
Process(at) ==
    /\ pc = "steps" /\ count < MaxSteps
    /\ count' = count + 1
    /\ LET location == ResolvePc(given.entries, given.code, at, given.texts) IN
       /\ in_scope' = IF location = None THEN in_scope
                      ELSE [at |-> at, vars |-> InScope(EntryForPc(given.entries, given.code, at))]
       /\ IF location = None \/ location = prev_line THEN UNCHANGED writer ELSE
            LET path == given.paths[location.file + 1] IN
            /\ \E accepted \in BOOLEAN : Uses(path, given.texts[location.file + 1], accepted)
            /\ step' = [at |-> at, path |-> path, line |-> location.line, column |-> location.column + 1]
            /\ prev_line' = location
    /\ UNCHANGED << handed, pc >>

Next ==
    \/ RecordFile \/ RecordYul \/ RecordVerified \/ Start
    \/ pc = "steps" /\ \E at \in DOMAIN given.code : Process(at)

Spec == Init /\ [][Next]_vars

-----------------------------------------------------------------------------
\* What solc means by a map, said without scanning anything.

\* The first bytes of the instructions: the one set that starts at 0 and goes on
\* after each instruction, and nowhere else.
InstructionStarts(code) ==
    LET After(p) == p + 1 + code[p]
    IN  CHOOSE S \in SUBSET DOMAIN code :
            /\ 0 \in S
            /\ \A p \in S : After(p) \in DOMAIN code => After(p) \in S
            /\ \A q \in S \ {0} : \E p \in S : q = After(p)

\* The last value a field was given in the first k parts.
TrueField(said, k, default) ==
    LET given_in == {i \in 1..k : said[i] # Kept}
    IN  IF given_in = {} THEN default ELSE said[Max(given_in)]

\* The instructions of an assembly, and its labels up to an instruction.
Instructions(asm) == {i \in DOMAIN asm : asm[i].name # "tag"}
Labels(asm, i) == Cardinality({j \in 1..i : asm[j].name = "tag"})

TrueEntry(srcmap, k) ==
    IF origin = "yul"
    THEN LET i == CHOOSE i \in Instructions(srcmap) : i - Labels(srcmap, i) = k
         IN  [offset |-> srcmap[i].begin, file |-> 0]
    ELSE [offset |-> TrueField([i \in DOMAIN srcmap |-> srcmap[i].offset], k, 0),
          file |-> TrueField([i \in DOMAIN srcmap |-> srcmap[i].file], k, 0)]

Mapped(srcmap) == IF origin = "yul" THEN Cardinality(Instructions(srcmap)) ELSE Len(srcmap)

\* An offset inside a character counts for the next one.
TrueLineCol(text, offset) ==
    LET reached == Min({b \in Range(Starts(text)) : b >= offset})
        before == {i \in DOMAIN text : text[i] = Newline /\ Starts(text)[i] < reached}
    IN  [line |-> 1 + Cardinality(before),
         column |-> reached - (IF before = {} THEN 0 ELSE Starts(text)[Max(before) + 1])]

\* The place of a program counter in the files as solc numbered them.
TrueLocation(at) ==
    LET k == Cardinality({p \in InstructionStarts(given.code) : p <= at})
        entry == TrueEntry(given.srcmap, k)
        source == Source(entry.file)
        place == TrueLineCol(source.text, entry.offset)
    IN  IF k > Mapped(given.srcmap) THEN None
        ELSE IF entry.file \notin 0..(Cardinality(SolFiles) - 1) THEN None
        ELSE IF entry.offset \notin 0..Size(source.text) THEN None
        ELSE [path |-> source.path, line |-> place.line, column |-> place.column]

Location(at) ==
    LET location == ResolvePc(given.entries, given.code, at, given.texts)
    IN  IF location = None THEN None
        ELSE [path |-> given.paths[location.file + 1],
              line |-> location.line, column |-> location.column]

\* Solidity's scopes, read off the tree whatever the keys of its nodes: parameters,
\* and, of the nodes around an offset, what is declared before it in their heads
\* and the declarations under them that are complete.
Visible(f, offset) ==
    LET around == {n \in Below[f] : ContainsOffset(n.src, offset)}
        heads == UNION {Range(n.parameters) \cup Range(n.returnParameters) : n \in around}
        complete == {c \in UNION {Children(n) : n \in around} : c.src.offset + c.src.length <= offset}
        decls == (Range(f.parameters) \ {None})
                     \cup {d \in heads \ {None} : d.src.offset <= offset}
                     \cup UNION {Range(c.declarations) \ {None} : c \in complete}
    IN  {d.name : d \in decls} \ {Unnamed}

-----------------------------------------------------------------------------
TypeOK ==
    /\ pc \in {"artifacts", "start", "steps", "none", "failed"}
    /\ (given = None) = (pc \in {"artifacts", "none", "failed"})
    /\ given # None => Len(given.paths) = Len(given.texts) /\ given.paths # << >>
    /\ DOMAIN tables = registered /\ count \in 0..MaxSteps
    /\ step # None => step.path \in registered

InSolcOrder ==
    /\ Len(given.paths) = Cardinality(SolFiles)
    /\ \A i \in DOMAIN given.paths : Rank(given.paths[i]) = i - 1

\* Every program counter is shown where solc says it comes from, whenever the
\* files are handed over in solc's order: map, bytecode and text are read the
\* same way, down to the bytes of wide characters, data in the code and labels of
\* Yul (source_map.rs:59, 155, 186, 220; yul_compile.rs:116).
LocationsAreTrue ==
    pc = "steps" /\ InSolcOrder => \A at \in DOMAIN given.code : Location(at) = TrueLocation(at)

\* No path enters the trace without its table, unless the writer rejected it: it
\* is registered before it is used for the first time (recorder.rs:398). And a
\* step lies inside the table of its path, so that a reader can turn it into a
\* position, except at the very end of a text (recorder.rs:313).
StepInTable ==
    /\ \A p \in DOMAIN tables : tables[p] # None
    /\ step # None /\ tables[step.path] # Err =>
        LET table == tables[step.path]
            text == given.texts[CHOOSE i \in DOMAIN given.paths : given.paths[i] = step.path]
            entry == EntryForPc(given.entries, given.code, step.at)
        IN  entry.offset < Size(text) =>
                step.line \in DOMAIN table /\ step.column \in 1..(table[step.line] + 1)

\* The trackers are given every variable the source may read at an entry, however
\* its statement is nested, and none elsewhere than in a function
\* (solidity_ast.rs:183, 427).
LocalsInScope ==
    in_scope # None =>
        LET entry == EntryForPc(given.entries, given.code, in_scope.at)
            names == {in_scope.vars[i].name : i \in DOMAIN in_scope.vars}
            around == {f \in UNION {Functions(u) : u \in Range(out.units)} :
                          /\ origin # "yul" /\ f.src.file = entry.file
                          /\ ContainsOffset(f.src, entry.offset)}
        IN  /\ \A f \in around : Visible(f, entry.offset) \subseteq names
            /\ around = {} => names = {}

\* Functions of two contracts are never shown under one name, overrides,
\* namesakes in libraries and constructors included (solidity_ast.rs:257). A free
\* function has no contract and its name may be that of any method.
NamesTellContracts ==
    pc = "start" =>
        \A f, g \in Range(given.functions) :
            f.contract_name # g.contract_name /\ None \notin {f.contract_name, g.contract_name} =>
                QualifiedFunctionName(given.functions, f) # QualifiedFunctionName(given.functions, g)

\* A contract Sourcify has is recorded whenever it can be: an answer with readable
\* metadata and sources, a compilation that succeeds, a linked contract with code,
\* the only one of the name asked for if one is (source_fetcher.rs:552, 583).
\* Without a name, any contract with code may be taken, so all have to be linked.
VerifiedRecorded ==
    LET Runs(i) == DOMAIN out.contracts[i].code # {} /\ out.contracts[i].srcmap # << >>
        named == {i \in DOMAIN out.contracts : out.contracts[i].name = preferred}
        usable == {i \in DOMAIN out.contracts :
                      /\ Runs(i) /\ out.contracts[i].linked
                      /\ IF preferred # None THEN named = {i}
                         ELSE \A j \in DOMAIN out.contracts : Runs(j) => out.contracts[j].linked}
        kinds == {response.files[i].kind : i \in DOMAIN response.files}
    IN  /\ pc = "failed" /\ usable # {} /\ out.success =>
              \/ ~IsSuccess(response.http) \/ response.status \notin {"full", "partial"}
              \/ "metadata" \notin kinds \/ "sol" \notin kinds \/ "vy" \in kinds
              \/ \E f \in Range(response.files) : f.kind = "metadata" /\ ~IsMetadata(f.text)
        /\ pc = "none" => response.http = 404

\* Paths and texts can be looked up by the file index of the map, as they are
\* (source_fetcher.rs:526).
IndexedByFile ==
    pc = "steps" => \A at \in DOMAIN given.code :
        Location(at) # None => Location(at) = TrueLocation(at)
=============================================================================
