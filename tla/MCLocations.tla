----------------------------- MODULE MCLocations -----------------------------
\* Values for TLC: texts with and without a last newline and with wide characters;
\* answers with one file or two, in solc's order or not, or with something
\* missing; code with data after its instructions, maps that are short or
\* compressed; a library before the contract; Yul with labels.
EXTENDS Locations, TLC

File(kind, path, text) == [kind |-> kind, path |-> path, text |-> text]
TextA == << Ascii, Wide, Newline, Ascii >>
TextB == << Newline, Wide, Ascii, Newline >>
Metadata == File("metadata", 0, [enabled |-> TRUE, runs |-> None, evm |-> None])
Unreadable == File("metadata", 0, None)
A == File("sol", 1, TextA)
B == File("sol", 2, TextB)

Answer(files) == [http |-> 200, status |-> "full", files |-> files]
Program == File("sol", 1, [i \in 1..16 |-> Ascii])
InOrder == {Answer(<< Metadata, A >>), Answer(<< A, Metadata, B >>)}
OutOfOrder == {Answer(<< Metadata, B, A >>)}
Other == {
    Answer(<< A >>), Answer(<< Metadata >>), Answer(<< Metadata, A, File("vy", 3, TextB) >>),
    Answer(<< Unreadable, A >>), [Answer(<< Metadata, A >>) EXCEPT !.http = 204],
    [Answer(<< Metadata, A >>) EXCEPT !.http = NoAnswer],
    [Answer(<< Metadata, A >>) EXCEPT !.http = 404], [Answer(<< Metadata, A >>) EXCEPT !.http = 500],
    [Answer(<< Metadata, A >>) EXCEPT !.status = "partial"], [Answer(<< Metadata, A >>) EXCEPT !.status = "false"]}

Code(widths) == [k \in 0..(Len(widths) - 1) |-> widths[k + 1]]
NoCode == Code(<< >>)
Piece(offset, file) == [offset |-> offset, length |-> Kept, file |-> file, jump |-> Kept]
First == {Piece(o, f) : o \in {Kept, 0, 3}, f \in {Kept, 0, 1, -1}}
Third == {Piece(o, f) : o \in {Kept, 3, 5, 7}, f \in {Kept, 1}}
Srcmaps == {<< p, q, r >> : p \in First, q \in {Piece(4, Kept), Piece(Kept, 1)}, r \in Third}
Codes == {Code(<< 0, 2, 0, 1 >>), Code(<< 1, 1, 0, 0 >>)}

ContractA(code, srcmap) == [name |-> "A", linked |-> TRUE, code |-> code, srcmap |-> srcmap]
Library == [name |-> "L", linked |-> TRUE, code |-> NoCode, srcmap |-> << >>]
Plain == ContractA(Code(<< 0, 0 >>), << Piece(3, 0) >>)
Unlinked == [Plain EXCEPT !.name = "B", !.linked = FALSE]
Report(success, contracts, units) == [success |-> success, contracts |-> contracts, units |-> units]
Maps == {Report(TRUE, << ContractA(code, m) >>, << >>) : code \in Codes, m \in Srcmaps}
Reports == {Report(TRUE, << Library, Plain >>, << >>), Report(TRUE, << Unlinked, Plain >>, << >>),
            Report(TRUE, << Library >>, << >>), Report(TRUE, << >>, << >>), Report(FALSE, << >>, << >>)}

-----------------------------------------------------------------------------
\* Programs: a function with a declaration, a statement around a declaration and
\* a statement around another, and a last declaration; and two contracts with a
\* function each. An instruction for every second byte.
Src(from, length) == [offset |-> from, length |-> length, file |-> 0]
Node(type, src, parts) ==
    [id |-> 1 + Max({0} \cup {c.id : c \in Children([parts |-> parts])}), nodeType |-> type, name |-> "", kind |-> None, src |-> src, declarations |-> << >>,
     parameters |-> << >>, returnParameters |-> << >>, parts |-> parts]
Decl(name, from) == [name |-> name, src |-> Src(from, 1)]
Let(name, from) ==
    [Node("VariableDeclarationStatement", Src(from, 1), << >>) EXCEPT !.declarations = << None, Decl(name, from) >>]

Statement(type, src, body) ==
    LET Block == << Node("Block", src, "statements" :> body) >>
        If(key) == Node("IfStatement", src, key :> Block)
        Clause(decls, parts) == [Node("TryCatchClause", src, parts) EXCEPT !.parameters = decls]
    IN  CASE type \in {"Block", "UncheckedBlock"} -> Node(type, src, "statements" :> body)
          [] type = "then" -> If("trueBody")
          [] type = "else" -> If("falseBody")
          [] type = "else if" -> Node("IfStatement", src, "falseBody" :> << If("trueBody") >>)
          [] type = "ForStatement" ->
                 Node(type, src, ("initializationExpression" :> << Let("i", src.offset) >>) @@ ("body" :> Block))
          [] type \in {"WhileStatement", "DoWhileStatement"} -> Node(type, src, "body" :> Block)
          [] type = "try" ->
                 Node("TryStatement", src, "clauses" :> << Clause(<< Decl("", src.offset), Decl("v", src.offset) >>, "block" :> Block) >>)
          [] type = "catch" ->
                 Node("TryStatement", src, "clauses" :> << Clause(<< >>, "block" :> << >>), Clause(<< Decl("e", src.offset) >>, "block" :> Block) >>)

Types == {"Block", "UncheckedBlock", "then", "else", "else if", "ForStatement", "WhileStatement",
          "DoWhileStatement", "try", "catch"}
Function(name, kind, src, body) ==
    [Node("FunctionDefinition", src, "body" :> << Node("Block", src, "statements" :> body) >>) EXCEPT
        !.name = name, !.kind = kind, !.parameters = << Decl("p", src.offset) >>,
        !.returnParameters = << Decl("", src.offset), Decl("r", src.offset + 1) >>]
ContractDef(name, kind, src, functions) ==
    [Node("ContractDefinition", src, "nodes" :> functions) EXCEPT !.name = name, !.kind = kind]
Unit(nodes) == << Node("SourceUnit", Src(0, 16), "nodes" :> nodes) >>

Nested(outer, inner) ==
    << Let("y", 3),
       Statement(outer, Src(5, 7), << Let("x", 6), Statement(inner, Src(7, 4), << Let("w", 8) >>) >>),
       Let("z", 12) >>
Scopes == {Unit(<< ContractDef("A", "contract", Src(0, 16), << Function("f", "function", Src(1, 14), Nested(o, i)) >>) >>) :
              o \in Types, i \in {"else", "ForStatement", "catch"}}
Declared == {"f", "g", "constructor"}
TwoContracts ==
    {Unit(<< ContractDef("A", k, Src(0, 8), << Function(f, IF f = "constructor" THEN f ELSE "function", Src(1, 6), << >>) >>),
             ContractDef("B", l, Src(8, 8), << Function(g, IF g = "constructor" THEN g ELSE "function", Src(9, 3), << >>),
                                               Function("f", "function", Src(12, 3), << >>) >>) >>) :
        k, l \in {"contract", "library"}, f, g \in Declared}

Programs ==
    {Report(TRUE, << ContractA([k \in 0..7 |-> 0], [k \in 1..8 |-> Piece(2 * k - 1, IF k = 1 THEN 0 ELSE Kept)]) >>, u) :
        u \in Scopes \cup TwoContracts}
Inst(name, begin, end) == [name |-> name, begin |-> begin, end |-> end, jump |-> "regular"]
Assemblies == {<< a, b, c >> : a, b, c \in {Inst("tag", 0, 1), Inst("PUSH", 3, 4), Inst("JUMP", 4, 3)}}
YulOutcomes ==
    {Report(TRUE, << ContractA(code, asm) >>, << >>) : code \in Codes, asm \in Assemblies}

-----------------------------------------------------------------------------
Input(from, answer, report, name) ==
    [origin |-> from, response |-> answer, out |-> report, preferred |-> name]
From(responses, outcomes) ==
    {Input("file", r, o, None) : r \in responses, o \in outcomes}
    \cup {Input("verified", r, o, p) : r \in responses, o \in outcomes, p \in {None, "A"}}
MCInputs ==
    From(InOrder \cup OutOfOrder, Maps)
    \cup From(InOrder \cup Other, Reports)
    \cup {Input("yul", Answer(<< f >>), o, None) : f \in {A, B}, o \in YulOutcomes}
    \cup {Input("file", Answer(<< Program >>), o, None) : o \in Programs}
MCOutOfOrder == From(OutOfOrder, Maps)

RECURSIVE Tree(_)
Tree(node) == {node} \cup UNION {Tree(c) : c \in Children(node)}
MCNodes == UNION {UNION {Tree(u) : u \in Range(program.units)} : program \in Programs}
=============================================================================
