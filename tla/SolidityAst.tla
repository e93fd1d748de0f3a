---------------------------- MODULE SolidityAst ----------------------------
\* The functions of a compilation unit and their variables, taken from solc's
\* syntax tree (solidity_ast.rs), and who asks for them: which function an offset
\* is in, which variables it may read there, what the function is called.
\*
\* A node is [id, nodeType, name, kind, src, declarations, parameters,
\* returnParameters, parts]; parts maps a key of the JSON object to the nodes
\* under it, and the id is the number solc gives the node, after those under it.
\* A declaration is [name, src]: None in the place of a tuple left blank, an empty
\* name where the source has none. A range is [offset, length, file].
EXTENDS Options

CONSTANTS Nodes     \* the nodes of the syntax trees

Unnamed == ""

ContainsOffset(range, offset) == range.offset <= offset /\ offset < range.offset + range.length

\* The nodes under a key, and under several keys, one after the other.
Part(node, key) == IF key \in DOMAIN node.parts THEN node.parts[key] ELSE << >>
Parts(node, keys) == FlattenSeq([k \in DOMAIN keys |-> Part(node, keys[k])])

-----------------------------------------------------------------------------
\* The trees solc makes.

Children(node) == UNION {Range(node.parts[key]) : key \in DOMAIN node.parts}

\* A node and those under it.
Below[node \in Nodes] == {node} \cup UNION {Below[c] : c \in Children(node)}

IsFunction(node) == node.nodeType = "FunctionDefinition"
Functions(node) == {f \in Below[node] : IsFunction(f)}
Declares(node) == node.declarations # << >> \/ node.nodeType = "TryCatchClause"

StatementKeys == {"statements", "body", "trueBody", "falseBody",
                  "initializationExpression", "loopExpression", "clauses", "block"}

ASSUME TreeAssumption ==
    \A n \in Nodes : /\ n.id \in Nat
                     /\ \A key \in DOMAIN n.parts : n.parts[key] \in Seq(Nodes)
                     /\ \A c \in Children(n) : c.id < n.id

IsRange(src) == src.offset \in Nat /\ src.length \in Nat

ASSUME FieldsAssumption ==
    \A n \in Nodes :
        /\ IsRange(n.src)
        /\ \A decls \in {n.declarations, n.parameters, n.returnParameters} :
               /\ decls \in Seq(Range(decls))
               /\ \A d \in Range(decls) \ {None} : IsRange(d.src)
        /\ n.declarations # << >> => n.nodeType = "VariableDeclarationStatement"
        /\ n.parameters # << >> => n.nodeType \in {"FunctionDefinition", "TryCatchClause"}
        /\ n.returnParameters # << >> => IsFunction(n)
        /\ \A d \in Range(n.declarations) \ {None} : d.src.offset <= n.src.offset + n.src.length

\* Functions are members of contracts and files; declarations are statements, and
\* statements are under the keys above, in a function those of its body.
ASSUME GrammarAssumption ==
    \A n \in Nodes : \A c \in Children(n) :
        /\ Functions(c) # {} => ~IsFunction(n) /\ c \in Range(Part(n, "nodes"))
        /\ IsFunction(n) /\ (\E m \in Below[c] : Declares(m)) => c \in Range(Part(n, "body"))
        /\ Functions(n) = {} /\ (\E m \in Below[c] : Declares(m)) =>
               \E key \in StatementKeys : c \in Range(Part(n, key))

-----------------------------------------------------------------------------
\* Extraction

ParseVarDecl(decl, statement) ==
    [name |-> decl.name, src |-> decl.src, declaration_offset |-> decl.src.offset,
     statement_range |-> statement]

Parsed(decls, statement) ==
    LET present == Only(decls, Range(decls) \ {None})
    IN  [i \in DOMAIN present |-> ParseVarDecl(present[i], statement)]
Named(decls) ==
    LET parsed == Parsed(decls, None)
    IN  Only(parsed, {v \in Range(parsed) : v.name # Unnamed})

\* Mutant of SubNodes: the branches after an else are not searched.
MutSubNodes ==
    << "statements", "body", "trueBody", "initializationExpression", "loopExpression", "clauses", "block" >>

\* Where a statement may hold declarations.
SubNodes ==
    << "statements", "body", "trueBody", "falseBody",
       "initializationExpression", "loopExpression", "clauses", "block" >>

CollectLocalVars[node \in Nodes] ==
    LET own == IF node.nodeType = "VariableDeclarationStatement"
               THEN Parsed(node.declarations, node.src) ELSE << >>
        under == Parts(node, SubNodes)
        caught == IF node.nodeType = "TryCatchClause" THEN Named(node.parameters) ELSE << >>
    IN  own \o FlattenSeq([i \in DOMAIN under |-> CollectLocalVars[under[i]]]) \o caught

\* Named return values are locals from the start.
ParseFunction(node, holder) ==
    LET body == Part(node, "body")
    IN  [name |-> IF node.kind \in {"constructor", "fallback", "receive"} THEN node.kind ELSE node.name,
         src |-> node.src,
         parameters |-> Parsed(node.parameters, None),
         local_variables |-> Named(node.returnParameters)
                                 \o FlattenSeq([i \in DOMAIN body |-> CollectLocalVars[body[i]]]),
         contract_name |-> holder.name, contract_kind |-> holder.kind]

\* The contract a node is in.
NoHolder == [name |-> None, kind |-> None]
HolderOf(contract) == [name |-> contract.name, kind |-> contract.kind]
Holders == {NoHolder} \cup {HolderOf(n) : n \in {c \in Nodes : c.nodeType = "ContractDefinition"}}

VisitedKeys == << "nodes", "body", "statements" >>

\* A function is not searched for functions; a contract names those inside it.
VisitNode[at \in Nodes \X Holders] ==
    LET node == at[1]
        holder == IF node.nodeType = "ContractDefinition" THEN HolderOf(node) ELSE at[2]
        children == Parts(node, VisitedKeys)
    IN  IF IsFunction(node) THEN << ParseFunction(node, holder) >>
        ELSE FlattenSeq([i \in DOMAIN children |-> VisitNode[<< children[i], holder >>]])

FromCombinedJson(units) == FlattenSeq([i \in DOMAIN units |-> VisitNode[<< units[i], NoHolder >>]])

-----------------------------------------------------------------------------
\* Questions

\* The first of the smallest functions around an offset.
FunctionAt(functions, offset, file) ==
    LET around == {i \in DOMAIN functions : functions[i].src.file = file
                                            /\ ContainsOffset(functions[i].src, offset)}
        smallest == {i \in around : \A j \in around : functions[i].src.length <= functions[j].src.length}
    IN  IF around = {} THEN None ELSE functions[Min(smallest)]

\* Parameters, and the locals declared so far, whatever block they are in.
VarsInScopeAt(f, offset) ==
    f.parameters \o Only(f.local_variables, {v \in Range(f.local_variables) : v.declaration_offset <= offset})

\* Mutant of QualifiedFunctionName: only functions of libraries are qualified.
MutQualifiedFunctionName(functions, f) ==
    << IF f.contract_kind = "library" THEN f.contract_name ELSE None, f.name >>

\* The contract, when the name needs it, and the name.
QualifiedFunctionName(functions, f) ==
    LET others == {functions[i] : i \in DOMAIN functions} \ {f}
        collides == \E g \in others : g.name = f.name /\ g.contract_name \notin {None, f.contract_name}
    IN  << IF f.contract_name # None /\ (f.contract_kind = "library" \/ collides)
           THEN f.contract_name ELSE None,
           f.name >>
=============================================================================
