--------------------------- MODULE ContractRegistry ---------------------------
(***************************************************************************)
(* The lookups of contract_registry.rs.  The artifacts of a contract are   *)
(* named by the address they are registered under: Get returns whose       *)
(* artifacts are used, None stands for Option::None.                       *)
(***************************************************************************)
CONSTANT None

\* A registry: the registered addresses and the default one (None: not set).
\* It is filled before a recording and only read during one.
NewRegistry(contracts, default) ==
    [contracts |-> contracts, default_address |-> default]

\* get: an exact match first, then the default, if that is registered.
Get(r, address) ==
    IF address \in r.contracts THEN address
    ELSE IF r.default_address \in r.contracts THEN r.default_address
    ELSE None

\* What a step is decoded with: `code' names the artifacts that give source
\* map, sources and AST, `layout' those that give the storage layout.
NoView == [code |-> None, layout |-> None]

\* Mutant of GetDelegatecall: the layout of the implementation.
GetDelegatecallLayout(r, implementation, proxy) ==
    [code |-> Get(r, implementation), layout |-> Get(r, implementation)]

\* get_delegatecall: code of the implementation (or of the default), layout of
\* the proxy, for which only an exact match counts.
GetDelegatecall(r, implementation, proxy) ==
    IF Get(r, implementation) = None THEN NoView
    ELSE [code |-> Get(r, implementation),
          layout |-> IF proxy \in r.contracts THEN proxy ELSE None]

=============================================================================
