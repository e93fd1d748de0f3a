------------------------------ MODULE StructLogs ------------------------------
(***************************************************************************)
(* What the node of the network (anvil, geth, revm) puts into the          *)
(* structLogs of a transaction.  It is not code of the repository: it is   *)
(* the environment of the recorders, modelled from how they read it.       *)
(* Every executed instruction gives one entry, with the depth of the frame *)
(* that executes it; the first entry has depth 1.                          *)
(***************************************************************************)
EXTENDS Naturals, Sequences

CallOp == {"CALL", "CALLCODE", "DELEGATECALL", "STATICCALL",
           "CREATE", "CREATE2"}
CreateOp == {"CREATE", "CREATE2"}
HaltOp == {"RETURN", "REVERT"}

\* The depths the entry after an instruction `op' at depth d may have: one
\* deeper when a call finds code to run, the same when the frame goes on (a
\* call to an account without code included), one less when the frame ended
\* or the instruction failed (out of gas, stack underflow, invalid opcode).
NextDepths(op, d) ==
    (IF op \in CallOp THEN {d + 1} ELSE {})
    \cup (IF op \in HaltOp THEN {} ELSE {d})
    \cup (IF d > 1 THEN {d - 1} ELSE {})

\* The frame a call instruction creates: the contract whose code runs and the
\* account whose storage it reads and writes.  DELEGATECALL and CALLCODE run
\* foreign code on the storage of the frame that calls.
Callee(caller, op, to) ==
    [code |-> to,
     owner |-> IF op \in {"DELEGATECALL", "CALLCODE"}
               THEN caller.owner ELSE to,
     via |-> op]

=============================================================================
