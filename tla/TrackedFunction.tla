---------------------------- MODULE TrackedFunction ----------------------------
(***************************************************************************)
(* A StackTracker at work: the unoptimised code solc emits for functions   *)
(* with parameters and local variables, and the tracker the recorder feeds *)
(* with each instruction.  Each action is one instruction: the EVM changes *)
(* its stack, process_step changes the labels, and at the jumps in and out *)
(* of a function the recorder seeds or resets them.                        *)
(*                                                                         *)
(* The code is the environment (external): a variable has a fixed place,   *)
(* `home', on the stack; an expression is evaluated above the variables;   *)
(* an assignment swaps the value into its place and pops the old one.      *)
(***************************************************************************)
EXTENDS StackTracker, FiniteSets

CONSTANTS
    Params,        \* the parameters of a function, in order: a sequence
    Locals,        \* its local variables, in order: a sequence
    Vals,          \* values on the stack
    Operators,     \* opcodes expressions use beside PUSH and DUP
    Intos,         \* what the recorder does at a call: of {"seed", "reset"}
    MaxHeight,     \* bound on the height of the stack
    MaxCalls       \* bound on the nesting of calls

Names == {Params[k] : k \in 1..Len(Params)} \cup {Locals[k] : k \in 1..Len(Locals)}

ASSUME NamesAssumption ==
    /\ None \notin Names /\ None \notin Vals
    /\ Intos \subseteq {"seed", "reset"}
ASSUME BoundsAssumption == MaxHeight \in Nat /\ MaxCalls \in Nat

\* A name stands for one variable of the function.
ASSUME VariablesAssumption ==
    /\ Params \in Seq(Names) /\ Locals \in Seq(Names)
    /\ \A j, k \in 1..Len(Params) : Params[j] = Params[k] => j = k
    /\ \A j, k \in 1..Len(Locals) : Locals[j] = Locals[k] => j = k
    /\ \A j \in 1..Len(Params), k \in 1..Len(Locals) : Params[j] # Locals[k]

VARIABLES
    stack,      \* the EVM stack before the next instruction, bottom first
    slots,      \* the labels of the tracker
    home,       \* where the variables of the function are, 0: not yet
    settled,    \* its variables that have a value
    assigned,   \* those of them that were assigned after their declaration
    stmt,       \* the statement being executed, or None
    callers,    \* the functions that called, outermost first
    synced      \* the tracker was not reset since it was new or seeded

vars == <<stack, slots, home, settled, assigned, stmt, callers, synced>>

Nowhere == [decl |-> None, stmt |-> None]
Statement(kind, var, base) == [kind |-> kind, var |-> var, base |-> base]
ASSUME StatementAssumption ==
    None \notin [kind : {"declare", "assign", "eval", "drop", "return"},
                 var : Names \cup {None}, base : Nat]

Top == Len(stack)
Temps == IF stmt = None THEN 0 ELSE Top - stmt.base

-----------------------------------------------------------------------------
(* What the instructions of the EVM take from the stack and put on it. *)

Takes(op) ==
    CASE op \in 160..164 -> op - 158                        \* LOG0 .. LOG4
      [] op \in {241, 242} -> 7                             \* CALL, CALLCODE
      [] op \in {244, 250} -> 6                             \* DELEGATECALL, STATICCALL
      [] op \in {60, 245} -> 4                              \* EXTCODECOPY, CREATE2
      [] op \in {8, 9, 55, 57, 62, 94, 240} -> 3            \* ADDMOD .. copies, CREATE
      [] op \in {21, 25, 49, 53, 59, 63, 64, 73, 80, 81, 84, 86, 92} -> 1
      [] op \in {48, 50, 51, 52, 54, 56, 58, 61, 91} \cup (65..72) \cup {74}
                \cup (88..90) -> 0
      [] OTHER -> 2
Gives(op) ==
    IF op \in {55, 57, 60, 62, 94} \cup {80, 82, 83, 85, 86, 87, 91, 93} \cup (160..164)
    THEN 0 ELSE 1

\* The opcodes that go on with the next instruction of the frame, and JUMP.
Opcodes ==
    (1..11) \cup (16..29) \cup {32} \cup (48..74) \cup (80..94)
    \cup (160..164) \cup {240, 241, 242, 244, 245, 250}

ASSUME OperatorsAssumption == Operators \subseteq Opcodes

After(op, results) == SubSeq(stack, 1, Top - Takes(op)) \o results
Results(op) == IF Gives(op) = 1 THEN {<<v>> : v \in Vals} ELSE {<<>>}

\* Where a statement's instructions are in the source.
At(s) == [decl |-> None, stmt |-> IF s.kind = "declare" THEN s.var ELSE None]

-----------------------------------------------------------------------------
(* Statements. *)

NextLocal ==
    IF \E k \in 1..Len(Locals) : home[Locals[k]] = 0
    THEN Locals[CHOOSE k \in 1..Len(Locals) :
                   /\ home[Locals[k]] = 0
                   /\ \A j \in 1 .. k - 1 : home[Locals[j]] # 0]
    ELSE None

\* `uint v = e;' or `uint v;' starts with the place of v, set to 0.
Declare(initialised) ==
    /\ stmt = None /\ NextLocal # None /\ Top < MaxHeight
    /\ \E zero \in Vals : stack' = Append(stack, zero)
    /\ slots' = ProcessStep(slots, PUSH0, [decl |-> NextLocal, stmt |-> NextLocal])
    /\ home' = [home EXCEPT ![NextLocal] = Top + 1]
    /\ settled' = IF initialised THEN settled ELSE settled \cup {NextLocal}
    /\ stmt' = IF initialised THEN Statement("declare", NextLocal, Top + 1) ELSE None
    /\ UNCHANGED <<assigned, callers, synced>>

\* The statement an expression belongs to: the one that runs, or a new one,
\* `v = e;' or `e;'.
Current ==
    IF stmt # None THEN {stmt} \ {s \in {stmt} : s.kind \in {"drop", "return"}}
    ELSE {Statement("eval", None, Top)}
         \cup {Statement("assign", v, Top) : v \in settled}

Literal ==
    \E s \in Current, v \in Vals :
        /\ Top < MaxHeight
        /\ stack' = Append(stack, v)
        /\ slots' = ProcessStep(slots, 96, At(s))
        /\ stmt' = s
        /\ UNCHANGED <<home, settled, assigned, callers, synced>>

Read ==
    \E s \in Current, v \in settled :
        /\ Top < MaxHeight /\ Top - home[v] < 16
        /\ stack' = Append(stack, stack[home[v]])
        /\ slots' = ProcessStep(slots, Dup(Top - home[v] + 1), At(s))
        /\ stmt' = s
        /\ UNCHANGED <<home, settled, assigned, callers, synced>>

Operate ==
    \E s \in Current, op \in Operators : \E rs \in Results(op) :
        /\ Takes(op) <= Top - s.base
        /\ Len(After(op, rs)) <= MaxHeight
        /\ stack' = After(op, rs)
        /\ slots' = ProcessStep(slots, op, At(s))
        /\ stmt' = s
        /\ UNCHANGED <<home, settled, assigned, callers, synced>>

\* The value of the expression goes to the place of its variable ...
SwapIn ==
    /\ stmt # None /\ stmt.kind \in {"declare", "assign"} /\ Temps = 1
    /\ LET n == Top - home[stmt.var] IN
       /\ n <= 16
       /\ stack' = [stack EXCEPT ![Top] = stack[Top - n], ![Top - n] = stack[Top]]
       /\ slots' = ProcessStep(slots, Swap(n), At(stmt))
    /\ stmt' = [stmt EXCEPT !.kind = "drop"]
    /\ assigned' = IF stmt.kind = "assign" THEN assigned \cup {stmt.var} ELSE assigned
    /\ UNCHANGED <<home, settled, callers, synced>>

\* ... and the old one is dropped.  A declaration is settled then.
Drop ==
    /\ stmt # None /\ stmt.kind = "drop"
    /\ stack' = After(POP, <<>>)
    /\ slots' = ProcessStep(slots, POP,
                    [decl |-> None,
                     stmt |-> IF stmt.var \in settled THEN None ELSE stmt.var])
    /\ settled' = settled \cup {stmt.var}
    /\ stmt' = None
    /\ UNCHANGED <<home, assigned, callers, synced>>

\* The value of an expression statement is dropped; one without a value ends
\* before the next instruction.
Discard ==
    /\ stmt # None /\ stmt.kind = "eval" /\ Temps <= 1
    /\ LET op == IF Temps = 1 THEN POP ELSE JUMPDEST IN
       /\ stack' = After(op, <<>>)
       /\ slots' = ProcessStep(slots, op, Nowhere)
    /\ stmt' = None
    /\ UNCHANGED <<home, settled, assigned, callers, synced>>

-----------------------------------------------------------------------------
(* Calls.  Above the caller's values: return address, arguments, target. *)

CalleeHome(height) ==
    [v \in Names |->
        IF \E k \in 1..Len(Params) : Params[k] = v
        THEN height - Len(Params) + CHOOSE k \in 1..Len(Params) : Params[k] = v
        ELSE 0]

CallInto(into) ==
    /\ stmt # None /\ stmt.kind \notin {"drop", "return"}
    /\ Temps >= Len(Params) + 2 /\ Len(callers) < MaxCalls
    /\ stack' = After(JUMP, <<>>)
    /\ slots' = IF into = "seed" THEN SeedTopLabels(Top - 1, Params) ELSE Reset
    /\ synced' = (into = "seed")
    /\ callers' = Append(callers, [home |-> home, settled |-> settled,
                                   assigned |-> assigned, stmt |-> stmt])
    /\ home' = CalleeHome(Top - 1)
    /\ settled' = {Params[k] : k \in 1..Len(Params)}
    /\ assigned' = {}
    /\ stmt' = None

Returning == stmt = None \/ stmt.kind = "return"

\* `return' pops the variables of the function ...
Unwind ==
    /\ callers # <<>> /\ Returning = TRUE
    /\ \E v \in Names :
          /\ home[v] = Top
          /\ home' = [home EXCEPT ![v] = 0]
          /\ settled' = settled \ {v}
          /\ assigned' = assigned \ {v}
    /\ stack' = After(POP, <<>>)
    /\ slots' = ProcessStep(slots, POP, Nowhere)
    /\ stmt' = Statement("return", None, 0)
    /\ UNCHANGED <<callers, synced>>

\* ... and jumps to the return address, where the recorder resets the tracker.
JumpOut ==
    /\ callers # <<>> /\ Returning = TRUE
    /\ \A v \in Names : home[v] = 0
    /\ stack' = After(JUMP, <<>>)
    /\ slots' = Reset
    /\ synced' = (stack' = <<>>)
    /\ LET caller == callers[Len(callers)] IN
       /\ home' = caller.home
       /\ settled' = caller.settled
       /\ assigned' = caller.assigned
       /\ stmt' = caller.stmt
    /\ callers' = SubSeq(callers, 1, Len(callers) - 1)

-----------------------------------------------------------------------------
\* The first instruction of a frame.
Init ==
    /\ stack = <<>>
    /\ slots = <<>>
    /\ home = [v \in Names |-> 0]
    /\ settled = {}
    /\ assigned = {}
    /\ stmt = None
    /\ callers = <<>>
    /\ synced = TRUE

Next ==
    \/ \E initialised \in BOOLEAN : Declare(initialised)
    \/ Literal
    \/ Read
    \/ Operate
    \/ SwapIn
    \/ Drop
    \/ Discard
    \/ \E into \in Intos : CallInto(into)
    \/ Unwind
    \/ JumpOut

Spec == Init /\ [][Next]_vars

-----------------------------------------------------------------------------
(* Properties *)

\* Types of the state: the tracker never has more labels than the stack has
\* values, so that a label always names a slot that exists.
TypeOK ==
    /\ stack \in Seq(Vals) /\ Len(stack) <= MaxHeight
    /\ slots \in Seq(Names \cup {None}) /\ Len(slots) <= Len(stack)
    /\ home \in [Names -> 0..MaxHeight]
    /\ assigned \subseteq settled /\ settled \subseteq Names
    /\ stmt # None =>
          /\ stmt.kind \in {"declare", "assign", "eval", "drop", "return"}
          /\ stmt.var \in Names \cup {None} /\ stmt.base \in 0..MaxHeight
    /\ Len(callers) <= MaxCalls
    /\ synced \in BOOLEAN

\* As long as the tracker has only been seeded, it has a label for each slot of
\* the stack: process_step moves as many labels as the EVM moves values.
MirrorsSinceSeed == synced => Len(slots) = Len(stack)

\* The same for each opcode there is and any stack it can run on: one wrong
\* number in the table of process_step would shift every label above it. What
\* holds for each stack is evaluated once, where a function has none yet.
EveryOpcodeMirrors ==
    stack = <<>> => \A op \in Opcodes \cup PushOp \cup DupOp \cup SwapOp, height \in 0..17 :
        LET labels == [k \in 1..height |-> None]
            given == Len(ProcessStep(labels, op, Nowhere))
        IN  CASE op \in PushOp -> given = height + 1
              [] op \in DupOp -> height >= op - 127 => given = height + 1
              [] op \in SwapOp -> given = height
              [] OTHER -> height >= Takes(op) => given = height - Takes(op) + Gives(op)

\* What the recorder shows for a variable of the running function.
Shown(v) == GetVariableValue(slots, v, stack)

\* A variable that was given its value once is found where the compiler put it
\* or as a copy of it, with the value it has: labels travel with the values they
\* were given to, through DUP, SWAP and the end of declarations, assignments of
\* other variables put no other value under its label, and the recovery of
\* lost labels takes none from it.
SettledShown ==
    synced => \A v \in settled \ assigned : Shown(v) = stack[home[v]]

-----------------------------------------------------------------------------
(* What the comments of the code say, and it does not do. *)

\* "The `slots` vector mirrors the EVM stack bottom-to-top, matching the
\* ordering of structLog's `stack` array."
SlotsMirrorStack == Len(slots) = Len(stack)

=============================================================================
