----------------------------- MODULE StackTracker -----------------------------
(***************************************************************************)
(* The symbolic stack of stack_tracker.rs: a label or None for each slot   *)
(* of the EVM stack, bottom first.  Opcodes are their bytes.               *)
(*                                                                         *)
(* A source offset is abstracted to what the tracker asks of it, a record  *)
(* [decl, stmt]: the variable whose declaration holds the offset and the   *)
(* one whose declaration statement does (None for none).                   *)
(***************************************************************************)
EXTENDS Naturals, Sequences

CONSTANT None

PUSH0 == 95
POP == 80
JUMP == 86
JUMPDEST == 91
Dup(n) == 127 + n       \* DUP1 .. DUP16
Swap(n) == 143 + n      \* SWAP1 .. SWAP16

\* PUSH0 .. PUSH32, DUP and SWAP have cases of their own in process_step.
PushOp == 95 .. 127
DupOp == 128 .. 143
SwapOp == 144 .. 159

\* Mutant of Popped: the pops of MCOPY are forgotten.
PoppedNoMcopy(op) ==
    CASE op \in (1..7) \cup {10, 11} \cup (16..20) \cup (22..24) \cup (26..29)
               \cup {32, 82, 83, 85, 87, 93, 243, 253} -> 2
      [] op \in {8, 9, 55, 57, 62, 240} -> 3
      [] op \in {21, 25, 49, 53, 59, 63, 64, 73, 80, 81, 84, 86, 92, 255} -> 1
      [] op \in {60, 245} -> 4
      [] op \in 160..164 -> 2 + (op - 160)
      [] op \in {241, 242} -> 7
      [] op \in {244, 250} -> 6
      [] OTHER -> 0

\* How many labels process_step drops for an opcode ...
Popped(op) ==
    CASE op \in (1..7) \cup {10, 11} \cup (16..20) \cup (22..24) \cup (26..29)
               \cup {32, 82, 83, 85, 87, 93, 243, 253} -> 2
      [] op \in {8, 9, 55, 57, 62, 94, 240} -> 3
      [] op \in {21, 25, 49, 53, 59, 63, 64, 73, 80, 81, 84, 86, 92, 255} -> 1
      [] op \in {60, 245} -> 4
      [] op \in 160..164 -> 2 + (op - 160)
      [] op \in {241, 242} -> 7
      [] op \in {244, 250} -> 6
      [] OTHER -> 0

\* ... and how many nameless ones it pushes after that.
PushesAnon(op) ==
    op \in (1..11) \cup (16..29) \cup {32} \cup (48..54) \cup {56, 58, 59, 61}
           \cup (63..74) \cup {81, 84} \cup (88..90) \cup {92}
           \cup {240, 241, 242, 244, 245, 250}

\* pop_n saturates: a tracker that is shorter than the stack stays so.
PopN(slots, n) == SubSeq(slots, 1, IF n < Len(slots) THEN Len(slots) - n ELSE 0)

PeekFromTop(slots, n) ==
    IF n = 0 \/ n > Len(slots) THEN None ELSE slots[Len(slots) - n + 1]

Swapped(slots, n) ==
    IF Len(slots) > n
    THEN [slots EXCEPT ![Len(slots)] = slots[Len(slots) - n],
                       ![Len(slots) - n] = slots[Len(slots)]]
    ELSE slots

\* The declaration wins over the statement around it.
LabelForPush(at) == IF at.decl # None THEN at.decl ELSE at.stmt

HasLabel(slots, v) == \E k \in 1..Len(slots) : slots[k] = v

\* Mutant of Recovered: lost labels stay lost.
RecoveredNever(slots, at) == slots

\* After every opcode, a variable whose statement is being executed and that
\* has lost its label gets the top of the stack. A statement declares one
\* variable here: the code does the same for each variable of a tuple.
Recovered(slots, at) ==
    IF at.stmt # None /\ ~HasLabel(slots, at.stmt) /\ slots # <<>>
    THEN [slots EXCEPT ![Len(slots)] = at.stmt]
    ELSE slots

ProcessStep(slots, op, at) ==
    Recovered(
        CASE op \in PushOp -> Append(slots, LabelForPush(at))
          [] op \in DupOp -> Append(slots, PeekFromTop(slots, op - 127))
          [] op \in SwapOp -> Swapped(slots, op - 143)
          [] PushesAnon(op) -> Append(PopN(slots, Popped(op)), None)
          [] OTHER -> PopN(slots, Popped(op)),
        at)

Reset == <<>>

\* Mutant of SeedTopLabels: the slots below the parameters get no label at all.
SeedTopLabelsOnly(depth, labels) == labels

\* The labels of the parameters go to the top of a stack of a known depth.
SeedTopLabels(depth, labels) ==
    [k \in 1..depth |->
        IF Len(labels) <= depth /\ k > depth - Len(labels)
        THEN labels[k - (depth - Len(labels))]
        ELSE None]

\* The topmost slot with the label of a variable, 0 if there is none.
SlotOf(slots, v) ==
    IF HasLabel(slots, v)
    THEN CHOOSE k \in 1..Len(slots) :
            /\ slots[k] = v
            /\ \A j \in k + 1 .. Len(slots) : slots[j] # v
    ELSE 0

\* get_variable_value: None also when the concrete stack is too short.
GetVariableValue(slots, v, stack) ==
    LET pos == SlotOf(slots, v) IN
    IF pos \in 1..Len(stack) THEN stack[pos] ELSE None

=============================================================================
