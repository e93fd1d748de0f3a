------------------------- MODULE TrackedFunctionProofs -------------------------
\* Where the trackers find the variables of a function: on the stack, for any
\* parameters, locals and operators, expressions of any depth and any nesting of
\* calls; in memory, for any locals and allocations.
EXTENDS TrackedFunction, MemoryTracker, SequenceTheorems, WellFoundedInduction, TLAPS

Label == Names \cup {None}
Kind == {"declare", "assign", "eval", "drop", "return"}
StatementRecord == [kind : Kind, var : Label, base : Nat]
Caller == [home : [Names -> Nat], settled : SUBSET Names, assigned : SUBSET Names,
           stmt : StatementRecord]

Types ==
    /\ stack \in Seq(Vals) /\ slots \in Seq(Label) /\ synced \in BOOLEAN
    /\ home \in [Names -> Nat] /\ settled \in SUBSET Names /\ assigned \in SUBSET Names
    /\ stmt \in StatementRecord \cup {None}
    /\ callers \in Seq(Caller)

\* The variables of a function lie above `low', each in a place of its own, and
\* below what the running statement evaluates.
PlacesOK(f, s, a, low) ==
    /\ a \subseteq s
    /\ \A v \in s : f[v] > 0
    /\ \A v \in Names : f[v] > 0 => f[v] > low
    /\ \A v, w \in Names : f[v] = f[w] /\ f[v] > 0 => v = w

RunningOK(f, s, st, low) ==
    /\ st.base >= low
    /\ \A v \in Names : f[v] <= st.base
    /\ st.kind = "declare" => st.var \in Names \ s /\ f[st.var] = st.base /\ st.base > 0
    /\ st.kind = "assign" => st.var \in s
    /\ st.kind = "drop" =>
          /\ st.var \in Names
          /\ st.var \in s \/ (f[st.var] = st.base /\ st.base > 0)

\* The return address of a function lies above what its caller evaluates.
LowOf(n) == IF n = 0 THEN 0 ELSE callers[n].stmt.base + 1
CallersOK ==
    \A n \in 1..Len(callers) :
        LET c == callers[n] IN
        /\ PlacesOK(c.home, c.settled, c.assigned, LowOf(n - 1))
        /\ RunningOK(c.home, c.settled, c.stmt, LowOf(n - 1))
        /\ c.stmt.kind \in {"declare", "assign", "eval"}

Running == stmt # None /\ stmt.kind # "return"
FunctionOK ==
    LET low == LowOf(Len(callers)) IN
    /\ PlacesOK(home, settled, assigned, low)
    /\ Running => /\ RunningOK(home, settled, stmt, low)
                  /\ IF stmt.kind = "drop" THEN Top = stmt.base + 1 ELSE Top >= stmt.base
    /\ ~Running => Top >= low /\ \A v \in Names : home[v] <= Top

\* No slot below n has the label of v.
FreeBelow(v, n) == \A k \in 1..Len(slots) : k < n => slots[k] # v

LabelsOK ==
    /\ Len(slots) = Len(stack)
    /\ \A v \in settled \ assigned :
          /\ slots[home[v]] = v
          /\ \A k \in 1..Len(slots) : slots[k] = v => stack[k] = stack[home[v]]
    /\ (stmt = None \/ Running) =>
          \A v \in Names : home[v] = 0 => \A k \in 1..Len(slots) : slots[k] # v
    /\ Running /\ stmt.kind = "declare" =>
          slots[stmt.base] = stmt.var /\ FreeBelow(stmt.var, stmt.base)
    /\ Running /\ stmt.kind = "drop" /\ stmt.var \notin settled => FreeBelow(stmt.var, stmt.base)

IInv == Types /\ CallersOK /\ FunctionOK /\ (synced => LabelsOK)
-----------------------------------------------------------------------------
(* What process_step does to the labels. *)

\* The table of process_step agrees with the EVM on each opcode.
LEMMA OpcodeTable ==
    ASSUME NEW op \in Opcodes
    PROVE  /\ Popped(op) = Takes(op) /\ Takes(op) \in Nat
           /\ Gives(op) = IF PushesAnon(op) THEN 1 ELSE 0
           /\ op \notin PushOp /\ op \notin DupOp /\ op \notin SwapOp
  <1>1. op \notin PushOp /\ op \notin DupOp /\ op \notin SwapOp
    BY DEF Opcodes, PushOp, DupOp, SwapOp
  <1>2. Popped(op) = Takes(op) /\ Takes(op) \in Nat
    BY DEF Opcodes, Popped, Takes
  <1>3. Gives(op) = IF PushesAnon(op) THEN 1 ELSE 0
    BY DEF Opcodes, Gives, PushesAnon
  <1>4. QED
    BY <1>1, <1>2, <1>3

\* Popping leaves what is below.
LEMMA PopElements ==
    ASSUME NEW L, NEW s \in Seq(L), NEW n \in Nat
    PROVE  /\ PopN(s, n) \in Seq(L)
           /\ n <= Len(s) => /\ Len(PopN(s, n)) = Len(s) - n
                             /\ \A k \in 1..(Len(s) - n) : PopN(s, n)[k] = s[k]
  <1> DEFINE m == IF n < Len(s) THEN Len(s) - n ELSE 0
  <1>1. m \in 0..Len(s) /\ (n <= Len(s) => m = Len(s) - n)
    OBVIOUS
  <1>2. PopN(s, n) = SubSeq(s, 1, m)
    BY DEF PopN
  <1> HIDE DEF m
  <1>3. SubSeq(s, 1, m) \in Seq(L) /\ Len(SubSeq(s, 1, m)) = m
        /\ \A k \in 1..m : SubSeq(s, 1, m)[k] = s[k]
    BY <1>1
  <1>4. QED
    BY <1>1, <1>2, <1>3

\* One label more leaves those below.
LEMMA PushElements ==
    ASSUME NEW L, NEW s \in Seq(L), NEW x \in L
    PROVE  /\ Append(s, x) \in Seq(L) /\ Len(Append(s, x)) = Len(s) + 1
           /\ Append(s, x)[Len(s) + 1] = x
           /\ \A k \in 1..Len(s) : Append(s, x)[k] = s[k]
  OBVIOUS

\* Nothing is recovered when the variable has its label, or none is asked for.
LEMMA NothingRecovered ==
    ASSUME NEW s, NEW at, at.stmt = None \/ HasLabel(s, at.stmt)
    PROVE  Recovered(s, at) = s
  BY DEF Recovered

\* process_step for each kind of opcode.
Moved(s, op, at) ==
    CASE op \in PushOp -> Append(s, LabelForPush(at))
      [] op \in DupOp -> Append(s, PeekFromTop(s, op - 127))
      [] op \in SwapOp -> Swapped(s, op - 143)
      [] PushesAnon(op) -> Append(PopN(s, Popped(op)), None)
      [] OTHER -> PopN(s, Popped(op))

LEMMA StepIsMove ==
    ASSUME NEW s, NEW op \in Nat, NEW at
    PROVE  /\ ProcessStep(s, op, at) = Recovered(Moved(s, op, at), at)
           /\ op \in PushOp => Moved(s, op, at) = Append(s, LabelForPush(at))
           /\ op \in DupOp => Moved(s, op, at) = Append(s, PeekFromTop(s, op - 127))
           /\ op \in SwapOp => Moved(s, op, at) = Swapped(s, op - 143)
  <1>1. ProcessStep(s, op, at) = Recovered(Moved(s, op, at), at)
    BY DEF ProcessStep, Moved
  <1>2. op \in PushOp => op \notin DupOp /\ op \notin SwapOp /\ ~PushesAnon(op)
    BY DEF PushOp, DupOp, SwapOp, PushesAnon
  <1>3. op \in DupOp => op \notin PushOp /\ op \notin SwapOp /\ ~PushesAnon(op)
    BY DEF PushOp, DupOp, SwapOp, PushesAnon
  <1>4. op \in SwapOp => op \notin PushOp /\ op \notin DupOp /\ ~PushesAnon(op)
    BY DEF PushOp, DupOp, SwapOp, PushesAnon
  <1>5. QED
    BY <1>1, <1>2, <1>3, <1>4 DEF Moved

\* An opcode pops what the EVM takes, and pushes a nameless label if it gives.
LEMMA OpcodeMoves ==
    ASSUME NEW L, None \in L, NEW s \in Seq(L), NEW op \in Opcodes, NEW at, Takes(op) <= Len(s)
    PROVE  LET below == Len(s) - Takes(op)
               moved == Moved(s, op, at)
           IN  /\ moved \in Seq(L) /\ Len(moved) = below + Gives(op)
               /\ \A k \in 1..below : moved[k] = s[k]
               /\ Gives(op) = 1 => moved[below + 1] = None
  <1> DEFINE below == Len(s) - Takes(op)
             popped == PopN(s, Takes(op))
             moved == Moved(s, op, at)
  <1>1. /\ Popped(op) = Takes(op) /\ Takes(op) \in Nat
        /\ Gives(op) = IF PushesAnon(op) THEN 1 ELSE 0
        /\ op \notin PushOp /\ op \notin DupOp /\ op \notin SwapOp
    BY OpcodeTable
  <1>2. moved = IF PushesAnon(op) THEN Append(popped, None) ELSE popped
    BY <1>1 DEF Moved
  <1>3. /\ popped \in Seq(L) /\ Len(popped) = below
        /\ \A k \in 1..below : popped[k] = s[k]
    BY <1>1, PopElements
  <1>4. below \in Nat
    BY <1>1
  <1> HIDE DEF moved, popped, below
  <1>5. CASE PushesAnon(op)
    <2>1. /\ moved \in Seq(L) /\ Len(moved) = Len(popped) + 1 /\ moved[Len(popped) + 1] = None
          /\ \A k \in 1..Len(popped) : moved[k] = popped[k]
      BY <1>2, <1>3, <1>5, PushElements
    <2>2. QED
      BY <1>1, <1>3, <1>5, <2>1 DEF moved, below
  <1>6. CASE ~PushesAnon(op)
    BY <1>1, <1>2, <1>3, <1>4, <1>6 DEF moved, below
  <1>7. QED
    BY <1>5, <1>6

\* Swapping keeps the number of labels.
LEMMA SwapElements ==
    ASSUME NEW L, NEW s \in Seq(L), NEW n \in Nat \ {0}
    PROVE  /\ Swapped(s, n) \in Seq(L) /\ Len(Swapped(s, n)) = Len(s)
           /\ n < Len(s) =>
                 /\ Swapped(s, n)[Len(s)] = s[Len(s) - n]
                 /\ Swapped(s, n)[Len(s) - n] = s[Len(s)]
                 /\ \A k \in 1..Len(s) : k # Len(s) /\ k # Len(s) - n => Swapped(s, n)[k] = s[k]
  <1>1. CASE n < Len(s)
    <2> DEFINE t == [s EXCEPT ![Len(s)] = s[Len(s) - n], ![Len(s) - n] = s[Len(s)]]
    <2>1. Len(s) \in 1..Len(s) /\ Len(s) - n \in 1..Len(s) /\ Len(s) # Len(s) - n
      BY <1>1
    <2>2. s \in [1..Len(s) -> L]
      OBVIOUS
    <2>3. t \in [1..Len(s) -> L]
      BY <2>1, <2>2
    <2>4. /\ t[Len(s)] = s[Len(s) - n] /\ t[Len(s) - n] = s[Len(s)]
          /\ \A k \in 1..Len(s) : k # Len(s) /\ k # Len(s) - n => t[k] = s[k]
      BY <2>1, <2>2
    <2>5. Swapped(s, n) = t
      BY <1>1 DEF Swapped
    <2> HIDE DEF t
    <2>6. t \in Seq(L) /\ Len(t) = Len(s)
      BY <2>3
    <2>7. QED
      BY <2>4, <2>5, <2>6
  <1>2. CASE ~(n < Len(s))
    BY <1>2 DEF Swapped
  <1>3. QED
    BY <1>1, <1>2

\* A recovered label is one of a variable, at the top.
LEMMA RecoveredElements ==
    ASSUME NEW L, NEW s \in Seq(L), NEW at, at.stmt \in L
    PROVE  /\ Recovered(s, at) \in Seq(L) /\ Len(Recovered(s, at)) = Len(s)
           /\ \A k \in 1..(Len(s) - 1) : Recovered(s, at)[k] = s[k]
  <1>1. CASE s # << >>
    <2> DEFINE t == [s EXCEPT ![Len(s)] = at.stmt]
    <2>1. Len(s) \in 1..Len(s) /\ s \in [1..Len(s) -> L]
      BY <1>1
    <2>2. t \in [1..Len(s) -> L]
      BY <2>1
    <2>3. ASSUME NEW k \in 1..(Len(s) - 1) PROVE t[k] = s[k]
      <3>1. k \in 1..Len(s) /\ k # Len(s)
        <4> DEFINE n == Len(s)
        <4>1. n \in Nat
          OBVIOUS
        <4> HIDE DEF n
        <4>2. \A j \in 1..(n - 1) : j \in 1..n /\ j # n
          BY <4>1
        <4>3. QED
          BY <4>2 DEF n
      <3>2. QED
        BY <2>1, <3>1
    <2>4. Recovered(s, at) \in {s, t}
      BY DEF Recovered
    <2> HIDE DEF t
    <2>5. t \in Seq(L) /\ Len(t) = Len(s)
      BY <2>2
    <2>6. QED
      BY <2>3, <2>4, <2>5
  <1>2. CASE s = << >>
    BY <1>2 DEF Recovered
  <1>3. QED
    BY <1>1, <1>2

\* Whatever the opcode, the labels stay labels.
LEMMA StepKeepsType ==
    ASSUME NEW L, None \in L, NEW s \in Seq(L), NEW op \in Nat,
           NEW at, at.decl \in L, at.stmt \in L
    PROVE  ProcessStep(s, op, at) \in Seq(L)
  <1> DEFINE moved == Moved(s, op, at)
  <1>1. ASSUME op \in PushOp PROVE moved \in Seq(L)
    <2>1. LabelForPush(at) \in L
      BY DEF LabelForPush
    <2>2. moved = Append(s, LabelForPush(at))
      BY <1>1, StepIsMove
    <2>3. QED
      BY <2>1, <2>2, PushElements
  <1>2. ASSUME op \in DupOp PROVE moved \in Seq(L)
    <2>1. op - 127 \in Nat
      BY <1>2 DEF DupOp
    <2>2. PeekFromTop(s, op - 127) \in L
      BY <2>1 DEF PeekFromTop
    <2>3. moved = Append(s, PeekFromTop(s, op - 127))
      BY <1>2, StepIsMove
    <2>4. QED
      BY <2>2, <2>3, PushElements
  <1>3. ASSUME op \in SwapOp PROVE moved \in Seq(L)
    <2>1. op - 143 \in Nat \ {0}
      BY <1>3 DEF SwapOp
    <2>2. moved = Swapped(s, op - 143)
      BY <1>3, StepIsMove
    <2>3. QED
      BY <2>1, <2>2, SwapElements
  <1>4. ASSUME op \notin PushOp /\ op \notin DupOp /\ op \notin SwapOp
        PROVE  moved \in Seq(L)
    <2>1. Popped(op) \in Nat
      BY DEF Popped
    <2> DEFINE popped == PopN(s, Popped(op))
    <2>2. popped \in Seq(L)
      BY <2>1, PopElements
    <2>3. moved = IF PushesAnon(op) THEN Append(popped, None) ELSE popped
      BY <1>4 DEF Moved
    <2> HIDE DEF popped, moved
    <2>4. moved \in Seq(L)
      BY <2>2, <2>3, PushElements
    <2>5. QED
      BY <2>4 DEF moved
  <1>5. moved \in Seq(L)
    BY <1>1, <1>2, <1>3, <1>4
  <1> HIDE DEF moved
  <1>6. Recovered(moved, at) \in Seq(L)
    BY <1>5, RecoveredElements
  <1>7. QED
    BY <1>6, StepIsMove DEF moved

\* On a stack of any height, process_step moves as many labels as each opcode of
\* the EVM moves values (process_step at stack_tracker.rs:101).
THEOREM OpcodesMirror == Spec => []EveryOpcodeMirrors
  <1>1. EveryOpcodeMirrors
    <2> SUFFICES ASSUME NEW op \in Opcodes \cup PushOp \cup DupOp \cup SwapOp, NEW height \in 0..17
                 PROVE  LET labels == [k \in 1..height |-> None]
                            given == Len(ProcessStep(labels, op, Nowhere))
                        IN  CASE op \in PushOp -> given = height + 1
                              [] op \in DupOp -> height >= op - 127 => given = height + 1
                              [] op \in SwapOp -> given = height
                              [] OTHER -> height >= Takes(op) =>
                                             given = height - Takes(op) + Gives(op)
      BY DEF EveryOpcodeMirrors
    <2> DEFINE labels == [k \in 1..height |-> None]
               L == {None}
               given == Len(ProcessStep(labels, op, Nowhere))
               moved == Moved(labels, op, Nowhere)
    <2>1. labels \in Seq(L) /\ Len(labels) = height /\ None \in L
      OBVIOUS
    <2> HIDE DEF labels, L
    <2>2. op \in Nat
      BY DEF Opcodes, PushOp, DupOp, SwapOp
    <2>3. given = Len(moved)
      <3>1. Nowhere.stmt = None
        BY DEF Nowhere
      <3>2. ProcessStep(labels, op, Nowhere) = Recovered(moved, Nowhere)
        BY <2>2, StepIsMove
      <3> HIDE DEF moved
      <3>3. Recovered(moved, Nowhere) = moved
        BY <3>1, NothingRecovered
      <3>4. QED
        BY <3>2, <3>3
    <2> HIDE DEF given, moved
    <2>4. ASSUME op \in PushOp \/ op \in DupOp PROVE Len(moved) = height + 1
      BY <2>1, <2>2, <2>4, StepIsMove DEF moved
    <2>5. ASSUME op \in SwapOp PROVE Len(moved) = height
      <3>1. op - 143 \in Nat \ {0}
        BY <2>5 DEF SwapOp
      <3>2. QED
        BY <2>1, <2>2, <2>5, <3>1, StepIsMove, SwapElements DEF moved
    <2>6. ASSUME op \in Opcodes, height >= Takes(op)
          PROVE  Len(moved) = height - Takes(op) + Gives(op)
      <3>1. Takes(op) <= Len(labels)
        BY <2>1, <2>6, OpcodeTable
      <3>2. QED
        BY <2>1, <2>6, <3>1, OpcodeMoves DEF moved
    <2>7. QED
      BY <2>3, <2>4, <2>5, <2>6 DEF given, labels
  <1>2. QED
    BY <1>1, PTL

-----------------------------------------------------------------------------
(* Expressions. *)

\* The statement an instruction of an expression belongs to.
LEMMA CurrentRuns ==
    ASSUME IInv, NEW s \in Current
    PROVE  /\ s \in StatementRecord /\ s.kind \in {"declare", "assign", "eval"}
           /\ RunningOK(home, settled, s, LowOf(Len(callers))) /\ Top >= s.base
           /\ synced => /\ s.kind = "declare" => slots[s.base] = s.var /\ FreeBelow(s.var, s.base)
                        /\ \A v \in Names : home[v] = 0 => \A k \in 1..Len(slots) : slots[k] # v
  <1>1. Top \in Nat
    BY DEF IInv, Types, Top
  <1>2. CASE stmt # None
    <2>1. s = stmt /\ stmt \in StatementRecord /\ stmt.kind \notin {"drop", "return"}
      BY <1>2 DEF Current, IInv, Types
    <2>2. s.kind \in {"declare", "assign", "eval"} /\ Running
      BY <1>2, <2>1 DEF StatementRecord, Kind, Running
    <2>3. QED
      BY <2>1, <2>2 DEF IInv, FunctionOK, LabelsOK
  <1>3. CASE stmt = None
    <2>1. ~Running
      BY <1>3 DEF Running
    <2>2. Top >= LowOf(Len(callers)) /\ \A v \in Names : home[v] <= Top
      BY <2>1 DEF IInv, FunctionOK
    <2>3. s = Statement("eval", None, Top) \/ \E v \in settled : s = Statement("assign", v, Top)
      BY <1>3 DEF Current
    <2>4. /\ s.base = Top /\ s \in StatementRecord /\ s.kind \in {"assign", "eval"}
          /\ s.kind = "assign" => s.var \in settled
      BY <1>1, <2>3 DEF Statement, StatementRecord, Kind, Label, IInv, Types
    <2>5. RunningOK(home, settled, s, LowOf(Len(callers)))
      BY <2>2, <2>4 DEF RunningOK
    <2>6. synced => \A v \in Names : home[v] = 0 => \A k \in 1..Len(slots) : slots[k] # v
      BY <1>3 DEF IInv, LabelsOK
    <2>7. QED
      BY <1>1, <2>4, <2>5, <2>6
  <1>4. QED
    BY <1>2, <1>3

\* An instruction of an expression leaves the slots of the variables, and adds at
\* most one: nameless, with the label of the variable being declared, or a copy.
LEMMA ExpressionKeeps ==
    ASSUME IInv, NEW s \in Current, stmt' = s,
           UNCHANGED << home, settled, assigned, callers, synced >>,
           NEW m \in Nat, s.base <= m, m <= Top,
           stack' \in Seq(Vals), slots' \in Seq(Label), Len(stack') \in m..(m + 1),
           \A k \in 1..m : stack'[k] = stack[k],
           synced => /\ Len(slots') = Len(stack')
                     /\ \A k \in 1..m : slots'[k] = slots[k]
                     /\ Len(slots') = m + 1 =>
                           \/ slots'[m + 1] = None
                           \/ s.kind = "declare" /\ slots'[m + 1] = s.var
                           \/ \E j \in 1..m : slots'[m + 1] = slots[j] /\ stack'[m + 1] = stack[j]
    PROVE  IInv'
  <1> DEFINE low == LowOf(Len(callers))
  <1>1. /\ s \in StatementRecord /\ s.kind \in {"declare", "assign", "eval"}
        /\ RunningOK(home, settled, s, low) /\ Top >= s.base
        /\ synced => /\ s.kind = "declare" => slots[s.base] = s.var /\ FreeBelow(s.var, s.base)
                     /\ \A v \in Names : home[v] = 0 => \A k \in 1..Len(slots) : slots[k] # v
    BY CurrentRuns
  <1>2. Types'
    BY <1>1 DEF IInv, Types
  <1>3. CallersOK'
    BY DEF IInv, CallersOK, LowOf
  <1>4. s # None
    BY <1>1, StatementAssumption DEF StatementRecord, Kind, Label
  <1>5. s.base \in Nat /\ Len(stack') \in Nat /\ home \in [Names -> Nat] /\ settled \in SUBSET Names
        /\ Len(stack) \in Nat /\ Top = Len(stack)
    BY <1>1 DEF StatementRecord, IInv, Types, Top
  <1>6. FunctionOK'
    <2>1. low' = low
      BY DEF LowOf
    <2>2. Running' /\ stmt'.kind # "drop"
      BY <1>1, <1>4 DEF Running
    <2>3. Top' >= s.base
      BY <1>5 DEF Top
    <2>4. PlacesOK(home, settled, assigned, low)
      BY DEF IInv, FunctionOK
    <2> HIDE DEF low
    <2>5. PlacesOK(home', settled', assigned', low') /\ RunningOK(home', settled', stmt', low')
      BY <1>1, <2>1, <2>4
    <2>6. QED
      BY <2>2, <2>3, <2>5 DEF FunctionOK, low
  <1>7. ASSUME synced PROVE LabelsOK'
    <2>1. LabelsOK
      BY <1>7 DEF IInv
    <2>2. /\ Len(slots') = Len(stack') /\ \A k \in 1..m : slots'[k] = slots[k]
          /\ Len(slots) = Len(stack)
      BY <1>7, <2>1 DEF LabelsOK
    <2>3. \A v \in Names : home[v] <= s.base
      BY <1>1 DEF RunningOK
    <2>4. ASSUME NEW k \in 1..Len(slots')
          PROVE  \/ k \in 1..m /\ slots'[k] = slots[k] /\ stack'[k] = stack[k]
                 \/ slots'[k] = None
                 \/ s.kind = "declare" /\ slots'[k] = s.var /\ k = m + 1
                 \/ \E j \in 1..m : slots'[k] = slots[j] /\ stack'[k] = stack[j]
      <3>1. CASE k <= m
        BY <2>2, <3>1
      <3>2. CASE k > m
        <4>1. k = m + 1 /\ Len(slots') = m + 1
          BY <1>5, <2>2, <3>2
        <4>2. QED
          BY <1>7, <4>1
      <3>3. QED
        BY <1>5, <3>1, <3>2
    <2>5. s.kind = "declare" => s.var \in Names \ settled /\ home[s.var] = s.base /\ s.base > 0
      BY <1>1 DEF RunningOK
    <2>6. ASSUME NEW v \in settled \ assigned
          PROVE  /\ slots'[home[v]] = v
                 /\ \A k \in 1..Len(slots') : slots'[k] = v => stack'[k] = stack'[home[v]]
      <3>1. v \in Names /\ v # None /\ home[v] \in 1..m
        BY <1>5, <2>3, NamesAssumption DEF IInv, FunctionOK, PlacesOK
      <3>2. /\ slots[home[v]] = v
            /\ \A k \in 1..Len(slots) : slots[k] = v => stack[k] = stack[home[v]]
        BY <2>1 DEF LabelsOK
      <3>3. slots'[home[v]] = v /\ stack'[home[v]] = stack[home[v]]
        BY <2>2, <3>1, <3>2
      <3>4. ASSUME NEW k \in 1..Len(slots'), slots'[k] = v PROVE stack'[k] = stack[home[v]]
        <4>1. \E j \in 1..m : slots'[k] = slots[j] /\ stack'[k] = stack[j]
          BY <2>4, <2>5, <3>1, <3>4
        <4>2. 1..m \subseteq 1..Len(slots)
          BY <1>5, <2>2
        <4>3. QED
          BY <3>2, <3>4, <4>1, <4>2
      <3>5. QED
        BY <3>3, <3>4
    <2>7. ASSUME NEW v \in Names, home[v] = 0, NEW k \in 1..Len(slots') PROVE slots'[k] # v
      <3>1. 1..m \subseteq 1..Len(slots)
        BY <1>5, <2>2
      <3>2. \A j \in 1..m : slots[j] # v
        BY <1>1, <1>7, <2>7, <3>1
      <3>3. v # None /\ (s.kind = "declare" => s.var # v)
        BY <2>5, <2>7, NamesAssumption
      <3>4. QED
        BY <2>4, <3>2, <3>3
    <2>8. ASSUME s.kind = "declare"
          PROVE  slots'[s.base] = s.var /\ \A k \in 1..Len(slots') : k < s.base => slots'[k] # s.var
      <3>1. slots[s.base] = s.var /\ \A k \in 1..Len(slots) : k < s.base => slots[k] # s.var
        BY <1>1, <1>7, <2>8 DEF FreeBelow
      <3>2. s.base \in 1..m
        BY <1>5, <2>5, <2>8
      <3>3. \A k \in 1..Len(slots') : k < s.base => k \in 1..m /\ k \in 1..Len(slots)
        BY <1>5, <2>2
      <3>4. QED
        BY <2>2, <3>1, <3>2, <3>3
    <2>9. (Len(slots) = Len(stack))'
      BY <2>2
    <2>10. (Running /\ stmt.kind = "declare" =>
                slots[stmt.base] = stmt.var /\ FreeBelow(stmt.var, stmt.base))'
      BY <2>8 DEF FreeBelow
    <2>11. ~(stmt.kind = "drop")'
      BY <1>1
    <2>12. QED
      BY <2>6, <2>7, <2>9, <2>10, <2>11 DEF LabelsOK
  <1>8. QED
    BY <1>2, <1>3, <1>6, <1>7 DEF IInv

\* A declaration does not lose its label while its value is computed.
LEMMA ExpressionRecoversNothing ==
    ASSUME IInv, synced, NEW s \in Current, NEW moved \in Seq(Label), Len(moved) >= s.base,
           \A k \in 1..s.base : moved[k] = slots[k]
    PROVE  Recovered(moved, At(s)) = moved
  <1>1. /\ s \in StatementRecord /\ RunningOK(home, settled, s, LowOf(Len(callers)))
        /\ s.kind = "declare" => slots[s.base] = s.var
    BY CurrentRuns
  <1>2. CASE s.kind = "declare"
    <2>1. s.base \in 1..Len(moved) /\ s.base \in 1..s.base
      BY <1>1, <1>2 DEF RunningOK, StatementRecord
    <2>2. moved[s.base] = s.var /\ At(s).stmt = s.var
      BY <1>1, <1>2, <2>1 DEF At
    <2>3. HasLabel(moved, At(s).stmt)
      BY <2>1, <2>2 DEF HasLabel
    <2>4. QED
      BY <2>3, NothingRecovered
  <1>3. CASE s.kind # "declare"
    <2>1. At(s).stmt = None
      BY <1>3 DEF At
    <2>2. QED
      BY <2>1, NothingRecovered
  <1>4. QED
    BY <1>2, <1>3

\* The labels stay labels, wherever a statement is.
LEMMA AtIsLabel ==
    ASSUME IInv, NEW s \in Current, NEW op \in Nat
    PROVE  /\ ProcessStep(slots, op, At(s)) \in Seq(Label)
           /\ At(s).decl = None /\ At(s).stmt = IF s.kind = "declare" THEN s.var ELSE None
  <1>1. s.var \in Label /\ None \in Label
    BY CurrentRuns DEF StatementRecord, Label
  <1>2. At(s).decl = None /\ At(s).stmt = IF s.kind = "declare" THEN s.var ELSE None
    BY DEF At
  <1>3. At(s).decl \in Label /\ At(s).stmt \in Label
    BY <1>1, <1>2
  <1>4. slots \in Seq(Label)
    BY DEF IInv, Types
  <1>5. QED
    BY <1>1, <1>2, <1>3, <1>4, StepKeepsType

\* A constant is pushed for an expression.
LEMMA LiteralKeeps == ASSUME IInv, Literal PROVE IInv'
  <1>1. PICK s \in Current, v \in Vals :
            /\ stack' = Append(stack, v) /\ slots' = ProcessStep(slots, 96, At(s)) /\ stmt' = s
            /\ UNCHANGED << home, settled, assigned, callers, synced >>
    BY DEF Literal
  <1>2. /\ stack \in Seq(Vals) /\ slots \in Seq(Label) /\ Top = Len(stack) /\ Top \in Nat
        /\ s.base <= Top /\ s.base \in Nat /\ s.var \in Label
    BY CurrentRuns DEF IInv, Types, Top, StatementRecord
  <1>3. /\ stack' \in Seq(Vals) /\ Len(stack') = Top + 1
        /\ \A k \in 1..Top : stack'[k] = stack[k]
    BY <1>1, <1>2
  <1>4. slots' \in Seq(Label)
    BY <1>1, AtIsLabel
  <1>5. ASSUME synced
        PROVE  /\ Len(slots') = Top + 1 /\ \A k \in 1..Top : slots'[k] = slots[k]
               /\ slots'[Top + 1] = None \/ (s.kind = "declare" /\ slots'[Top + 1] = s.var)
    <2> DEFINE x == LabelForPush(At(s))
               moved == Append(slots, x)
    <2>1. Len(slots) = Top
      BY <1>2, <1>5 DEF IInv, LabelsOK
    <2>2. At(s).decl = None /\ At(s).stmt = IF s.kind = "declare" THEN s.var ELSE None
      BY AtIsLabel
    <2>3. x = (IF s.kind = "declare" THEN s.var ELSE None) /\ x \in Label
      BY <1>2, <2>2 DEF LabelForPush, Label
    <2> HIDE DEF x
    <2>4. /\ moved \in Seq(Label) /\ Len(moved) = Top + 1 /\ moved[Top + 1] = x
          /\ \A k \in 1..Top : moved[k] = slots[k]
      BY <1>2, <2>1, <2>3, PushElements
    <2> HIDE DEF moved
    <2>5. 96 \in Nat /\ 96 \in PushOp
      BY DEF PushOp
    <2>6. slots' = Recovered(moved, At(s))
      <3>1. /\ ProcessStep(slots, 96, At(s)) = Recovered(Moved(slots, 96, At(s)), At(s))
            /\ Moved(slots, 96, At(s)) = Append(slots, LabelForPush(At(s)))
        BY <2>5, StepIsMove
      <3>2. QED
        BY <1>1, <3>1 DEF moved, x
    <2>7. slots' = moved
      <3>1. Len(moved) >= s.base /\ \A k \in 1..s.base : moved[k] = slots[k]
        BY <1>2, <2>4
      <3>2. QED
        BY <1>5, <2>4, <2>6, <3>1, ExpressionRecoversNothing
    <2>8. QED
      BY <2>3, <2>4, <2>7
  <1>6. Len(stack') \in Top..(Top + 1)
    BY <1>2, <1>3
  <1>7. synced => /\ Len(slots') = Len(stack') /\ \A k \in 1..Top : slots'[k] = slots[k]
                  /\ Len(slots') = Top + 1 =>
                        \/ slots'[Top + 1] = None
                        \/ s.kind = "declare" /\ slots'[Top + 1] = s.var
                        \/ \E j \in 1..Top : slots'[Top + 1] = slots[j] /\ stack'[Top + 1] = stack[j]
    BY <1>3, <1>5
  <1>8. QED
    BY <1>1, <1>2, <1>3, <1>4, <1>6, <1>7, ExpressionKeeps

\* A variable is copied from its place.
LEMMA ReadKeeps == ASSUME IInv, Read PROVE IInv'
  <1>1. PICK s \in Current, v \in settled :
            /\ Top - home[v] < 16
            /\ stack' = Append(stack, stack[home[v]])
            /\ slots' = ProcessStep(slots, Dup(Top - home[v] + 1), At(s)) /\ stmt' = s
            /\ UNCHANGED << home, settled, assigned, callers, synced >>
    BY DEF Read
  <1>2. /\ stack \in Seq(Vals) /\ slots \in Seq(Label) /\ Top = Len(stack) /\ Top \in Nat
        /\ s.base <= Top /\ s.base \in Nat /\ s.var \in Label
    BY CurrentRuns DEF IInv, Types, Top, StatementRecord
  <1>3. v \in Names /\ home[v] \in 1..s.base
    BY <1>2, CurrentRuns DEF IInv, Types, FunctionOK, PlacesOK, RunningOK
  <1>4. /\ stack' \in Seq(Vals) /\ Len(stack') = Top + 1 /\ stack'[Top + 1] = stack[home[v]]
        /\ \A k \in 1..Top : stack'[k] = stack[k]
    <2>1. stack[home[v]] \in Vals
      BY <1>2, <1>3
    <2>2. QED
      BY <1>1, <1>2, <2>1, PushElements
  <1> DEFINE n == Top - home[v] + 1
             op == Dup(n)
  <1>5. n \in 1..16 /\ op = 127 + n
    <2>1. home[v] \in Nat /\ home[v] <= Top
      BY <1>2, <1>3
    <2>2. \A t, h \in Nat : h <= t /\ t - h < 16 => t - h + 1 \in 1..16
      OBVIOUS
    <2>3. n \in 1..16
      BY <1>1, <1>2, <2>1, <2>2
    <2>4. QED
      BY <2>3 DEF Dup
  <1>6. op \in Nat /\ op \in DupOp /\ op - 127 = n
    BY <1>5 DEF DupOp
  <1>7. slots' \in Seq(Label)
    BY <1>1, <1>6, AtIsLabel
  <1>8. ASSUME synced
        PROVE  /\ Len(slots') = Top + 1 /\ \A k \in 1..Top : slots'[k] = slots[k]
               /\ slots'[Top + 1] = slots[home[v]]
    <2> DEFINE moved == Append(slots, slots[home[v]])
    <2>1. Len(slots) = Top
      BY <1>2, <1>8 DEF IInv, LabelsOK
    <2>2. slots[home[v]] \in Label
      BY <1>2, <1>3, <2>1
    <2>3. /\ moved \in Seq(Label) /\ Len(moved) = Top + 1 /\ moved[Top + 1] = slots[home[v]]
          /\ \A k \in 1..Top : moved[k] = slots[k]
      BY <1>2, <2>1, <2>2, PushElements
    <2>4. PeekFromTop(slots, n) = slots[home[v]]
      <3>1. n # 0 /\ ~(n > Len(slots)) /\ Len(slots) - n + 1 = home[v]
        BY <1>2, <1>3, <1>5, <2>1, SMTT(30)
      <3>2. QED
        BY <3>1 DEF PeekFromTop
    <2> HIDE DEF n, op
    <2> HIDE DEF moved
    <2>5. slots' = Recovered(moved, At(s))
      <3>1. /\ ProcessStep(slots, op, At(s)) = Recovered(Moved(slots, op, At(s)), At(s))
            /\ Moved(slots, op, At(s)) = Append(slots, PeekFromTop(slots, op - 127))
        BY <1>6, StepIsMove
      <3>2. slots' = ProcessStep(slots, op, At(s))
        BY <1>1 DEF op, n
      <3>3. QED
        BY <1>6, <2>4, <3>1, <3>2 DEF moved
    <2>6. slots' = moved
      <3>1. Len(moved) >= s.base /\ \A k \in 1..s.base : moved[k] = slots[k]
        BY <1>2, <2>3
      <3>2. QED
        BY <1>8, <2>3, <2>5, <3>1, ExpressionRecoversNothing
    <2>7. QED
      BY <2>3, <2>6
  <1>9. Len(stack') \in Top..(Top + 1)
    BY <1>2, <1>4
  <1>10. synced => /\ Len(slots') = Len(stack') /\ \A k \in 1..Top : slots'[k] = slots[k]
                   /\ Len(slots') = Top + 1 =>
                         \/ slots'[Top + 1] = None
                         \/ s.kind = "declare" /\ slots'[Top + 1] = s.var
                         \/ \E j \in 1..Top : slots'[Top + 1] = slots[j] /\ stack'[Top + 1] = stack[j]
    <2>1. home[v] \in 1..Top
      BY <1>2, <1>3
    <2>2. QED
      BY <1>4, <1>8, <2>1
  <1> HIDE DEF n, op
  <1>11. /\ stmt' = s /\ UNCHANGED << home, settled, assigned, callers, synced >>
         /\ stack' \in Seq(Vals) /\ \A k \in 1..Top : stack'[k] = stack[k]
    BY <1>1, <1>4
  <1>12. QED
    BY <1>2, <1>7, <1>9, <1>10, <1>11, ExpressionKeeps

\* Putting sequences together leaves the first.
LEMMA JoinElements ==
    ASSUME NEW L, NEW s \in Seq(L), NEW t \in Seq(L)
    PROVE  /\ s \o t \in Seq(L) /\ Len(s \o t) = Len(s) + Len(t)
           /\ \A k \in 1..Len(s) : (s \o t)[k] = s[k]
  OBVIOUS

\* What the EVM leaves on the stack after an opcode.
LEMMA AfterElements ==
    ASSUME stack \in Seq(Vals), NEW op \in Opcodes, Takes(op) <= Top, NEW rs \in Results(op)
    PROVE  LET m == Top - Takes(op) IN
           /\ m \in Nat /\ After(op, rs) \in Seq(Vals) /\ Len(After(op, rs)) = m + Gives(op)
           /\ \A k \in 1..m : After(op, rs)[k] = stack[k]
  <1> DEFINE m == Top - Takes(op)
             below == SubSeq(stack, 1, m)
  <1>1. Takes(op) \in Nat /\ Gives(op) \in {0, 1}
    BY OpcodeTable
  <1>2. m \in Nat /\ m <= Len(stack) /\ Top = Len(stack)
    BY <1>1 DEF Top
  <1>3. After(op, rs) = below \o rs
    BY DEF After
  <1> HIDE DEF m
  <1>4. below \in Seq(Vals) /\ Len(below) = m /\ \A k \in 1..m : below[k] = stack[k]
    BY <1>2
  <1>5. rs \in Seq(Vals) /\ Len(rs) = Gives(op)
    <2>1. CASE Gives(op) = 1
      <3>1. PICK v \in Vals : rs = << v >>
        BY <2>1 DEF Results
      <3>2. QED
        BY <2>1, <3>1
    <2>2. CASE Gives(op) # 1
      <3>1. rs = << >>
        BY <2>2 DEF Results
      <3>2. << >> \in Seq(Vals)
        OBVIOUS
      <3>3. QED
        BY <1>1, <2>2, <3>1, <3>2
    <2>3. QED
      BY <2>1, <2>2
  <1> HIDE DEF below
  <1>6. /\ below \o rs \in Seq(Vals) /\ Len(below \o rs) = m + Gives(op)
        /\ \A k \in 1..m : (below \o rs)[k] = below[k]
    <2>1. /\ below \o rs \in Seq(Vals) /\ Len(below \o rs) = Len(below) + Len(rs)
          /\ \A k \in 1..Len(below) : (below \o rs)[k] = below[k]
      BY <1>4, <1>5, JoinElements
    <2>2. QED
      BY <1>4, <1>5, <2>1
  <1>7. QED
    BY <1>2, <1>3, <1>4, <1>6 DEF m

\* An opcode that recovers nothing moves as many labels as it moves values.
LEMMA ProcessedElements ==
    ASSUME slots \in Seq(Label), Len(slots) = Top, NEW op \in Opcodes, Takes(op) <= Top, NEW at,
           NEW m, m = Top - Takes(op),
           \A moved \in Seq(Label) :
               Len(moved) = m + Gives(op) /\ (\A k \in 1..m : moved[k] = slots[k])
                  => Recovered(moved, at) = moved
    PROVE  /\ Len(ProcessStep(slots, op, at)) = m + Gives(op)
           /\ \A k \in 1..m : ProcessStep(slots, op, at)[k] = slots[k]
           /\ Gives(op) = 1 => ProcessStep(slots, op, at)[m + 1] = None
  <1> DEFINE moved == Moved(slots, op, at)
  <1>1. None \in Label
    BY DEF Label
  <1>2. /\ moved \in Seq(Label) /\ Len(moved) = m + Gives(op)
        /\ \A k \in 1..m : moved[k] = slots[k]
        /\ Gives(op) = 1 => moved[m + 1] = None
    <2> DEFINE below == Len(slots) - Takes(op)
    <2>1. below = m
      OBVIOUS
    <2>2. /\ moved \in Seq(Label) /\ Len(moved) = below + Gives(op)
          /\ \A k \in 1..below : moved[k] = slots[k]
          /\ Gives(op) = 1 => moved[below + 1] = None
      <3>1. slots \in Seq(Label) /\ op \in Opcodes /\ Takes(op) <= Len(slots)
        OBVIOUS
      <3>2. QED
        BY ONLY <1>1, <3>1, OpcodeMoves
    <2> HIDE DEF below, moved
    <2>3. QED
      BY <2>1, <2>2
  <1>3. op \in Nat
    BY DEF Opcodes
  <1>4. ProcessStep(slots, op, at) = Recovered(moved, at)
    BY <1>3, StepIsMove
  <1> HIDE DEF moved
  <1>5. Recovered(moved, at) = moved
    BY <1>2
  <1>6. QED
    BY <1>2, <1>4, <1>5

\* Operands are replaced by a result.
LEMMA OperateKeeps == ASSUME IInv, Operate PROVE IInv'
  <1> PICK s \in Current, op \in Operators :
            \E rs \in Results(op) :
               /\ Takes(op) <= Top - s.base /\ stack' = After(op, rs)
               /\ slots' = ProcessStep(slots, op, At(s)) /\ stmt' = s
               /\ UNCHANGED << home, settled, assigned, callers, synced >>
    BY DEF Operate
  <1>1. PICK rs \in Results(op) :
            /\ Takes(op) <= Top - s.base /\ stack' = After(op, rs)
            /\ slots' = ProcessStep(slots, op, At(s)) /\ stmt' = s
            /\ UNCHANGED << home, settled, assigned, callers, synced >>
    OBVIOUS
  <1>2. op \in Opcodes /\ op \in Nat
    BY OperatorsAssumption DEF Opcodes
  <1>3. Takes(op) \in Nat /\ Gives(op) \in {0, 1}
    BY <1>2, OpcodeTable
  <1>4. /\ stack \in Seq(Vals) /\ slots \in Seq(Label) /\ Top = Len(stack) /\ Top \in Nat
        /\ s.base <= Top /\ s.base \in Nat
    BY CurrentRuns DEF IInv, Types, Top, StatementRecord
  <1> DEFINE m == Top - Takes(op)
  <1>5. m \in Nat /\ s.base <= m /\ m <= Top /\ Takes(op) <= Top
    BY <1>1, <1>3, <1>4
  <1>6. /\ stack' \in Seq(Vals) /\ Len(stack') = m + Gives(op)
        /\ \A k \in 1..m : stack'[k] = stack[k]
    BY <1>1, <1>2, <1>4, <1>5, AfterElements
  <1>7. slots' \in Seq(Label)
    BY <1>1, <1>2, AtIsLabel
  <1>8. ASSUME synced
        PROVE  /\ Len(slots') = m + Gives(op) /\ \A k \in 1..m : slots'[k] = slots[k]
               /\ Gives(op) = 1 => slots'[m + 1] = None
    <2>1. Len(slots) = Top
      BY <1>4, <1>8 DEF IInv, LabelsOK
    <2>2. ASSUME NEW moved \in Seq(Label), Len(moved) = m + Gives(op),
                 \A k \in 1..m : moved[k] = slots[k]
          PROVE  Recovered(moved, At(s)) = moved
      <3> HIDE DEF m
      <3>1. Len(moved) >= s.base /\ \A k \in 1..s.base : moved[k] = slots[k]
        BY <1>3, <1>4, <1>5, <2>2
      <3>2. QED
        BY <1>8, <3>1, ExpressionRecoversNothing
    <2>3. \A moved \in Seq(Label) :
              Len(moved) = m + Gives(op) /\ (\A k \in 1..m : moved[k] = slots[k])
                 => Recovered(moved, At(s)) = moved
      BY <2>2
    <2>4. /\ Len(ProcessStep(slots, op, At(s))) = m + Gives(op)
          /\ \A k \in 1..m : ProcessStep(slots, op, At(s))[k] = slots[k]
          /\ Gives(op) = 1 => ProcessStep(slots, op, At(s))[m + 1] = None
      BY <1>2, <1>4, <1>5, <2>1, <2>3, ProcessedElements
    <2>5. QED
      BY <1>1, <2>4
  <1> HIDE DEF m
  <1>9. Len(stack') \in m..(m + 1)
    BY <1>3, <1>5, <1>6
  <1>10. synced => /\ Len(slots') = Len(stack') /\ \A k \in 1..m : slots'[k] = slots[k]
                   /\ Len(slots') = m + 1 =>
                         \/ slots'[m + 1] = None
                         \/ s.kind = "declare" /\ slots'[m + 1] = s.var
                         \/ \E j \in 1..m : slots'[m + 1] = slots[j] /\ stack'[m + 1] = stack[j]
    <2>1. m + Gives(op) = m + 1 => Gives(op) = 1
      BY <1>3, <1>5
    <2>2. QED
      BY <1>6, <1>8, <2>1
  <1>11. /\ stmt' = s /\ UNCHANGED << home, settled, assigned, callers, synced >>
         /\ stack' \in Seq(Vals) /\ \A k \in 1..m : stack'[k] = stack[k]
    BY <1>1, <1>6
  <1>12. QED
    BY <1>5, <1>7, <1>9, <1>10, <1>11, ExpressionKeeps

-----------------------------------------------------------------------------
(* Statements. *)

\* Of several numbers there is a least one.
LEMMA LeastExists ==
    ASSUME NEW S \in SUBSET Nat, S # {}
    PROVE  \E n \in S : \A k \in S : n <= k
  <1>1. PICK x \in S : \A y \in S : ~(<<y, x>> \in OpToRel(<, Nat))
    BY NatLessThanWellFounded, WFMin
  <1>2. ASSUME NEW y \in S PROVE x <= y
    <2>1. x \in Nat /\ y \in Nat
      OBVIOUS
    <2>2. <<y, x>> \in Nat \X Nat /\ <<y, x>>[1] = y /\ <<y, x>>[2] = x
      BY <2>1
    <2>3. <<y, x>> \notin OpToRel(<, Nat)
      BY <1>1
    <2>4. ~(y < x)
      BY <2>2, <2>3 DEF OpToRel
    <2>5. QED
      BY <2>1, <2>4
  <1>3. QED
    BY <1>2

\* The next local variable has no place yet.
LEMMA NextLocalHasNoPlace ==
    ASSUME home \in [Names -> Nat], NextLocal # None
    PROVE  NextLocal \in Names /\ home[NextLocal] = 0
  <1> DEFINE free == {k \in 1..Len(Locals) : home[Locals[k]] = 0}
  <1>1. Len(Locals) \in Nat /\ \A k \in 1..Len(Locals) : Locals[k] \in Names
    BY VariablesAssumption
  <1>2. free # {} /\ free \in SUBSET Nat
    BY <1>1 DEF NextLocal
  <1>3. PICK n \in free : \A k \in free : n <= k
    BY <1>2, LeastExists
  <1>4. \A j \in 1..(n - 1) : home[Locals[j]] # 0
    <2>1. SUFFICES ASSUME NEW j \in 1..(n - 1), home[Locals[j]] = 0 PROVE FALSE
      OBVIOUS
    <2>2. n \in 1..Len(Locals)
      OBVIOUS
    <2>3. j \in 1..Len(Locals) /\ ~(n <= j)
      BY <1>1, <2>2
    <2>4. QED
      BY <1>3, <2>1, <2>3
  <1> DEFINE first == CHOOSE k \in 1..Len(Locals) : /\ home[Locals[k]] = 0
                                                    /\ \A j \in 1 .. k - 1 : home[Locals[j]] # 0
  <1>5. first \in 1..Len(Locals) /\ home[Locals[first]] = 0
    BY <1>3, <1>4
  <1>6. NextLocal = Locals[first]
    BY <1>2 DEF NextLocal
  <1> HIDE DEF first
  <1>7. QED
    BY <1>1, <1>5, <1>6

\* The bound below a function's variables is a height.
LEMMA LowIsNat ==
    ASSUME Types, CallersOK, NEW n \in 0..Len(callers)
    PROVE  LowOf(n) \in Nat
  <1>1. CASE n = 0
    BY <1>1 DEF LowOf
  <1>2. CASE n # 0
    <2>1. callers \in Seq(Caller) /\ n \in 1..Len(callers)
      BY <1>2 DEF Types
    <2>2. callers[n] \in Caller
      BY <2>1
    <2>3. callers[n].stmt \in StatementRecord
      BY <2>2 DEF Caller
    <2>4. callers[n].stmt.base \in Nat
      BY <2>3 DEF StatementRecord
    <2>5. QED
      BY <1>2, <2>4 DEF LowOf
  <1>3. QED
    BY <1>1, <1>2

\* A declared variable has its place and label, at the top.
LEMMA DeclareKeeps == ASSUME IInv, NEW initialised \in BOOLEAN, Declare(initialised) PROVE IInv'
  <1> DEFINE v == NextLocal
             low == LowOf(Len(callers))
             at == [decl |-> v, stmt |-> v]
  <1>1. /\ stmt = None /\ v # None
        /\ slots' = ProcessStep(slots, PUSH0, at)
        /\ home' = [home EXCEPT ![v] = Top + 1]
        /\ settled' = IF initialised THEN settled ELSE settled \cup {v}
        /\ stmt' = IF initialised THEN Statement("declare", v, Top + 1) ELSE None
        /\ assigned' = assigned /\ callers' = callers /\ synced' = synced
    BY DEF Declare
  <1>2. /\ stack \in Seq(Vals) /\ slots \in Seq(Label) /\ Top = Len(stack) /\ Top \in Nat
        /\ home \in [Names -> Nat] /\ settled \in SUBSET Names /\ assigned \in SUBSET Names
    BY DEF IInv, Types, Top
  <1>3. v \in Names /\ home[v] = 0 /\ v \in Label
    BY <1>1, <1>2, NextLocalHasNoPlace DEF Label
  <1> HIDE DEF v
  <1>4. /\ stack' \in Seq(Vals) /\ Len(stack') = Top + 1 /\ \A k \in 1..Top : stack'[k] = stack[k]
    <2>1. PICK zero \in Vals : stack' = Append(stack, zero)
      BY DEF Declare
    <2>2. QED
      BY <1>2, <2>1, PushElements
  <1>5. ~Running /\ PlacesOK(home, settled, assigned, low)
    BY <1>1 DEF Running, IInv, FunctionOK
  <1>6. Top >= low /\ \A w \in Names : home[w] <= Top
    BY <1>5 DEF IInv, FunctionOK
  <1>7. v \notin settled /\ v \notin assigned
    BY <1>2, <1>3, <1>5 DEF PlacesOK
  <1>8. /\ home' \in [Names -> Nat] /\ home'[v] = Top + 1
        /\ \A w \in Names : w # v => home'[w] = home[w]
    BY <1>1, <1>2, <1>3
  <1>9. /\ slots' \in Seq(Label)
        /\ synced => /\ Len(slots') = Top + 1 /\ slots'[Top + 1] = v
                     /\ \A k \in 1..Top : slots'[k] = slots[k]
    <2> DEFINE moved == Append(slots, v)
    <2>1. PUSH0 \in PushOp /\ PUSH0 \in Nat
      BY DEF PUSH0, PushOp
    <2>2. LabelForPush(at) = v /\ at.stmt = v /\ at.decl = v
      BY <1>1 DEF LabelForPush
    <2> HIDE DEF at
    <2>3. /\ moved \in Seq(Label) /\ Len(moved) = Len(slots) + 1 /\ moved[Len(slots) + 1] = v
          /\ \A k \in 1..Len(slots) : moved[k] = slots[k]
      BY <1>2, <1>3, PushElements
    <2> HIDE DEF moved
    <2>4. Len(slots) + 1 \in 1..Len(moved)
      BY <1>2, <2>3
    <2>5. HasLabel(moved, at.stmt)
      BY <2>2, <2>3, <2>4 DEF HasLabel
    <2>6. Recovered(moved, at) = moved
      BY <2>5, NothingRecovered
    <2>7. /\ ProcessStep(slots, PUSH0, at) = Recovered(Moved(slots, PUSH0, at), at)
          /\ Moved(slots, PUSH0, at) = Append(slots, LabelForPush(at))
      BY <2>1, StepIsMove
    <2>8. slots' = moved
      BY <1>1, <2>2, <2>6, <2>7 DEF moved
    <2>9. synced => Len(slots) = Top
      BY <1>2 DEF IInv, LabelsOK
    <2>10. QED
      BY <2>3, <2>8, <2>9
  <1>10. Types'
    <2>1. stmt' \in StatementRecord \cup {None}
      BY <1>1, <1>2, <1>3 DEF Statement, StatementRecord, Kind
    <2>2. settled' \in SUBSET Names
      BY <1>1, <1>2, <1>3
    <2>3. QED
      BY <1>1, <1>4, <1>8, <1>9, <2>1, <2>2 DEF IInv, Types
  <1>11. CallersOK'
    BY <1>1 DEF IInv, CallersOK, LowOf
  <1>12. PlacesOK(home', settled', assigned', low')
    <2>1. low' = low
      BY <1>1 DEF LowOf
    <2>2. low \in Nat
      BY LowIsNat DEF IInv
    <2> HIDE DEF low
    <2>3. assigned' \subseteq settled'
      BY <1>1, <1>5 DEF PlacesOK
    <2>4. \A w \in settled' : home'[w] > 0
      BY <1>1, <1>2, <1>5, <1>8 DEF PlacesOK
    <2>5. \A w \in Names : home'[w] > 0 => home'[w] > low
      BY <1>2, <1>5, <1>6, <1>8, <2>2, SMTT(30) DEF PlacesOK
    <2>6. \A w, u \in Names : home'[w] = home'[u] /\ home'[w] > 0 => w = u
      <3>1. ASSUME NEW w \in Names, w # v PROVE home'[w] # home'[v]
        BY <1>2, <1>6, <1>8, <3>1
      <3>2. QED
        BY <1>5, <1>8, <3>1 DEF PlacesOK
    <2>7. QED
      BY <2>1, <2>3, <2>4, <2>5, <2>6 DEF PlacesOK
  <1>13. low' = low /\ low \in Nat
    <2>1. low' = low
      BY <1>1 DEF LowOf
    <2>2. low \in Nat
      BY LowIsNat DEF IInv
    <2>3. QED
      BY <2>1, <2>2
  <1>14. Top' = Top + 1 /\ \A w \in Names : home'[w] <= Top + 1
    BY <1>2, <1>4, <1>6, <1>8 DEF Top
  <1> HIDE DEF low
  <1>15. CASE initialised
    <2>1. stmt' = Statement("declare", v, Top + 1) /\ settled' = settled
      BY <1>1, <1>15
    <2>2. stmt'.kind = "declare" /\ stmt'.var = v /\ stmt'.base = Top + 1
      BY <2>1 DEF Statement
    <2>3. Running' /\ stmt' # None
      <3>1. stmt' \in StatementRecord
        BY <1>2, <1>3, <2>1 DEF Statement, StatementRecord, Kind
      <3>2. QED
        BY <2>2, <3>1, StatementAssumption DEF Running, StatementRecord, Kind, Label
    <2>4. RunningOK(home', settled', stmt', low')
      BY <1>2, <1>3, <1>6, <1>7, <1>8, <1>13, <1>14, <2>1, <2>2 DEF RunningOK
    <2>5. FunctionOK'
      BY <1>2, <1>12, <1>14, <2>2, <2>3, <2>4 DEF FunctionOK, low
    <2>6. ASSUME synced PROVE LabelsOK'
      <3>1. Len(slots) = Top /\ Len(slots') = Top + 1 /\ slots'[Top + 1] = v
            /\ \A k \in 1..Top : slots'[k] = slots[k]
        BY <1>2, <1>9, <2>6 DEF IInv, LabelsOK
      <3>2. \A w \in Names : home[w] = 0 => \A k \in 1..Top : slots[k] # w
        BY <1>1, <2>6, <3>1 DEF IInv, LabelsOK
      <3>3. \A k \in 1..(Top + 1) : k \in 1..Top \/ k = Top + 1
        BY <1>2
      <3>4. ASSUME NEW w \in settled \ assigned
            PROVE  /\ slots'[home'[w]] = w
                   /\ \A k \in 1..(Top + 1) : slots'[k] = w => stack'[k] = stack'[home'[w]]
        <4>1. w \in Names /\ w # v /\ home'[w] = home[w] /\ home[w] \in 1..Top
          BY <1>2, <1>5, <1>6, <1>7, <1>8 DEF PlacesOK
        <4>2. slots[home[w]] = w /\ \A k \in 1..Top : slots[k] = w => stack[k] = stack[home[w]]
          BY <2>6, <3>1 DEF IInv, LabelsOK
        <4>3. QED
          BY <1>4, <3>1, <3>3, <4>1, <4>2
      <3>5. ASSUME NEW w \in Names, home'[w] = 0, NEW k \in 1..(Top + 1) PROVE slots'[k] # w
        <4>1. w # v /\ home[w] = 0
          BY <1>2, <1>8, <3>5
        <4>2. QED
          BY <3>1, <3>2, <3>3, <4>1
      <3>6. \A k \in 1..(Top + 1) : k < Top + 1 => slots'[k] # v
        BY <1>2, <1>3, <3>1, <3>2, <3>3
      <3>7. (FreeBelow(stmt.var, stmt.base))'
        BY <2>2, <3>1, <3>6 DEF FreeBelow
      <3>8. (Len(slots) = Len(stack))'
        BY <1>4, <3>1
      <3>9. QED
        BY <1>1, <2>1, <2>2, <3>1, <3>4, <3>5, <3>7, <3>8 DEF LabelsOK
    <2>7. QED
      BY <1>1, <1>10, <1>11, <2>5, <2>6 DEF IInv
  <1>16. CASE ~initialised
    <2>1. stmt' = None /\ settled' = settled \cup {v} /\ ~Running'
      BY <1>1, <1>16 DEF Running
    <2>2. FunctionOK'
      BY <1>2, <1>6, <1>12, <1>13, <1>14, <2>1 DEF FunctionOK, low
    <2>3. ASSUME synced PROVE LabelsOK'
      <3>1. Len(slots) = Top /\ Len(slots') = Top + 1 /\ slots'[Top + 1] = v
            /\ \A k \in 1..Top : slots'[k] = slots[k]
        BY <1>2, <1>9, <2>3 DEF IInv, LabelsOK
      <3>2. \A w \in Names : home[w] = 0 => \A k \in 1..Top : slots[k] # w
        BY <1>1, <2>3, <3>1 DEF IInv, LabelsOK
      <3>3. \A k \in 1..(Top + 1) : k \in 1..Top \/ k = Top + 1
        BY <1>2
      <3>4. ASSUME NEW w \in settled' \ assigned
            PROVE  /\ slots'[home'[w]] = w
                   /\ \A k \in 1..(Top + 1) : slots'[k] = w => stack'[k] = stack'[home'[w]]
        <4>1. CASE w # v
          <5>1. w \in settled \ assigned
            BY <2>1, <3>4, <4>1
          <5>2. w \in Names /\ home'[w] = home[w] /\ home[w] \in 1..Top
            BY <1>2, <1>5, <1>6, <1>8, <4>1, <5>1 DEF PlacesOK
          <5>3. slots[home[w]] = w /\ \A k \in 1..Top : slots[k] = w => stack[k] = stack[home[w]]
            BY <2>3, <3>1, <5>1 DEF IInv, LabelsOK
          <5>4. QED
            BY <1>4, <3>1, <3>3, <4>1, <5>2, <5>3
        <4>2. CASE w = v
          <5>1. \A k \in 1..Top : slots'[k] # v
            BY <1>3, <3>1, <3>2
          <5>2. QED
            BY <1>8, <3>1, <3>3, <4>2, <5>1
        <4>3. QED
          BY <4>1, <4>2
      <3>5. ASSUME NEW w \in Names, home'[w] = 0, NEW k \in 1..(Top + 1) PROVE slots'[k] # w
        <4>1. w # v /\ home[w] = 0
          BY <1>2, <1>8, <3>5
        <4>2. QED
          BY <3>1, <3>2, <3>3, <4>1
      <3>6. (Len(slots) = Len(stack))'
        BY <1>4, <3>1
      <3>7. QED
        BY <1>1, <2>1, <3>1, <3>4, <3>5, <3>6 DEF LabelsOK
    <2>4. QED
      BY <1>1, <1>10, <1>11, <2>2, <2>3 DEF IInv
  <1>17. QED
    BY <1>15, <1>16

\* What every statement of a running function knows of its own.
LEMMA RunningFacts ==
    ASSUME IInv, Running
    PROVE  /\ stmt \in StatementRecord /\ stmt # None
           /\ PlacesOK(home, settled, assigned, LowOf(Len(callers)))
           /\ RunningOK(home, settled, stmt, LowOf(Len(callers)))
           /\ stack \in Seq(Vals) /\ slots \in Seq(Label) /\ Top = Len(stack) /\ Top \in Nat
           /\ home \in [Names -> Nat] /\ settled \in SUBSET Names /\ assigned \in SUBSET Names
           /\ stmt.base \in Nat /\ stmt.base <= Top /\ stmt.kind \in Kind /\ stmt.var \in Label
           /\ synced => LabelsOK
  <1>1. stmt \in StatementRecord /\ stmt # None
    BY DEF IInv, Types, Running
  <1>2. /\ stack \in Seq(Vals) /\ slots \in Seq(Label) /\ Top = Len(stack) /\ Top \in Nat
        /\ home \in [Names -> Nat] /\ settled \in SUBSET Names /\ assigned \in SUBSET Names
    BY DEF IInv, Types, Top
  <1>3. stmt.base \in Nat /\ stmt.kind \in Kind /\ stmt.var \in Label
    BY <1>1 DEF StatementRecord
  <1>4. stmt.base <= Top
    BY <1>2, <1>3 DEF IInv, FunctionOK
  <1>5. QED
    BY <1>1, <1>2, <1>3, <1>4 DEF IInv, FunctionOK

\* The value goes to the place of its variable, the old one to the top.
LEMMA SwapInKeeps == ASSUME IInv, SwapIn PROVE IInv'
  <1> DEFINE h == home[stmt.var]
             n == Top - h
             low == LowOf(Len(callers))
  <1>1. /\ stmt # None /\ stmt.kind \in {"declare", "assign"} /\ Temps = 1 /\ n <= 16
        /\ stack' = [stack EXCEPT ![Top] = stack[Top - n], ![Top - n] = stack[Top]]
        /\ slots' = ProcessStep(slots, Swap(n), At(stmt))
        /\ stmt' = [stmt EXCEPT !.kind = "drop"]
        /\ assigned' = IF stmt.kind = "assign" THEN assigned \cup {stmt.var} ELSE assigned
        /\ UNCHANGED <<home, settled, callers, synced>>
    BY DEF SwapIn
  <1>2. Running
    BY <1>1 DEF Running
  <1>3. /\ stmt \in StatementRecord
        /\ PlacesOK(home, settled, assigned, low) /\ RunningOK(home, settled, stmt, low)
        /\ stack \in Seq(Vals) /\ slots \in Seq(Label) /\ Top = Len(stack) /\ Top \in Nat
        /\ home \in [Names -> Nat] /\ settled \in SUBSET Names /\ assigned \in SUBSET Names
        /\ stmt.base \in Nat /\ stmt.base <= Top /\ stmt.var \in Label
        /\ synced => LabelsOK
    BY <1>2, RunningFacts
  <1>4. Top = stmt.base + 1
    BY <1>1, <1>3 DEF Temps
  <1> HIDE DEF low
  <1>5. stmt.var \in Names /\ h \in 1..stmt.base /\ (stmt.kind = "declare" => h = stmt.base)
    BY <1>1, <1>3 DEF RunningOK, PlacesOK
  <1>6. n \in 1..16 /\ Top - n = h /\ h # Top /\ h \in 1..Top /\ Top \in 1..Top /\ h \in Nat
    <2>1. \A b, t, p \in Nat : p \in 1..b /\ t = b + 1 /\ t - p <= 16 =>
              /\ t - p \in 1..16 /\ t - (t - p) = p /\ p # t /\ p \in 1..t /\ t \in 1..t
      OBVIOUS
    <2>2. h \in Nat /\ n = Top - h /\ n <= 16 /\ h \in 1..stmt.base
      BY <1>1, <1>5
    <2> HIDE DEF h, n
    <2>3. /\ Top - h \in 1..16 /\ Top - (Top - h) = h /\ h # Top /\ h \in 1..Top
          /\ Top \in 1..Top
      BY <1>3, <1>4, <2>1, <2>2
    <2>4. QED
      BY <2>2, <2>3
  <1>7. Swap(n) \in SwapOp /\ Swap(n) \in Nat /\ Swap(n) - 143 = n
    BY <1>6 DEF Swap, SwapOp
  <1>8. stmt \in Current
    BY <1>1 DEF Current
  <1> HIDE DEF h, n
  <1>9. /\ stack' \in Seq(Vals) /\ Len(stack') = Top
        /\ stack'[Top] = stack[h] /\ stack'[h] = stack[Top]
        /\ \A k \in 1..Top : k # Top /\ k # h => stack'[k] = stack[k]
    <2> DEFINE t == [stack EXCEPT ![Top] = stack[h], ![h] = stack[Top]]
    <2>1. stack \in [1..Top -> Vals]
      BY <1>3
    <2>2. t \in [1..Top -> Vals]
      BY <1>6, <2>1
    <2>3. /\ t[Top] = stack[h] /\ t[h] = stack[Top]
          /\ \A k \in 1..Top : k # Top /\ k # h => t[k] = stack[k]
      BY <1>6, <2>1
    <2>4. stack' = t
      BY <1>1, <1>6
    <2> HIDE DEF t
    <2>5. t \in Seq(Vals) /\ Len(t) = Top
      BY <1>3, <2>2
    <2>6. QED
      BY <2>3, <2>4, <2>5
  <1>10. slots' \in Seq(Label)
    BY <1>1, <1>7, <1>8, AtIsLabel
  <1>11. ASSUME synced
         PROVE  /\ Len(slots') = Top /\ slots'[Top] = slots[h] /\ slots'[h] = slots[Top]
                /\ \A k \in 1..Top : k # Top /\ k # h => slots'[k] = slots[k]
    <2> DEFINE moved == Swapped(slots, n)
    <2>1. Len(slots) = Top
      BY <1>3, <1>11 DEF LabelsOK
    <2>2. n \in Nat \ {0} /\ n < Len(slots) /\ Len(slots) - n = h
      BY <1>3, <1>6, <2>1
    <2>3. /\ Len(moved) = Top /\ moved[Top] = slots[h] /\ moved[h] = slots[Top]
          /\ \A k \in 1..Top : k # Top /\ k # h => moved[k] = slots[k]
      BY <1>3, <2>1, <2>2, SwapElements
    <2>4. slots' = Recovered(moved, At(stmt))
      BY <1>1, <1>7, StepIsMove
    <2> HIDE DEF moved
    <2>5. At(stmt).stmt = None \/ HasLabel(moved, At(stmt).stmt)
      <3>1. CASE stmt.kind = "declare"
        <4>1. slots[h] = stmt.var
          BY <1>2, <1>3, <1>5, <1>11, <3>1 DEF LabelsOK
        <4>2. At(stmt).stmt = stmt.var
          BY <3>1 DEF At
        <4>3. QED
          BY <1>6, <2>3, <4>1, <4>2 DEF HasLabel
      <3>2. CASE stmt.kind # "declare"
        BY <3>2 DEF At
      <3>3. QED
        BY <3>1, <3>2
    <2>6. slots' = moved
      BY <2>4, <2>5, NothingRecovered
    <2>7. QED
      BY <2>3, <2>6
  <1>12. /\ stmt' \in StatementRecord /\ stmt'.kind = "drop" /\ stmt'.var = stmt.var
         /\ stmt'.base = stmt.base
    BY <1>1, <1>3 DEF StatementRecord, Kind
  <1>13. Types'
    <2>1. assigned' \in SUBSET Names
      BY <1>1, <1>3, <1>5
    <2>2. QED
      BY <1>1, <1>9, <1>10, <1>12, <2>1 DEF IInv, Types
  <1>14. CallersOK'
    BY <1>1 DEF IInv, CallersOK, LowOf
  <1>15. Running'
    BY <1>12, StatementAssumption DEF Running, StatementRecord, Kind, Label
  <1>16. low' = low
    BY <1>1 DEF LowOf, low
  <1>17. FunctionOK'
    <2>1. Top' = stmt.base + 1
      BY <1>4, <1>9 DEF Top
    <2>2. assigned' \subseteq settled
      BY <1>1, <1>3 DEF PlacesOK, RunningOK
    <2>3. PlacesOK(home, settled, assigned', low)
      BY <1>3, <2>2 DEF PlacesOK
    <2>4. stmt.var \in settled \/ (home[stmt.var] = stmt.base /\ stmt.base > 0)
      BY <1>1, <1>3 DEF RunningOK
    <2>5. RunningOK(home, settled, stmt', low)
      BY <1>3, <1>5, <1>12, <2>4 DEF RunningOK
    <2>6. PlacesOK(home', settled', assigned', low') /\ RunningOK(home', settled', stmt', low')
      BY <1>1, <1>16, <2>3, <2>5
    <2>7. QED
      BY <1>12, <1>15, <2>1, <2>6 DEF FunctionOK, low
  <1>18. ASSUME synced PROVE LabelsOK'
    <2>1. LabelsOK /\ Len(slots) = Top
      BY <1>3, <1>18 DEF LabelsOK
    <2>2. ASSUME NEW k \in 1..Top
          PROVE  \E j \in 1..Top : slots'[k] = slots[j] /\ stack'[k] = stack[j]
      <3>1. CASE k = Top
        BY <1>6, <1>9, <1>11, <1>18, <3>1
      <3>2. CASE k = h
        BY <1>6, <1>9, <1>11, <1>18, <3>2
      <3>3. CASE k # Top /\ k # h
        BY <1>9, <1>11, <1>18, <3>3
      <3>4. QED
        BY <3>1, <3>2, <3>3
    <2>3. ASSUME NEW v \in settled \ assigned'
          PROVE  /\ slots'[home[v]] = v
                 /\ \A k \in 1..Top : slots'[k] = v => stack'[k] = stack'[home[v]]
      <3>1. v \in Names /\ v \in settled \ assigned /\ v # stmt.var
        BY <1>1, <1>3 DEF RunningOK
      <3>2. home[v] \in 1..stmt.base /\ home[v] # h
        BY <1>3, <1>5, <3>1 DEF PlacesOK, RunningOK, h
      <3>3. home[v] \in 1..Top /\ home[v] # Top /\ home[v] # h
        BY <1>3, <1>4, <3>2
      <3>4. slots[home[v]] = v /\ \A k \in 1..Top : slots[k] = v => stack[k] = stack[home[v]]
        BY <2>1, <3>1 DEF LabelsOK
      <3>5. slots'[home[v]] = v /\ stack'[home[v]] = stack[home[v]]
        BY <1>9, <1>11, <1>18, <3>3, <3>4
      <3>6. QED
        BY <2>2, <3>4, <3>5
    <2>4. ASSUME NEW v \in Names, home[v] = 0, NEW k \in 1..Top PROVE slots'[k] # v
      BY <1>2, <2>1, <2>2, <2>4 DEF LabelsOK
    <2>5. ASSUME stmt.var \notin settled
          PROVE  \A k \in 1..Top : k < stmt.base => slots'[k] # stmt.var
      <3>1. stmt.kind = "declare"
        BY <1>1, <1>3, <2>5 DEF RunningOK
      <3>2. \A k \in 1..Top : k < stmt.base => slots[k] # stmt.var
        BY <1>2, <2>1, <3>1 DEF LabelsOK, FreeBelow
      <3>3. \A k \in 1..Top : k < stmt.base => k # Top /\ k # h
        BY <1>3, <1>4, <1>5, <3>1
      <3>4. QED
        BY <1>11, <1>18, <3>2, <3>3
    <2>6. Len(slots') = Top /\ Len(stack') = Top
      BY <1>9, <1>11, <1>18
    <2>7. (stmt.var \notin settled => FreeBelow(stmt.var, stmt.base))'
      BY <1>1, <1>12, <2>5, <2>6 DEF FreeBelow
    <2>8. settled' = settled /\ home' = home
      BY <1>1
    <2>9. (Len(slots) = Len(stack))'
      BY <2>6
    <2>10. (\A v \in settled \ assigned :
               /\ slots[home[v]] = v
               /\ \A k \in 1..Len(slots) : slots[k] = v => stack[k] = stack[home[v]])'
      BY <2>3, <2>6, <2>8
    <2>11. (\A v \in Names : home[v] = 0 => \A k \in 1..Len(slots) : slots[k] # v)'
      BY <2>4, <2>6, <2>8
    <2>12. stmt'.kind # "declare"
      BY <1>12
    <2>13. QED
      BY <2>7, <2>9, <2>10, <2>11, <2>12 DEF LabelsOK
  <1>19. QED
    BY <1>1, <1>13, <1>14, <1>17, <1>18 DEF IInv

\* POP and JUMP take one value, JUMPDEST none; none of them gives one.
LEMMA PlainOpcodes ==
    /\ POP \in Opcodes /\ JUMP \in Opcodes /\ JUMPDEST \in Opcodes
    /\ POP \in Nat /\ JUMP \in Nat /\ JUMPDEST \in Nat
    /\ Takes(POP) = 1 /\ Takes(JUMP) = 1 /\ Takes(JUMPDEST) = 0
    /\ Gives(POP) = 0 /\ Gives(JUMP) = 0 /\ Gives(JUMPDEST) = 0
  <1>1. POP = 80 /\ JUMP = 86 /\ JUMPDEST = 91
    BY DEF POP, JUMP, JUMPDEST
  <1>2. 80 \in Opcodes /\ 86 \in Opcodes /\ 91 \in Opcodes
    BY DEF Opcodes
  <1>3. Takes(80) = 1 /\ Takes(86) = 1 /\ Takes(91) = 0
    BY DEF Takes
  <1>4. Gives(80) = 0 /\ Gives(86) = 0 /\ Gives(91) = 0
    BY DEF Gives
  <1>5. QED
    BY <1>1, <1>2, <1>3, <1>4

\* What they leave on the stack, and of the labels before any is recovered.
LEMMA PlainElements ==
    ASSUME stack \in Seq(Vals), slots \in Seq(Label), NEW op \in {POP, JUMP, JUMPDEST},
           Takes(op) <= Top, NEW m, m = Top - Takes(op), NEW at
    PROVE  /\ m \in Nat /\ After(op, <<>>) \in Seq(Vals) /\ Len(After(op, <<>>)) = m
           /\ \A k \in 1..m : After(op, <<>>)[k] = stack[k]
           /\ Len(slots) = Top =>
                 /\ Moved(slots, op, at) \in Seq(Label) /\ Len(Moved(slots, op, at)) = m
                 /\ \A k \in 1..m : Moved(slots, op, at)[k] = slots[k]
           /\ at.stmt = None => ProcessStep(slots, op, at) = Moved(slots, op, at)
  <1>1. op \in Opcodes /\ op \in Nat /\ Gives(op) = 0 /\ Takes(op) \in {0, 1}
    BY PlainOpcodes
  <1>2. << >> \in Results(op)
    BY <1>1 DEF Results
  <1>3. None \in Label
    BY DEF Label
  <1>4. /\ m \in Nat /\ After(op, <<>>) \in Seq(Vals) /\ Len(After(op, <<>>)) = m
        /\ \A k \in 1..m : After(op, <<>>)[k] = stack[k]
    <2> DEFINE n == Top - Takes(op)
    <2>1. /\ n \in Nat /\ After(op, <<>>) \in Seq(Vals) /\ Len(After(op, <<>>)) = n + Gives(op)
          /\ \A k \in 1..n : After(op, <<>>)[k] = stack[k]
      BY <1>1, <1>2, AfterElements
    <2>2. n = m
      OBVIOUS
    <2> HIDE DEF n
    <2>3. QED
      BY <1>1, <2>1, <2>2
  <1>5. ASSUME Len(slots) = Top
        PROVE  /\ Moved(slots, op, at) \in Seq(Label) /\ Len(Moved(slots, op, at)) = m
               /\ \A k \in 1..m : Moved(slots, op, at)[k] = slots[k]
    <2> DEFINE below == Len(slots) - Takes(op)
               moved == Moved(slots, op, at)
    <2>1. None \in Label /\ slots \in Seq(Label) /\ op \in Opcodes /\ Takes(op) <= Len(slots)
      BY <1>1, <1>3, <1>5
    <2>2. /\ moved \in Seq(Label) /\ Len(moved) = below + Gives(op)
          /\ \A k \in 1..below : moved[k] = slots[k]
          /\ Gives(op) = 1 => moved[below + 1] = None
      BY ONLY <2>1, OpcodeMoves, ZenonT(60)
    <2>3. below = m
      BY <1>5
    <2> HIDE DEF below, moved
    <2>4. QED
      BY <1>1, <1>4, <2>2, <2>3 DEF moved
  <1>6. ASSUME at.stmt = None PROVE ProcessStep(slots, op, at) = Moved(slots, op, at)
    <2>1. ProcessStep(slots, op, at) = Recovered(Moved(slots, op, at), at)
      BY <1>1, StepIsMove
    <2>2. QED
      BY <1>6, <2>1, NothingRecovered
  <1>7. QED
    BY <1>4, <1>5, <1>6

\* The value of an expression statement goes, and the function is where it was.
LEMMA DiscardKeeps == ASSUME IInv, Discard PROVE IInv'
  <1> DEFINE low == LowOf(Len(callers))
             op == IF Temps = 1 THEN POP ELSE JUMPDEST
  <1>1. /\ stmt # None /\ stmt.kind = "eval" /\ Temps <= 1
        /\ stack' = After(op, <<>>) /\ slots' = ProcessStep(slots, op, Nowhere)
        /\ stmt' = None
        /\ UNCHANGED <<home, settled, assigned, callers, synced>>
    BY DEF Discard
  <1>2. Running
    BY <1>1 DEF Running
  <1>3. /\ PlacesOK(home, settled, assigned, low) /\ RunningOK(home, settled, stmt, low)
        /\ stack \in Seq(Vals) /\ slots \in Seq(Label) /\ Top = Len(stack) /\ Top \in Nat
        /\ home \in [Names -> Nat] /\ settled \in SUBSET Names
        /\ stmt.base \in Nat /\ stmt.base <= Top
        /\ synced => LabelsOK
    BY <1>2, RunningFacts
  <1>4. op \in {POP, JUMP, JUMPDEST} /\ Takes(op) <= Top /\ stmt.base = Top - Takes(op)
    BY <1>1, <1>3, PlainOpcodes DEF Temps
  <1> HIDE DEF op, low
  <1>5. /\ stack' \in Seq(Vals) /\ Len(stack') = stmt.base
        /\ \A k \in 1..stmt.base : stack'[k] = stack[k]
        /\ synced => /\ Len(slots') = stmt.base /\ \A k \in 1..stmt.base : slots'[k] = slots[k]
    <2>1. Nowhere.stmt = None
      BY DEF Nowhere
    <2>2. QED
      BY <1>1, <1>3, <1>4, <2>1, PlainElements DEF LabelsOK
  <1>6. slots' \in Seq(Label)
    <2>1. op \in Nat /\ None \in Label /\ Nowhere.decl = None /\ Nowhere.stmt = None
      BY <1>4, PlainOpcodes DEF Label, Nowhere
    <2>2. QED
      BY <1>1, <1>3, <2>1, StepKeepsType
  <1>7. Types' /\ CallersOK'
    BY <1>1, <1>5, <1>6 DEF IInv, Types, CallersOK, LowOf
  <1>8. ~Running'
    BY <1>1 DEF Running
  <1>9. FunctionOK'
    <2>1. low' = low
      BY <1>1 DEF LowOf, low
    <2>2. Top' = stmt.base /\ stmt.base >= low /\ \A v \in Names : home[v] <= stmt.base
      BY <1>3, <1>5 DEF Top, RunningOK
    <2>3. PlacesOK(home', settled', assigned', low')
      BY <1>1, <1>3, <2>1
    <2>4. QED
      BY <1>1, <1>8, <2>1, <2>2, <2>3 DEF FunctionOK, low
  <1>10. ASSUME synced PROVE LabelsOK'
    <2>1. LabelsOK /\ 1..stmt.base \subseteq 1..Len(slots)
      BY <1>3, <1>10 DEF LabelsOK
    <2>2. ASSUME NEW v \in settled \ assigned
          PROVE  /\ slots'[home[v]] = v
                 /\ \A k \in 1..stmt.base : slots'[k] = v => stack'[k] = stack'[home[v]]
      <3>1. home[v] \in 1..stmt.base
        BY <1>3 DEF PlacesOK, RunningOK
      <3>2. QED
        BY <1>5, <1>10, <2>1, <3>1, SMTT(30) DEF LabelsOK
    <2>3. ASSUME NEW v \in Names, home[v] = 0, NEW k \in 1..stmt.base PROVE slots'[k] # v
      BY <1>2, <1>5, <1>10, <2>1, <2>3 DEF LabelsOK
    <2>4. Len(slots') = stmt.base /\ Len(stack') = stmt.base
      BY <1>5, <1>10
    <2>5. settled' = settled /\ home' = home /\ assigned' = assigned
      BY <1>1
    <2>6. QED
      BY <1>8, <2>2, <2>3, <2>4, <2>5 DEF LabelsOK
  <1>11. QED
    BY <1>1, <1>7, <1>9, <1>10 DEF IInv

\* The old value goes, and the variable has its label, recovered if it was lost.
LEMMA DropKeeps == ASSUME IInv, Drop PROVE IInv'
  <1> DEFINE low == LowOf(Len(callers))
             x == stmt.var
             b == stmt.base
             at == [decl |-> None, stmt |-> IF x \in settled THEN None ELSE x]
  <1>1. /\ stmt # None /\ stmt.kind = "drop"
        /\ stack' = After(POP, <<>>) /\ slots' = ProcessStep(slots, POP, at)
        /\ settled' = settled \cup {x} /\ stmt' = None
        /\ UNCHANGED <<home, assigned, callers, synced>>
    BY DEF Drop
  <1>2. Running
    BY <1>1 DEF Running
  <1>3. /\ PlacesOK(home, settled, assigned, low) /\ RunningOK(home, settled, stmt, low)
        /\ stack \in Seq(Vals) /\ slots \in Seq(Label) /\ Top = Len(stack) /\ Top \in Nat
        /\ home \in [Names -> Nat] /\ settled \in SUBSET Names
        /\ b \in Nat /\ x \in Label
        /\ synced => LabelsOK
    BY <1>2, RunningFacts
  <1>4. x \in Names /\ (x \in settled \/ (home[x] = b /\ b > 0))
    BY <1>1, <1>3 DEF RunningOK
  <1>5. Top = b + 1
    BY <1>1, <1>2 DEF IInv, FunctionOK
  <1>6. at.stmt = (IF x \in settled THEN None ELSE x) /\ at.decl = None
    OBVIOUS
  <1> HIDE DEF at, low
  <1>7. POP \in {POP, JUMP, JUMPDEST} /\ Takes(POP) <= Top /\ b = Top - Takes(POP) /\ POP \in Nat
    BY <1>3, <1>5, PlainOpcodes, SMTT(30)
  <1>8. /\ stack' \in Seq(Vals) /\ Len(stack') = b /\ \A k \in 1..b : stack'[k] = stack[k]
    BY <1>1, <1>3, <1>7, PlainElements
  <1>9. slots' \in Seq(Label)
    <2>1. at.decl \in Label /\ at.stmt \in Label /\ None \in Label
      BY <1>3, <1>6 DEF Label
    <2>2. QED
      BY <1>1, <1>3, <1>7, <2>1, StepKeepsType
  <1>10. ASSUME synced
         PROVE  /\ Len(slots') = b
                /\ x \in settled => \A k \in 1..b : slots'[k] = slots[k]
                /\ x \notin settled => /\ slots'[b] = x
                                       /\ \A k \in 1..b : k # b => slots'[k] = slots[k] /\ slots'[k] # x
    <2> DEFINE moved == Moved(slots, POP, at)
    <2>1. LabelsOK /\ Len(slots) = Top
      BY <1>3, <1>10 DEF LabelsOK
    <2>2. moved \in Seq(Label) /\ Len(moved) = b /\ \A k \in 1..b : moved[k] = slots[k]
      BY <1>3, <1>7, <2>1, PlainElements
    <2>3. slots' = Recovered(moved, at)
      BY <1>1, <1>7, StepIsMove, ZenonT(30)
    <2> HIDE DEF moved
    <2>4. CASE x \in settled
      BY <1>6, <2>2, <2>3, <2>4, NothingRecovered
    <2>5. CASE x \notin settled
      <3>1. at.stmt = x /\ x # None /\ b \in 1..b /\ b > 0
        BY <1>3, <1>4, <1>6, <2>5, NamesAssumption
      <3>2. \A k \in 1..b : k # b => moved[k] # x
        <4>1. FreeBelow(x, b)
          BY <1>1, <1>2, <2>1, <2>5 DEF LabelsOK
        <4>2. \A k \in 1..b : k # b => k < b /\ k \in 1..Len(slots)
          BY <1>3, <1>5, <2>1
        <4>3. QED
          BY <2>2, <4>1, <4>2 DEF FreeBelow
      <3>3. CASE HasLabel(moved, x)
        <4>1. slots' = moved
          BY <2>3, <3>1, <3>3, NothingRecovered
        <4>2. moved[b] = x
          BY <2>2, <3>2, <3>3 DEF HasLabel
        <4>3. QED
          BY <2>2, <2>5, <3>2, <4>1, <4>2
      <3>4. CASE ~HasLabel(moved, x)
        <4> DEFINE t == [moved EXCEPT ![b] = x]
        <4>1. moved \in [1..b -> Label]
          BY <2>2
        <4>2. t \in [1..b -> Label] /\ t[b] = x /\ \A k \in 1..b : k # b => t[k] = moved[k]
          BY <1>3, <3>1, <4>1
        <4>3. moved # << >>
          BY <2>2, <3>1
        <4>4. slots' = t
          BY <2>2, <2>3, <3>1, <3>4, <4>3 DEF Recovered
        <4> HIDE DEF t
        <4>5. Len(t) = b
          BY <1>3, <4>2
        <4>6. QED
          BY <2>2, <2>5, <3>2, <4>2, <4>4, <4>5
      <3>5. QED
        BY <3>3, <3>4
    <2>6. QED
      BY <2>4, <2>5
  <1>11. Types' /\ CallersOK'
    <2>1. settled' \in SUBSET Names
      BY <1>1, <1>3, <1>4
    <2>2. QED
      BY <1>1, <1>8, <1>9, <2>1 DEF IInv, Types, CallersOK, LowOf
  <1>12. ~Running'
    BY <1>1 DEF Running
  <1>13. FunctionOK'
    <2>1. low' = low
      BY <1>1 DEF LowOf, low
    <2>2. Top' = b /\ b >= low /\ \A v \in Names : home[v] <= b
      BY <1>3, <1>8 DEF Top, RunningOK
    <2>3. PlacesOK(home, settled \cup {x}, assigned, low)
      BY <1>3, <1>4 DEF PlacesOK
    <2>4. PlacesOK(home', settled', assigned', low')
      BY <1>1, <2>1, <2>3
    <2>5. QED
      BY <1>1, <1>12, <2>1, <2>2, <2>4 DEF FunctionOK, low
  <1>14. ASSUME synced PROVE LabelsOK'
    <2>1. LabelsOK /\ 1..b \subseteq 1..Len(slots)
      BY <1>3, <1>5, <1>14 DEF LabelsOK
    <2>2. ASSUME NEW v \in settled \ assigned
          PROVE  /\ slots'[home[v]] = v
                 /\ \A k \in 1..b : slots'[k] = v => stack'[k] = stack'[home[v]]
      <3>1. home[v] \in 1..b /\ v \in Names
        BY <1>3 DEF PlacesOK, RunningOK
      <3>2. slots[home[v]] = v /\ \A k \in 1..b : slots[k] = v => stack[k] = stack[home[v]]
        BY <2>1, <3>1 DEF LabelsOK
      <3>3. CASE x \in settled
        BY <1>8, <1>10, <1>14, <3>1, <3>2, <3>3
      <3>4. CASE x \notin settled
        <4>1. home[v] # b /\ v # x
          BY <1>3, <1>4, <3>1, <3>4 DEF PlacesOK
        <4>2. slots'[b] # v
          BY <1>10, <1>14, <3>4, <4>1
        <4>3. QED
          BY <1>8, <1>10, <1>14, <3>1, <3>2, <3>4, <4>1, <4>2
      <3>5. QED
        BY <3>3, <3>4
    <2>3. ASSUME x \notin settled
          PROVE  /\ slots'[home[x]] = x
                 /\ \A k \in 1..b : slots'[k] = x => stack'[k] = stack'[home[x]]
      <3>1. home[x] = b
        BY <1>4, <2>3
      <3>2. QED
        BY <1>10, <1>14, <2>3, <3>1
    <2>4. ASSUME NEW v \in Names, home[v] = 0, NEW k \in 1..b PROVE slots'[k] # v
      <3>1. slots[k] # v
        BY <1>2, <2>1, <2>4 DEF LabelsOK
      <3>2. v # x
        BY <1>3, <1>4, <2>4 DEF PlacesOK
      <3>3. QED
        BY <1>10, <1>14, <3>1, <3>2
    <2>5. Len(slots') = b /\ Len(stack') = b
      BY <1>8, <1>10, <1>14
    <2>6. settled' = settled \cup {x} /\ home' = home /\ assigned' = assigned
      BY <1>1
    <2>7. ASSUME NEW v \in settled' \ assigned'
          PROVE  /\ slots'[home'[v]] = v
                 /\ \A k \in 1..Len(slots') : slots'[k] = v => stack'[k] = stack'[home'[v]]
      <3>1. CASE v \in settled
        BY <2>2, <2>5, <2>6, <3>1
      <3>2. CASE v \notin settled
        <4>1. v = x
          BY <2>6, <3>2
        <4>2. QED
          BY <2>3, <2>5, <2>6, <3>2, <4>1
      <3>3. QED
        BY <3>1, <3>2
    <2>8. QED
      BY <1>12, <2>4, <2>5, <2>6, <2>7 DEF LabelsOK
  <1>15. QED
    BY <1>1, <1>11, <1>13, <1>14 DEF IInv

-----------------------------------------------------------------------------
(* Calls. *)

\* The variables go one by one; the places of the others stay below the top.
LEMMA UnwindKeeps == ASSUME IInv, Unwind PROVE IInv'
  <1> DEFINE low == LowOf(Len(callers))
  <1>1. PICK v \in Names :
            /\ home[v] = Top
            /\ home' = [home EXCEPT ![v] = 0]
            /\ settled' = settled \ {v} /\ assigned' = assigned \ {v}
    BY DEF Unwind
  <1>2. /\ callers # <<>> /\ (stmt = None \/ stmt.kind = "return")
        /\ stack' = After(POP, <<>>) /\ slots' = ProcessStep(slots, POP, Nowhere)
        /\ stmt' = Statement("return", None, 0) /\ callers' = callers /\ synced' = synced
    BY DEF Unwind, Returning
  <1>3. ~Running
    BY <1>2 DEF Running
  <1>4. /\ stack \in Seq(Vals) /\ slots \in Seq(Label) /\ Top = Len(stack) /\ Top \in Nat
        /\ home \in [Names -> Nat] /\ settled \in SUBSET Names /\ assigned \in SUBSET Names
        /\ PlacesOK(home, settled, assigned, low)
        /\ Top >= low /\ \A w \in Names : home[w] <= Top
    BY <1>3 DEF IInv, Types, Top, FunctionOK
  <1>5. low \in Nat /\ low > 0
    <2>1. callers \in Seq(Caller) /\ Len(callers) # 0 /\ Len(callers) \in 1..Len(callers)
      BY <1>2 DEF IInv, Types
    <2>2. callers[Len(callers)] \in Caller
      BY <2>1
    <2>3. callers[Len(callers)].stmt \in StatementRecord
      BY <2>2 DEF Caller
    <2>4. callers[Len(callers)].stmt.base \in Nat
      BY <2>3 DEF StatementRecord
    <2>5. QED
      BY <2>1, <2>4 DEF LowOf
  <1> HIDE DEF low
  <1> DEFINE m == Top - 1
  <1>6. m \in Nat /\ m >= low /\ Top = m + 1
    <2>1. home[v] > low
      BY <1>1, <1>4, <1>5 DEF PlacesOK
    <2>2. QED
      BY <1>1, <1>4, <1>5, <2>1
  <1>7. /\ home' \in [Names -> Nat] /\ home'[v] = 0
        /\ \A w \in Names : w # v => home'[w] = home[w] /\ home[w] <= m
    <2>1. \A w \in Names : w # v => home[w] # Top
      BY <1>1, <1>4, <1>6 DEF PlacesOK
    <2>2. QED
      BY <1>1, <1>4, <1>6, <2>1
  <1>8. POP \in {POP, JUMP, JUMPDEST} /\ Takes(POP) <= Top /\ m = Top - Takes(POP) /\ POP \in Nat
    BY <1>4, <1>6, PlainOpcodes
  <1> HIDE DEF m
  <1>9. Nowhere.stmt = None /\ Nowhere.decl = None /\ None \in Label
    BY DEF Nowhere, Label
  <1>10. /\ stack' \in Seq(Vals) /\ Len(stack') = m /\ \A k \in 1..m : stack'[k] = stack[k]
         /\ synced => Len(slots') = m /\ \A k \in 1..m : slots'[k] = slots[k]
    <2>1. synced => Len(slots) = Top
      BY <1>4 DEF IInv, LabelsOK
    <2>2. stack' \in Seq(Vals) /\ Len(stack') = m /\ \A k \in 1..m : stack'[k] = stack[k]
      BY <1>2, <1>4, <1>8, PlainElements
    <2>3. ASSUME synced PROVE Len(slots') = m /\ \A k \in 1..m : slots'[k] = slots[k]
      BY <1>2, <1>4, <1>8, <1>9, <2>1, <2>3, PlainElements
    <2>4. QED
      BY <2>2, <2>3
  <1>11. slots' \in Seq(Label)
    BY <1>2, <1>4, <1>8, <1>9, StepKeepsType
  <1>12. stmt' \in StatementRecord /\ stmt'.kind = "return"
    BY <1>2 DEF Statement, StatementRecord, Kind, Label
  <1>13. stmt' # None /\ ~Running'
    BY <1>12, StatementAssumption DEF Running, StatementRecord, Kind, Label
  <1>14. Types' /\ CallersOK'
    <2>1. settled' \in SUBSET Names /\ assigned' \in SUBSET Names
      BY <1>1, <1>4
    <2>2. QED
      BY <1>2, <1>7, <1>10, <1>11, <1>12, <2>1 DEF IInv, Types, CallersOK, LowOf
  <1>15. FunctionOK'
    <2>1. low' = low
      BY <1>2 DEF LowOf, low
    <2>2. Top' = m /\ \A w \in Names : home'[w] <= m
      BY <1>6, <1>7, <1>10 DEF Top
    <2>3. PlacesOK(home', settled', assigned', low)
      BY <1>1, <1>4, <1>7 DEF PlacesOK
    <2>4. PlacesOK(home', settled', assigned', low')
      BY <2>1, <2>3
    <2>5. QED
      BY <1>6, <1>13, <2>1, <2>2, <2>4 DEF FunctionOK, low
  <1>16. ASSUME synced PROVE LabelsOK'
    <2>1. LabelsOK /\ 1..m \subseteq 1..Len(slots)
      BY <1>4, <1>6, <1>16 DEF IInv, LabelsOK
    <2>2. ASSUME NEW w \in settled' \ assigned'
          PROVE  /\ slots'[home'[w]] = w
                 /\ \A k \in 1..m : slots'[k] = w => stack'[k] = stack'[home'[w]]
      <3>1. w \in settled \ assigned /\ w # v /\ w \in Names
        BY <1>1, <1>4
      <3>2. home'[w] = home[w] /\ home[w] \in 1..m
        BY <1>4, <1>6, <1>7, <3>1 DEF PlacesOK
      <3>3. slots[home[w]] = w /\ \A k \in 1..m : slots[k] = w => stack[k] = stack[home[w]]
        BY <2>1, <3>1 DEF LabelsOK
      <3>4. QED
        BY <1>10, <1>16, <3>2, <3>3
    <2>3. Len(slots') = m /\ Len(stack') = m
      BY <1>10, <1>16
    <2>4. QED
      BY <1>13, <2>2, <2>3 DEF LabelsOK
  <1>17. QED
    BY <1>2, <1>14, <1>15, <1>16 DEF IInv

\* The function that called goes on where it was, with no labels.
LEMMA JumpOutKeeps == ASSUME IInv, JumpOut PROVE IInv'
  <1> DEFINE n == Len(callers)
             c == callers[n]
             b == c.stmt.base
  <1>1. /\ callers # <<>> /\ (stmt = None \/ stmt.kind = "return")
        /\ stack' = After(JUMP, <<>>) /\ slots' = Reset /\ synced' = (stack' = <<>>)
        /\ home' = c.home /\ settled' = c.settled /\ assigned' = c.assigned /\ stmt' = c.stmt
        /\ callers' = SubSeq(callers, 1, n - 1)
    BY DEF JumpOut, Returning
  <1>2. callers \in Seq(Caller) /\ n \in Nat /\ n # 0 /\ n \in 1..n
    BY <1>1 DEF IInv, Types
  <1>3. c \in Caller
    BY <1>2
  <1>4. /\ c.home \in [Names -> Nat] /\ c.settled \in SUBSET Names /\ c.assigned \in SUBSET Names
        /\ c.stmt \in StatementRecord
    BY <1>3 DEF Caller
  <1>5. b \in Nat
    BY <1>4 DEF StatementRecord
  <1>6. /\ PlacesOK(c.home, c.settled, c.assigned, LowOf(n - 1))
        /\ RunningOK(c.home, c.settled, c.stmt, LowOf(n - 1))
        /\ c.stmt.kind \in {"declare", "assign", "eval"}
    BY <1>2 DEF IInv, CallersOK
  <1>7. LowOf(n) = b + 1
    BY <1>2 DEF LowOf
  <1> HIDE DEF c
  <1>8. /\ callers' \in Seq(Caller) /\ Len(callers') = n - 1
        /\ \A k \in 1..(n - 1) : callers'[k] = callers[k]
    <2> DEFINE l == n - 1
    <2>1. l \in Nat /\ l <= Len(callers)
      BY <1>2
    <2>2. callers' = SubSeq(callers, 1, l)
      BY <1>1
    <2> HIDE DEF l
    <2>3. callers' \in Seq(Caller) /\ Len(callers') = l /\ \A k \in 1..l : callers'[k] = callers[k]
      BY <1>2, <2>1, <2>2
    <2>4. QED
      BY <2>3 DEF l
  <1>9. ASSUME NEW k \in 0..(n - 1) PROVE LowOf(k)' = LowOf(k)
    <2>1. k = 0 \/ k \in 1..(n - 1)
      BY <1>2
    <2>2. QED
      BY <1>8, <2>1 DEF LowOf
  <1>10. Top \in Nat /\ Top >= b + 1 /\ stack \in Seq(Vals) /\ slots \in Seq(Label)
    <2>1. ~Running
      BY <1>1 DEF Running
    <2>2. Top >= LowOf(n)
      BY <2>1 DEF IInv, FunctionOK
    <2>3. QED
      BY <1>7, <2>2 DEF IInv, Types, Top
  <1>11. stack' \in Seq(Vals) /\ Len(stack') = Top - 1
    <2> DEFINE m == Top - Takes(JUMP)
    <2>1. JUMP \in {POP, JUMP, JUMPDEST} /\ Takes(JUMP) <= Top /\ m = Top - 1
      BY <1>5, <1>10, PlainOpcodes
    <2>2. After(JUMP, <<>>) \in Seq(Vals) /\ Len(After(JUMP, <<>>)) = m
      BY <1>10, <2>1, PlainElements
    <2>3. QED
      BY <1>1, <2>1, <2>2
  <1>12. slots' = << >> /\ slots' \in Seq(Label)
    BY <1>1 DEF Reset
  <1>13. Types'
    <2>1. synced' \in BOOLEAN
      BY <1>1
    <2>2. QED
      BY <1>1, <1>4, <1>8, <1>11, <1>12, <2>1 DEF Types
  <1>14. CallersOK'
    <2>1. ASSUME NEW k \in 1..(n - 1)
          PROVE  /\ PlacesOK(callers'[k].home, callers'[k].settled, callers'[k].assigned, LowOf(k - 1)')
                 /\ RunningOK(callers'[k].home, callers'[k].settled, callers'[k].stmt, LowOf(k - 1)')
                 /\ callers'[k].stmt.kind \in {"declare", "assign", "eval"}
      <3>1. k \in 1..n /\ k - 1 \in 0..(n - 1)
        BY <1>2
      <3>2. /\ PlacesOK(callers[k].home, callers[k].settled, callers[k].assigned, LowOf(k - 1))
            /\ RunningOK(callers[k].home, callers[k].settled, callers[k].stmt, LowOf(k - 1))
            /\ callers[k].stmt.kind \in {"declare", "assign", "eval"}
        BY <3>1 DEF IInv, CallersOK
      <3>3. callers'[k] = callers[k] /\ LowOf(k - 1)' = LowOf(k - 1)
        BY <1>8, <1>9, <3>1
      <3>4. QED
        BY <3>2, <3>3
    <2>2. QED
      BY <1>8, <2>1 DEF CallersOK
  <1>15. stmt' # None /\ Running' /\ stmt'.kind # "drop"
    BY <1>1, <1>4, <1>6, StatementAssumption DEF Running, StatementRecord, Kind, Label
  <1>16. FunctionOK'
    <2>1. LowOf(Len(callers))' = LowOf(n - 1)
      <3>1. PICK l \in Nat : l = n - 1
        BY <1>2
      <3>2. l \in 0..(n - 1) /\ Len(callers') = l
        BY <1>8, <3>1
      <3>3. LowOf(l)' = LowOf(l)
        BY <1>9, <3>2
      <3>4. LowOf(Len(callers))' = LowOf(l)'
        BY <3>2 DEF LowOf
      <3>5. QED
        BY <3>1, <3>3, <3>4
    <2>2. Top' >= b
      BY <1>5, <1>10, <1>11 DEF Top
    <2>3. /\ PlacesOK(home', settled', assigned', LowOf(Len(callers))')
          /\ RunningOK(home', settled', stmt', LowOf(Len(callers))')
      BY <1>1, <1>6, <2>1
    <2>4. Top' >= stmt'.base
      BY <1>1, <2>2
    <2>5. QED
      BY <1>15, <2>3, <2>4 DEF FunctionOK
  <1>17. ASSUME synced' PROVE LabelsOK'
    <2>1. stack' = << >> /\ Len(stack') = 0 /\ Len(slots') = 0
      BY <1>1, <1>12, <1>17
    <2>2. b = 0
      BY <1>5, <1>10, <1>11, <2>1
    <2>3. \A v \in Names : home'[v] = 0
      BY <1>1, <1>4, <1>6, <2>2 DEF RunningOK
    <2>4. settled' = {}
      BY <1>1, <1>4, <1>6, <2>3 DEF PlacesOK
    <2>5. stmt'.kind # "declare"
      BY <1>1, <1>6, <2>2 DEF RunningOK
    <2>6. QED
      BY <1>15, <2>1, <2>4, <2>5 DEF LabelsOK
  <1>18. QED
    BY <1>13, <1>14, <1>16, <1>17 DEF IInv

\* The parameters lie on top of the stack a call leaves, in their order.
LEMMA CalleePlaces ==
    ASSUME NEW d \in Nat, Len(Params) <= d
    PROVE  /\ CalleeHome(d) \in [Names -> Nat]
           /\ \A k \in 1..Len(Params) : CalleeHome(d)[Params[k]] = d - Len(Params) + k
           /\ \A v \in Names : (\A k \in 1..Len(Params) : Params[k] # v) => CalleeHome(d)[v] = 0
  <1>1. /\ Len(Params) \in Nat /\ \A k \in 1..Len(Params) : Params[k] \in Names
        /\ \A j, k \in 1..Len(Params) : Params[j] = Params[k] => j = k
    BY VariablesAssumption
  <1>2. ASSUME NEW k \in 1..Len(Params)
        PROVE  CalleeHome(d)[Params[k]] = d - Len(Params) + k
    <2>1. (CHOOSE j \in 1..Len(Params) : Params[j] = Params[k]) = k
      BY <1>1
    <2>2. QED
      BY <1>1, <2>1 DEF CalleeHome
  <1>3. ASSUME NEW v \in Names, \A k \in 1..Len(Params) : Params[k] # v
        PROVE  CalleeHome(d)[v] = 0
    BY <1>3 DEF CalleeHome
  <1>4. ASSUME NEW v \in Names PROVE CalleeHome(d)[v] \in Nat
    <2>1. CASE \E k \in 1..Len(Params) : Params[k] = v
      BY <1>1, <1>2, <2>1
    <2>2. CASE ~\E k \in 1..Len(Params) : Params[k] = v
      BY <1>3, <2>2
    <2>3. QED
      BY <2>1, <2>2
  <1>5. CalleeHome(d) \in [Names -> Nat]
    BY <1>4 DEF CalleeHome
  <1>6. QED
    BY <1>2, <1>3, <1>5

\* Seeding gives each parameter the slot it is in, and no other slot a label.
LEMMA SeedElements ==
    ASSUME NEW d \in Nat, Len(Params) <= d
    PROVE  LET seeded == SeedTopLabels(d, Params) IN
           /\ seeded \in Seq(Label) /\ Len(seeded) = d
           /\ \A k \in 1..Len(Params) : seeded[d - Len(Params) + k] = Params[k]
           /\ \A k \in 1..d : \/ seeded[k] = None
                              \/ \E j \in 1..Len(Params) : k = d - Len(Params) + j /\ seeded[k] = Params[j]
  <1> DEFINE p == Len(Params)
             seeded == SeedTopLabels(d, Params)
  <1>1. p \in Nat /\ p <= d /\ \A k \in 1..p : Params[k] \in Label
    BY VariablesAssumption DEF Label
  <1>2. seeded = [k \in 1..d |-> IF p <= d /\ k > d - p THEN Params[k - (d - p)] ELSE None]
    BY DEF SeedTopLabels
  <1> HIDE DEF p, seeded
  <1>3. ASSUME NEW k \in 1..d
        PROVE  \/ k > d - p /\ k - (d - p) \in 1..p /\ seeded[k] = Params[k - (d - p)]
               \/ ~(k > d - p) /\ seeded[k] = None
    <2>1. k > d - p => k - (d - p) \in 1..p
      BY <1>1
    <2>2. seeded[k] = IF p <= d /\ k > d - p THEN Params[k - (d - p)] ELSE None
      BY <1>2
    <2>3. QED
      BY <1>1, <2>1, <2>2
  <1>4. ASSUME NEW k \in 1..p PROVE seeded[d - p + k] = Params[k]
    <2> DEFINE i == d - p + k
    <2>1. i \in 1..d /\ i > d - p /\ i - (d - p) = k
      BY <1>1
    <2> HIDE DEF i
    <2>2. QED
      BY <1>3, <2>1 DEF i
  <1>5. ASSUME NEW k \in 1..d
        PROVE  \/ seeded[k] = None
               \/ \E j \in 1..p : k = d - p + j /\ seeded[k] = Params[j]
    <2>1. CASE k > d - p
      <3> DEFINE j == k - (d - p)
      <3>1. j \in 1..p /\ k = d - p + j /\ seeded[k] = Params[j]
        BY <1>1, <1>3, <2>1
      <3> HIDE DEF j
      <3>2. QED
        BY <3>1
    <2>2. CASE ~(k > d - p)
      BY <1>3, <2>2
    <2>3. QED
      BY <2>1, <2>2
  <1>6. seeded \in [1..d -> Label]
    <2>1. \A k \in 1..d : seeded[k] \in Label
      BY <1>1, <1>3 DEF Label
    <2>2. QED
      BY <1>2, <2>1
  <1>7. seeded \in Seq(Label) /\ Len(seeded) = d
    BY <1>6
  <1>8. QED
    BY <1>4, <1>5, <1>7 DEF p, seeded

\* The function that is called finds its parameters labelled, if it was seeded.
LEMMA CallKeeps == ASSUME IInv, NEW into \in Intos, CallInto(into) PROVE IInv'
  <1> DEFINE low == LowOf(Len(callers))
             p == Len(Params)
             d == Top - 1
             n == Len(callers)
             here == [home |-> home, settled |-> settled, assigned |-> assigned, stmt |-> stmt]
  <1>1. /\ stmt # None /\ stmt.kind \notin {"drop", "return"} /\ Temps >= p + 2
        /\ stack' = After(JUMP, <<>>)
        /\ slots' = IF into = "seed" THEN SeedTopLabels(d, Params) ELSE Reset
        /\ synced' = (into = "seed") /\ callers' = Append(callers, here)
        /\ home' = CalleeHome(d) /\ settled' = {Params[k] : k \in 1..p}
        /\ assigned' = {} /\ stmt' = None
    BY DEF CallInto
  <1>2. Running
    BY <1>1 DEF Running
  <1>3. /\ stmt \in StatementRecord
        /\ PlacesOK(home, settled, assigned, low) /\ RunningOK(home, settled, stmt, low)
        /\ stack \in Seq(Vals) /\ slots \in Seq(Label) /\ Top = Len(stack) /\ Top \in Nat
        /\ home \in [Names -> Nat] /\ settled \in SUBSET Names /\ assigned \in SUBSET Names
        /\ stmt.base \in Nat /\ stmt.base <= Top /\ stmt.kind \in Kind
    BY <1>2, RunningFacts
  <1>4. callers \in Seq(Caller) /\ n \in Nat
    BY DEF IInv, Types
  <1>5. /\ p \in Nat /\ \A k \in 1..p : Params[k] \in Names
        /\ \A j, k \in 1..p : Params[j] = Params[k] => j = k
    BY VariablesAssumption
  <1> HIDE DEF low, p
  <1>6. d \in Nat /\ d >= stmt.base + p + 1 /\ p <= d /\ 1 <= Top
    BY <1>1, <1>3, <1>5 DEF Temps
  <1>7. here \in Caller
    BY <1>3 DEF Caller
  <1> HIDE DEF d
  <1>8. /\ callers' \in Seq(Caller) /\ Len(callers') = n + 1 /\ callers'[n + 1] = here
        /\ \A k \in 1..n : callers'[k] = callers[k]
    <2> HIDE DEF here
    <2>1. QED
      BY <1>1, <1>4, <1>7
  <1>9. /\ home' \in [Names -> Nat]
        /\ \A k \in 1..p : home'[Params[k]] = d - p + k
        /\ \A v \in Names : (\A k \in 1..p : Params[k] # v) => home'[v] = 0
    BY <1>1, <1>6, CalleePlaces DEF p
  <1>10. stack' \in Seq(Vals) /\ Len(stack') = d
    <2>1. JUMP \in {POP, JUMP, JUMPDEST} /\ Takes(JUMP) <= Top /\ d = Top - Takes(JUMP)
      BY <1>6, PlainOpcodes DEF d
    <2>2. After(JUMP, <<>>) \in Seq(Vals) /\ Len(After(JUMP, <<>>)) = d
      BY <1>3, <2>1, PlainElements
    <2>3. QED
      BY <1>1, <2>2
  <1> DEFINE seeded == SeedTopLabels(d, Params)
  <1>11. /\ seeded \in Seq(Label) /\ Len(seeded) = d
         /\ \A k \in 1..p : seeded[d - p + k] = Params[k]
         /\ \A k \in 1..d : \/ seeded[k] = None
                            \/ \E j \in 1..p : k = d - p + j /\ seeded[k] = Params[j]
    BY <1>6, SeedElements DEF p
  <1>12. slots' \in {seeded, << >>} /\ (synced' => slots' = seeded)
    BY <1>1 DEF Reset
  <1> HIDE DEF seeded
  <1>13. Types'
    <2>1. slots' \in Seq(Label)
      <3>1. << >> \in Seq(Label)
        OBVIOUS
      <3>2. QED
        BY <1>11, <1>12, <3>1
    <2>2. settled' \in SUBSET Names /\ assigned' \in SUBSET Names /\ synced' \in BOOLEAN
      BY <1>1, <1>5
    <2>3. QED
      BY <1>1, <1>8, <1>9, <1>10, <2>1, <2>2 DEF Types
  <1>14. ASSUME NEW k \in 0..n PROVE LowOf(k)' = LowOf(k)
    <2>1. k = 0 \/ k \in 1..n
      BY <1>4
    <2>2. QED
      BY <1>8, <2>1 DEF LowOf
  <1>15. CallersOK'
    <2>1. ASSUME NEW k \in 1..(n + 1)
          PROVE  /\ PlacesOK(callers'[k].home, callers'[k].settled, callers'[k].assigned, LowOf(k - 1)')
                 /\ RunningOK(callers'[k].home, callers'[k].settled, callers'[k].stmt, LowOf(k - 1)')
                 /\ callers'[k].stmt.kind \in {"declare", "assign", "eval"}
      <3>1. CASE k \in 1..n
        <4>1. k - 1 \in 0..n
          BY <1>4, <3>1
        <4>2. /\ PlacesOK(callers[k].home, callers[k].settled, callers[k].assigned, LowOf(k - 1))
              /\ RunningOK(callers[k].home, callers[k].settled, callers[k].stmt, LowOf(k - 1))
              /\ callers[k].stmt.kind \in {"declare", "assign", "eval"}
          BY <3>1 DEF IInv, CallersOK
        <4>3. callers'[k] = callers[k] /\ LowOf(k - 1)' = LowOf(k - 1)
          BY <1>8, <1>14, <3>1, <4>1
        <4>4. QED
          BY <4>2, <4>3
      <3>2. CASE k = n + 1
        <4>1. k - 1 = n /\ k - 1 \in 0..n
          BY <1>4, <3>2
        <4>2. LowOf(k - 1)' = LowOf(k - 1)
          BY <1>14, <4>1
        <4>3. LowOf(k - 1) = low
          BY <4>1 DEF low
        <4>4. callers'[k] = here
          BY <1>8, <3>2
        <4>5. stmt.kind \in {"declare", "assign", "eval"}
          BY <1>1, <1>3 DEF Kind
        <4>6. QED
          BY <1>3, <4>2, <4>3, <4>4, <4>5
      <3>3. QED
        BY <1>4, <3>1, <3>2
    <2>2. QED
      BY <1>8, <2>1 DEF CallersOK
  <1>16. ~Running'
    BY <1>1 DEF Running
  <1>17. ASSUME NEW v \in Names
         PROVE  \/ \E k \in 1..p : v = Params[k] /\ home'[v] = d - p + k
                \/ (\A k \in 1..p : Params[k] # v) /\ home'[v] = 0
    BY <1>9
  <1>18. FunctionOK'
    <2>1. LowOf(Len(callers))' = stmt.base + 1
      BY <1>4, <1>8 DEF LowOf
    <2> DEFINE l == stmt.base + 1
    <2>2. \A k \in 1..p : d - p + k > l /\ d - p + k <= d /\ d - p + k > 0
      BY <1>3, <1>5, <1>6
    <2>3. l \in Nat /\ d >= l
      BY <1>3, <1>5, <1>6
    <2> HIDE DEF l
    <2>4. assigned' \subseteq settled'
      BY <1>1
    <2>5. \A v \in settled' : home'[v] > 0
      BY <1>1, <1>9, <2>2
    <2>6. \A v \in Names : (home'[v] > 0 => home'[v] > l) /\ home'[v] <= d
      <3>1. ASSUME NEW v \in Names PROVE (home'[v] > 0 => home'[v] > l) /\ home'[v] <= d
        <4>1. CASE \E k \in 1..p : v = Params[k] /\ home'[v] = d - p + k
          BY <2>2, <4>1
        <4>2. CASE home'[v] = 0
          BY <1>6, <4>2
        <4>3. QED
          BY <1>17, <4>1, <4>2
      <3>2. QED
        BY <3>1
    <2>7. ASSUME NEW v \in Names, NEW w \in Names, home'[v] = home'[w], home'[v] > 0 PROVE v = w
      <3>1. PICK j \in 1..p : v = Params[j] /\ home'[v] = d - p + j
        BY <1>17, <2>7
      <3>2. PICK k \in 1..p : w = Params[k] /\ home'[w] = d - p + k
        BY <1>17, <2>7
      <3>3. j = k
        BY <1>5, <1>6, <2>7, <3>1, <3>2
      <3>4. QED
        BY <3>1, <3>2, <3>3
    <2>8. PlacesOK(home', settled', assigned', l)
      BY <2>4, <2>5, <2>6, <2>7 DEF PlacesOK
    <2>9. PlacesOK(home', settled', assigned', LowOf(Len(callers))') /\ LowOf(Len(callers))' = l
      BY <2>1, <2>8 DEF l
    <2>10. Top' = d
      BY <1>10 DEF Top
    <2>11. QED
      BY <1>16, <2>3, <2>6, <2>9, <2>10 DEF FunctionOK
  <1>19. ASSUME synced' PROVE LabelsOK'
    <2>1. slots' = seeded /\ Len(slots') = d /\ Len(stack') = d
      BY <1>10, <1>11, <1>12, <1>19
    <2>2. ASSUME NEW v \in settled'
          PROVE  /\ slots'[home'[v]] = v
                 /\ \A k \in 1..d : slots'[k] = v => stack'[k] = stack'[home'[v]]
      <3>1. PICK i \in 1..p : v = Params[i]
        BY <1>1
      <3>2. v \in Names /\ v # None /\ home'[v] = d - p + i
        BY <1>5, <1>9, <3>1, NamesAssumption
      <3>3. slots'[home'[v]] = v
        BY <1>11, <2>1, <3>1, <3>2
      <3>4. ASSUME NEW k \in 1..d, slots'[k] = v PROVE k = home'[v]
        <4>1. PICK j \in 1..p : k = d - p + j /\ slots'[k] = Params[j]
          BY <1>11, <2>1, <3>2, <3>4
        <4>2. j = i
          BY <1>5, <3>1, <3>4, <4>1
        <4>3. QED
          BY <3>2, <4>1, <4>2
      <3>5. QED
        BY <3>3, <3>4
    <2>3. ASSUME NEW v \in Names, home'[v] = 0, NEW k \in 1..d PROVE slots'[k] # v
      <3>1. \A j \in 1..p : d - p + j # 0
        BY <1>5, <1>6
      <3>2. \A j \in 1..p : Params[j] # v
        BY <1>17, <2>3, <3>1
      <3>3. v # None
        BY NamesAssumption
      <3>4. QED
        BY <1>11, <2>1, <3>2, <3>3
    <2>4. QED
      BY <1>1, <1>16, <2>1, <2>2, <2>3 DEF LabelsOK
  <1>20. QED
    BY <1>13, <1>15, <1>18, <1>19 DEF IInv

-----------------------------------------------------------------------------
(* The invariant, and what follows from it. *)

\* The first instruction of a frame: no value, no variable, no caller.
LEMMA InitHolds == Init => IInv
  <1> SUFFICES ASSUME Init PROVE IInv
    OBVIOUS
  <1>1. /\ stack = <<>> /\ slots = <<>> /\ home = [v \in Names |-> 0] /\ settled = {}
        /\ assigned = {} /\ stmt = None /\ callers = <<>> /\ synced = TRUE
    BY DEF Init
  <1>2. << >> \in Seq(Vals) /\ << >> \in Seq(Label) /\ << >> \in Seq(Caller)
    OBVIOUS
  <1>3. Types
    BY <1>1, <1>2 DEF Types
  <1>4. CallersOK
    BY <1>1 DEF CallersOK
  <1>5. FunctionOK
    BY <1>1 DEF FunctionOK, PlacesOK, Running, LowOf, Top
  <1>6. LabelsOK
    BY <1>1 DEF LabelsOK, Running
  <1>7. QED
    BY <1>3, <1>4, <1>5, <1>6 DEF IInv

\* Each instruction keeps variables in places of their own, below what is computed,
\* and the labels that were seeded or pushed on the values they name.
LEMMA Invariant == Spec => []IInv
  <1>1. IInv /\ [Next]_vars => IInv'
    <2> SUFFICES ASSUME IInv, [Next]_vars PROVE IInv'
      OBVIOUS
    <2>1. ASSUME NEW initialised \in BOOLEAN, Declare(initialised) PROVE IInv'
      BY <2>1, DeclareKeeps
    <2>2. CASE Literal
      BY <2>2, LiteralKeeps
    <2>3. CASE Read
      BY <2>3, ReadKeeps
    <2>4. CASE Operate
      BY <2>4, OperateKeeps
    <2>5. CASE SwapIn
      BY <2>5, SwapInKeeps
    <2>6. CASE Drop
      BY <2>6, DropKeeps
    <2>7. CASE Discard
      BY <2>7, DiscardKeeps
    <2>8. ASSUME NEW into \in Intos, CallInto(into) PROVE IInv'
      BY <2>8, CallKeeps
    <2>9. CASE Unwind
      BY <2>9, UnwindKeeps
    <2>10. CASE JumpOut
      BY <2>10, JumpOutKeeps
    <2>11. CASE UNCHANGED vars
      BY <2>11 DEF vars, IInv, Types, CallersOK, LowOf, FunctionOK, Running, Top, LabelsOK,
                   FreeBelow
    <2>12. QED
      BY <2>1, <2>2, <2>3, <2>4, <2>5, <2>6, <2>7, <2>8, <2>9, <2>10, <2>11 DEF Next
  <1>2. QED
    BY <1>1, InitHolds, PTL DEF Spec

\* In any function, however deep its expressions and calls are, the tracker has a
\* label for each slot of the stack until it is reset in the middle of one
\* (process_step at stack_tracker.rs:101, seed_top_labels at :73).
THEOREM LabelsMirror == Spec => []MirrorsSinceSeed
  <1>1. IInv => MirrorsSinceSeed
    BY DEF IInv, LabelsOK, MirrorsSinceSeed
  <1>2. QED
    BY <1>1, Invariant, PTL

\* A label that is on some slot has a topmost slot.
LEMMA SlotOfLabel ==
    ASSUME NEW L, NEW s \in Seq(L), NEW v, HasLabel(s, v)
    PROVE  SlotOf(s, v) \in 1..Len(s) /\ s[SlotOf(s, v)] = v
  <1> DEFINE n == Len(s)
             depths == {i \in 0..n : \E k \in 1..n : s[k] = v /\ i = n - k}
             first == CHOOSE k \in 1..Len(s) :
                          /\ s[k] = v
                          /\ \A j \in k + 1 .. Len(s) : s[j] # v
  <1>1. n \in Nat
    OBVIOUS
  <1>2. depths # {} /\ depths \in SUBSET Nat
    <2>1. PICK k \in 1..n : s[k] = v
      BY DEF HasLabel
    <2>2. n - k \in 0..n
      BY <1>1
    <2>3. n - k \in depths
      BY <2>1, <2>2
    <2>4. depths \in SUBSET Nat
      BY <1>1
    <2> HIDE DEF depths
    <2>5. QED
      BY <2>3, <2>4
  <1>3. PICK i \in depths : \A j \in depths : i <= j
    <2> HIDE DEF depths
    <2>1. QED
      BY <1>2, LeastExists
  <1>4. PICK k \in 1..n : s[k] = v /\ i = n - k
    BY <1>3
  <1>5. \A j \in k + 1 .. n : s[j] # v
    <2>1. SUFFICES ASSUME NEW j \in k + 1 .. n, s[j] = v PROVE FALSE
      OBVIOUS
    <2>2. j \in 1..n /\ n - j \in 0..n /\ ~(n - k <= n - j)
      BY <1>1
    <2>3. n - j \in depths
      BY <2>1, <2>2
    <2>4. QED
      BY <1>3, <1>4, <2>2, <2>3
  <1>6. first \in 1..Len(s) /\ s[first] = v
    BY <1>4, <1>5
  <1>7. SlotOf(s, v) = first
    BY DEF SlotOf
  <1> HIDE DEF first
  <1>8. QED
    BY <1>6, <1>7

\* As long as the tracker was only seeded, a variable that was given its value once
\* is shown with the value at its place, whatever was computed, declared, assigned
\* or returned since (get_variable_value at stack_tracker.rs:408).
THEOREM SettledAreShown == Spec => []SettledShown
  <1>1. IInv => SettledShown
    <2> SUFFICES ASSUME IInv, synced, NEW v \in settled \ assigned
                 PROVE  Shown(v) = stack[home[v]]
      BY DEF SettledShown
    <2>1. LabelsOK /\ slots \in Seq(Label) /\ Len(slots) = Len(stack) /\ v \in Names
      BY DEF IInv, LabelsOK, Types
    <2>2. /\ slots[home[v]] = v
          /\ \A k \in 1..Len(slots) : slots[k] = v => stack[k] = stack[home[v]]
      BY <2>1 DEF LabelsOK
    <2>3. home[v] \in 1..Len(slots)
      <3>1. home[v] \in Nat /\ home[v] > 0 /\ stack \in Seq(Vals)
        BY <2>1 DEF IInv, Types, FunctionOK, PlacesOK
      <3>2. home[v] <= Len(stack)
        <4>1. CASE Running
          <5>1. home[v] <= stmt.base /\ stmt.base <= Top /\ Top = Len(stack) /\ stmt.base \in Nat
            BY <2>1, <4>1, RunningFacts DEF RunningOK
          <5>2. QED
            BY <3>1, <5>1
        <4>2. CASE ~Running
          BY <2>1, <4>2 DEF IInv, FunctionOK, Top
        <4>3. QED
          BY <4>1, <4>2
      <3>3. QED
        BY <2>1, <3>1, <3>2
    <2>4. HasLabel(slots, v)
      BY <2>2, <2>3 DEF HasLabel
    <2>5. SlotOf(slots, v) \in 1..Len(slots) /\ slots[SlotOf(slots, v)] = v
      BY <2>1, <2>4, SlotOfLabel
    <2>6. SlotOf(slots, v) \in 1..Len(stack) /\ stack[SlotOf(slots, v)] = stack[home[v]]
      BY <2>1, <2>2, <2>5
    <2>7. QED
      BY <2>6 DEF Shown, GetVariableValue
  <1>2. QED
    BY <1>1, Invariant, PTL

-----------------------------------------------------------------------------
(* The memory tracker, for any locals, sizes, patterns of allocation and   *)
(* bound on the memory. The base of a region is a pointer cached at an     *)
(* earlier instruction; what makes it the right one is that between the    *)
(* load of the pointer and the store that raises it nobody else allocates. *)

\* The strengthening: in the middle of an allocation the cached pointer is the
\* loaded one, and that is still the free memory pointer.
CacheFresh == loaded # Unset => last_fmp = loaded /\ loaded = fmp

MemoryIInv == MemoryTypeOK /\ RegionsDisjoint /\ CacheFresh

Region == [name : MemoryNames, base : Nat, size : Nat \ {0}]

\* The regions one by one.
LEMMA RegionElements ==
    ASSUME MemoryTypeOK
    PROVE  /\ regions \in Seq(Region) /\ Len(regions) \in Nat
           /\ \A k \in 1..Len(regions) :
                 regions[k].name \in MemoryNames /\ regions[k].base \in Nat /\ regions[k].size \in Nat
  <1>1. regions \in Seq(Region)
    BY DEF MemoryTypeOK, Region
  <1>2. \A k \in 1..Len(regions) : regions[k] \in Region
    BY <1>1
  <1>3. QED
    BY <1>1, <1>2 DEF Region

\* A new tracker has no regions.
LEMMA MemoryInitIInv == MemoryInit => MemoryIInv
  <1> SUFFICES ASSUME MemoryInit PROVE MemoryIInv
    OBVIOUS
  <1>1. Len(Vars) \in Nat
    BY MemoryAssumption
  <1>2. MemoryTypeOK
    BY <1>1, MemoryAssumption DEF MemoryInit, MemoryTypeOK, INITIAL_FREE_MEMORY_POINTER
  <1>3. RegionsDisjoint /\ CacheFresh
    BY DEF MemoryInit, RegionsDisjoint, CacheFresh
  <1>4. QED
    BY <1>2, <1>3 DEF MemoryIInv

\* A set of indices that is not empty has a last one.
LEMMA LastIndex ==
    ASSUME NEW n \in Nat, NEW S \in SUBSET (1..n), S # {}
    PROVE  \E k \in S : \A j \in S : j <= k
  <1> DEFINE T == {n - k : k \in S}
  <1>1. T \in SUBSET Nat /\ T # {}
    <2>1. \A k \in S : n - k \in Nat
      OBVIOUS
    <2>2. QED
      BY ONLY <2>1, S # {}
  <1>2. PICK x \in T : \A y \in T : x <= y
    <2> HIDE DEF T
    <2>1. QED
      BY ONLY <1>1, LeastExists
  <1>3. PICK k \in S : x = n - k
    BY ONLY <1>2
  <1>4. ASSUME NEW j \in S PROVE j <= k
    <2>1. n - k <= n - j
      BY ONLY <1>2, <1>3, j \in S
    <2>2. j \in Nat /\ k \in Nat
      BY ONLY j \in S, k \in S, S \in SUBSET (1..n)
    <2>3. QED
      BY ONLY <2>1, <2>2, n \in Nat
  <1>5. QED
    BY <1>4

\* The variable a bump gives a region to is a local of the function.
LEMMA CandidateIsName ==
    ASSUME MemoryTypeOK, Candidate # Unset
    PROVE  Candidate \in MemoryNames
  <1>1. CASE declaring # Unset
    BY <1>1 DEF MemoryTypeOK, Candidate
  <1>2. CASE declaring = Unset
    <2>1. /\ Unregistered # {} /\ Unregistered \in SUBSET (1..declared)
          /\ declared \in 0..Len(Vars) /\ Len(Vars) \in Nat
      BY <1>2, MemoryAssumption DEF Candidate, Unregistered, MemoryTypeOK
    <2> DEFINE last == CHOOSE k \in Unregistered : \A j \in Unregistered : j <= k
    <2>1a. declared \in Nat
      BY <2>1
    <2>1b. \E k \in Unregistered : \A j \in Unregistered : j <= k
      BY <2>1, <2>1a, LastIndex
    <2>1c. last \in Unregistered
      BY <2>1b
    <2>2. last \in 1..declared
      BY <2>1, <2>1c
    <2>3. Candidate = InScope[last] /\ InScope[last] = Vars[last]
      BY <1>2, <2>1, <2>2 DEF Candidate, InScope
    <2> HIDE DEF last
    <2>4. QED
      BY <2>1, <2>2, <2>3 DEF MemoryNames
  <1>3. QED
    BY <1>1, <1>2

\* What a bump does to the regions: nothing, or one region more, of a local, from
\* the loaded pointer to the new one.
LEMMA BumpedRegions ==
    ASSUME MemoryIInv, NEW size \in Sizes, loaded # Unset
    PROVE  LET new == HandleFmpBump(PrevFmp, loaded + size) IN
           /\ new \in Seq(Region)
           /\ \/ new = regions
              \/ /\ Candidate # Unset /\ ~IsRegistered(Candidate)
                 /\ new = Append(regions, [name |-> Candidate, base |-> loaded, size |-> size])
  <1>1. /\ loaded = fmp /\ last_fmp = fmp /\ fmp \in Nat /\ size \in Nat \ {0}
        /\ regions \in Seq(Region)
    BY MemoryAssumption DEF MemoryIInv, MemoryTypeOK, CacheFresh, Region, INITIAL_FREE_MEMORY_POINTER
  <1>2. CASE Candidate # Unset /\ ~IsRegistered(Candidate)
    <2>1. /\ PrevFmp = loaded /\ loaded + size > PrevFmp
          /\ (loaded + size) - PrevFmp = size
      BY <1>1 DEF PrevFmp
    <2>2. [name |-> Candidate, base |-> loaded, size |-> size] \in Region
      BY <1>1, <1>2, CandidateIsName DEF MemoryIInv, Region
    <2>3. HandleFmpBump(PrevFmp, loaded + size) =
            Append(regions, [name |-> Candidate, base |-> loaded, size |-> size])
      BY <1>1, <1>2, <2>1 DEF HandleFmpBump
    <2>4. QED
      BY <1>1, <1>2, <2>2, <2>3, AppendProperties, SMTT(30)
  <1>3. CASE ~(Candidate # Unset /\ ~IsRegistered(Candidate))
    BY <1>1, <1>3 DEF HandleFmpBump
  <1>4. QED
    BY <1>2, <1>3

\* An allocation the tracker sees adds a region above all others.
LEMMA BumpIInv == ASSUME MemoryIInv, Bump PROVE MemoryIInv'
  <1> PICK size \in Sizes :
        /\ loaded # Unset /\ loaded + size <= MaxFmp
        /\ fmp' = loaded + size
        /\ last_fmp' = Observe
        /\ regions' = HandleFmpBump(PrevFmp, loaded + size)
        /\ object' = IF declaring # Unset THEN [object EXCEPT ![declaring] = loaded] ELSE object
        /\ loaded' = Unset
        /\ declaring' = Unset
        /\ UNCHANGED declared
    BY DEF Bump
  <1>1. /\ loaded = fmp /\ fmp \in INITIAL_FREE_MEMORY_POINTER..MaxFmp
        /\ size \in Nat \ {0} /\ MaxFmp \in Nat /\ regions \in Seq(Region)
    BY MemoryAssumption DEF MemoryIInv, MemoryTypeOK, CacheFresh, Region
  <1>2. /\ regions' \in Seq(Region)
        /\ \/ regions' = regions
           \/ regions' = Append(regions, [name |-> Candidate, base |-> loaded, size |-> size])
    BY BumpedRegions
  <1>3. MemoryTypeOK'
    <2>1. /\ fmp' \in INITIAL_FREE_MEMORY_POINTER..MaxFmp
          /\ last_fmp' \in INITIAL_FREE_MEMORY_POINTER..fmp'
      BY <1>1 DEF Observe, INITIAL_FREE_MEMORY_POINTER
    <2>2. object' \in [MemoryNames -> {Unset} \cup 3..MaxFmp]
      BY <1>1 DEF MemoryIInv, MemoryTypeOK, INITIAL_FREE_MEMORY_POINTER
    <2>3. QED
      BY <1>2, <2>1, <2>2 DEF MemoryIInv, MemoryTypeOK, Region
  <1>4. RegionsDisjoint'
    <2> DEFINE r == [name |-> Candidate, base |-> loaded, size |-> size]
    <2>1. /\ \A k \in 1..Len(regions) : regions[k].base + regions[k].size <= fmp
          /\ \A k \in 1..Len(regions) : regions[k].base \in Nat /\ regions[k].size \in Nat
          /\ \A j, k \in 1..Len(regions) :
                j < k => regions[j].base + regions[j].size <= regions[k].base
          /\ fmp \in Nat /\ fmp' = fmp + size
      BY <1>1, RegionElements DEF MemoryIInv, RegionsDisjoint, INITIAL_FREE_MEMORY_POINTER
    <2>2. CASE regions' = regions
      BY <1>1, <2>1, <2>2, SMTT(30) DEF RegionsDisjoint
    <2>3. CASE regions' = Append(regions, r)
      <3>1. /\ Len(regions) \in Nat /\ Len(regions') = Len(regions) + 1
            /\ \A k \in 1..Len(regions) : regions'[k] = regions[k]
            /\ regions'[Len(regions')] = r
        BY ONLY <1>1, <2>3, SMTT(30)
      <3>2. r.base = fmp /\ r.size = size
        BY <1>1
      <3> HIDE DEF r
      <3>3. ASSUME NEW k \in 1..Len(regions')
            PROVE  regions'[k].base + regions'[k].size <= fmp'
        <4>1. CASE k = Len(regions')
          BY <1>1, <2>1, <3>1, <3>2, <4>1
        <4>2. CASE k \in 1..Len(regions)
          BY ONLY <1>1, <2>1, <3>1, <4>2, SMTT(30)
        <4>3. QED
          BY <3>1, <4>1, <4>2
      <3>4. ASSUME NEW j \in 1..Len(regions'), NEW k \in 1..Len(regions'), j < k
            PROVE  regions'[j].base + regions'[j].size <= regions'[k].base
        <4>1. j \in 1..Len(regions)
          BY <3>1, <3>4
        <4>2. CASE k = Len(regions')
          BY <2>1, <3>1, <3>2, <4>1, <4>2
        <4>3. CASE k \in 1..Len(regions)
          BY <2>1, <3>1, <3>4, <4>1, <4>3
        <4>4. QED
          BY <3>1, <4>2, <4>3
      <3>5. QED
        BY <3>3, <3>4 DEF RegionsDisjoint
    <2>4. QED
      BY <1>2, <2>2, <2>3
  <1>5. CacheFresh'
    BY DEF CacheFresh
  <1>6. QED
    BY <1>3, <1>4, <1>5 DEF MemoryIInv

\* An allocation it does not see changes no region.
LEMMA GeneratedIInv == ASSUME MemoryIInv, Generated PROVE MemoryIInv'
  <1> PICK size \in Sizes :
        /\ loaded = Unset /\ fmp + size <= MaxFmp
        /\ fmp' = fmp + size
        /\ object' = IF declaring # Unset THEN [object EXCEPT ![declaring] = fmp] ELSE object
        /\ declaring' = Unset
        /\ UNCHANGED <<loaded, declared, last_fmp, regions>>
    BY DEF Generated
  <1>1. size \in Nat \ {0} /\ MaxFmp \in Nat /\ fmp \in INITIAL_FREE_MEMORY_POINTER..MaxFmp
    BY MemoryAssumption DEF MemoryIInv, MemoryTypeOK
  <1>2. object' \in [MemoryNames -> {Unset} \cup 3..MaxFmp]
    BY <1>1 DEF MemoryIInv, MemoryTypeOK, INITIAL_FREE_MEMORY_POINTER
  <1>3. MemoryTypeOK'
    BY <1>1, <1>2 DEF MemoryIInv, MemoryTypeOK, INITIAL_FREE_MEMORY_POINTER
  <1>4. RegionsDisjoint'
    <2>1. \A k \in 1..Len(regions) : regions[k].base \in Nat /\ regions[k].size \in Nat
      BY RegionElements DEF MemoryIInv
    <2>2. QED
      BY <1>1, <2>1 DEF MemoryIInv, RegionsDisjoint, INITIAL_FREE_MEMORY_POINTER
  <1>5. CacheFresh'
    BY DEF MemoryIInv, CacheFresh
  <1>6. QED
    BY <1>3, <1>4, <1>5 DEF MemoryIInv

\* The types of the state, disjoint regions, and the cached pointer of an
\* allocation, for every function.
THEOREM MemoryInvariant == MemorySpec => []MemoryIInv
  <1>1. ASSUME MemoryIInv, [MemoryNext]_memory_vars PROVE MemoryIInv'
    <2>1. CASE DeclareInMemory
      <3>1. /\ fmp' = fmp /\ loaded' = loaded /\ last_fmp' = last_fmp /\ regions' = regions
            /\ declared' = declared + 1 /\ declared < Len(Vars)
        BY <2>1 DEF DeclareInMemory
      <3>2a. declared \in 0..Len(Vars) /\ Len(Vars) \in Nat
        BY <1>1, MemoryAssumption DEF MemoryIInv, MemoryTypeOK
      <3>2b. declared + 1 \in 1..Len(Vars) /\ declared' \in 0..Len(Vars)
        BY ONLY <3>1, <3>2a
      <3>2. Vars[declared + 1] \in MemoryNames /\ Len(Vars) \in Nat /\ declared' \in 0..Len(Vars)
        BY ONLY <3>2a, <3>2b DEF MemoryNames
      <3>3. declaring' \in MemoryNames \cup {Unset}
        BY <2>1, <3>2 DEF DeclareInMemory
      <3>4. MaxFmp \in Nat /\ MaxFmp >= 4
        BY MemoryAssumption DEF INITIAL_FREE_MEMORY_POINTER
      <3>5. object' \in [MemoryNames -> {Unset} \cup 3..MaxFmp]
        BY <1>1, <2>1, <3>4 DEF DeclareInMemory, MemoryIInv, MemoryTypeOK
      <3>6. QED
        BY <1>1, <3>1, <3>2, <3>3, <3>5 DEF MemoryIInv, MemoryTypeOK, RegionsDisjoint, CacheFresh
    <2>2. CASE Load \/ Access
      BY <1>1, <2>2, SMTT(30) DEF Load, Access, Observe, env_vars, MemoryIInv, MemoryTypeOK, RegionsDisjoint, CacheFresh,
                        INITIAL_FREE_MEMORY_POINTER
    <2>3. CASE Bump
      BY <1>1, <2>3, BumpIInv
    <2>4. CASE Generated
      BY <1>1, <2>4, GeneratedIInv
    <2>5. CASE Again
      <3>1. Len(Vars) \in Nat
        BY MemoryAssumption
      <3>2. QED
        BY <1>1, <2>5, <3>1 DEF Again, MemoryIInv, MemoryTypeOK, RegionsDisjoint, CacheFresh
    <2>6. CASE UNCHANGED memory_vars
      BY <1>1, <2>6 DEF memory_vars, env_vars, MemoryIInv, MemoryTypeOK, RegionsDisjoint, CacheFresh
    <2>7. QED
      BY <1>1, <2>1, <2>2, <2>3, <2>4, <2>5, <2>6 DEF MemoryNext
  <1>2. QED
    BY MemoryInitIInv, <1>1, PTL DEF MemorySpec

\* The regions of the tracker are disjoint pieces of allocated memory, however the
\* function and the routines of solc allocate.
THEOREM RegionsStayDisjoint == MemorySpec => [](MemoryTypeOK /\ RegionsDisjoint)
  <1>1. MemoryIInv => MemoryTypeOK /\ RegionsDisjoint
    BY DEF MemoryIInv
  <1>2. QED
    BY <1>1, MemoryInvariant, PTL

\* A declaration gives its variable the object it made: the base cached by the
\* tracker is the pointer the allocation had loaded.
THEOREM DeclaredRegionsAreObjects == MemorySpec => RegionIsObject
  <1> DEFINE registers(v) == (declaring = v /\ ~IsRegistered(v) /\ IsRegistered(v)')
                              => regions'[RegionOf(v)'].base = object'[v]
  <1>1. ASSUME MemoryIInv, [MemoryNext]_memory_vars, NEW v \in MemoryNames,
               declaring = v, ~IsRegistered(v), IsRegistered(v)'
        PROVE  regions'[RegionOf(v)'].base = object'[v]
    <2>1. regions' # regions
      BY <1>1 DEF IsRegistered
    <2>2. PICK size \in Sizes :
            /\ loaded # Unset
            /\ regions' = HandleFmpBump(PrevFmp, loaded + size)
            /\ object' = IF declaring # Unset THEN [object EXCEPT ![declaring] = loaded] ELSE object
      BY <1>1, <2>1 DEF MemoryNext, DeclareInMemory, Load, Access, Bump, Generated, Again, memory_vars, env_vars
    <2>3. v # Unset /\ Candidate = v
      BY <1>1, MemoryAssumption DEF Candidate
    <2>4. object'[v] = loaded
      BY <1>1, <2>2, <2>3 DEF MemoryIInv, MemoryTypeOK
    <2> DEFINE r == [name |-> v, base |-> loaded, size |-> size]
    <2>5. regions' = Append(regions, r)
      BY <1>1, <2>1, <2>2, <2>3, BumpedRegions
    <2>6. /\ regions \in Seq(Region) /\ Len(regions) \in Nat
          /\ Len(regions') = Len(regions) + 1
          /\ regions'[Len(regions) + 1] = r
      BY <1>1, <2>5 DEF MemoryIInv, MemoryTypeOK, Region
    <2>7. \A k \in 1..Len(regions') :
             (regions'[k].name = v /\ \A j \in k + 1 .. Len(regions') : regions'[j].name # v)
                <=> k = Len(regions) + 1
      <3>1. regions'[Len(regions) + 1].name = v
        BY <2>6
      <3> HIDE DEF r
      <3>2. QED
        BY <2>6, <3>1
    <2>8. RegionOf(v)' = Len(regions) + 1
      <3>1. Len(regions) + 1 \in 1..Len(regions')
        BY <2>6
      <3>2. QED
        BY <1>1, <2>7, <3>1 DEF RegionOf
    <2>9. QED
      BY <2>4, <2>6, <2>8
  <1>2. MemoryIInv /\ [MemoryNext]_memory_vars => [\A v \in MemoryNames : registers(v)]_memory_vars
    BY <1>1
  <1>3. QED
    BY <1>2, MemoryInvariant, PTL DEF MemorySpec, RegionIsObject
=============================================================================
