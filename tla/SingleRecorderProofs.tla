-------------------------- MODULE SingleRecorderProofs --------------------------
(***************************************************************************)
(* What the recorder of a single contract keeps for every trace: the types *)
(* of its state, a tracker per frame, the values carried forward, and, as  *)
(* long as the transaction calls no other contract, the counter of the     *)
(* absorbed call.                                                          *)
(***************************************************************************)
EXTENDS SingleRecorder, FiniteSetTheorems, TLAPS

AllOp == CallOp \cup HaltOp \cup {"NONE", "OTHER", "JUMP", "SSTORE"}
EvmFrame == [code : Contract, owner : Contract, via : CallOp \cup {"NONE"}]
RoutineType == {"user", "generated"}
CallKind == {"toplevel", "frame", "routine"}

\* The transaction calls no other contract: what the source map and the layout
\* say of a pc and of a slot is true.
OwnCallsOnly == Callees \subseteq {"self"}

\* The live frames, and the entry that comes next.
FramesOK ==
    /\ i \in Nat /\ depth \in 1..MaxDepth /\ upcoming \in 0..MaxDepth
    /\ upcoming > 0 => upcoming <= depth + 1 /\ depth <= upcoming + 1
    /\ upcoming > depth => last \in CallOp
    /\ i = 0 => upcoming = 1 /\ depth = 1
    /\ evm \in Seq(EvmFrame) /\ Len(evm) = depth
    /\ routines \in Seq(Seq(RoutineType)) /\ Len(routines) = depth
    /\ world \in Storage
    /\ saved \in Seq(Storage) /\ Len(saved) = depth
    /\ last \in AllOp

-----------------------------------------------------------------------------
(* Vectors that follow the depth. *)

\* `pop' down to n elements.
LEMMA CutToShape ==
    ASSUME NEW S, NEW s \in Seq(S), NEW n \in Nat
    PROVE  /\ CutTo(s, n) \in Seq(S)
           /\ Len(CutTo(s, n)) = IF n < Len(s) THEN n ELSE Len(s)
           /\ \A k \in 1 .. Len(CutTo(s, n)) : CutTo(s, n)[k] = s[k]
  <1> DEFINE m == IF n < Len(s) THEN n ELSE Len(s)
  <1>1. m \in Nat /\ m <= Len(s)
    OBVIOUS
  <1>2. CutTo(s, n) = [k \in 1..m |-> s[k]]
    BY DEF CutTo
  <1> HIDE DEF m
  <1>3. CutTo(s, n) \in [1..m -> S]
    BY <1>1, <1>2
  <1>4. CutTo(s, n) \in Seq(S) /\ Len(CutTo(s, n)) = m
    BY <1>1, <1>3
  <1>5. QED
    BY <1>1, <1>2, <1>4 DEF m

\* One element of a sequence replaced.
LEMMA ReplacedShape ==
    ASSUME NEW S, NEW s \in Seq(S), NEW k, NEW e \in S
    PROVE  /\ [s EXCEPT ![k] = e] \in Seq(S)
           /\ Len([s EXCEPT ![k] = e]) = Len(s)
           /\ \A j \in 1..Len(s) : [s EXCEPT ![k] = e][j] = IF j = k THEN e ELSE s[j]
  <1> DEFINE t == [s EXCEPT ![k] = e]
  <1>1. t = [j \in 1..Len(s) |-> IF j = k THEN e ELSE s[j]]
    OBVIOUS
  <1> HIDE DEF t
  <1>2. t \in [1..Len(s) -> S]
    BY <1>1
  <1>3. t \in Seq(S) /\ Len(t) = Len(s)
    BY <1>2
  <1>4. \A j \in 1..Len(s) : t[j] = IF j = k THEN e ELSE s[j]
    BY <1>1
  <1>5. QED
    BY <1>3, <1>4 DEF t

\* A vector follows the depth: it keeps what it has up to there, and gets the
\* default for a frame that is new.
LEMMA ResizedShape ==
    ASSUME NEW S, NEW s \in Seq(S), NEW e \in S,
           depth \in Nat, Len(s) = depth, NEW d \in 1 .. depth + 1
    PROVE  /\ Resized(s, d, e) \in Seq(S)
           /\ Resized(s, d, e) = [k \in 1..d |-> IF k <= Len(s) THEN s[k] ELSE e]
           /\ Len(Resized(s, d, e)) = d
           /\ \A k \in 1..d :
                 Resized(s, d, e)[k] = IF k <= Len(s) THEN s[k] ELSE e
  <1> DEFINE c == IF d < depth THEN CutTo(s, d) ELSE s
  <1>1. d \in Nat /\ Len(s) \in Nat
    OBVIOUS
  <1>2. /\ c \in Seq(S)
        /\ Len(c) = IF d < depth THEN d ELSE Len(s)
        /\ \A k \in 1..Len(c) : c[k] = s[k]
    BY <1>1, CutToShape
  <1> HIDE DEF c
  <1>3. Len(c) \in Nat /\ Len(c) <= d
    <2>1. CASE d < depth
      BY <1>1, <1>2, <2>1
    <2>2. CASE ~(d < depth)
      BY <1>1, <1>2, <2>2
    <2>3. QED
      BY <2>1, <2>2
  <1>4. Resized(s, d, e) = [k \in 1..d |-> IF k <= Len(c) THEN c[k] ELSE e]
    <2>1. Resized(s, d, e) = [k \in 1 .. (IF Len(c) < d THEN d ELSE Len(c)) |->
                                IF k <= Len(c) THEN c[k] ELSE e]
      BY DEF Resized, GrowTo, c
    <2>2. (IF Len(c) < d THEN d ELSE Len(c)) = d
      BY <1>1, <1>3
    <2>3. QED
      BY <2>1, <2>2
  <1>5. \A k \in 1..d : (IF k <= Len(c) THEN c[k] ELSE e) \in S
    BY <1>1, <1>2, <1>3
  <1>6. Resized(s, d, e) \in [1..d -> S]
    BY <1>4, <1>5
  <1>7. Resized(s, d, e) \in Seq(S) /\ Len(Resized(s, d, e)) = d
    BY <1>1, <1>6
  <1>8. ASSUME NEW k \in 1..d
        PROVE  Resized(s, d, e)[k] = IF k <= Len(s) THEN s[k] ELSE e
    <2>1. Resized(s, d, e)[k] = IF k <= Len(c) THEN c[k] ELSE e
      BY <1>4
    <2>2. k <= Len(c) <=> k <= Len(s)
      BY <1>1, <1>2
    <2>3. QED
      BY <1>1, <1>2, <1>3, <2>1, <2>2
  <1>9. Resized(s, d, e) = [k \in 1..d |-> IF k <= Len(s) THEN s[k] ELSE e]
    BY <1>4, <1>8
  <1>10. QED
    BY <1>7, <1>8, <1>9

-----------------------------------------------------------------------------
(* One iteration. *)

\* What the entry does to the internal functions of its frame, and what it writes.
Effect(op, jump, slot, val, internal) ==
    \/ /\ op \in CallOp \cup HaltOp \cup {"OTHER"} /\ jump = "-" /\ internal = Here
    \/ /\ op = "JUMP" /\ jump = "i"
       /\ \E r \in RoutineType : /\ InGenerated(Here) => r = "generated"
                                 /\ internal = Append(Here, r)
    \/ /\ op = "JUMP" /\ jump = "o"
       /\ Here # <<>> /\ internal = CutTo(Here, Len(Here) - 1)
    \/ /\ op = "SSTORE" /\ jump = "-" /\ internal = Here
       /\ slot \in Slots /\ val \in Vals

\* Every step but the last is one instruction.
LEMMA StepIsInstruction ==
    ASSUME Next, ~Finalize
    PROVE  /\ Live
           /\ \E to \in Target, op \in AllOp, jump \in {"i", "o", "-"} :
              \E slot, val, internal :
                 /\ Effect(op, jump, slot, val, internal)
                 /\ Instruction(op, to, jump, slot, val, internal)
  <1> DEFINE goal == \E to \in Target, op \in AllOp, jump \in {"i", "o", "-"} :
                     \E slot, val, internal :
                        /\ Effect(op, jump, slot, val, internal)
                        /\ Instruction(op, to, jump, slot, val, internal)
  <1>1. ASSUME NEW to \in Target, NEW op \in AllOp, NEW jump \in {"i", "o", "-"},
               NEW slot, NEW val, NEW internal,
               Effect(op, jump, slot, val, internal),
               Instruction(op, to, jump, slot, val, internal)
        PROVE  goal
    BY <1>1
  <1> HIDE DEF goal
  <1>2. CallOp \cup HaltOp \cup {"OTHER", "JUMP", "SSTORE"} \subseteq AllOp
    BY DEF AllOp
  <1>3. ASSUME Execute PROVE goal
    <2>1. PICK to \in Target : Instruction("OTHER", to, "-", None, None, Here)
      BY <1>3 DEF Execute
    <2>2. Effect("OTHER", "-", None, None, Here)
      BY DEF Effect
    <2>3. QED
      BY <1>1, <1>2, <2>1, <2>2
  <1>4. ASSUME Halt PROVE goal
    <2>1. PICK to \in Target, op \in HaltOp : Instruction(op, to, "-", None, None, Here)
      BY <1>4 DEF Halt
    <2>2. Effect(op, "-", None, None, Here)
      BY DEF Effect
    <2>3. QED
      BY <1>1, <1>2, <2>1, <2>2
  <1>5. ASSUME CallInstruction PROVE goal
    <2>1. PICK to \in Target, op \in Ops : Instruction(op, to, "-", None, None, Here)
      BY <1>5 DEF CallInstruction
    <2>2. op \in CallOp
      BY TransactionAssumption
    <2>3. Effect(op, "-", None, None, Here)
      BY <2>2 DEF Effect
    <2>4. QED
      BY <1>1, <1>2, <2>1, <2>2, <2>3
  <1>6. ASSUME EnterRoutine PROVE goal
    <2>1. PICK to \in Target, r \in Routines :
             /\ InGenerated(Here) => r = "generated"
             /\ Instruction("JUMP", to, "i", None, None, Append(Here, r))
      BY <1>6 DEF EnterRoutine
    <2>2. r \in RoutineType
      BY TransactionAssumption DEF RoutineType
    <2>3. Effect("JUMP", "i", None, None, Append(Here, r))
      BY <2>1, <2>2 DEF Effect
    <2>4. QED
      BY <1>1, <1>2, <2>1, <2>3
  <1>7. ASSUME LeaveRoutine PROVE goal
    <2>1. PICK to \in Target :
             /\ Here # <<>>
             /\ Instruction("JUMP", to, "o", None, None, CutTo(Here, Len(Here) - 1))
      BY <1>7 DEF LeaveRoutine
    <2>2. Effect("JUMP", "o", None, None, CutTo(Here, Len(Here) - 1))
      BY <2>1 DEF Effect
    <2>3. QED
      BY <1>1, <1>2, <2>1, <2>2
  <1>8. ASSUME Store PROVE goal
    <2>1. PICK to \in Target, slot \in Slots, val \in Vals :
             Instruction("SSTORE", to, "-", slot, val, Here)
      BY <1>8 DEF Store
    <2>2. Effect("SSTORE", "-", slot, val, Here)
      BY DEF Effect
    <2>3. QED
      BY <1>1, <1>2, <2>1, <2>2
  <1>9. Live /\ goal
    BY <1>3, <1>4, <1>5, <1>6, <1>7, <1>8 DEF Next
  <1>10. QED
    BY <1>9 DEF goal

\* An instruction, with the entry the recorder processes for it.
IsEntry(log, to, op, jump, slot, val) ==
    LET live == EvmAt(upcoming, to)[upcoming] IN
    /\ log.depth = upcoming /\ log.op = op /\ log.slot = slot /\ log.val = val
    /\ log.loc \in LocsAt(live, Here) /\ log.jump \in Jumps(live, jump)

\* Every instruction of the transaction is processed by one iteration.
LEMMA InstructionHasEntry ==
    ASSUME NEW to, NEW op, NEW jump, NEW slot, NEW val, NEW internal,
           Instruction(op, to, jump, slot, val, internal)
    PROVE  \E log : IsEntry(log, to, op, jump, slot, val) /\ Process(log)
  <1>1. PICK loc \in LocsAt(EvmAt(upcoming, to)[upcoming], Here),
             j \in Jumps(EvmAt(upcoming, to)[upcoming], jump) :
           Process([LogEntry(upcoming, op, loc, j) EXCEPT !.slot = slot, !.val = val])
    BY DEF Instruction, Here
  <1>2. IsEntry([LogEntry(upcoming, op, loc, j) EXCEPT !.slot = slot, !.val = val],
                to, op, jump, slot, val)
    BY DEF IsEntry, LogEntry
  <1>3. QED
    BY <1>1, <1>2

\* The state of the transaction after it.
LEMMA InstructionMoves ==
    ASSUME NEW to, NEW op, NEW jump, NEW slot, NEW val, NEW internal,
           Instruction(op, to, jump, slot, val, internal)
    PROVE  /\ i' = i + 1 /\ depth' = upcoming /\ last' = op /\ done' = done
           /\ upcoming' \in Follows(op, upcoming)
           /\ evm' = EvmAt(upcoming, to)
           /\ saved' = SavedAt(upcoming)
           /\ routines' = [RoutinesAt(upcoming) EXCEPT ![upcoming] = internal]
           /\ world' = IF op = "SSTORE"
                       THEN [WorldAt(upcoming) EXCEPT
                               ![EvmAt(upcoming, to)[upcoming].owner][slot] = val]
                       ELSE WorldAt(upcoming)
           /\ writer' = WriterAfter(upcoming, op, EvmAt(upcoming, to)[upcoming].owner,
                                    slot)
  <1>1. PICK log : IsEntry(log, to, op, jump, slot, val) /\ Process(log)
    BY InstructionHasEntry
  <1>2. i' = i + 1 /\ depth' = upcoming /\ last' = op /\ done' = done
    BY <1>1 DEF Process, IsEntry
  <1>3. QED
    BY <1>2 DEF Instruction

\* The depth of the next entry differs from this one's by at most one.
LEMMA FollowsBounds ==
    ASSUME NEW op \in AllOp, NEW d \in Nat \ {0}, NEW n \in Follows(op, d)
    PROVE  /\ n \in Nat /\ (n > 0 => n <= MaxDepth /\ n <= d + 1 /\ d <= n + 1)
           /\ n > d => op \in CallOp
  BY DEF Follows, NextDepths

\* Where the next entry can be.
LEMMA UpcomingBounds ==
    ASSUME FramesOK, Live
    PROVE  /\ upcoming \in 1 .. depth + 1 /\ upcoming \in 1..upcoming
           /\ upcoming \in Nat \ {0} /\ depth \in Nat \ {0}
           /\ upcoming <= MaxDepth /\ depth <= upcoming + 1
           /\ upcoming > depth => upcoming = depth + 1 /\ last \in CallOp
           /\ upcoming < depth => upcoming = depth - 1
           /\ i = 0 => upcoming = depth
  BY BoundsAssumption DEF FramesOK, Live

-----------------------------------------------------------------------------
(* The transaction. *)

\* The live frames at the next entry.
LEMMA EvmShape ==
    ASSUME FramesOK, Live, NEW to \in Target
    PROVE  /\ EvmAt(upcoming, to) \in Seq(EvmFrame)
           /\ Len(EvmAt(upcoming, to)) = upcoming
           /\ EvmAt(upcoming, to)[upcoming] \in EvmFrame
           /\ \A k \in 1..upcoming : k <= depth => EvmAt(upcoming, to)[k] = evm[k]
           /\ upcoming > depth =>
                 EvmAt(upcoming, to)[upcoming] = Callee(evm[depth], last, to)
  <1>1. /\ upcoming \in 1 .. depth + 1 /\ upcoming \in Nat \ {0} /\ depth \in Nat \ {0}
        /\ upcoming > depth => upcoming = depth + 1 /\ last \in CallOp
    BY UpcomingBounds
  <1>2. evm \in Seq(EvmFrame) /\ Len(evm) = depth
    BY DEF FramesOK
  <1>3. CASE upcoming > depth
    <2>1. to \in Contract
      BY <1>3, TransactionAssumption DEF Target
    <2>2a. evm[depth] \in EvmFrame
      BY <1>1, <1>2
    <2>2. evm[depth].owner \in Contract
      BY <2>2a DEF EvmFrame
    <2>3. Callee(evm[depth], last, to) \in EvmFrame
      BY <1>1, <1>3, <2>1, <2>2 DEF Callee, EvmFrame
    <2>4. EvmAt(upcoming, to) = Append(evm, Callee(evm[depth], last, to))
      BY <1>3 DEF EvmAt
    <2>5. QED
      BY <1>1, <1>2, <1>3, <2>3, <2>4
  <1>4. CASE ~(upcoming > depth)
    <2>1. EvmAt(upcoming, to) = CutTo(evm, upcoming)
      BY <1>4 DEF EvmAt
    <2>2. QED
      BY <1>1, <1>2, <1>4, <2>1, CutToShape
  <1>5. QED
    BY <1>3, <1>4

\* The internal functions of the live frames at the next entry, and those of the
\* frame that executes it.
LEMMA RoutinesShape ==
    ASSUME FramesOK, Live
    PROVE  /\ RoutinesAt(upcoming) \in Seq(Seq(RoutineType))
           /\ Len(RoutinesAt(upcoming)) = upcoming
           /\ \A k \in 1..upcoming :
                 RoutinesAt(upcoming)[k] = IF k <= depth THEN routines[k] ELSE <<>>
           /\ Here \in Seq(RoutineType)
  <1>1. /\ upcoming \in 1 .. depth + 1 /\ upcoming \in 1..upcoming /\ depth \in Nat
    BY UpcomingBounds
  <1>2. routines \in Seq(Seq(RoutineType)) /\ Len(routines) = depth
    BY DEF FramesOK
  <1> DEFINE S == Seq(RoutineType)
             none == <<>>
  <1>3. none \in S /\ routines \in Seq(S)
    BY <1>2
  <1>4. RoutinesAt(upcoming) = Resized(routines, upcoming, none)
    BY DEF RoutinesAt
  <1> HIDE DEF S, none
  <1>5. /\ RoutinesAt(upcoming) \in Seq(S)
        /\ Len(RoutinesAt(upcoming)) = upcoming
        /\ \A k \in 1..upcoming :
              RoutinesAt(upcoming)[k] = IF k <= Len(routines) THEN routines[k] ELSE none
    <2> DEFINE r == Resized(routines, upcoming, none)
    <2>1. /\ none \in S /\ routines \in Seq(S) /\ depth \in Nat /\ Len(routines) = depth
          /\ upcoming \in 1 .. depth + 1
      BY <1>1, <1>2, <1>3
    <2>2. r \in Seq(S)
      BY ONLY <2>1, ResizedShape
    <2>3. r = [k \in 1..upcoming |-> IF k <= Len(routines) THEN routines[k] ELSE none]
      BY ONLY <2>1, ResizedShape
    <2>4. RoutinesAt(upcoming) = r
      BY <1>4
    <2> HIDE DEF r
    <2>5. Len(r) = upcoming
      BY <1>1, <2>3
    <2>6. QED
      BY <2>2, <2>3, <2>4, <2>5
  <1>6. Here \in S
    BY <1>1, <1>5 DEF Here
  <1>7. QED
    BY <1>2, <1>5, <1>6 DEF S, none

\* What an instruction leaves of the functions of its frame.
LEMMA InternalShape ==
    ASSUME FramesOK, Live, NEW op, NEW jump, NEW slot, NEW val, NEW internal,
           Effect(op, jump, slot, val, internal)
    PROVE  internal \in Seq(RoutineType)
  <1>1. Here \in Seq(RoutineType)
    BY RoutinesShape
  <1>2. ASSUME Here # <<>> PROVE CutTo(Here, Len(Here) - 1) \in Seq(RoutineType)
    <2>1. Len(Here) - 1 \in Nat
      BY <1>1, <1>2
    <2>2. QED
      BY <1>1, <2>1, CutToShape
  <1>3. QED
    BY <1>1, <1>2 DEF Effect

\* What a frame that failed leaves of the storage, and what a new one saves.
LEMMA StorageShape ==
    ASSUME FramesOK, Live
    PROVE  /\ WorldAt(upcoming) \in Storage
           /\ SavedAt(upcoming) \in Seq(Storage) /\ Len(SavedAt(upcoming)) = upcoming
           /\ \A d \in 1..upcoming :
                 SavedAt(upcoming)[d] = IF d <= depth THEN saved[d] ELSE world
  <1>1. /\ upcoming \in 1 .. depth + 1 /\ upcoming \in Nat \ {0} /\ depth \in Nat \ {0}
        /\ upcoming > depth => upcoming = depth + 1
    BY UpcomingBounds
  <1>2. world \in Storage /\ saved \in Seq(Storage) /\ Len(saved) = depth
    BY DEF FramesOK
  <1>3. WorldAt(upcoming) \in Storage
    BY <1>1, <1>2 DEF WorldAt
  <1>4. CASE upcoming > depth
    BY <1>1, <1>2, <1>3, <1>4 DEF SavedAt
  <1>5. CASE ~(upcoming > depth)
    <2>1. SavedAt(upcoming) = CutTo(saved, upcoming)
      BY <1>5 DEF SavedAt
    <2>2. QED
      BY <1>1, <1>2, <1>3, <1>5, <2>1, CutToShape
  <1>6. QED
    BY <1>4, <1>5

\* A write changes one slot of one contract.
LEMMA WriteShape ==
    ASSUME NEW w \in Storage, NEW c \in Contract, NEW slot \in Slots, NEW val \in Vals
    PROVE  /\ [w EXCEPT ![c][slot] = val] \in Storage
           /\ [w EXCEPT ![c][slot] = val][c][slot] = val
           /\ \A s \in Slots : s # slot => [w EXCEPT ![c][slot] = val][c][s] = w[c][s]
  BY DEF Storage

\* FramesOK is inductive.
LEMMA InitFramesOK == Init => FramesOK
  <1> SUFFICES ASSUME Init PROVE FramesOK
    OBVIOUS
  <1>1. world \in Storage
    BY DataAssumption DEF Init, Storage
  <1>2. /\ [code |-> "self", owner |-> "self", via |-> "NONE"] \in EvmFrame
        /\ <<>> \in Seq(RoutineType)
    BY DEF EvmFrame, Contract
  <1>3. QED
    BY <1>1, <1>2, BoundsAssumption DEF Init, FramesOK, AllOp

\* No step of the transaction or of the recorder breaks it.
LEMMA FramesKept == FramesOK /\ [Next]_vars => FramesOK'
  <1> SUFFICES ASSUME FramesOK, [Next]_vars PROVE FramesOK'
    OBVIOUS
  <1>1. CASE Finalize \/ UNCHANGED vars
    BY <1>1 DEF Finalize, vars, evm_vars, rec_vars, FramesOK
  <1>2. CASE Next /\ ~Finalize
    <2>1. PICK to \in Target, op \in AllOp, jump \in {"i", "o", "-"} :
          \E slot, val, internal :
             /\ Live
             /\ Effect(op, jump, slot, val, internal)
             /\ Instruction(op, to, jump, slot, val, internal)
      BY <1>2, StepIsInstruction
    <2>2. PICK slot, val, internal :
             /\ Live
             /\ Effect(op, jump, slot, val, internal)
             /\ Instruction(op, to, jump, slot, val, internal)
      BY <2>1
    <2>3. /\ i' = i + 1 /\ depth' = upcoming /\ last' = op
          /\ upcoming' \in Follows(op, upcoming)
          /\ evm' = EvmAt(upcoming, to)
          /\ saved' = SavedAt(upcoming)
          /\ routines' = [RoutinesAt(upcoming) EXCEPT ![upcoming] = internal]
          /\ world' = IF op = "SSTORE"
                      THEN [WorldAt(upcoming) EXCEPT
                              ![EvmAt(upcoming, to)[upcoming].owner][slot] = val]
                      ELSE WorldAt(upcoming)
      BY <2>2, InstructionMoves
    <2>4. /\ upcoming \in Nat \ {0} /\ upcoming \in 1..MaxDepth /\ i \in Nat
      BY <2>2, UpcomingBounds, BoundsAssumption DEF FramesOK
    <2>5. /\ upcoming' \in 0..MaxDepth
          /\ upcoming' > 0 => upcoming' <= depth' + 1 /\ depth' <= upcoming' + 1
          /\ upcoming' > depth' => last' \in CallOp
      BY <2>3, <2>4, FollowsBounds, BoundsAssumption
    <2>6. evm' \in Seq(EvmFrame) /\ Len(evm') = depth'
      BY <2>2, <2>3, EvmShape
    <2>7. routines' \in Seq(Seq(RoutineType)) /\ Len(routines') = depth'
      <3>1. internal \in Seq(RoutineType)
        BY <2>2, InternalShape
      <3>2. /\ RoutinesAt(upcoming) \in Seq(Seq(RoutineType))
            /\ Len(RoutinesAt(upcoming)) = upcoming
        BY <2>2, RoutinesShape
      <3>3. QED
        BY <2>3, <3>1, <3>2, ReplacedShape
    <2>8. saved' \in Seq(Storage) /\ Len(saved') = depth'
      BY <2>2, <2>3, StorageShape
    <2>9. world' \in Storage
      <3>1. EvmAt(upcoming, to)[upcoming].owner \in Contract
        BY <2>2, EvmShape DEF EvmFrame
      <3>2. CASE op = "SSTORE"
        <4>1. slot \in Slots /\ val \in Vals
          BY <2>2, <3>2 DEF Effect, CallOp, HaltOp
        <4>2. QED
          BY <2>2, <2>3, <3>1, <3>2, <4>1, StorageShape, WriteShape
      <3>3. CASE op # "SSTORE"
        BY <2>2, <2>3, <3>3, StorageShape
      <3>4. QED
        BY <3>2, <3>3
    <2>10. QED
      BY ONLY <2>3, <2>4, <2>5, <2>6, <2>7, <2>8, <2>9, SMTT(30) DEF FramesOK
  <1>3. QED
    BY <1>1, <1>2

\* The transaction's side of the state, for every trace.
THEOREM FramesInvariant == Spec => []FramesOK
  BY InitFramesOK, FramesKept, PTL DEF Spec

-----------------------------------------------------------------------------
(* What the recorder keeps. *)

\* The recorder's side of the state: its types, and a tracker for each frame once
\* there was an entry.
DataOK ==
    /\ trackers \in Seq(Nat)
    /\ Len(trackers) = IF i = 0 THEN 0 ELSE depth
    /\ absorbed \in BOOLEAN /\ nesting \in Nat
    /\ prev_line \in Locs \cup {None}
    /\ storage \in [DOMAIN storage -> Vals] /\ DOMAIN storage \subseteq Slots
    /\ DOMAIN writer = DOMAIN storage
    /\ \A s \in DOMAIN storage :
          writer[s].owner \in Contract /\ writer[s].at \in 0..depth
          /\ writer[s] = Wrote(writer[s].owner, writer[s].at)
    /\ calls \in Seq(CallKind)
    /\ out.caught \in BOOLEAN /\ out.locals_of \in 0..MaxDepth
    /\ done \in BOOLEAN

\* register_return takes off the calls opened last, as far as there are any.
LEMMA ClosedShape ==
    ASSUME NEW S, NEW cs \in Seq(S), NEW n \in Nat
    PROVE  /\ Closed(cs, n) \in Seq(S)
           /\ Len(Closed(cs, n)) = IF n < Len(cs) THEN Len(cs) - n ELSE 0
           /\ \A k \in 1 .. Len(Closed(cs, n)) : Closed(cs, n)[k] = cs[k]
  <1> DEFINE m == IF n < Len(cs) THEN Len(cs) - n ELSE 0
  <1>1. m \in Nat /\ m <= Len(cs) /\ Len(cs) \in Nat
    OBVIOUS
  <1>2. Closed(cs, n) = CutTo(cs, m)
    BY DEF Closed
  <1> HIDE DEF m
  <1>3. /\ CutTo(cs, m) \in Seq(S)
        /\ Len(CutTo(cs, m)) = IF m < Len(cs) THEN m ELSE Len(cs)
        /\ \A k \in 1 .. Len(CutTo(cs, m)) : CutTo(cs, m)[k] = cs[k]
    BY <1>1, CutToShape
  <1>4. Len(CutTo(cs, m)) = m
    BY <1>1, <1>3
  <1>5. QED
    BY <1>2, <1>3, <1>4 DEF m

\* The calls open in the trace once the depth has been followed: one more for a
\* new frame, one less for a frame that ended.
LEMMA CallsFollow ==
    ASSUME FramesOK, DataOK, Live
    PROVE  /\ CallsAt(upcoming) \in Seq(CallKind)
           /\ Len(calls) \in Nat
           /\ Len(CallsAt(upcoming)) =
                 IF upcoming > depth THEN Len(calls) + 1
                 ELSE IF upcoming < depth /\ Len(calls) > 0 THEN Len(calls) - 1
                 ELSE Len(calls)
           /\ \A k \in 1..Len(calls) :
                 k <= Len(CallsAt(upcoming)) => CallsAt(upcoming)[k] = calls[k]
  <1>1. /\ upcoming \in Nat /\ depth \in Nat
        /\ upcoming > depth => upcoming = depth + 1
        /\ upcoming < depth => upcoming = depth - 1
    BY UpcomingBounds
  <1>2. calls \in Seq(CallKind) /\ Len(calls) \in Nat
    BY DEF DataOK
  <1>3. CASE upcoming > depth
    <2>1. CallsAt(upcoming) = Append(calls, "frame")
      BY <1>3 DEF CallsAt, Opened
    <2>2. "frame" \in CallKind
      BY DEF CallKind
    <2>3. QED
      BY <1>2, <1>3, <2>1, <2>2
  <1>4. CASE ~(upcoming > depth)
    <2>1. CallsAt(upcoming) = Closed(calls, depth - upcoming) /\ depth - upcoming \in Nat
      BY <1>1, <1>4 DEF CallsAt
    <2>2. /\ CallsAt(upcoming) \in Seq(CallKind)
          /\ Len(CallsAt(upcoming)) = IF depth - upcoming < Len(calls)
                                      THEN Len(calls) - (depth - upcoming) ELSE 0
          /\ \A k \in 1 .. Len(CallsAt(upcoming)) : CallsAt(upcoming)[k] = calls[k]
      BY <1>2, <2>1, ClosedShape
    <2>3. QED
      BY <1>1, <1>2, <1>4, <2>2
  <1>5. QED
    BY <1>3, <1>4

\* What the jump type then adds or takes off.
LEMMA CallsJump ==
    ASSUME NEW cs \in Seq(CallKind), NEW log
    PROVE  /\ CallsAfterJump(cs, log) \in Seq(CallKind)
           /\ Into(log) /\ absorbed => Len(CallsAfterJump(cs, log)) = Len(cs) + 1
           /\ OutOf(log) /\ nesting # 1 /\ Len(cs) > 0 =>
                 Len(CallsAfterJump(cs, log)) = Len(cs) - 1
           /\ \/ Into(log) /\ absorbed
              \/ OutOf(log) /\ nesting # 1
              \/ CallsAfterJump(cs, log) = cs
           /\ \A k \in 1..Len(cs) : k <= Len(CallsAfterJump(cs, log)) =>
                 CallsAfterJump(cs, log)[k] = cs[k]
  <1>1. ~(Into(log) /\ OutOf(log))
    BY DEF Into, OutOf
  <1>2. CASE Into(log) /\ absorbed
    <2>1. CallsAfterJump(cs, log) = Append(cs, "routine")
      BY <1>1, <1>2 DEF CallsAfterJump, Opened
    <2>2. "routine" \in CallKind
      BY DEF CallKind
    <2>3. QED
      BY <1>1, <1>2, <2>1, <2>2
  <1>3. CASE OutOf(log) /\ nesting # 1
    <2>1. CallsAfterJump(cs, log) = Closed(cs, 1)
      BY <1>1, <1>3 DEF CallsAfterJump
    <2>2. /\ Closed(cs, 1) \in Seq(CallKind)
          /\ Len(Closed(cs, 1)) = IF 1 < Len(cs) THEN Len(cs) - 1 ELSE 0
          /\ \A k \in 1 .. Len(Closed(cs, 1)) : Closed(cs, 1)[k] = cs[k]
      BY ClosedShape
    <2>3. QED
      BY <1>1, <1>3, <2>1, <2>2
  <1>4. CASE ~(Into(log) /\ absorbed) /\ ~(OutOf(log) /\ nesting # 1)
    <2>1. CallsAfterJump(cs, log) = cs
      BY <1>4 DEF CallsAfterJump
    <2>2. QED
      BY <1>4, <2>1
  <1>5. QED
    BY <1>2, <1>3, <1>4

\* A tracker per frame, that of a new frame created for this entry.
LEMMA TrackersFollow ==
    ASSUME FramesOK, DataOK, Live
    PROVE  LET ts == Resized(trackers, upcoming, i) IN
           /\ ts \in Seq(Nat) /\ Len(ts) = upcoming
           /\ \A d \in 1..upcoming :
                 ts[d] = IF d <= Len(trackers) THEN trackers[d] ELSE i
  <1> DEFINE S == Nat
             new == i
  <1>1. /\ upcoming \in 1 .. depth + 1 /\ depth \in Nat
        /\ i = 0 => upcoming = depth
    BY UpcomingBounds DEF FramesOK
  <1>2. IF i = 0 THEN upcoming = 1 /\ depth = 1 /\ trackers = <<>> ELSE Len(trackers) = depth
    BY <1>1 DEF DataOK, FramesOK
  <1>3. trackers \in Seq(S) /\ new \in S
    BY DEF FramesOK, DataOK
  <1> HIDE DEF S, new
  <1>4. /\ Resized(trackers, upcoming, new) \in Seq(S)
        /\ Len(Resized(trackers, upcoming, new)) = upcoming
        /\ \A d \in 1..upcoming : Resized(trackers, upcoming, new)[d] =
                                   IF d <= Len(trackers) THEN trackers[d] ELSE new
    <2>1. CASE i = 0
      <3>1. Resized(trackers, upcoming, new) = <<new>>
        BY <1>2, <2>1 DEF Resized, GrowTo
      <3>2. QED
        BY <1>2, <1>3, <2>1, <3>1
    <2>2. CASE i # 0
      BY <1>1, <1>2, <1>3, <2>2, ResizedShape
    <2>3. QED
      BY <2>1, <2>2
  <1>5. QED
    BY <1>4 DEF S, new

\* Of the last write of a slot, an instruction changes only what it writes itself
\* and, with a frame that ended, the frame whose failure takes the write back.
WriterMoves(w, op, owner, slot) ==
    /\ DOMAIN w = DOMAIN storage \cup (IF op = "SSTORE" THEN {slot} ELSE {})
    /\ \A s \in DOMAIN w :
          /\ w[s].owner \in Contract /\ w[s].at \in 0..upcoming
          /\ w[s] = Wrote(w[s].owner, w[s].at)
          /\ op = "SSTORE" /\ s = slot => w[s] = Wrote(owner, upcoming)
          /\ ~(op = "SSTORE" /\ s = slot) =>
               /\ s \in DOMAIN storage /\ w[s].owner = writer[s].owner
               /\ \/ w[s].at = writer[s].at
                  \/ w[s].at = 0
                  \/ /\ w[s].at = upcoming /\ upcoming < writer[s].at
                     /\ last = "RETURN"

\* So WriterAfter does.
LEMMA WriterShape ==
    ASSUME FramesOK, DataOK, Live, NEW op, NEW owner \in Contract, NEW slot
    PROVE  WriterMoves(WriterAfter(upcoming, op, owner, slot), op, owner, slot)
  <1> DEFINE w == WriterAfter(upcoming, op, owner, slot)
  <1>1. /\ upcoming \in Nat \ {0} /\ depth \in Nat \ {0}
        /\ DOMAIN writer = DOMAIN storage
    BY UpcomingBounds DEF DataOK
  <1>2. /\ DOMAIN w = DOMAIN storage \cup (IF op = "SSTORE" THEN {slot} ELSE {})
        /\ \A s \in DOMAIN w : w[s] = IF op = "SSTORE" /\ s = slot
                                    THEN Wrote(owner, upcoming) ELSE WriterAt(upcoming)[s]
    BY <1>1 DEF WriterAfter
  <1> HIDE DEF w
  <1>3. ASSUME NEW s \in DOMAIN w, op = "SSTORE" /\ s = slot
        PROVE  /\ w[s].owner \in Contract /\ w[s].at \in 0..upcoming
               /\ w[s] = Wrote(w[s].owner, w[s].at) /\ w[s] = Wrote(owner, upcoming)
    BY <1>1, <1>2, <1>3 DEF Wrote
  <1>4. ASSUME NEW s \in DOMAIN w, ~(op = "SSTORE" /\ s = slot)
        PROVE  /\ w[s].owner \in Contract /\ w[s].at \in 0..upcoming
               /\ w[s] = Wrote(w[s].owner, w[s].at)
               /\ s \in DOMAIN storage /\ w[s].owner = writer[s].owner
               /\ \/ w[s].at = writer[s].at
                  \/ w[s].at = 0
                  \/ /\ w[s].at = upcoming /\ upcoming < writer[s].at
                     /\ last = "RETURN"
    <2>1. s \in DOMAIN storage
      BY <1>2, <1>4
    <2>2. /\ writer[s].owner \in Contract /\ writer[s].at \in 0..depth
          /\ writer[s] = Wrote(writer[s].owner, writer[s].at)
      BY <2>1 DEF DataOK
    <2>3. w[s] = IF writer[s].at <= upcoming THEN writer[s]
                 ELSE Wrote(writer[s].owner, IF last = "RETURN" THEN upcoming ELSE 0)
      BY <1>1, <1>2, <1>4, <2>1 DEF WriterAt
    <2>4. CASE writer[s].at <= upcoming
      BY <1>1, <2>1, <2>2, <2>3, <2>4
    <2>5. CASE ~(writer[s].at <= upcoming)
      <3>1. /\ w[s].owner = writer[s].owner
            /\ w[s].at = IF last = "RETURN" THEN upcoming ELSE 0
            /\ w[s] = Wrote(w[s].owner, w[s].at)
        BY <2>3, <2>5 DEF Wrote
      <3>2. upcoming < writer[s].at
        BY <1>1, <2>2, <2>5
      <3>3. QED
        BY <1>1, <2>1, <2>2, <3>1, <3>2
    <2>6. QED
      BY <2>4, <2>5
  <1>5. WriterMoves(w, op, owner, slot)
    BY <1>2, <1>3, <1>4 DEF WriterMoves
  <1>6. QED
    BY <1>5 DEF w

\* DataOK is inductive, relative to FramesOK.
LEMMA InitDataOK == Init => DataOK
  <1> SUFFICES ASSUME Init PROVE DataOK
    OBVIOUS
  <1>1. storage \in [DOMAIN storage -> Vals] /\ DOMAIN storage \subseteq Slots
    BY DEF Init, Empty
  <1>2. out.caught \in BOOLEAN /\ out.locals_of \in 0..MaxDepth
    BY BoundsAssumption DEF Init
  <1>3. trackers = <<>> /\ calls = <<"toplevel">> /\ i = 0
    BY DEF Init
  <1>4. calls \in Seq(CallKind) /\ trackers \in Seq(Nat) /\ Len(trackers) = 0
    BY <1>3 DEF CallKind
  <1>5. DOMAIN writer = DOMAIN storage /\ DOMAIN storage = {}
    BY DEF Init, Empty
  <1>6. QED
    BY <1>1, <1>2, <1>3, <1>4, <1>5 DEF Init, DataOK

\* No iteration, and no finalize, breaks it.
LEMMA DataKept == FramesOK /\ DataOK /\ [Next]_vars => DataOK'
  <1> SUFFICES ASSUME FramesOK, DataOK, [Next]_vars PROVE DataOK'
    OBVIOUS
  <1>1. CASE UNCHANGED vars
    BY <1>1 DEF vars, evm_vars, rec_vars, DataOK
  <1>2. CASE Finalize
    <2>1. UNCHANGED <<rec_vars, writer, out>> /\ calls' = Closed(calls, 1) /\ done' = TRUE
      BY <1>2 DEF Finalize, evm_vars
    <2>2. calls' \in Seq(CallKind)
      BY <2>1, ClosedShape DEF DataOK
    <2>3. QED
      BY <2>1, <2>2 DEF rec_vars, DataOK
  <1>3. CASE Next /\ ~Finalize
    <2>1. PICK to \in Target, op \in AllOp, jump \in {"i", "o", "-"} :
          \E slot, val, internal :
             /\ Live
             /\ Effect(op, jump, slot, val, internal)
             /\ Instruction(op, to, jump, slot, val, internal)
      BY <1>3, StepIsInstruction
    <2>2. PICK slot, val, internal :
             /\ Live
             /\ Effect(op, jump, slot, val, internal)
             /\ Instruction(op, to, jump, slot, val, internal)
      BY <2>1
    <2>3. PICK log : IsEntry(log, to, op, jump, slot, val) /\ Process(log)
      BY <2>2, InstructionHasEntry
    <2>4. log.depth = upcoming /\ log.op = op /\ log.slot = slot /\ log.val = val
          /\ log.loc \in Locs \cup {None}
      BY <2>3 DEF IsEntry, LocsAt
    <2>5. /\ trackers' = Resized(trackers, upcoming, i)
          /\ absorbed' = (absorbed \/ Into(log))
          /\ nesting' = NestingAfter(log)
          /\ prev_line' = IF StepChanged(log) THEN log.loc ELSE prev_line
          /\ storage' = IF op = "SSTORE" THEN Stored(slot, val) ELSE storage
          /\ calls' = CallsAfterJump(CallsAt(upcoming), log)
          /\ done' = done
      BY <2>3, <2>4 DEF Process
    <2>6. i' = i + 1 /\ depth' = upcoming /\ i \in Nat
      BY <2>2, InstructionMoves DEF FramesOK
    <2>7. trackers' \in Seq(Nat) /\ Len(trackers') = depth' /\ i' # 0
      BY <2>2, <2>5, <2>6, TrackersFollow
    <2>8. absorbed' \in BOOLEAN /\ nesting' \in Nat
      BY <2>5 DEF DataOK, NestingAfter, Into
    <2>9. prev_line' \in Locs \cup {None}
      BY <2>4, <2>5 DEF DataOK
    <2>10. storage' \in [DOMAIN storage' -> Vals] /\ DOMAIN storage' \subseteq Slots
      <3>1. CASE op = "SSTORE"
        <4>1. slot \in Slots /\ val \in Vals
          BY <2>2, <3>1 DEF Effect, CallOp, HaltOp
        <4>2. storage' = [s \in DOMAIN storage \cup {slot} |->
                            IF s = slot THEN val ELSE storage[s]]
          BY <2>5, <3>1 DEF Stored
        <4>3. QED
          BY <4>1, <4>2 DEF DataOK
      <3>2. CASE op # "SSTORE"
        BY <2>5, <3>2 DEF DataOK
      <3>3. QED
        BY <3>1, <3>2
    <2>11. calls' \in Seq(CallKind)
      BY <2>2, <2>5, CallsFollow, CallsJump
    <2>12. out'.caught \in BOOLEAN /\ out'.locals_of \in 0..MaxDepth
      <3>1. out' = [caught |-> Caught(upcoming),
                    shown |-> IF LineChanged(log) THEN storage ELSE Empty,
                    locals_of |-> IF log.loc # None THEN upcoming' ELSE 0]
        BY <2>3, <2>4 DEF Process
      <3>2. upcoming' \in 0..MaxDepth
        BY FramesKept DEF FramesOK
      <3>3. Caught(upcoming) \in BOOLEAN
        BY DEF Caught
      <3>4. out'.caught = Caught(upcoming) /\ out'.locals_of \in {upcoming', 0}
        BY <3>1
      <3>5. QED
        BY <3>2, <3>3, <3>4, BoundsAssumption
    <2>13. done' \in BOOLEAN
      BY <2>5 DEF DataOK
    <2>14. /\ DOMAIN writer' = DOMAIN storage'
           /\ \A s \in DOMAIN storage' :
                 writer'[s].owner \in Contract /\ writer'[s].at \in 0..depth'
                 /\ writer'[s] = Wrote(writer'[s].owner, writer'[s].at)
      <3> DEFINE owner == EvmAt(upcoming, to)[upcoming].owner
                 w == WriterAfter(upcoming, op, owner, slot)
      <3>1. owner \in Contract
        BY <2>2, EvmShape DEF EvmFrame
      <3>2. writer' = w
        BY <2>2, InstructionMoves
      <3>3. DOMAIN storage' = DOMAIN storage \cup (IF op = "SSTORE" THEN {slot} ELSE {})
        BY <2>5 DEF Stored
      <3> HIDE DEF owner
      <3>4. WriterMoves(w, op, owner, slot)
        BY <2>2, <3>1, WriterShape
      <3> HIDE DEF w
      <3>5. QED
        BY <2>6, <3>2, <3>3, <3>4 DEF WriterMoves
    <2>15. QED
      BY <2>7, <2>8, <2>9, <2>10, <2>11, <2>12, <2>13, <2>14 DEF DataOK
  <1>4. QED
    BY <1>1, <1>2, <1>3

\* The state of the recorder is that of its types at every entry of any trace:
\* the counter never falls below 0, and nothing but the layout's slots is carried.
THEOREM StateIsTyped == Spec => []TypeOK
  <1>1. FramesOK /\ DataOK => \A s \in DOMAIN writer :
                                 writer[s] \in [owner : Contract, at : 0..MaxDepth]
    BY BoundsAssumption DEF FramesOK, DataOK, Wrote
  <1>2. FramesOK /\ DataOK => TypeOK
    BY <1>1 DEF FramesOK, DataOK, TypeOK, EvmFrame, RoutineType, AllOp, CallKind
  <1>3. QED
    BY InitFramesOK, InitDataOK, FramesKept, DataKept, <1>2, PTL DEF Spec

\* No tracker is taken over from an earlier frame of the same depth: the vector
\* is cut to the depth before it is extended, in every step of every trace.
THEOREM TrackersFresh == Spec => FreshTrackerPerFrame
  <1> DEFINE Fresh ==
        /\ Len(trackers') = depth' \/ done'
        /\ depth' > depth => trackers'[depth'] = i
        /\ \A d \in 1..Len(trackers) : d <= depth' => trackers'[d] = trackers[d]
  <1>1. ASSUME FramesOK, DataOK, Finalize PROVE Fresh
    <2>1. depth' = depth /\ trackers' = trackers /\ done' = TRUE /\ depth \in Nat
      BY <1>1, BoundsAssumption DEF Finalize, rec_vars, FramesOK
    <2>2. QED
      BY <2>1
  <1>2. ASSUME FramesOK, DataOK, Next, ~Finalize PROVE Fresh
    <2>1. PICK to \in Target, op \in AllOp, jump \in {"i", "o", "-"} :
          \E slot, val, internal :
             Live /\ Instruction(op, to, jump, slot, val, internal)
      BY <1>2, StepIsInstruction
    <2>2. PICK slot, val, internal :
             Live /\ Instruction(op, to, jump, slot, val, internal)
      BY <2>1
    <2>3. PICK log : IsEntry(log, to, op, jump, slot, val) /\ Process(log)
      BY <2>2, InstructionHasEntry
    <2>4. trackers' = Resized(trackers, upcoming, i) /\ depth' = upcoming
      BY <2>3 DEF Process, IsEntry
    <2>5. /\ upcoming \in 1 .. depth + 1 /\ upcoming \in Nat /\ depth \in Nat
          /\ i = 0 => upcoming = depth
      BY <2>2, <1>2, UpcomingBounds
    <2>6. Len(trackers) = (IF i = 0 THEN 0 ELSE depth)
      BY <1>2 DEF DataOK
    <2>7. /\ Len(trackers') = upcoming
          /\ \A d \in 1..upcoming :
                trackers'[d] = IF d <= Len(trackers) THEN trackers[d] ELSE i
      BY <1>2, <2>2, <2>4, TrackersFollow
    <2>8. upcoming > depth => trackers'[upcoming] = i
      BY <2>5, <2>6, <2>7
    <2>9. \A d \in 1..Len(trackers) : d <= upcoming => trackers'[d] = trackers[d]
      BY <2>5, <2>6, <2>7
    <2>10. QED
      BY <2>4, <2>7, <2>8, <2>9
  <1>3. FramesOK /\ DataOK /\ [Next]_vars => [Fresh]_vars
    BY <1>1, <1>2
  <1>4. QED
    BY InitFramesOK, InitDataOK, FramesKept, DataKept, <1>3, PTL
       DEF Spec, FreshTrackerPerFrame

-----------------------------------------------------------------------------
(* The counter of the absorbed call. *)

\* Every live frame runs the code of self on the storage of self.
OwnFrames == \A d \in 1..Len(evm) : evm[d].code = "self" /\ evm[d].owner = "self"

\* The user's functions the live frames are in, as pairs of a depth and a place.
UserCalls(rs) ==
    UNION {{<<d, k>> : k \in {n \in 1..Len(rs[d]) : rs[d][n] = "user"}} :
             d \in 1..Len(rs)}

\* Why the counter is right.  It says how many of the calls registered so far
\* are above the absorbed one; the functions that may yet return with a
\* location, each closing a call, are never more than the calls there are to
\* close, before, while and after the absorbed call is open.
CounterOK ==
    LET u == Cardinality(UserCalls(routines)) IN
    /\ IsFiniteSet(UserCalls(routines))
    /\ ~done =>
         /\ ~absorbed => nesting = 0 /\ u = 0 /\ Len(calls) = depth
         /\ nesting > 0 => absorbed /\ Len(calls) = depth + nesting - 1 /\ u <= nesting
         /\ nesting = 0 => Len(calls) >= depth + u
         /\ calls[1] = "toplevel"

\* The members of UserCalls.
LEMMA UserCallsAre ==
    ASSUME NEW rs
    PROVE  /\ \A d, k : <<d, k>> \in UserCalls(rs) <=>
                 d \in 1..Len(rs) /\ k \in 1..Len(rs[d]) /\ rs[d][k] = "user"
           /\ \A p \in UserCalls(rs) : \E d, k : p = <<d, k>>
  <1>1. ASSUME NEW d, NEW k
        PROVE  <<d, k>> \in UserCalls(rs) <=>
                  d \in 1..Len(rs) /\ k \in 1..Len(rs[d]) /\ rs[d][k] = "user"
    BY DEF UserCalls
  <1>2. \A p \in UserCalls(rs) : \E d, k : p = <<d, k>>
    BY DEF UserCalls
  <1>3. QED
    BY <1>1, <1>2

\* An instruction opens at most the function it enters, and a frame that ends
\* takes its functions with it.
LEMMA UserCallsMove ==
    ASSUME FramesOK, Live, NEW internal \in Seq(RoutineType), NEW rs,
           rs = [RoutinesAt(upcoming) EXCEPT ![upcoming] = internal]
    PROVE  /\ \A d, k : <<d, k>> \in UserCalls(rs) =>
                 /\ d \in 1..upcoming /\ k \in Nat \ {0}
                 /\ d # upcoming => <<d, k>> \in UserCalls(routines)
                 /\ d = upcoming => k \in 1..Len(internal) /\ internal[k] = "user"
           /\ \A k \in 1..Len(Here) :
                 Here[k] = "user" => <<upcoming, k>> \in UserCalls(routines)
  <1>1. /\ upcoming \in 1 .. depth + 1 /\ upcoming \in 1..upcoming /\ depth \in Nat
    BY UpcomingBounds
  <1>2. /\ RoutinesAt(upcoming) \in Seq(Seq(RoutineType))
        /\ Len(RoutinesAt(upcoming)) = upcoming
        /\ \A d \in 1..upcoming :
              RoutinesAt(upcoming)[d] = IF d <= depth THEN routines[d] ELSE <<>>
    BY RoutinesShape
  <1>3. /\ Len(rs) = upcoming
        /\ \A d \in 1..upcoming :
              rs[d] = IF d = upcoming THEN internal ELSE RoutinesAt(upcoming)[d]
    BY <1>2, ReplacedShape
  <1>4. routines \in Seq(Seq(RoutineType)) /\ Len(routines) = depth
    BY DEF FramesOK
  <1>5. ASSUME NEW d, NEW k, <<d, k>> \in UserCalls(rs)
        PROVE  /\ d \in 1..upcoming /\ k \in Nat \ {0}
               /\ d # upcoming => <<d, k>> \in UserCalls(routines)
               /\ d = upcoming => k \in 1..Len(internal) /\ internal[k] = "user"
    <2>1. d \in 1..upcoming /\ k \in 1..Len(rs[d]) /\ rs[d][k] = "user"
      <3>1. d \in 1..Len(rs) /\ k \in 1..Len(rs[d]) /\ rs[d][k] = "user"
        BY <1>5, UserCallsAre, Zenon
      <3>2. QED
        BY <1>3, <3>1
    <2>2. CASE d = upcoming
      <3>1. rs[d] = internal
        BY <1>3, <2>1, <2>2
      <3>2. QED
        BY <2>1, <2>2, <3>1
    <2>3. CASE d # upcoming
      <3>1. d \in 1..depth /\ rs[d] = routines[d] /\ routines[d] \in Seq(RoutineType)
        BY <1>1, <1>2, <1>3, <1>4, <2>1, <2>3
      <3>2. <<d, k>> \in UserCalls(routines)
        BY <1>4, <2>1, <3>1, UserCallsAre
      <3>3. k \in Nat \ {0}
        BY <2>1, <3>1
      <3>4. QED
        BY <2>1, <2>3, <3>2, <3>3
    <2>4. QED
      BY <2>2, <2>3
  <1>6. ASSUME NEW k \in 1..Len(Here), Here[k] = "user"
        PROVE  <<upcoming, k>> \in UserCalls(routines)
    <2>1. Here = IF upcoming <= depth THEN routines[upcoming] ELSE <<>>
      BY <1>1, <1>2 DEF Here
    <2>2. upcoming \in 1..depth /\ Here = routines[upcoming]
      BY <1>1, <1>6, <2>1
    <2>3. QED
      BY <1>4, <1>6, <2>2, UserCallsAre
  <1>7. QED
    BY <1>5, <1>6

\* So their number grows by one at most, on entering a function from code of the
\* user, and falls on leaving one of the user's.
LEMMA UserCallsCount ==
    ASSUME FramesOK, Live, IsFiniteSet(UserCalls(routines)),
           NEW op, NEW jump, NEW slot, NEW val, NEW internal,
           Effect(op, jump, slot, val, internal),
           NEW rs, rs = [RoutinesAt(upcoming) EXCEPT ![upcoming] = internal]
    PROVE  /\ IsFiniteSet(UserCalls(rs))
           /\ Cardinality(UserCalls(rs)) \in Nat
           /\ Cardinality(UserCalls(routines)) \in Nat
           /\ Cardinality(UserCalls(rs)) <= Cardinality(UserCalls(routines)) + 1
           /\ \/ jump = "i" /\ ~InGenerated(Here)
              \/ Cardinality(UserCalls(rs)) <= Cardinality(UserCalls(routines))
           /\ jump = "o" /\ ~InGenerated(Here) =>
                Cardinality(UserCalls(rs)) + 1 <= Cardinality(UserCalls(routines))
  <1> DEFINE A == UserCalls(routines)
             B == UserCalls(rs)
  <1>1. internal \in Seq(RoutineType) /\ Here \in Seq(RoutineType) /\ Len(Here) \in Nat
    BY InternalShape, RoutinesShape
  <1>2. /\ \A d, k : <<d, k>> \in B =>
                 /\ d \in 1..upcoming /\ k \in Nat \ {0}
                 /\ d # upcoming => <<d, k>> \in A
                 /\ d = upcoming => k \in 1..Len(internal) /\ internal[k] = "user"
        /\ \A k \in 1..Len(Here) : Here[k] = "user" => <<upcoming, k>> \in A
    BY <1>1, UserCallsMove
  <1>3. \A p \in B : \E d, k : p = <<d, k>>
    BY UserCallsAre
  <1>4. IsFiniteSet(A) /\ Cardinality(A) \in Nat
    BY FS_CardinalityType
  <1> HIDE DEF A, B
  <1>5. ASSUME B \subseteq A
        PROVE  IsFiniteSet(B) /\ Cardinality(B) \in Nat /\ Cardinality(B) <= Cardinality(A)
    <2>1. IsFiniteSet(B) /\ Cardinality(B) <= Cardinality(A)
      BY <1>4, <1>5, FS_Subset
    <2>2. QED
      BY <2>1, FS_CardinalityType
  <1> DEFINE Goal ==
        /\ IsFiniteSet(B) /\ Cardinality(B) \in Nat
        /\ Cardinality(B) <= Cardinality(A) + 1
        /\ \/ jump = "i" /\ ~InGenerated(Here)
           \/ Cardinality(B) <= Cardinality(A)
        /\ jump = "o" /\ ~InGenerated(Here) => Cardinality(B) + 1 <= Cardinality(A)
  <1>6. ASSUME internal = Here, jump = "-" PROVE Goal
    <2>1. \A d, k : <<d, k>> \in B => <<d, k>> \in A
      BY <1>2, <1>6
    <2>2. B \subseteq A
      BY <1>3, <2>1
    <2>3. QED
      BY <1>4, <1>5, <1>6, <2>2
  <1>7. ASSUME NEW r \in RoutineType, jump = "i", internal = Append(Here, r),
               InGenerated(Here) => r = "generated"
        PROVE  Goal
    <2>1. /\ Len(internal) = Len(Here) + 1 /\ internal[Len(Here) + 1] = r
          /\ \A k \in 1..Len(Here) : internal[k] = Here[k]
      BY <1>1, <1>7
    <2>2. \A d, k : <<d, k>> \in B =>
             <<d, k>> \in A \/ (<<d, k>> = <<upcoming, Len(Here) + 1>> /\ r = "user")
      <3>1. ASSUME NEW d, NEW k, <<d, k>> \in B, <<d, k>> \notin A
            PROVE  d = upcoming /\ k = Len(Here) + 1 /\ r = "user"
        <4>1. d = upcoming /\ k \in 1 .. Len(Here) + 1 /\ internal[k] = "user"
          BY <1>2, <2>1, <3>1
        <4>2. k \notin 1..Len(Here)
          BY <1>2, <2>1, <3>1, <4>1
        <4>3. k = Len(Here) + 1
          BY <1>1, <4>1, <4>2
        <4>4. QED
          BY <2>1, <4>1, <4>3
      <3>2. QED
        BY <3>1
    <2>3. CASE r = "generated"
      <3>1. B \subseteq A
        BY <1>3, <2>2, <2>3
      <3>2. QED
        BY <1>4, <1>5, <1>7, <3>1
    <2>4. CASE r # "generated"
      <3> DEFINE x == <<upcoming, Len(Here) + 1>>
      <3>1. B \subseteq A \cup {x}
        BY <1>3, <2>2
      <3> HIDE DEF x
      <3>2. /\ IsFiniteSet(A \cup {x})
            /\ Cardinality(A \cup {x}) = IF x \in A THEN Cardinality(A)
                                         ELSE Cardinality(A) + 1
        BY <1>4, FS_AddElement
      <3>3. IsFiniteSet(B) /\ Cardinality(B) <= Cardinality(A \cup {x})
        BY <3>1, <3>2, FS_Subset
      <3>4. Cardinality(B) \in Nat
        BY <3>3, FS_CardinalityType
      <3>5. QED
        BY <1>4, <1>7, <2>4, <3>2, <3>3, <3>4
    <2>5. QED
      BY <2>3, <2>4
  <1>8. ASSUME jump = "o", Here # <<>>, internal = CutTo(Here, Len(Here) - 1) PROVE Goal
    <2>1. Len(Here) \in Nat \ {0} /\ Len(Here) - 1 \in Nat
      BY <1>1, <1>8
    <2>2. /\ Len(internal) = Len(Here) - 1
          /\ \A k \in 1..Len(internal) : internal[k] = Here[k]
      BY <1>1, <1>8, <2>1, CutToShape
    <2>3. \A d, k : <<d, k>> \in B => <<d, k>> \in A /\ <<d, k>> # <<upcoming, Len(Here)>>
      BY <1>2, <2>1, <2>2
    <2> DEFINE x == <<upcoming, Len(Here)>>
    <2>4. B \subseteq A /\ B \subseteq A \ {x}
      BY <1>3, <2>3
    <2>5. ASSUME ~InGenerated(Here) PROVE x \in A
      <3>1. Here[Len(Here)] = "user"
        BY <1>1, <1>8, <2>1, <2>5 DEF InGenerated, RoutineType
      <3>2. QED
        BY <1>2, <2>1, <3>1
    <2> HIDE DEF x
    <2>6. ASSUME ~InGenerated(Here) PROVE Cardinality(B) + 1 <= Cardinality(A)
      <3>1. IsFiniteSet(A \ {x}) /\ Cardinality(A \ {x}) = Cardinality(A) - 1
        BY <1>4, <2>5, <2>6, FS_RemoveElement
      <3>2. Cardinality(B) <= Cardinality(A \ {x})
        BY <2>4, <3>1, FS_Subset
      <3>3. QED
        BY <1>4, <1>5, <2>4, <3>1, <3>2
    <2>7. QED
      BY <1>4, <1>5, <1>8, <2>4, <2>6
  <1>9. Goal
    BY <1>6, <1>7, <1>8 DEF Effect
  <1>10. QED
    BY <1>4, <1>9 DEF A, B

\* Frames of self call self: the frames stay its own.
LEMMA OwnEvm ==
    ASSUME FramesOK, OwnFrames, OwnCallsOnly, Live, NEW to \in Target
    PROVE  \A d \in 1..upcoming :
              /\ EvmAt(upcoming, to)[d].code = "self"
              /\ EvmAt(upcoming, to)[d].owner = "self"
  <1>1. /\ \A k \in 1..upcoming : k <= depth => EvmAt(upcoming, to)[k] = evm[k]
        /\ upcoming > depth =>
              EvmAt(upcoming, to)[upcoming] = Callee(evm[depth], last, to)
    BY EvmShape
  <1>2. /\ upcoming \in 1 .. depth + 1 /\ upcoming \in Nat /\ depth \in Nat \ {0}
        /\ upcoming > depth => upcoming = depth + 1
    BY UpcomingBounds
  <1>3. \A d \in 1..depth : evm[d].code = "self" /\ evm[d].owner = "self"
    BY DEF FramesOK, OwnFrames
  <1>4. to = "self"
    BY DEF Target, OwnCallsOnly
  <1>5. ASSUME upcoming > depth
        PROVE  /\ Callee(evm[depth], last, to).code = "self"
               /\ Callee(evm[depth], last, to).owner = "self"
    BY <1>2, <1>3, <1>4 DEF Callee
  <1>6. QED
    BY <1>1, <1>2, <1>3, <1>5

\* The frames of a transaction that calls no other contract run this one's code on
\* this one's storage.
LEMMA OwnFramesKept ==
    ASSUME FramesOK, OwnFrames, OwnCallsOnly, [Next]_vars
    PROVE  OwnFrames'
  <1>1. CASE Finalize \/ UNCHANGED vars
    BY <1>1 DEF Finalize, vars, evm_vars, OwnFrames
  <1>2. CASE Next /\ ~Finalize
    <2>1. PICK to \in Target, op \in AllOp, jump \in {"i", "o", "-"} :
          \E slot, val, internal :
             Live /\ Instruction(op, to, jump, slot, val, internal)
      BY <1>2, StepIsInstruction
    <2>2. PICK slot, val, internal :
             Live /\ Instruction(op, to, jump, slot, val, internal)
      BY <2>1
    <2>3. evm' = EvmAt(upcoming, to)
      BY <2>2, InstructionMoves
    <2>4. Len(EvmAt(upcoming, to)) = upcoming
      BY <2>2, EvmShape
    <2>5. QED
      BY <2>2, <2>3, <2>4, OwnEvm DEF OwnFrames
  <1>3. QED
    BY <1>1, <1>2

\* The jump type the source map gives is the jump that is executed, except in
\* generated code, which has no location.
LEMMA OwnJumps ==
    ASSUME FramesOK, OwnFrames, OwnCallsOnly, Live, NEW to \in Target,
           NEW op, NEW jump \in {"i", "o", "-"}, NEW slot, NEW val, NEW log,
           IsEntry(log, to, op, jump, slot, val)
    PROVE  /\ Into(log) <=> jump = "i" /\ ~InGenerated(Here)
           /\ OutOf(log) <=> jump = "o" /\ ~InGenerated(Here)
  <1>1. upcoming \in 1..upcoming
    BY UpcomingBounds
  <1>2. EvmAt(upcoming, to)[upcoming].code = "self"
    BY <1>1, OwnEvm
  <1>3. log.jump = jump
    BY <1>2 DEF IsEntry, Jumps
  <1>4. log.loc # None <=> ~InGenerated(Here)
    BY <1>2, DataAssumption DEF IsEntry, LocsAt
  <1>5. QED
    BY <1>3, <1>4 DEF Into, OutOf

\* One iteration keeps the counter right.
LEMMA CounterKept ==
    ASSUME FramesOK, DataOK, OwnFrames, OwnCallsOnly, CounterOK, [Next]_vars
    PROVE  CounterOK'
  <1>1. CASE UNCHANGED vars
    BY <1>1 DEF vars, evm_vars, rec_vars, CounterOK
  <1>2. CASE Finalize
    <2>1. routines' = routines /\ done'
      BY <1>2 DEF Finalize, evm_vars
    <2>2. QED
      BY <2>1 DEF CounterOK
  <1>3. CASE Next /\ ~Finalize
    <2>1. PICK to \in Target, op \in AllOp, jump \in {"i", "o", "-"} :
          \E slot, val, internal :
             /\ Live
             /\ Effect(op, jump, slot, val, internal)
             /\ Instruction(op, to, jump, slot, val, internal)
      BY <1>3, StepIsInstruction
    <2>2. PICK slot, val, internal :
             /\ Live
             /\ Effect(op, jump, slot, val, internal)
             /\ Instruction(op, to, jump, slot, val, internal)
      BY <2>1
    <2>3. PICK log : IsEntry(log, to, op, jump, slot, val) /\ Process(log)
      BY <2>2, InstructionHasEntry
    <2> DEFINE u == Cardinality(UserCalls(routines))
               v == Cardinality(UserCalls(routines'))
               cs == CallsAt(upcoming)
               in == jump = "i" /\ ~InGenerated(Here)
               outof == jump = "o" /\ ~InGenerated(Here)
    <2>4. /\ depth' = upcoming /\ done' = done
          /\ routines' = [RoutinesAt(upcoming) EXCEPT ![upcoming] = internal]
      BY <2>2, InstructionMoves
    <2>5. /\ IsFiniteSet(UserCalls(routines)) /\ ~done
          /\ ~absorbed => nesting = 0 /\ u = 0 /\ Len(calls) = depth
          /\ nesting > 0 => absorbed /\ Len(calls) = depth + nesting - 1 /\ u <= nesting
          /\ nesting = 0 => Len(calls) >= depth + u
          /\ calls[1] = "toplevel"
      BY <2>2 DEF CounterOK, Live
    <2>6. /\ IsFiniteSet(UserCalls(routines')) /\ u \in Nat /\ v \in Nat
          /\ v <= u + 1 /\ (in \/ v <= u) /\ (outof => v + 1 <= u)
      BY <2>2, <2>4, <2>5, UserCallsCount
    <2>7. /\ Into(log) <=> in
          /\ OutOf(log) <=> outof
      BY <2>2, <2>3, OwnJumps
    <2>8. /\ absorbed' = (absorbed \/ Into(log))
          /\ nesting' = NestingAfter(log)
          /\ calls' = CallsAfterJump(cs, log)
      BY <2>3 DEF Process, IsEntry
    <2>9. /\ absorbed' <=> absorbed \/ in
          /\ in /\ ~absorbed => nesting' = 1
          /\ in /\ absorbed /\ nesting > 0 => nesting' = nesting + 1
          /\ in /\ absorbed /\ ~(nesting > 0) => nesting' = nesting
          /\ outof /\ nesting > 0 => nesting' = nesting - 1
          /\ outof /\ ~(nesting > 0) => nesting' = nesting
          /\ ~in /\ ~outof => nesting' = nesting
      BY <2>7, <2>8 DEF NestingAfter
    <2>10. /\ cs \in Seq(CallKind) /\ Len(calls) \in Nat
           /\ Len(cs) = IF upcoming > depth THEN Len(calls) + 1
                        ELSE IF upcoming < depth /\ Len(calls) > 0 THEN Len(calls) - 1
                        ELSE Len(calls)
           /\ \A k \in 1..Len(calls) : k <= Len(cs) => cs[k] = calls[k]
      BY <2>2, CallsFollow
    <2>11. /\ calls' \in Seq(CallKind)
           /\ in /\ absorbed => Len(calls') = Len(cs) + 1
           /\ outof /\ nesting # 1 /\ Len(cs) > 0 => Len(calls') = Len(cs) - 1
           /\ (in /\ absorbed) \/ (outof /\ nesting # 1) \/ calls' = cs
           /\ \A k \in 1..Len(cs) : k <= Len(calls') => calls'[k] = cs[k]
      BY <2>7, <2>8, <2>10, CallsJump
    <2>12. /\ upcoming \in Nat \ {0} /\ depth \in Nat \ {0} /\ nesting \in Nat
           /\ upcoming > depth => upcoming = depth + 1
           /\ upcoming < depth => upcoming = depth - 1
           /\ absorbed \in BOOLEAN
      BY <2>2, UpcomingBounds DEF DataOK
    <2>13. ~(in /\ outof)
      OBVIOUS
    <2> DEFINE c == Len(cs)
               w == Len(calls')
    <2>14. c \in Nat /\ w \in Nat
      BY <2>10, <2>11
    <2>15. ((in /\ absorbed) \/ (outof /\ nesting # 1)) \/ w = c
      BY <2>11
    <2> DEFINE n == Len(calls)
    <2>16. n \in Nat /\ n >= depth
      BY <2>5, <2>6, <2>10, <2>12
    <2>17. c = IF upcoming > depth THEN n + 1
               ELSE IF upcoming < depth /\ n > 0 THEN n - 1 ELSE n
      BY <2>10
    <2> HIDE DEF u, v, in, outof, c, w, n
    <2>18. c = n + upcoming - depth
      <3>1. CASE upcoming > depth
        BY <2>12, <2>16, <2>17, <3>1
      <3>2. CASE upcoming < depth
        BY <2>12, <2>16, <2>17, <3>2
      <3>3. CASE upcoming = depth
        BY <2>12, <2>16, <2>17, <3>3
      <3>4. QED
        BY <2>12, <3>1, <3>2, <3>3
    <2>20. /\ ~absorbed => nesting = 0 /\ u = 0 /\ c = upcoming
           /\ nesting > 0 => absorbed /\ c = upcoming + nesting - 1 /\ u <= nesting
           /\ nesting = 0 => c >= upcoming + u
      BY <2>5, <2>6, <2>12, <2>16, <2>18 DEF n
    <2>21. /\ in /\ absorbed => w = c + 1
           /\ outof /\ nesting # 1 /\ c > 0 => w = c - 1
      BY <2>11 DEF c, w
    <2> DEFINE Right ==
          /\ ~absorbed' => nesting' = 0 /\ v = 0 /\ w = upcoming
          /\ nesting' > 0 => absorbed' /\ w = upcoming + nesting' - 1 /\ v <= nesting'
          /\ nesting' = 0 => w >= upcoming + v
    <2>22. ASSUME in PROVE Right
      <3>1. absorbed' /\ ~outof
        BY <2>9, <2>13, <2>22
      <3>2. CASE ~absorbed
        <4>1. nesting' = 1 /\ w = c /\ v <= 1
          BY <2>6, <2>9, <2>15, <2>20, <2>22, <3>1, <3>2
        <4>2. QED
          BY <2>12, <2>14, <2>20, <3>1, <3>2, <4>1
      <3>3. CASE absorbed /\ nesting > 0
        <4>1. nesting' = nesting + 1 /\ w = c + 1
          BY <2>9, <2>21, <2>22, <3>3
        <4>2. QED
          BY <2>6, <2>12, <2>14, <2>20, <3>1, <3>3, <4>1
      <3>4. CASE absorbed /\ ~(nesting > 0)
        <4>1. nesting' = 0 /\ nesting = 0 /\ w = c + 1
          BY <2>9, <2>12, <2>21, <2>22, <3>4
        <4>2. QED
          BY <2>6, <2>12, <2>14, <2>20, <3>1, <3>4, <4>1
      <3>5. QED
        BY <3>2, <3>3, <3>4
    <2>23. ASSUME outof PROVE Right
      <3>1. ~in /\ v + 1 <= u
        BY <2>6, <2>13, <2>23
      <3>2. absorbed /\ absorbed'
        BY <2>6, <2>9, <2>20, <3>1
      <3>3. CASE nesting = 0
        <4>1. nesting' = 0 /\ c > 0 /\ w = c - 1
          BY <2>6, <2>9, <2>12, <2>14, <2>20, <2>21, <2>23, <3>3
        <4>2. QED
          BY <2>6, <2>12, <2>14, <2>20, <3>1, <3>2, <3>3, <4>1
      <3>4. CASE nesting = 1
        <4>1. nesting' = 0 /\ w = c /\ v = 0
          BY <2>6, <2>9, <2>12, <2>15, <2>20, <2>23, <3>1, <3>4
        <4>2. QED
          BY <2>6, <2>12, <2>14, <2>20, <3>2, <3>4, <4>1
      <3>5. CASE nesting > 1
        <4>1. nesting' = nesting - 1 /\ c > 0 /\ w = c - 1
          BY <2>9, <2>12, <2>14, <2>20, <2>21, <2>23, <3>5
        <4>2. QED
          BY <2>6, <2>12, <2>14, <2>20, <3>1, <3>2, <3>5, <4>1
      <3>6. QED
        BY <2>12, <3>3, <3>4, <3>5
    <2>24. ASSUME ~in, ~outof PROVE Right
      <3>1. /\ v <= u /\ nesting' = nesting /\ w = c
            /\ absorbed' <=> absorbed
        BY <2>6, <2>9, <2>15, <2>24
      <3>2. QED
        BY <2>6, <2>12, <2>14, <2>20, <3>1
    <2>25. Right
      BY <2>22, <2>23, <2>24
    <2>26. w >= upcoming
      <3>1. nesting' \in Nat
        BY DataKept DEF DataOK
      <3>2. CASE nesting' = 0
        <4>1. w >= upcoming + v
          BY <2>25, <3>2
        <4>2. QED
          BY <2>6, <2>12, <2>14, <4>1
      <3>3. CASE nesting' > 0
        <4>1. w = upcoming + nesting' - 1
          BY <2>25, <3>3
        <4>2. QED
          <5> DEFINE m == nesting'
          <5>1. m \in Nat /\ m > 0 /\ w = upcoming + m - 1
            BY <3>1, <3>3, <4>1
          <5> HIDE DEF m
          <5>2. QED
            BY <2>12, <2>14, <5>1
      <3>4. QED
        BY <3>1, <3>2, <3>3
    <2>27. calls'[1] = "toplevel"
      <3>1. 1 \in 1..Len(calls) /\ 1 <= Len(cs) /\ 1 \in 1..Len(cs) /\ 1 <= Len(calls')
        BY <2>10, <2>12, <2>14, <2>16, <2>18, <2>26 DEF c, w, n
      <3>2. QED
        BY <2>5, <2>10, <2>11, <3>1
    <2>28. QED
      BY <2>4, <2>6, <2>25, <2>27 DEF CounterOK, v, w
  <1>4. QED
    BY <1>1, <1>2, <1>3

\* CounterOK and OwnFrames hold as recording starts.
LEMMA InitCounterOK == Init => OwnFrames /\ CounterOK
  <1> SUFFICES ASSUME Init PROVE OwnFrames /\ CounterOK
    OBVIOUS
  <1>1. OwnFrames
    BY DEF Init, OwnFrames
  <1>2. UserCalls(routines) = {}
    <2>1. routines = << <<>> >>
      BY DEF Init
    <2>2. ASSUME NEW d, NEW k, <<d, k>> \in UserCalls(routines) PROVE FALSE
      <3>1. d \in 1..Len(routines) /\ k \in 1..Len(routines[d])
        BY <2>2, UserCallsAre, Zenon
      <3>2. Len(routines) = 1 /\ routines[1] = <<>>
        BY <2>1
      <3>3. d = 1 /\ Len(routines[d]) = 0
        BY <3>1, <3>2
      <3>4. QED
        BY <3>1, <3>3
    <2>3. QED
      BY <2>2, UserCallsAre
  <1>3. IsFiniteSet(UserCalls(routines)) /\ Cardinality(UserCalls(routines)) = 0
    BY <1>2, FS_EmptySet
  <1>4. ~absorbed /\ nesting = 0 /\ depth = 1 /\ Len(calls) = 1 /\ calls[1] = "toplevel"
    BY DEF Init
  <1>5. QED
    BY <1>1, <1>3, <1>4 DEF CounterOK

\* As long as the transaction calls no other contract, the counter of the
\* absorbed call takes the right return for the one nobody registered, and the
\* toplevel call stays open to the end: for every nesting of frames and of
\* internal functions, frames that fail inside them included.
THEOREM CounterCountsCalls ==
    ASSUME OwnCallsOnly PROVE Spec => []NestingCountsCalls
  <1>1. FramesOK /\ DataOK /\ OwnFrames /\ CounterOK /\ [Next]_vars
        => OwnFrames' /\ CounterOK'
    BY OwnFramesKept, CounterKept
  <1>2. FramesOK /\ DataOK /\ CounterOK => NestingCountsCalls
    <2> SUFFICES ASSUME FramesOK, DataOK, CounterOK PROVE NestingCountsCalls
      OBVIOUS
    <2>1. depth \in Nat /\ Cardinality(UserCalls(routines)) \in Nat
      BY BoundsAssumption, FS_CardinalityType DEF FramesOK, CounterOK
    <2>2. ASSUME ~done, nesting = 0 PROVE Len(calls) >= depth
      <3>1. Len(calls) >= depth + Cardinality(UserCalls(routines))
        BY <2>2 DEF CounterOK
      <3>2. Len(calls) \in Nat
        BY DEF DataOK
      <3>3. QED
        BY <2>1, <3>1, <3>2
    <2>3. QED
      BY <2>2 DEF CounterOK, NestingCountsCalls
  <1>3. QED
    BY InitFramesOK, InitDataOK, InitCounterOK, FramesKept, DataKept, <1>1, <1>2,
       PTL DEF Spec

-----------------------------------------------------------------------------
(* The values carried forward. *)

\* Why CarriedStands holds: what a frame that fails would bring back is, for a
\* slot last written by a frame below, the value carried forward too.
StandsOK ==
    \A s \in DOMAIN storage : writer[s].owner = "self" /\ writer[s].at > 0 =>
        /\ storage[s] = world["self"][s]
        /\ \A d \in 1..depth : writer[s].at < d => saved[d]["self"][s] = storage[s]

\* What an entry leaves of a slot it does not write.
LEMMA StandsElsewhere ==
    ASSUME FramesOK, DataOK, Live, StandsOK,
           NEW s \in DOMAIN storage, NEW at \in 0..upcoming, at > 0,
           writer[s].owner = "self",
           \/ at = writer[s].at
           \/ at = upcoming /\ upcoming < writer[s].at /\ last = "RETURN"
    PROVE  /\ storage[s] = WorldAt(upcoming)["self"][s]
           /\ \A d \in 1..upcoming : at < d => SavedAt(upcoming)[d]["self"][s] = storage[s]
  <1>1. /\ upcoming \in Nat \ {0} /\ depth \in Nat \ {0}
        /\ upcoming > depth => upcoming = depth + 1
        /\ upcoming < depth => upcoming = depth - 1
    BY UpcomingBounds
  <1>2. at \in Nat /\ at <= upcoming /\ writer[s].at \in 0..depth /\ writer[s].at \in Nat
    BY <1>1 DEF DataOK
  <1>3. writer[s].at > 0 /\ at <= writer[s].at
    BY <1>1, <1>2
  <1>4. /\ storage[s] = world["self"][s]
        /\ \A d \in 1..depth : writer[s].at < d => saved[d]["self"][s] = storage[s]
    BY <1>3 DEF StandsOK
  <1>5. WorldAt(upcoming)["self"][s] = storage[s]
    <2>1. CASE upcoming < depth /\ last # "RETURN"
      <3>1. at = writer[s].at /\ upcoming + 1 \in 1..depth /\ writer[s].at < upcoming + 1
        BY <1>1, <1>2, <2>1
      <3>2. saved[upcoming + 1]["self"][s] = storage[s]
        BY <1>4, <3>1
      <3>3. QED
        BY <2>1, <3>2 DEF WorldAt
    <2>2. CASE ~(upcoming < depth /\ last # "RETURN")
      BY <1>4, <2>2 DEF WorldAt
    <2>3. QED
      BY <2>1, <2>2
  <1>6. ASSUME NEW d \in 1..upcoming, at < d
        PROVE  SavedAt(upcoming)[d]["self"][s] = storage[s]
    <2>1. SavedAt(upcoming)[d] = IF d <= depth THEN saved[d] ELSE world
      BY StorageShape
    <2>2. CASE d <= depth
      <3>1. d \in 1..depth /\ writer[s].at < d
        BY <1>1, <1>2, <1>6, <2>2
      <3>2. QED
        BY <1>4, <2>1, <2>2, <3>1
    <2>3. CASE ~(d <= depth)
      BY <1>4, <2>1, <2>3
    <2>4. QED
      BY <2>2, <2>3
  <1>7. QED
    BY <1>5, <1>6

\* One iteration keeps StandsOK.
LEMMA StandsKept ==
    ASSUME FramesOK, DataOK, StandsOK, [Next]_vars
    PROVE  StandsOK'
  <1>1. CASE Finalize \/ UNCHANGED vars
    BY <1>1 DEF Finalize, vars, evm_vars, rec_vars, StandsOK
  <1>2. CASE Next /\ ~Finalize
    <2>1. PICK to \in Target, op \in AllOp, jump \in {"i", "o", "-"} :
          \E slot, val, internal :
             /\ Live
             /\ Effect(op, jump, slot, val, internal)
             /\ Instruction(op, to, jump, slot, val, internal)
      BY <1>2, StepIsInstruction
    <2>2. PICK slot, val, internal :
             /\ Live
             /\ Effect(op, jump, slot, val, internal)
             /\ Instruction(op, to, jump, slot, val, internal)
      BY <2>1
    <2>3. PICK log : IsEntry(log, to, op, jump, slot, val) /\ Process(log)
      BY <2>2, InstructionHasEntry
    <2> DEFINE owner == EvmAt(upcoming, to)[upcoming].owner
               w == WriterAfter(upcoming, op, owner, slot)
    <2>4. storage' = IF op = "SSTORE" THEN Stored(slot, val) ELSE storage
      BY <2>3 DEF Process, IsEntry
    <2>5. /\ depth' = upcoming /\ writer' = w /\ saved' = SavedAt(upcoming)
          /\ world' = IF op = "SSTORE" THEN [WorldAt(upcoming) EXCEPT ![owner][slot] = val]
                      ELSE WorldAt(upcoming)
      BY <2>2, InstructionMoves
    <2>6. owner \in Contract
      BY <2>2, EvmShape DEF EvmFrame
    <2> HIDE DEF owner
    <2>7. /\ WorldAt(upcoming) \in Storage /\ upcoming \in Nat \ {0}
          /\ DOMAIN storage \subseteq Slots
      BY <2>2, StorageShape, UpcomingBounds DEF DataOK
    <2>8. op = "SSTORE" => slot \in Slots /\ val \in Vals
      BY <2>2 DEF Effect, CallOp, HaltOp
    <2>9. WriterMoves(w, op, owner, slot)
      BY <2>2, <2>6, WriterShape
    <2>10. DOMAIN storage' = DOMAIN w
      BY <2>4, <2>9 DEF Stored, WriterMoves
    <2> HIDE DEF w
    <2>11. ASSUME NEW s \in DOMAIN w, w[s].owner = "self", w[s].at > 0
           PROVE  /\ storage'[s] = world'["self"][s]
                  /\ \A d \in 1..upcoming :
                        w[s].at < d => SavedAt(upcoming)[d]["self"][s] = storage'[s]
      <3>1. CASE op = "SSTORE" /\ s = slot
        <4>0. w[s] = Wrote(owner, upcoming)
          BY <2>9, <2>11, <3>1 DEF WriterMoves
        <4>1. owner = "self" /\ w[s].at = upcoming
          BY <2>11, <4>0 DEF Wrote
        <4>2. storage'[s] = val
          BY <2>4, <3>1 DEF Stored
        <4>3. world'["self"][s] = val
          BY <2>5, <2>7, <2>8, <3>1, <4>1, WriteShape DEF Contract
        <4>4. \A d \in 1..upcoming : ~(w[s].at < d)
          BY <2>7, <4>1
        <4>5. QED
          BY <4>2, <4>3, <4>4
      <3>2. CASE ~(op = "SSTORE" /\ s = slot)
        <4>1. /\ s \in DOMAIN storage /\ writer[s].owner = "self" /\ w[s].at \in 0..upcoming
              /\ \/ w[s].at = writer[s].at
                 \/ w[s].at = upcoming /\ upcoming < writer[s].at /\ last = "RETURN"
          BY <2>7, <2>9, <2>11, <3>2 DEF WriterMoves
        <4>2. /\ storage[s] = WorldAt(upcoming)["self"][s]
              /\ \A d \in 1..upcoming :
                    w[s].at < d => SavedAt(upcoming)[d]["self"][s] = storage[s]
          <5> DEFINE at == w[s].at
          <5>1. /\ at \in 0..upcoming /\ at > 0
                /\ \/ at = writer[s].at
                   \/ at = upcoming /\ upcoming < writer[s].at /\ last = "RETURN"
            BY <2>11, <4>1
          <5>2. s \in DOMAIN storage /\ writer[s].owner = "self" /\ Live
            BY <2>2, <4>1
          <5> HIDE DEF at
          <5>3. /\ storage[s] = WorldAt(upcoming)["self"][s]
                /\ \A d \in 1..upcoming :
                      at < d => SavedAt(upcoming)[d]["self"][s] = storage[s]
            BY <5>1, <5>2, StandsElsewhere
          <5>4. QED
            BY <5>3 DEF at
        <4>3. storage'[s] = storage[s]
          BY <2>4, <3>2, <4>1 DEF Stored
        <4>4. world'["self"][s] = WorldAt(upcoming)["self"][s]
          <5>1. CASE op = "SSTORE"
            <6>1. s # slot /\ s \in Slots
              BY <2>7, <3>2, <4>1, <5>1
            <6>2. QED
              BY <2>5, <2>6, <2>7, <2>8, <5>1, <6>1 DEF Storage, Contract
          <5>2. CASE op # "SSTORE"
            BY <2>5, <5>2
          <5>3. QED
            BY <5>1, <5>2
        <4>5. QED
          BY <4>2, <4>3, <4>4
      <3>3. QED
        BY <3>1, <3>2
    <2>12. QED
      BY <2>5, <2>10, <2>11 DEF StandsOK
  <1>3. QED
    BY <1>1, <1>2

\* For every nesting of frames that return and fail, and whatever other contracts
\* the transaction calls, what is carried forward for a slot is what the storage
\* holds, unless the last write of that number was taken back or was another
\* account's.
THEOREM CarriedValuesStand == Spec => []CarriedStands
  <1>1. Init => StandsOK
    BY DEF Init, StandsOK, Empty
  <1>2. FramesOK /\ DataOK /\ StandsOK /\ [Next]_vars => StandsOK'
    BY StandsKept
  <1>3. StandsOK => CarriedStands
    BY DEF StandsOK, CarriedStands
  <1>4. QED
    BY InitFramesOK, InitDataOK, FramesKept, DataKept, <1>1, <1>2, <1>3, PTL DEF Spec

=============================================================================
