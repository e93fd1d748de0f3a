-------------------------- MODULE MultiRecorderProofs --------------------------
(***************************************************************************)
(* What MultiRecorder keeps for every set of contracts, every registry and *)
(* every transaction: the vectors indexed by depth stay aligned with the   *)
(* live frames, each frame is described by the context of the contract     *)
(* that runs in it, and the calls build a tree as CallTree promises.       *)
(***************************************************************************)
EXTENDS MultiRecorder, FiniteSetTheorems, TLAPS

TreeProofs == INSTANCE CallTreeProofs WITH Addr <- AnyAddr, Root <- Entry, now <- i

AllOp == CallOp \cup HaltOp \cup {"NONE", "OTHER", "JUMP", "KECCAK256", "SSTORE"}
EvmFrame == [code : Addr, owner : Addr, via : CallOp \cup {"NONE"}]
FrameType == [address : AnyAddr, is_delegate : BOOLEAN,
              delegate_proxy : AnyAddr \cup {None}]
RoutineType == {"user", "generated"}

\* The part of the state that says which frames are live.
FramesOK ==
    /\ i \in Nat /\ depth \in Nat \ {0}
    /\ evm \in Seq(EvmFrame) /\ Len(evm) = depth
    /\ routines \in Seq(Seq(RoutineType)) /\ Len(routines) = depth
    /\ last \in [op : AllOp, to : Addr \cup {None}]
    /\ last.op \in CallOp => last.to \in Addr
    /\ frames \in Seq(FrameType) /\ Len(frames) = depth
    /\ TreeProofs!IInv /\ Len(path) = depth
    /\ i = 0 => depth = 1

-----------------------------------------------------------------------------
(* Vectors that follow the depth. *)

\* `pop' down to n elements.
LEMMA CutToShape ==
    ASSUME NEW S, NEW s \in Seq(S), NEW n \in Nat
    PROVE  /\ CutTo(s, n) \in Seq(S)
           /\ Len(CutTo(s, n)) = IF n < Len(s) THEN n ELSE Len(s)
           /\ \A k \in 1 .. Len(CutTo(s, n)) : CutTo(s, n)[k] = s[k]
  <1> DEFINE m == IF n < Len(s) THEN n ELSE Len(s)
  <1>1. m \in Nat /\ m <= Len(s)
    OBVIOUS
  <1>2. CutTo(s, n) = [k \in 1..m |-> s[k]]
    BY DEF CutTo
  <1> HIDE DEF m
  <1>3. CutTo(s, n) \in [1..m -> S]
    BY <1>1, <1>2
  <1>4. CutTo(s, n) \in Seq(S) /\ Len(CutTo(s, n)) = m
    BY <1>1, <1>3
  <1>5. QED
    BY <1>1, <1>2, <1>4 DEF m

\* `push e' up to n elements.
LEMMA GrowToShape ==
    ASSUME NEW S, NEW s \in Seq(S), NEW e \in S, NEW n \in Nat
    PROVE  /\ GrowTo(s, n, e) \in Seq(S)
           /\ Len(GrowTo(s, n, e)) = IF Len(s) < n THEN n ELSE Len(s)
           /\ \A k \in 1 .. Len(GrowTo(s, n, e)) :
                 GrowTo(s, n, e)[k] = IF k <= Len(s) THEN s[k] ELSE e
  <1> DEFINE m == IF Len(s) < n THEN n ELSE Len(s)
  <1>1. m \in Nat /\ Len(s) \in Nat
    OBVIOUS
  <1>2. GrowTo(s, n, e) = [k \in 1..m |-> IF k <= Len(s) THEN s[k] ELSE e]
    BY DEF GrowTo
  <1> HIDE DEF m
  <1>3. \A k \in 1..m : (IF k <= Len(s) THEN s[k] ELSE e) \in S
    BY <1>1
  <1>4. GrowTo(s, n, e) \in [1..m -> S]
    BY <1>2, <1>3
  <1>5. GrowTo(s, n, e) \in Seq(S) /\ Len(GrowTo(s, n, e)) = m
    BY <1>1, <1>4
  <1>6. QED
    BY <1>2, <1>5 DEF m

\* A vector with one element per frame has one per frame again after it has
\* followed the depth, with the elements of the frames that stay.
LEMMA ResizedShape ==
    ASSUME NEW S, NEW s \in Seq(S), NEW e \in S,
           depth \in Nat, Len(s) = depth, NEW d \in 1 .. depth + 1
    PROVE  /\ Resized(s, d, e) \in Seq(S)
           /\ Len(Resized(s, d, e)) = d
           /\ \A k \in 1..d :
                 Resized(s, d, e)[k] = IF k <= depth THEN s[k] ELSE e
  <1> DEFINE c == IF d < depth THEN CutTo(s, d) ELSE s
  <1>1. d \in Nat
    OBVIOUS
  <1>2. /\ c \in Seq(S)
        /\ Len(c) = IF d < depth THEN d ELSE depth
        /\ \A k \in 1..Len(c) : c[k] = s[k]
    BY <1>1, CutToShape
  <1>3. Resized(s, d, e) = GrowTo(c, d, e)
    BY DEF Resized
  <1> HIDE DEF c
  <1>4. /\ GrowTo(c, d, e) \in Seq(S)
        /\ Len(GrowTo(c, d, e)) = IF Len(c) < d THEN d ELSE Len(c)
        /\ \A k \in 1 .. Len(GrowTo(c, d, e)) :
              GrowTo(c, d, e)[k] = IF k <= Len(c) THEN c[k] ELSE e
    BY <1>1, <1>2, GrowToShape
  <1>5. Len(Resized(s, d, e)) = d
    BY <1>1, <1>2, <1>3, <1>4
  <1>6. ASSUME NEW k \in 1..d
        PROVE  Resized(s, d, e)[k] = IF k <= depth THEN s[k] ELSE e
    <2>1. Resized(s, d, e)[k] = IF k <= Len(c) THEN c[k] ELSE e
      BY <1>3, <1>4, <1>5
    <2>2. CASE k <= Len(c)
      BY <1>1, <1>2, <2>1, <2>2
    <2>3. CASE ~(k <= Len(c))
      BY <1>1, <1>2, <2>1, <2>3
    <2>4. QED
      BY <2>2, <2>3
  <1>7. QED
    BY <1>3, <1>4, <1>5, <1>6

-----------------------------------------------------------------------------
(* The entry of an iteration. *)

\* What the loop can rely on about the entry `log' at depth d.
IsLog(log, d) ==
    /\ log.depth = d
    /\ log.op \in AllOp /\ log.to \in Addr \cup {None}
    /\ log.op \in CallOp => log.to \in Addr
    /\ log.loc \in LocsAt(d)
    /\ log.op = "KECCAK256" => log.slot \in Derived
    /\ log.op = "SSTORE" => log.slot \in Slots /\ log.val \in Vals

\* Depths differ by at most one, and only a call instruction goes deeper.
LEMMA NextDepthBounds ==
    ASSUME FramesOK, NEW d \in NextDepth
    PROVE  /\ d \in 1 .. depth + 1 /\ d \in Nat
           /\ depth - d <= 1
           /\ d > depth => last.op \in CallOp
           /\ i = 0 => d = depth
  <1>1. depth \in Nat \ {0} /\ (i = 0 => depth = 1)
    BY DEF FramesOK
  <1>2. CASE i = 0
    BY <1>1, <1>2 DEF NextDepth
  <1>3. CASE i # 0
    <2>1. d \in NextDepths(last.op, depth)
      BY <1>3 DEF NextDepth
    <2>2. \/ d = depth + 1 /\ last.op \in CallOp
          \/ d = depth
          \/ depth > 1 /\ d = depth - 1
      BY <1>1, <2>1 DEF NextDepths
    <2>3. QED
      BY <1>1, <1>3, <2>2
  <1>4. QED
    BY <1>2, <1>3

\* The internal functions of the live frames, as the transaction goes on.
LEMMA RoutinesShape ==
    ASSUME FramesOK, NEW d \in NextDepth
    PROVE  /\ RoutinesAt(d) \in Seq(Seq(RoutineType))
           /\ Len(RoutinesAt(d)) = d
           /\ d \in 1..d
           /\ RoutinesAt(d)[d] \in Seq(RoutineType)
  <1>1. /\ routines \in Seq(Seq(RoutineType)) /\ Len(routines) = depth
        /\ depth \in Nat
    BY DEF FramesOK
  <1>2. d \in 1 .. depth + 1 /\ d \in 1..d
    BY <1>1, NextDepthBounds
  <1>3. <<>> \in Seq(RoutineType)
    OBVIOUS
  <1>4. RoutinesAt(d) \in Seq(Seq(RoutineType)) /\ Len(RoutinesAt(d)) = d
    <2> DEFINE S == Seq(RoutineType)
               none == <<>>
    <2>1. routines \in Seq(S) /\ none \in S
      BY <1>1, <1>3
    <2> HIDE DEF S, none
    <2>2. Resized(routines, d, none) \in Seq(S) /\ Len(Resized(routines, d, none)) = d
      BY <1>1, <1>2, <2>1, ResizedShape
    <2>3. QED
      BY <2>2 DEF S, none, RoutinesAt
  <1>5. QED
    BY <1>2, <1>4

\* Every step but the last is one iteration of the loop.
LEMMA StepIsIteration ==
    ASSUME FramesOK, Next, ~Finalize
    PROVE  \E d \in NextDepth : \E log :
              /\ Live /\ IsLog(log, d) /\ Process(log)
              /\ evm' = EvmAt(d)
              /\ routines' \in Seq(Seq(RoutineType)) /\ Len(routines') = d
  <1> DEFINE goal == \E d \in NextDepth : \E log :
                        /\ Live /\ IsLog(log, d) /\ Process(log)
                        /\ evm' = EvmAt(d)
                        /\ routines' \in Seq(Seq(RoutineType))
                        /\ Len(routines') = d
  <1>1. ASSUME NEW d \in NextDepth, NEW log, Live, IsLog(log, d), Process(log),
               evm' = EvmAt(d),
               routines' \in Seq(Seq(RoutineType)), Len(routines') = d
        PROVE  goal
    BY <1>1
  <1> HIDE DEF goal
  <1>2. ASSUME NEW d \in NextDepth, NEW rs \in Seq(RoutineType)
        PROVE  LET new == [RoutinesAt(d) EXCEPT ![d] = rs] IN
               new \in Seq(Seq(RoutineType)) /\ Len(new) = d
    BY RoutinesShape
  <1>3. \A d \in NextDepth : \A op, loc, jump :
           LET log == LogEntry(d, op, loc, jump) IN
           /\ log.depth = d /\ log.op = op /\ log.to = None /\ log.loc = loc
    BY DEF LogEntry
  <1>4. ASSUME NEW d \in NextDepth, Live,
               Execute(d) \/ Halt(d) \/ EnterRoutine(d) \/ LeaveRoutine(d)
        PROVE  goal
    <2>1. \E op \in {"OTHER", "RETURN", "JUMP"}, loc \in LocsAt(d), jump \in {"i", "o", "-"} :
             /\ Process(LogEntry(d, op, loc, jump))
             /\ evm' = EvmAt(d)
             /\ routines' \in Seq(Seq(RoutineType)) /\ Len(routines') = d
      <3>1. Jumps(d, "i") \cup Jumps(d, "o") \cup Jumps(d, "-") \subseteq {"i", "o", "-"}
        BY DEF Jumps
      <3>2. CASE Execute(d)
        BY <3>1, <3>2, RoutinesShape DEF Execute
      <3>3. CASE Halt(d)
        BY <3>1, <3>3, RoutinesShape DEF Halt
      <3>4. CASE EnterRoutine(d)
        <4>1. PICK loc \in LocsAt(d), jump \in Jumps(d, "i"), r \in RoutineType :
                 /\ Process(LogEntry(d, "JUMP", loc, jump))
                 /\ evm' = EvmAt(d)
                 /\ routines' = [RoutinesAt(d) EXCEPT ![d] = Append(@, r)]
          BY <3>4 DEF EnterRoutine, RoutineType
        <4>2. Append(RoutinesAt(d)[d], r) \in Seq(RoutineType)
          BY RoutinesShape
        <4>3. routines' \in Seq(Seq(RoutineType)) /\ Len(routines') = d
          BY <1>2, <4>1, <4>2
        <4>4. QED
          BY <3>1, <4>1, <4>3
      <3>5. CASE LeaveRoutine(d)
        <4>1. PICK loc \in LocsAt(d), jump \in Jumps(d, "o") :
                 /\ RoutinesAt(d)[d] # <<>>
                 /\ Process(LogEntry(d, "JUMP", loc, jump))
                 /\ evm' = EvmAt(d)
                 /\ routines' = [RoutinesAt(d) EXCEPT ![d] = CutTo(@, Len(@) - 1)]
          BY <3>5 DEF LeaveRoutine
        <4>2. Len(RoutinesAt(d)[d]) - 1 \in Nat
          BY <4>1, RoutinesShape
        <4>3. CutTo(RoutinesAt(d)[d], Len(RoutinesAt(d)[d]) - 1) \in Seq(RoutineType)
          BY <4>2, RoutinesShape, CutToShape
        <4>4. routines' \in Seq(Seq(RoutineType)) /\ Len(routines') = d
          BY <1>2, <4>1, <4>3
        <4>5. QED
          BY <3>1, <4>1, <4>4
      <3>6. QED
        BY <1>4, <3>2, <3>3, <3>4, <3>5
    <2>2. PICK op \in {"OTHER", "RETURN", "JUMP"}, loc \in LocsAt(d), jump \in {"i", "o", "-"} :
             /\ Process(LogEntry(d, op, loc, jump))
             /\ evm' = EvmAt(d)
             /\ routines' \in Seq(Seq(RoutineType)) /\ Len(routines') = d
      BY <2>1
    <2>3. IsLog(LogEntry(d, op, loc, jump), d)
      BY <1>3 DEF IsLog, AllOp, CallOp, HaltOp
    <2>4. QED
      BY <1>1, <1>4, <2>2, <2>3
  <1>5. ASSUME NEW d \in NextDepth, Live,
               CallInstruction(d) \/ Derive(d) \/ Store(d)
        PROVE  goal
    <2>1. CASE CallInstruction(d)
      <3>1. PICK loc \in LocsAt(d), jump \in Jumps(d, "-"), op \in Ops, to \in Addr :
               /\ Process([LogEntry(d, op, loc, jump) EXCEPT !.to = to])
               /\ evm' = EvmAt(d) /\ routines' = RoutinesAt(d)
        BY <2>1 DEF CallInstruction
      <3>2. op \in CallOp
        BY OpsAssumption
      <3>3. IsLog([LogEntry(d, op, loc, jump) EXCEPT !.to = to], d)
        BY <3>2 DEF IsLog, AllOp, CallOp, LogEntry
      <3>4. QED
        BY <1>1, <1>5, <3>1, <3>3, RoutinesShape
    <2>2. CASE Derive(d)
      <3>1. PICK loc \in LocsAt(d), jump \in Jumps(d, "-"), slot \in Derived :
               /\ Process([LogEntry(d, "KECCAK256", loc, jump) EXCEPT !.slot = slot])
               /\ evm' = EvmAt(d) /\ routines' = RoutinesAt(d)
        BY <2>2 DEF Derive
      <3>2. IsLog([LogEntry(d, "KECCAK256", loc, jump) EXCEPT !.slot = slot], d)
        BY DEF IsLog, AllOp, CallOp, LogEntry
      <3>3. QED
        BY <1>1, <1>5, <3>1, <3>2, RoutinesShape
    <2>3. CASE Store(d)
      <3>1. PICK loc \in LocsAt(d), jump \in Jumps(d, "-"), slot \in Slots,
                 val \in Vals :
               /\ Process([LogEntry(d, "SSTORE", loc, jump)
                             EXCEPT !.slot = slot, !.val = val])
               /\ evm' = EvmAt(d) /\ routines' = RoutinesAt(d)
        BY <2>3 DEF Store
      <3>2. IsLog([LogEntry(d, "SSTORE", loc, jump)
                      EXCEPT !.slot = slot, !.val = val], d)
        BY DEF IsLog, AllOp, CallOp, LogEntry
      <3>3. QED
        BY <1>1, <1>5, <3>1, <3>2, RoutinesShape
    <2>4. QED
      BY <1>5, <2>1, <2>2, <2>3
  <1>6. goal
    BY <1>4, <1>5 DEF Next
  <1>7. QED
    BY <1>6 DEF goal

-----------------------------------------------------------------------------
(* The call tree. *)

\* enter_call and exit_call as the recorder calls them: the address of the new
\* frame's context, the depth that dropped.
LEMMA IterationIsTreeStep ==
    ASSUME FramesOK, NEW d \in NextDepth, NEW log, Live, IsLog(log, d),
           Process(log)
    PROVE  /\ d > depth => \E address \in AnyAddr, type \in Tree!CallType :
                              Tree!Enter(address, type)
           /\ d < depth => Tree!Exit(depth - d)
           /\ d = depth => Tree!Stay
  <1>1. /\ d \in 1 .. depth + 1 /\ depth \in Nat \ {0} /\ i \in Nat
        /\ d > depth => last.op \in CallOp
        /\ i = 0 => d = depth
        /\ Len(path) = depth
    BY NextDepthBounds DEF FramesOK
  <1>2. i' = i + 1 /\ nodes' = NodesAt(d) /\ path' = PathAt(d) /\ i < MaxSteps
    BY DEF Process, IsLog, Live
  <1>3. d # depth => i \in 1 .. MaxSteps - 1
    BY <1>1, <1>2, BoundsAssumption
  <1>4. CASE d > depth
    <2> DEFINE address == FrameContext(last.op, last.to).address
               type == CallTypeOf(last.op)
    <2>1. last.op \in CallOp /\ last.to \in Addr
      BY <1>1, <1>4 DEF FramesOK
    <2>2. address \in AnyAddr
      BY <2>1 DEF FrameContext, AnyAddr
    <2>3. type \in Tree!CallType
      BY <2>1 DEF CallTypeOf, CallOp, Tree!CallType
    <2>4. Tree!Enter(address, type)
      BY <1>1, <1>2, <1>3, <1>4 DEF Tree!Enter, NodesAt, PathAt
    <2>5. QED
      BY <1>1, <1>4, <2>2, <2>3, <2>4
  <1>5. CASE d < depth
    <2>1. nodes' = Tree!NodesExited(nodes, path, depth - d, i)
      BY <1>1, <1>2, <1>5 DEF NodesAt
    <2>2. path' = Tree!PathExited(path, depth - d)
      BY <1>1, <1>2, <1>5 DEF PathAt
    <2>3. Tree!Exit(depth - d)
      BY <1>1, <1>2, <1>3, <1>5, <2>1, <2>2 DEF Tree!Exit
    <2>4. QED
      BY <1>1, <1>5, <2>3
  <1>6. CASE d = depth
    <2>1. nodes' = Tree!NodesExited(nodes, path, 0, i)
          /\ path' = Tree!PathExited(path, 0)
      BY <1>1, <1>2, <1>6 DEF NodesAt, PathAt
    <2>2. nodes \in Seq(Tree!Node) /\ path \in Seq(Nat) /\ Len(path) \in Nat \ {0}
      BY <1>1 DEF FramesOK, TreeProofs!IInv, TreeProofs!TypeOK,
                  TreeProofs!Node, Tree!Node, TreeProofs!CallType, Tree!CallType
    <2>3. Tree!PathLength(path, 0) = Len(path)
      BY <2>2 DEF Tree!PathLength
    <2>4. nodes' = [n \in 1..Len(nodes) |-> nodes[n]]
      BY <2>1, <2>2, <2>3 DEF Tree!NodesExited
    <2>5. path' = [k \in 1..Len(path) |-> path[k]]
      BY <2>1, <2>3 DEF Tree!PathExited
    <2>6. nodes' = nodes /\ path' = path
      BY <2>2, <2>4, <2>5
    <2>7. QED
      BY <1>1, <1>2, <1>6, <2>6 DEF Tree!Stay
  <1>7. QED
    BY <1>1, <1>4, <1>5, <1>6

\* The tree's own invariant is kept by the steps of the recorder.
LEMMA TreeKept ==
    ASSUME FramesOK, NEW d \in NextDepth, NEW log, Live, IsLog(log, d),
           Process(log)
    PROVE  TreeProofs!IInv'
  <1>1. depth \in Nat /\ d \in Nat /\ TreeProofs!IInv
    BY NextDepthBounds DEF FramesOK
  <1>0. Entry \in AnyAddr /\ MaxSteps \in Nat
    BY AddrAssumption, BoundsAssumption DEF AnyAddr
  <1>2. CASE d > depth
    <2>1. PICK address \in AnyAddr, type \in Tree!CallType : Tree!Enter(address, type)
      BY <1>2, IterationIsTreeStep
    <2>2. TreeProofs!Enter(address, type) /\ type \in TreeProofs!CallType
      BY <2>1 DEF Tree!CallType, TreeProofs!CallType, Tree!Enter, TreeProofs!Enter,
                  Tree!NodesEntered, TreeProofs!NodesEntered,
                  Tree!CallNode, TreeProofs!CallNode, Tree!Current, TreeProofs!Current,
                  Tree!PathEntered, TreeProofs!PathEntered
    <2>3. QED
      BY <1>0, <1>1, <2>2, TreeProofs!EnterIInv
  <1>3. CASE d < depth
    <2>1. Tree!Exit(depth - d) /\ depth - d \in Nat
      BY <1>1, <1>3, IterationIsTreeStep
    <2>2. TreeProofs!Exit(depth - d)
      BY <2>1 DEF Tree!Exit, TreeProofs!Exit, Tree!NodesExited, TreeProofs!NodesExited,
                  Tree!PathLength, TreeProofs!PathLength,
                  Tree!PathExited, TreeProofs!PathExited
    <2>3. QED
      BY <1>0, <1>1, <2>1, <2>2, TreeProofs!ExitIInv
  <1>4. CASE d = depth
    <2>1. Tree!Stay
      BY <1>4, IterationIsTreeStep
    <2>2. TreeProofs!Stay
      BY <2>1 DEF Tree!Stay, TreeProofs!Stay
    <2>3. QED
      BY <1>0, <1>1, <2>2, TreeProofs!StayIInv
  <1>5. QED
    BY <1>1, <1>2, <1>3, <1>4

-----------------------------------------------------------------------------
(* The live frames. *)

\* Before the first entry: the frame of the transaction, in every vector.
LEMMA InitFramesOK == Init => FramesOK
  <1> SUFFICES ASSUME Init PROVE FramesOK
    OBVIOUS
  <1>1. Entry \in Addr /\ Entry \in AnyAddr /\ MaxSteps \in Nat
    BY AddrAssumption, BoundsAssumption DEF AnyAddr
  <1>2. TreeProofs!Init
    BY DEF Init, TreeProofs!Init, Tree!NewNodes, TreeProofs!NewNodes,
           Tree!NewPath, TreeProofs!NewPath, Tree!CallNode, TreeProofs!CallNode
  <1>3. TreeProofs!IInv
    BY <1>1, <1>2, TreeProofs!InitIInv
  <1>4. /\ i = 0 /\ depth = 1 /\ last = NoLog
        /\ evm = <<[code |-> Entry, owner |-> Entry, via |-> "NONE"]>>
        /\ routines = << <<>> >>
        /\ frames = <<[address |-> Entry, is_delegate |-> FALSE,
                       delegate_proxy |-> None]>>
        /\ path = <<1>>
    BY DEF Init, Tree!NewPath
  <1>5. [code |-> Entry, owner |-> Entry, via |-> "NONE"] \in EvmFrame
    BY <1>1 DEF EvmFrame
  <1>6. [address |-> Entry, is_delegate |-> FALSE, delegate_proxy |-> None] \in FrameType
    BY <1>1 DEF FrameType
  <1>7. <<>> \in Seq(RoutineType)
    OBVIOUS
  <1>8. evm \in Seq(EvmFrame) /\ Len(evm) = 1
    BY <1>4, <1>5
  <1>9. frames \in Seq(FrameType) /\ Len(frames) = 1
    BY <1>4, <1>6
  <1>10. routines \in Seq(Seq(RoutineType)) /\ Len(routines) = 1
    BY <1>4, <1>7
  <1>11. last \in [op : AllOp, to : Addr \cup {None}] /\ last.op \notin CallOp
    BY <1>4 DEF NoLog, AllOp, CallOp
  <1>12. QED
    BY <1>3, <1>4, <1>8, <1>9, <1>10, <1>11 DEF FramesOK

\* The context of a new frame and the frame the transaction enters.
LEMMA NewFrames ==
    ASSUME FramesOK, last.op \in CallOp
    PROVE  /\ FrameContext(last.op, last.to) \in FrameType
           /\ Callee(evm[depth], last.op, last.to) \in EvmFrame
  <1>1. last.to \in Addr /\ depth \in 1..depth
        /\ evm[depth] \in EvmFrame /\ frames[depth] \in FrameType
        /\ Len(frames) = depth
    BY DEF FramesOK
  <1>2. evm[depth].owner \in Addr /\ frames[depth].address \in AnyAddr
    BY <1>1 DEF EvmFrame, FrameType
  <1>3. FrameContext(last.op, last.to) \in FrameType
    BY <1>1, <1>2 DEF FrameContext, FrameType, AnyAddr
  <1>4. Callee(evm[depth], last.op, last.to) \in EvmFrame
    BY <1>1, <1>2 DEF Callee, EvmFrame
  <1>5. QED
    BY <1>3, <1>4

\* The vectors of the live frames after the depth has been followed: one
\* element more, or the elements of the frames that stay.
LEMMA FollowedFrames ==
    ASSUME FramesOK, NEW d \in NextDepth
    PROVE  /\ EvmAt(d) \in Seq(EvmFrame) /\ Len(EvmAt(d)) = d
           /\ \A k \in 1..d : EvmAt(d)[k] =
                 IF k <= depth THEN evm[k]
                 ELSE Callee(evm[depth], last.op, last.to)
           /\ FramesAt(d) \in Seq(FrameType) /\ Len(FramesAt(d)) = d
           /\ \A k \in 1..d : FramesAt(d)[k] =
                 IF k <= depth THEN frames[k]
                 ELSE FrameContext(last.op, last.to)
  <1> DEFINE context == FrameContext(last.op, last.to)
             callee == Callee(evm[depth], last.op, last.to)
  <1>1. /\ d \in 1 .. depth + 1 /\ d \in Nat /\ depth \in Nat
        /\ d > depth => last.op \in CallOp
        /\ evm \in Seq(EvmFrame) /\ Len(evm) = depth
        /\ frames \in Seq(FrameType) /\ Len(frames) = depth
    BY NextDepthBounds DEF FramesOK
  <1>2. CASE d > depth
    <2>1. context \in FrameType /\ callee \in EvmFrame
      BY <1>1, <1>2, NewFrames
    <2>2. EvmAt(d) = Append(evm, callee) /\ FramesAt(d) = Append(frames, context)
      BY <1>2 DEF EvmAt, FramesAt
    <2>3. d = depth + 1
      BY <1>1, <1>2
    <2> HIDE DEF context, callee
    <2>4. /\ EvmAt(d) \in Seq(EvmFrame) /\ Len(EvmAt(d)) = d
          /\ \A k \in 1..d : EvmAt(d)[k] = IF k <= depth THEN evm[k] ELSE callee
      BY <1>1, <2>1, <2>2, <2>3
    <2>5. /\ FramesAt(d) \in Seq(FrameType) /\ Len(FramesAt(d)) = d
          /\ \A k \in 1..d : FramesAt(d)[k] = IF k <= depth THEN frames[k] ELSE context
      BY <1>1, <2>1, <2>2, <2>3
    <2>6. QED
      BY <2>4, <2>5 DEF context, callee
  <1>3. CASE ~(d > depth)
    <2>1. EvmAt(d) = CutTo(evm, d) /\ FramesAt(d) = CutTo(frames, d)
      BY <1>3 DEF EvmAt, FramesAt
    <2>2. \A k \in 1..d : k <= depth
      BY <1>1, <1>3
    <2>3. /\ EvmAt(d) \in Seq(EvmFrame)
          /\ Len(EvmAt(d)) = IF d < depth THEN d ELSE depth
          /\ \A k \in 1 .. Len(EvmAt(d)) : EvmAt(d)[k] = evm[k]
      BY <1>1, <2>1, CutToShape
    <2>4. /\ FramesAt(d) \in Seq(FrameType)
          /\ Len(FramesAt(d)) = IF d < depth THEN d ELSE depth
          /\ \A k \in 1 .. Len(FramesAt(d)) : FramesAt(d)[k] = frames[k]
      BY <1>1, <2>1, CutToShape
    <2>5. (IF d < depth THEN d ELSE depth) = d
      BY <1>1, <1>3
    <2> HIDE DEF context, callee
    <2>6. QED
      BY <2>2, <2>3, <2>4, <2>5 DEF context, callee
  <1>4. QED
    BY <1>2, <1>3

\* The path has one element per live frame, and the new last one is the node
\* of the current frame.
LEMMA FollowedPath ==
    ASSUME FramesOK, NEW d \in NextDepth
    PROVE  /\ PathAt(d) \in Seq(Nat) /\ Len(PathAt(d)) = d
           /\ \A k \in 1..d : PathAt(d)[k] =
                 IF k <= depth THEN path[k] ELSE Len(nodes) + 1
  <1>1. /\ d \in 1 .. depth + 1 /\ d \in Nat /\ depth \in Nat
        /\ path \in Seq(Nat) /\ Len(path) = depth /\ Len(nodes) \in Nat
    BY NextDepthBounds DEF FramesOK, TreeProofs!IInv, TreeProofs!TypeOK
  <1>2. CASE d > depth
    <2>1. PathAt(d) = Append(path, Len(nodes) + 1) /\ d = depth + 1
      BY <1>1, <1>2 DEF PathAt, Tree!PathEntered
    <2>2. QED
      BY <1>1, <2>1
  <1>3. CASE ~(d > depth)
    <2>1. Tree!PathLength(path, depth - d) = d
      BY <1>1, <1>3 DEF Tree!PathLength
    <2>2. PathAt(d) = [k \in 1..d |-> path[k]]
      BY <1>3, <2>1 DEF PathAt, Tree!PathExited
    <2>3. PathAt(d) \in [1..d -> Nat]
      BY <1>1, <1>3, <2>2
    <2>4. PathAt(d) \in Seq(Nat) /\ Len(PathAt(d)) = d
      BY <1>1, <2>3
    <2>5. QED
      BY <1>1, <1>3, <2>2, <2>4
  <1>4. QED
    BY <1>2, <1>3

\* FramesOK is inductive.
LEMMA FramesKept == FramesOK /\ [Next]_vars => FramesOK'
  <1> SUFFICES ASSUME FramesOK, [Next]_vars PROVE FramesOK'
    OBVIOUS
  <1>1. CASE Finalize \/ UNCHANGED vars
    <2>1. UNCHANGED <<evm, routines, last, i, depth, frames, nodes, path>>
      BY <1>1 DEF Finalize, vars, evm_vars, frame_vars
    <2>2. UNCHANGED TreeProofs!vars
      BY <2>1 DEF TreeProofs!vars
    <2>3. Entry \in AnyAddr /\ MaxSteps \in Nat
      BY AddrAssumption, BoundsAssumption DEF AnyAddr
    <2>4. TreeProofs!IInv'
      BY <2>2, <2>3, TreeProofs!StayIInv DEF FramesOK
    <2>5. QED
      BY <2>1, <2>4 DEF FramesOK
  <1>2. CASE Next /\ ~Finalize
    <2>0. PICK d \in NextDepth : \E log :
             /\ Live /\ IsLog(log, d) /\ Process(log)
             /\ evm' = EvmAt(d)
             /\ routines' \in Seq(Seq(RoutineType)) /\ Len(routines') = d
      BY <1>2, StepIsIteration
    <2>1. PICK log :
             /\ Live /\ IsLog(log, d) /\ Process(log)
             /\ evm' = EvmAt(d)
             /\ routines' \in Seq(Seq(RoutineType)) /\ Len(routines') = d
      BY <2>0
    <2>2. /\ i' = i + 1 /\ depth' = d /\ frames' = FramesAt(d) /\ path' = PathAt(d)
          /\ last' = [op |-> log.op, to |-> log.to]
      BY <2>1 DEF Process, IsLog
    <2>3. d \in Nat \ {0} /\ i \in Nat
      BY NextDepthBounds DEF FramesOK
    <2>4. TreeProofs!IInv'
      BY <2>1, TreeKept
    <2>5. last' \in [op : AllOp, to : Addr \cup {None}]
          /\ (last'.op \in CallOp => last'.to \in Addr)
      BY <2>1, <2>2 DEF IsLog
    <2>6. /\ evm' \in Seq(EvmFrame) /\ Len(evm') = d
          /\ frames' \in Seq(FrameType) /\ Len(frames') = d
          /\ Len(path') = d
      BY <2>1, <2>2, FollowedFrames, FollowedPath
    <2>7. QED
      BY <2>1, <2>2, <2>3, <2>4, <2>5, <2>6 DEF FramesOK
  <1>3. QED
    BY <1>1, <1>2

\* The live frames of the transaction, the recorder's frame stack, its vectors
\* and the call tree agree at every entry.
THEOREM FramesInvariant == Spec => []FramesOK
  BY InitFramesOK, FramesKept, PTL DEF Spec

\* The calls of a recording build the tree that CallTree promises: every
\* iteration is enter_call, exit_call or no change of the tree.
THEOREM RecorderImplementsCallTree == Spec => ImplementsCallTree
  <1>1. Init => Tree!Init
    BY DEF Init, Tree!Init
  <1>2. FramesOK /\ [Next]_vars => [Tree!Next]_(Tree!vars)
    <2> SUFFICES ASSUME FramesOK, [Next]_vars
                 PROVE  [Tree!Next]_(Tree!vars)
      OBVIOUS
    <2>1. CASE Finalize \/ UNCHANGED vars
      BY <2>1 DEF Finalize, vars, frame_vars, Tree!vars
    <2>2. CASE Next /\ ~Finalize
      <3>0. PICK d \in NextDepth : \E log : Live /\ IsLog(log, d) /\ Process(log)
        BY <2>2, StepIsIteration
      <3>1. PICK log : Live /\ IsLog(log, d) /\ Process(log)
        BY <3>0
      <3>2. d \in 1 .. depth + 1 /\ depth \in Nat /\ Len(path) = depth
        BY NextDepthBounds DEF FramesOK
      <3>3. CASE d > depth
        BY <3>1, <3>3, IterationIsTreeStep DEF Tree!Next
      <3>4. CASE d < depth
        <4>1. depth - d \in 1..Len(path)
          BY <3>2, <3>4
        <4>2. QED
          BY <3>1, <3>4, <4>1, IterationIsTreeStep DEF Tree!Next
      <3>5. CASE d = depth
        BY <3>1, <3>5, IterationIsTreeStep DEF Tree!Next
      <3>6. QED
        BY <3>2, <3>3, <3>4, <3>5
    <2>3. QED
      BY <2>1, <2>2
  <1>3. QED
    BY <1>1, <1>2, FramesInvariant, PTL DEF Spec, ImplementsCallTree, Tree!Spec

-----------------------------------------------------------------------------
(* The data of the frames. *)

Carried == UNION {[D -> Vals] : D \in SUBSET Name}
CallRecord == [kind : {"toplevel", "frame", "routine"}, of : Nat]

DataOK ==
    /\ storage \in Seq(Carried) /\ Len(storage) = depth
    /\ mapped \in Seq(SUBSET Derived) /\ Len(mapped) = depth
    /\ trackers = IF i = 0 THEN <<>> ELSE path
    /\ i = 0 => path = <<1>>
    /\ prev_line \in Locs \cup {None}
    /\ calls \in Seq(CallRecord)
    /\ done \in BOOLEAN

\* The artifacts found for a frame are those of a registered contract.
LEMMA ViewShape ==
    ASSUME NEW frame \in FrameType
    PROVE  /\ ViewOf(frame).code \in AnyAddr \cup {None}
           /\ ViewOf(frame).layout \in AnyAddr \cup {None}
  <1>1. \A a : Artifacts!Get(registry, a) \in AnyAddr \cup {None}
    BY AddrAssumption DEF Artifacts!Get, registry, Artifacts!NewRegistry, AnyAddr
  <1>2. CASE frame.is_delegate
    <2>1. Registered \subseteq AnyAddr
      BY AddrAssumption DEF AnyAddr
    <2>2. QED
      BY <1>1, <1>2, <2>1 DEF ViewOf, Artifacts!GetDelegatecall, Artifacts!NoView,
                              registry, Artifacts!NewRegistry
  <1>3. CASE ~frame.is_delegate
    BY <1>1, <1>3 DEF ViewOf
  <1>4. QED
    BY <1>2, <1>3

\* What a write leaves is again a map from names to values.
LEMMA StoredShape ==
    ASSUME NEW carried \in Carried, NEW name \in Name, NEW val \in Vals
    PROVE  Stored(carried, name, val) \in Carried
  <1>1. PICK D \in SUBSET Name : carried \in [D -> Vals]
    BY DEF Carried
  <1>2. Stored(carried, name, val) \in [D \cup {name} -> Vals]
    BY <1>1 DEF Stored
  <1>3. D \cup {name} \in SUBSET Name
    OBVIOUS
  <1>4. QED
    BY <1>2, <1>3 DEF Carried

\* A new frame carries nothing forward.
LEMMA EmptyShape == Empty \in Carried /\ DOMAIN Empty = {}
  <1>1. Empty \in [{} -> Vals] /\ DOMAIN Empty = {}
    BY DEF Empty
  <1>2. {} \in SUBSET Name
    OBVIOUS
  <1>3. QED
    BY <1>1, <1>2 DEF Carried

\* register_return on a list of open calls.
LEMMA ClosedShape ==
    ASSUME NEW cs \in Seq(CallRecord), NEW n \in Nat
    PROVE  Closed(cs, n) \in Seq(CallRecord)
  <1>1. (IF n < Len(cs) THEN Len(cs) - n ELSE 0) \in Nat
    OBVIOUS
  <1>2. QED
    BY <1>1, CutToShape DEF Closed

\* The vectors of storage and named slots after the depth has been followed:
\* a new frame starts with nothing.
LEMMA FollowedData ==
    ASSUME FramesOK, DataOK, NEW d \in NextDepth
    PROVE  /\ Resized(storage, d, Empty) \in Seq(Carried)
           /\ Len(Resized(storage, d, Empty)) = d
           /\ \A k \in 1..d : Resized(storage, d, Empty)[k] =
                 IF k <= depth THEN storage[k] ELSE Empty
           /\ Resized(mapped, d, {}) \in Seq(SUBSET Derived)
           /\ Len(Resized(mapped, d, {})) = d
           /\ \A k \in 1..d : Resized(mapped, d, {})[k] =
                 IF k <= depth THEN mapped[k] ELSE {}
  <1>1. /\ storage \in Seq(Carried) /\ Len(storage) = depth
        /\ mapped \in Seq(SUBSET Derived) /\ Len(mapped) = depth
    BY DEF DataOK
  <1>2. depth \in Nat /\ d \in 1 .. depth + 1
    BY NextDepthBounds DEF FramesOK
  <1>3. Empty \in Carried
    BY EmptyShape
  <1>4. /\ Resized(storage, d, Empty) \in Seq(Carried)
        /\ Len(Resized(storage, d, Empty)) = d
        /\ \A k \in 1..d : Resized(storage, d, Empty)[k] =
              IF k <= depth THEN storage[k] ELSE Empty
    BY <1>1, <1>2, <1>3, ResizedShape
  <1>5. /\ Resized(mapped, d, {}) \in Seq(SUBSET Derived)
        /\ Len(Resized(mapped, d, {})) = d
        /\ \A k \in 1..d : Resized(mapped, d, {})[k] =
              IF k <= depth THEN mapped[k] ELSE {}
    <2> DEFINE S == SUBSET Derived
               none == {}
    <2>1. mapped \in Seq(S) /\ none \in S
      BY <1>1
    <2> HIDE DEF S, none
    <2>2. /\ Resized(mapped, d, none) \in Seq(S)
          /\ Len(Resized(mapped, d, none)) = d
          /\ \A k \in 1..d : Resized(mapped, d, none)[k] =
                IF k <= depth THEN mapped[k] ELSE none
      BY <1>1, <1>2, <2>1, ResizedShape
    <2>3. QED
      BY <2>2 DEF S, none
  <1>6. QED
    BY <1>4, <1>5

\* The trackers are those of the frames on the path, from the first entry on.
LEMMA FollowedTrackers ==
    ASSUME FramesOK, DataOK, NEW d \in NextDepth
    PROVE  Resized(trackers, d, PathAt(d)[Len(PathAt(d))]) = PathAt(d)
  <1> DEFINE p == PathAt(d)
             e == p[Len(p)]
  <1>1. /\ d \in 1 .. depth + 1 /\ d \in Nat \ {0} /\ depth \in Nat
        /\ i = 0 => d = depth /\ depth = 1
        /\ path \in Seq(Nat) /\ Len(path) = depth
    BY NextDepthBounds DEF FramesOK, TreeProofs!IInv, TreeProofs!TypeOK
  <1>2. /\ p \in Seq(Nat) /\ Len(p) = d
        /\ \A k \in 1..d : p[k] = IF k <= depth THEN path[k] ELSE Len(nodes) + 1
    BY FollowedPath
  <1>3. e = p[d] /\ e \in Nat /\ (d > depth => d = depth + 1 /\ e = Len(nodes) + 1)
    BY <1>1, <1>2
  <1> HIDE DEF p, e
  <1>4. CASE i = 0
    <2>1. trackers = <<>> /\ d = 1 /\ depth = 1
      BY <1>1, <1>4 DEF DataOK
    <2>2. trackers \in Seq(Nat) /\ Len(trackers) = 0
      BY <2>1
    <2>3. Resized(trackers, d, e) = GrowTo(trackers, d, e)
      BY <2>1 DEF Resized
    <2>4. /\ GrowTo(trackers, d, e) \in Seq(Nat)
          /\ Len(GrowTo(trackers, d, e)) = 1
          /\ GrowTo(trackers, d, e)[1] = e
      <3> DEFINE S == Nat
      <3>1. trackers \in Seq(S) /\ e \in S
        BY <1>3, <2>2
      <3> HIDE DEF S
      <3>2. /\ GrowTo(trackers, d, e) \in Seq(S)
            /\ Len(GrowTo(trackers, d, e)) = IF Len(trackers) < d THEN d ELSE Len(trackers)
            /\ \A k \in 1 .. Len(GrowTo(trackers, d, e)) :
                  GrowTo(trackers, d, e)[k] = IF k <= Len(trackers) THEN trackers[k] ELSE e
        BY <1>1, <3>1, GrowToShape
      <3>3. QED
        BY <2>1, <2>2, <3>2 DEF S
    <2>5. GrowTo(trackers, d, e) = p
      BY <1>2, <1>3, <2>1, <2>4
    <2>6. QED
      BY <2>3, <2>5 DEF e, p
  <1>5. CASE i # 0
    <2>1. trackers = path
      BY <1>5 DEF DataOK
    <2>2. /\ Resized(trackers, d, e) \in Seq(Nat) /\ Len(Resized(trackers, d, e)) = d
          /\ \A k \in 1..d : Resized(trackers, d, e)[k] = IF k <= depth THEN path[k] ELSE e
      <3> DEFINE S == Nat
      <3>1. trackers \in Seq(S) /\ Len(trackers) = depth /\ e \in S
        BY <1>1, <1>3, <2>1
      <3> HIDE DEF S
      <3>2. /\ Resized(trackers, d, e) \in Seq(S) /\ Len(Resized(trackers, d, e)) = d
            /\ \A k \in 1..d : Resized(trackers, d, e)[k]
                                  = IF k <= depth THEN trackers[k] ELSE e
        BY <1>1, <3>1, ResizedShape
      <3>3. QED
        BY <2>1, <3>2 DEF S
    <2>3. ASSUME NEW k \in 1..d
          PROVE  Resized(trackers, d, e)[k] = p[k]
      <3>1. CASE k <= depth
        BY <1>2, <2>2, <3>1
      <3>2. CASE ~(k <= depth)
        BY <1>1, <1>2, <1>3, <2>2, <3>2
      <3>3. QED
        BY <3>1, <3>2
    <2>4. Resized(trackers, d, e) = p
      BY <1>2, <2>2, <2>3
    <2>5. QED
      BY <2>4 DEF e, p
  <1>6. QED
    BY <1>4, <1>5

\* Before the first entry nothing is carried, named or traced but the toplevel
\* call.
LEMMA InitDataOK == Init => DataOK
  <1> SUFFICES ASSUME Init PROVE DataOK
    OBVIOUS
  <1>1. /\ storage = <<Empty>> /\ mapped = << {} >> /\ trackers = <<>> /\ i = 0
        /\ depth = 1 /\ path = <<1>> /\ prev_line = None /\ done = FALSE
        /\ calls = <<[kind |-> "toplevel", of |-> 0]>>
    BY DEF Init, Tree!NewPath
  <1>2. storage \in Seq(Carried) /\ Len(storage) = 1
    BY <1>1, EmptyShape
  <1>3. {} \in SUBSET Derived
    OBVIOUS
  <1>4. mapped \in Seq(SUBSET Derived) /\ Len(mapped) = 1
    BY <1>1, <1>3
  <1>5. [kind |-> "toplevel", of |-> 0] \in CallRecord
    BY DEF CallRecord
  <1>6. calls \in Seq(CallRecord)
    BY <1>1, <1>5
  <1>7. QED
    BY <1>1, <1>2, <1>4, <1>6 DEF DataOK

\* The storage of an iteration: only the frame of the entry is written to.
LEMMA WrittenData ==
    ASSUME FramesOK, DataOK, NEW d \in NextDepth, NEW log, IsLog(log, d),
           Process(log)
    PROVE  /\ storage' \in Seq(Carried) /\ Len(storage') = d
           /\ \A k \in 1 .. d - 1 : storage'[k] = Resized(storage, d, Empty)[k]
           /\ \/ storage'[d] = Resized(storage, d, Empty)[d]
              \/ storage'[d] = Stored(Resized(storage, d, Empty)[d], out'.wrote, log.val)
           /\ mapped' \in Seq(SUBSET Derived) /\ Len(mapped') = d
           /\ \A k \in 1 .. d - 1 : mapped'[k] = Resized(mapped, d, {})[k]
  <1> DEFINE ss == Resized(storage, d, Empty)
             ms == Resized(mapped, d, {})
             fs == FramesAt(d)
             view == ViewOf(fs[Len(fs)])
             wrote == IF log.op = "SSTORE" THEN NameOf(view, ms[d], log.slot) ELSE None
             stored == Stored(ss[d], wrote, log.val)
             named == ms[d] \cup {log.slot}
  <1>1. /\ ss \in Seq(Carried) /\ Len(ss) = d
        /\ ms \in Seq(SUBSET Derived) /\ Len(ms) = d
    BY FollowedData
  <1>2. d \in 1..d /\ d \in Nat
    BY NextDepthBounds DEF FramesOK
  <1>3. log.depth = d
    BY DEF IsLog
  <1>4. /\ storage' = IF log.op = "SSTORE" THEN [ss EXCEPT ![d] = stored] ELSE ss
        /\ mapped' = IF log.op = "KECCAK256" /\ view.layout # None
                     THEN [ms EXCEPT ![d] = named] ELSE ms
        /\ out'.wrote = wrote
    BY <1>3 DEF Process
  <1>5. fs[Len(fs)] \in FrameType
    BY <1>2, FollowedFrames
  <1>6. view.layout \in AnyAddr \cup {None}
    BY <1>5, ViewShape
  <1>7. ASSUME log.op = "SSTORE"
        PROVE  stored \in Carried
    <2>1. wrote \in Name
      <3>1. log.slot \in Slots
        BY <1>7 DEF IsLog
      <3> HIDE DEF view, ms
      <3>2. NameOf(view, ms[d], log.slot) \in Name
        BY <1>6, <3>1 DEF NameOf, Name
      <3>3. QED
        BY <1>7, <3>2
    <2>2. log.val \in Vals /\ ss[d] \in Carried
      BY <1>1, <1>2, <1>7 DEF IsLog
    <2> HIDE DEF wrote, ss
    <2>3. QED
      BY <2>1, <2>2, StoredShape
  <1>8. ASSUME log.op = "KECCAK256"
        PROVE  named \in SUBSET Derived
    <2>1. log.slot \in Derived /\ ms[d] \in SUBSET Derived
      BY <1>1, <1>2, <1>8 DEF IsLog
    <2>2. QED
      BY <2>1
  <1> HIDE DEF ss, ms, view, stored, named, wrote
  <1>9. /\ storage' \in Seq(Carried) /\ Len(storage') = d
        /\ \A k \in 1 .. d - 1 : storage'[k] = ss[k]
        /\ storage'[d] = ss[d] \/ storage'[d] = stored
    <2>1. CASE log.op = "SSTORE"
      BY <1>1, <1>2, <1>4, <1>7, <2>1
    <2>2. CASE log.op # "SSTORE"
      BY <1>1, <1>4, <2>2
    <2>3. QED
      BY <2>1, <2>2
  <1>10. /\ mapped' \in Seq(SUBSET Derived) /\ Len(mapped') = d
         /\ \A k \in 1 .. d - 1 : mapped'[k] = ms[k]
    <2>1. CASE log.op = "KECCAK256" /\ view.layout # None
      BY <1>1, <1>2, <1>4, <1>8, <2>1
    <2>2. CASE ~(log.op = "KECCAK256" /\ view.layout # None)
      BY <1>1, <1>4, <2>2
    <2>3. QED
      BY <2>1, <2>2
  <1>11. QED
    BY <1>4, <1>9, <1>10 DEF ss, ms, stored

\* DataOK is inductive, relative to FramesOK.
LEMMA DataKept == FramesOK /\ DataOK /\ [Next]_vars => DataOK'
  <1> SUFFICES ASSUME FramesOK, DataOK, [Next]_vars PROVE DataOK'
    OBVIOUS
  <1>1. CASE UNCHANGED vars
    BY <1>1 DEF DataOK, vars, evm_vars, frame_vars, data_vars
  <1>2. CASE Finalize
    <2>1. /\ UNCHANGED <<storage, mapped, trackers, i, depth, path, prev_line>>
          /\ calls' = Closed(calls, 1) /\ done' = TRUE
      BY <1>2 DEF Finalize, frame_vars, data_vars
    <2>2. calls' \in Seq(CallRecord)
      BY <2>1, ClosedShape DEF DataOK
    <2>3. QED
      BY <2>1, <2>2 DEF DataOK
  <1>3. CASE Next /\ ~Finalize
    <2>0. PICK d \in NextDepth : \E log : Live /\ IsLog(log, d) /\ Process(log)
      BY <1>3, StepIsIteration
    <2>1. PICK log : Live /\ IsLog(log, d) /\ Process(log)
      BY <2>0
    <2>2. log.depth = d /\ log.loc \in Locs \cup {None}
      <3>1. log.loc \in LocsAt(d)
        BY <2>1 DEF IsLog
      <3>2. LocsAt(d) \subseteq Locs \cup {None}
        BY DEF LocsAt
      <3>3. QED
        BY <2>1, <3>1, <3>2 DEF IsLog
    <2>3. /\ i' = i + 1 /\ depth' = d /\ path' = PathAt(d) /\ done' = done
          /\ trackers' = Resized(trackers, d, PathAt(d)[Len(PathAt(d))])
          /\ prev_line' = IF StepChanged(log) THEN log.loc ELSE PrevLineAt(d)
          /\ calls' = CallsAfterJump(CallsAt(d), log, PathAt(d)[Len(PathAt(d))])
      BY <2>1, <2>2 DEF Process
    <2>4. trackers' = path' /\ i' # 0
      BY <2>3, FollowedTrackers DEF FramesOK
    <2>5. prev_line' \in Locs \cup {None}
      BY <2>2, <2>3 DEF DataOK, PrevLineAt
    <2>6. calls' \in Seq(CallRecord)
      <3> DEFINE node == PathAt(d)[Len(PathAt(d))]
      <3>1. d \in Nat /\ depth \in Nat /\ d \in 1..d /\ node \in Nat
            /\ Len(nodes) \in Nat
        BY NextDepthBounds, FollowedPath, SMTT(30)
           DEF FramesOK, TreeProofs!IInv, TreeProofs!TypeOK
      <3>2. calls \in Seq(CallRecord)
        BY DEF DataOK
      <3>3. CallsAt(d) \in Seq(CallRecord)
        <4>1. CASE d > depth
          <5>1. [kind |-> "frame", of |-> Len(nodes) + 1] \in CallRecord
            BY <3>1 DEF CallRecord
          <5>2. QED
            BY <3>2, <4>1, <5>1 DEF CallsAt
        <4>2. CASE ~(d > depth)
          <5>1. depth - d \in Nat
            BY <3>1, <4>2
          <5>2. QED
            BY <3>2, <4>2, <5>1, ClosedShape DEF CallsAt
        <4>3. QED
          BY <4>1, <4>2
      <3> HIDE DEF node
      <3>4. [kind |-> "routine", of |-> node] \in CallRecord
        BY <3>1 DEF CallRecord
      <3>5. Closed(CallsAt(d), 1) \in Seq(CallRecord)
        BY <3>3, ClosedShape
      <3>6. Append(CallsAt(d), [kind |-> "routine", of |-> node]) \in Seq(CallRecord)
        BY <3>3, <3>4
      <3>7. CallsAfterJump(CallsAt(d), log, node) \in Seq(CallRecord)
        BY <3>3, <3>5, <3>6 DEF CallsAfterJump
      <3>8. QED
        BY <2>3, <3>7 DEF node
    <2>7. /\ storage' \in Seq(Carried) /\ Len(storage') = d
          /\ mapped' \in Seq(SUBSET Derived) /\ Len(mapped') = d
      BY <2>1, WrittenData
    <2>8. QED
      BY <2>3, <2>4, <2>5, <2>6, <2>7 DEF DataOK
  <1>4. QED
    BY <1>1, <1>2, <1>3

\* So do the values carried forward, the named slots and the trackers.
THEOREM DataInvariant == Spec => [](FramesOK /\ DataOK)
  BY InitFramesOK, InitDataOK, FramesKept, DataKept, PTL DEF Spec

\* Whatever is indexed by the depth of an entry has an element for it, made
\* for the frame that executes the entry.
THEOREM VectorsStayAligned == Spec => [](TypeOK /\ VectorsAligned)
  <1>1. FramesOK /\ DataOK => VectorsAligned
    BY DEF FramesOK, DataOK, VectorsAligned
  <1>2. FramesOK /\ DataOK => TypeOK
    <2> SUFFICES ASSUME FramesOK, DataOK PROVE TypeOK
      OBVIOUS
    <2>1. /\ evm \in Seq([code : Addr, owner : Addr, via : CallOp \cup {"NONE"}])
          /\ routines \in Seq(Seq({"user", "generated"}))
          /\ i \in Nat /\ depth \in Nat \ {0}
          /\ frames \in Seq([address : AnyAddr, is_delegate : BOOLEAN,
                             delegate_proxy : AnyAddr \cup {None}])
      BY DEF FramesOK, EvmFrame, FrameType, RoutineType
    <2>2. trackers \in Seq(Nat)
      BY DEF FramesOK, DataOK, TreeProofs!IInv, TreeProofs!TypeOK
    <2>3. storage = [d \in 1..Len(storage) |-> storage[d]]
      BY DEF DataOK
    <2>4. ASSUME NEW d \in 1..Len(storage)
          PROVE  IsCarried(storage[d])
      <3>1. storage[d] \in Carried
        BY DEF DataOK
      <3>2. QED
        BY <3>1 DEF Carried, IsCarried
    <2>5. last \in [op : AllOp, to : Addr \cup {None}]
      BY DEF FramesOK
    <2>6. QED
      BY <2>1, <2>2, <2>3, <2>4, <2>5 DEF TypeOK, DataOK, CallRecord, AllOp
  <1>3. QED
    BY <1>1, <1>2, DataInvariant, PTL

\* In particular the state has its types at every entry: what is carried forward
\* maps names to values, in every frame.
THEOREM StateIsTyped == Spec => []TypeOK
  BY VectorsStayAligned, PTL

-----------------------------------------------------------------------------
(* What the recorder believes of the live frames. *)

\* The context kept for a frame names the contract whose code runs in it, with
\* two exceptions: a creation frame has Address::ZERO, and the proxy of a
\* delegate frame is the context, not the storage, of the frame that called.
ContextsOK ==
    /\ evm[1] = [code |-> Entry, owner |-> Entry, via |-> "NONE"]
    /\ frames[1] = [address |-> Entry, is_delegate |-> FALSE, delegate_proxy |-> None]
    /\ \A k \in 2..depth :
          /\ evm[k].via \in CallOp
          /\ evm[k].via \notin CreateOp => frames[k].address = evm[k].code
          /\ frames[k].is_delegate <=> evm[k].via = "DELEGATECALL"
          /\ evm[k].via = "DELEGATECALL" =>
                /\ frames[k].delegate_proxy = frames[k-1].address
                /\ evm[k].owner = evm[k-1].owner
          /\ evm[k].via \in {"CALL", "STATICCALL"} => evm[k].owner = evm[k].code

\* What the last iteration wrote came from the context of the current frame.
OutOK ==
    LET view == ViewOf(frames[depth]) IN
    /\ out.step # None => out.step = view.code
    /\ (out.wrote # None /\ (out.wrote.slot \in Derived => out.wrote.layout # None))
          => out.wrote.layout = view.layout
    /\ out.entered => /\ out.shown = Empty
                      /\ DOMAIN storage[depth] \subseteq {out.wrote}

\* The context of the entry point, and a trace without steps.
LEMMA InitContexts == Init => ContextsOK /\ OutOK
  <1> SUFFICES ASSUME Init PROVE ContextsOK /\ OutOK
    OBVIOUS
  <1>1. /\ depth = 1
        /\ evm = <<[code |-> Entry, owner |-> Entry, via |-> "NONE"]>>
        /\ frames = <<[address |-> Entry, is_delegate |-> FALSE,
                       delegate_proxy |-> None]>>
        /\ out = [entered |-> FALSE, site |-> None, step |-> None,
                  shown |-> Empty, wrote |-> None]
    BY DEF Init
  <1>2. ContextsOK
    BY <1>1 DEF ContextsOK
  <1>3. out.entered = FALSE /\ out.step = None /\ out.wrote = None
    BY <1>1
  <1>4. QED
    BY <1>2, <1>3 DEF OutOK

\* frame_stack keeps describing the live frames: a new frame gets the context of
\* the instruction that entered it, and a return drops those of the frames left.
LEMMA ContextsFollow ==
    ASSUME FramesOK, ContextsOK, NEW d \in NextDepth,
           depth' = d, evm' = EvmAt(d), frames' = FramesAt(d)
    PROVE  ContextsOK'
  <1>1. /\ d \in 1 .. depth + 1 /\ d \in Nat \ {0} /\ depth \in Nat \ {0}
        /\ d > depth => last.op \in CallOp
        /\ \A k \in 1..d : evm'[k] = IF k <= depth THEN evm[k]
                                     ELSE Callee(evm[depth], last.op, last.to)
        /\ \A k \in 1..d : frames'[k] = IF k <= depth THEN frames[k]
                                        ELSE FrameContext(last.op, last.to)
        /\ Len(frames) = depth
    BY NextDepthBounds, FollowedFrames DEF FramesOK
  <1>2. evm'[1] = evm[1] /\ frames'[1] = frames[1]
    BY <1>1
  <1>3. ASSUME NEW k \in 2..d
        PROVE  /\ evm'[k].via \in CallOp
               /\ evm'[k].via \notin CreateOp => frames'[k].address = evm'[k].code
               /\ frames'[k].is_delegate <=> evm'[k].via = "DELEGATECALL"
               /\ evm'[k].via = "DELEGATECALL" =>
                     /\ frames'[k].delegate_proxy = frames'[k-1].address
                     /\ evm'[k].owner = evm'[k-1].owner
               /\ evm'[k].via \in {"CALL", "STATICCALL"} => evm'[k].owner = evm'[k].code
    <2>1. k \in 1..d /\ k - 1 \in 1..d /\ k - 1 <= depth
      BY <1>1
    <2>2. evm'[k-1] = evm[k-1] /\ frames'[k-1] = frames[k-1]
      BY <1>1, <2>1
    <2>3. CASE k <= depth
      <3>1. k \in 2..depth /\ evm'[k] = evm[k] /\ frames'[k] = frames[k]
        BY <1>1, <2>1, <2>3
      <3>2. QED
        BY <2>2, <3>1 DEF ContextsOK
    <2>4. CASE ~(k <= depth)
      <3>1. k - 1 = depth /\ last.op \in CallOp
        BY <1>1, <2>4
      <3>2. /\ evm'[k] = Callee(evm[depth], last.op, last.to)
            /\ frames'[k] = FrameContext(last.op, last.to)
        BY <1>1, <2>1, <2>4
      <3>3. /\ evm'[k].via = last.op /\ evm'[k].code = last.to
            /\ last.op = "DELEGATECALL" => evm'[k].owner = evm[depth].owner
            /\ last.op \in {"CALL", "STATICCALL"} => evm'[k].owner = last.to
        BY <3>2 DEF Callee
      <3>4. /\ last.op \notin CreateOp => frames'[k].address = last.to
            /\ frames'[k].is_delegate <=> last.op = "DELEGATECALL"
            /\ last.op = "DELEGATECALL" =>
                  frames'[k].delegate_proxy = frames[depth].address
        <4>1. frames'[k] = [address |-> IF last.op \in CreateOp THEN Zero ELSE last.to,
                            is_delegate |-> last.op = "DELEGATECALL",
                            delegate_proxy |-> IF last.op = "DELEGATECALL"
                                               THEN frames[depth].address ELSE None]
          BY <1>1, <3>2 DEF FrameContext
        <4>2. frames'[k].is_delegate = (last.op = "DELEGATECALL")
          <5>1. CASE last.op = "DELEGATECALL"
            BY <4>1, <5>1
          <5>2. CASE last.op # "DELEGATECALL"
            BY <4>1, <5>2
          <5>3. QED
            BY <5>1, <5>2
        <4>3. /\ last.op \notin CreateOp => frames'[k].address = last.to
              /\ last.op = "DELEGATECALL" =>
                    frames'[k].delegate_proxy = frames[depth].address
          BY <4>1
        <4>4. QED
          BY <4>2, <4>3
      <3>5. QED
        BY <2>2, <3>1, <3>3, <3>4
    <2>5. QED
      BY <2>3, <2>4
  <1>4. QED
    BY <1>2, <1>3 DEF ContextsOK

\* A step and a write are decoded with what the current context gives.
LEMMA OutFollows ==
    ASSUME FramesOK, DataOK, NEW d \in NextDepth, NEW log, IsLog(log, d),
           Process(log)
    PROVE  OutOK'
  <1> DEFINE fs == FramesAt(d)
             ss == Resized(storage, d, Empty)
             ms == Resized(mapped, d, {})
             view == ViewOf(fs[Len(fs)])
             wrote == IF log.op = "SSTORE" THEN NameOf(view, ms[d], log.slot) ELSE None
  <1>1. log.depth = d /\ d \in 1 .. depth + 1 /\ d \in Nat \ {0} /\ depth \in Nat
    BY NextDepthBounds DEF IsLog, FramesOK
  <1>2. /\ depth' = d /\ frames' = fs
        /\ out' = [entered |-> d > depth,
                   site |-> PrevLineAt(d),
                   step |-> IF StepChanged(log) THEN view.code ELSE None,
                   shown |-> IF LineChanged(log) THEN ss[d] ELSE Empty,
                   wrote |-> wrote]
    BY <1>1 DEF Process
  <1>3. Len(fs) = d
    BY FollowedFrames
  <1> HIDE DEF fs, ss, ms
  <1>4. view = ViewOf(frames'[depth'])
    BY <1>2, <1>3
  <1>5. (out'.wrote # None /\ (out'.wrote.slot \in Derived => out'.wrote.layout # None))
           => out'.wrote.layout = view.layout
    <2> HIDE DEF view
    <2>1. CASE log.op = "SSTORE"
      BY <1>2, <2>1 DEF NameOf
    <2>2. CASE log.op # "SSTORE"
      BY <1>2, <2>2
    <2>3. QED
      BY <2>1, <2>2
  <1>6. out'.step # None => out'.step = view.code
    <2> HIDE DEF view
    <2>1. QED
      BY <1>2
  <1>7. ASSUME out'.entered
        PROVE  out'.shown = Empty /\ DOMAIN storage'[depth'] \subseteq {out'.wrote}
    <2>1. d > depth
      BY <1>2, <1>7
    <2>2. ss[d] = Empty
      BY <1>1, <2>1, FollowedData DEF ss
    <2>3. out'.shown = Empty
      BY <1>2, <2>2
    <2>4. storage'[d] = Empty \/ storage'[d] = Stored(Empty, out'.wrote, log.val)
      BY <2>2, WrittenData DEF ss
    <2>5. DOMAIN Stored(Empty, out'.wrote, log.val) = {out'.wrote}
      BY EmptyShape DEF Stored
    <2>6. QED
      BY <1>2, <2>3, <2>4, <2>5, EmptyShape
  <1>8. QED
    BY <1>4, <1>5, <1>6, <1>7 DEF OutOK

\* ContextsOK and OutOK are inductive, relative to the other two.
LEMMA ContextsKept ==
    FramesOK /\ DataOK /\ ContextsOK /\ OutOK /\ [Next]_vars => ContextsOK' /\ OutOK'
  <1> SUFFICES ASSUME FramesOK, DataOK, ContextsOK, OutOK, [Next]_vars
               PROVE  ContextsOK' /\ OutOK'
    OBVIOUS
  <1>1. CASE Finalize \/ UNCHANGED vars
    <2>1. UNCHANGED <<evm, frames, depth, out, storage>>
      BY <1>1 DEF Finalize, vars, evm_vars, frame_vars, data_vars
    <2>2. ContextsOK'
      BY <2>1 DEF ContextsOK
    <2>3. ViewOf(frames[depth])' = ViewOf(frames[depth])
      BY <2>1
    <2>4. OutOK'
      BY <2>1, <2>3 DEF OutOK
    <2>5. QED
      BY <2>2, <2>4
  <1>2. CASE Next /\ ~Finalize
    <2>0. PICK d \in NextDepth : \E log :
             /\ Live /\ IsLog(log, d) /\ Process(log) /\ evm' = EvmAt(d)
      BY <1>2, StepIsIteration
    <2>1. PICK log :
             /\ Live /\ IsLog(log, d) /\ Process(log) /\ evm' = EvmAt(d)
      BY <2>0
    <2>2. depth' = d /\ frames' = FramesAt(d)
      BY <2>1 DEF Process, IsLog
    <2>3. QED
      BY <2>1, <2>2, ContextsFollow, OutFollows
  <1>3. QED
    BY <1>1, <1>2

\* Each element of frame_stack says whose code and whose storage its frame has,
\* and the last step and write were decoded accordingly.
THEOREM ContextsInvariant == Spec => [](FramesOK /\ DataOK /\ ContextsOK /\ OutOK)
  BY InitFramesOK, InitDataOK, InitContexts, FramesKept, DataKept, ContextsKept,
     PTL DEF Spec

\* The artifacts of a frame that runs a registered contract's code are that
\* contract's: an exact match wins over the default in either kind of frame.
LEMMA ViewOfRegistered ==
    ASSUME NEW frame \in FrameType, frame.address \in Registered
    PROVE  /\ ViewOf(frame).code = frame.address
           /\ ~frame.is_delegate => ViewOf(frame).layout = frame.address
           /\ frame.is_delegate /\ frame.delegate_proxy \in Registered
                 => ViewOf(frame).layout = frame.delegate_proxy
  <1>1. frame.address # None
    BY AddrAssumption
  <1>2. Artifacts!Get(registry, frame.address) = frame.address
    BY DEF Artifacts!Get, registry, Artifacts!NewRegistry
  <1>3. CASE frame.is_delegate
    BY <1>1, <1>2, <1>3 DEF ViewOf, Artifacts!GetDelegatecall, registry, Artifacts!NewRegistry
  <1>4. CASE ~frame.is_delegate
    BY <1>1, <1>2, <1>4 DEF ViewOf
  <1>5. QED
    BY <1>3, <1>4

\* A step is decoded with the source map of the contract that executed it, for
\* every registry and every chain of calls through registered contracts.
THEOREM StepsDecodedByExecutedCode == Spec => []StepsUseExecutedCode
  <1>1. FramesOK /\ ContextsOK /\ OutOK => StepsUseExecutedCode
    <2> SUFFICES ASSUME FramesOK, ContextsOK, OutOK, out.step # None,
                        evm[depth].code \in Registered,
                        evm[depth].via \notin CreateOp
                 PROVE  out.step = evm[depth].code
      BY DEF StepsUseExecutedCode, FramesOK
    <2>1. depth \in Nat \ {0} /\ frames[depth] \in FrameType
      BY DEF FramesOK
    <2>2. frames[depth].address = evm[depth].code
      <3>1. CASE depth = 1
        BY <3>1 DEF ContextsOK
      <3>2. CASE depth # 1
        <4>1. depth \in 2..depth
          BY <2>1, <3>2
        <4>2. QED
          BY <4>1 DEF ContextsOK
      <3>3. QED
        BY <3>1, <3>2
    <2>3. ViewOf(frames[depth]).code = evm[depth].code
      BY <2>1, <2>2, ViewOfRegistered
    <2>4. QED
      BY <2>3 DEF OutOK
  <1>2. QED
    BY <1>1, ContextsInvariant, PTL

\* A storage write is named by the layout of the account it changes, along
\* chains of plain calls and of delegate calls one level deep.
THEOREM WritesNamedByTheirOwner == Spec => []WritesNamedByOwner
  <1>1. FramesOK /\ ContextsOK /\ OutOK => WritesNamedByOwner
    <2> SUFFICES ASSUME FramesOK, ContextsOK, OutOK, Plain, out.wrote # None,
                        evm[depth].code \in Registered,
                        evm[depth].owner \in Registered,
                        out.wrote.slot \in Derived => out.wrote.layout # None
                 PROVE  out.wrote.layout = evm[depth].owner
      BY DEF WritesNamedByOwner, FramesOK
    <2>1. depth \in Nat \ {0} /\ frames[depth] \in FrameType /\ Len(evm) = depth
      BY DEF FramesOK
    <2>2. out.wrote.layout = ViewOf(frames[depth]).layout
      BY DEF OutOK
    <2>3. CASE depth = 1
      <3>1. /\ evm[depth].code = Entry /\ evm[depth].owner = Entry
            /\ frames[depth].address = Entry /\ frames[depth].is_delegate = FALSE
        BY <2>3 DEF ContextsOK
      <3>2. QED
        BY <2>1, <2>2, <3>1, ViewOfRegistered
    <2>4. CASE depth # 1
      <3>1. depth \in 2..depth
        BY <2>1, <2>4
      <3>2. /\ evm[depth].via \in {"CALL", "STATICCALL", "DELEGATECALL"}
            /\ evm[depth].via = "DELEGATECALL" => evm[depth-1].via # "DELEGATECALL"
        BY <2>1, <3>1 DEF Plain
      <3>3. /\ frames[depth].address = evm[depth].code
            /\ frames[depth].is_delegate <=> evm[depth].via = "DELEGATECALL"
            /\ evm[depth].via = "DELEGATECALL" =>
                  /\ frames[depth].delegate_proxy = frames[depth-1].address
                  /\ evm[depth].owner = evm[depth-1].owner
            /\ evm[depth].via # "DELEGATECALL" => evm[depth].owner = evm[depth].code
        BY <3>1, <3>2 DEF ContextsOK, CreateOp
      <3>4. CASE evm[depth].via # "DELEGATECALL"
        BY <2>1, <2>2, <3>3, <3>4, ViewOfRegistered
      <3>5. CASE evm[depth].via = "DELEGATECALL"
        <4>1. frames[depth-1].address = evm[depth-1].owner
          <5>1. CASE depth - 1 = 1
            BY <5>1 DEF ContextsOK
          <5>2. CASE depth - 1 # 1
            <6>1. depth - 1 \in 2..depth
              BY <2>1, <3>1, <5>2
            <6>2. evm[depth-1].via \in {"CALL", "STATICCALL"}
              BY <2>1, <3>2, <3>5, <6>1 DEF Plain
            <6>3. QED
              BY <6>1, <6>2 DEF ContextsOK, CreateOp
          <5>3. QED
            BY <5>1, <5>2
        <4>2. frames[depth].delegate_proxy \in Registered
              /\ frames[depth].delegate_proxy = evm[depth].owner
          BY <3>3, <3>5, <4>1
        <4>3. QED
          BY <2>1, <2>2, <3>3, <3>5, <4>2, ViewOfRegistered
      <3>6. QED
        BY <3>4, <3>5
    <2>5. QED
      BY <2>3, <2>4
  <1>2. QED
    BY <1>1, ContextsInvariant, PTL

\* Values carried forward in one frame are never seen or changed by another.
THEOREM FramesAreIsolated == Spec => FrameIsolation
  <1> DEFINE below == \A d \in 1..depth' - 1 :
                d <= depth => storage'[d] = storage[d] /\ mapped'[d] = mapped[d]
             back == depth' < depth =>
                DOMAIN storage[depth'] \subseteq DOMAIN storage'[depth']
             fresh == out'.entered =>
                /\ out'.shown = Empty
                /\ DOMAIN storage'[depth'] \subseteq {out'.wrote}
  <1>1. ASSUME FramesOK, DataOK, ContextsOK, OutOK, [Next]_vars
        PROVE  below /\ back /\ fresh
    <2>1. fresh
      BY <1>1, ContextsKept DEF OutOK
    <2>2. CASE Finalize \/ UNCHANGED vars
      <3>1. depth' = depth /\ storage' = storage /\ mapped' = mapped /\ depth \in Nat
        BY <1>1, <2>2 DEF Finalize, vars, frame_vars, data_vars, FramesOK
      <3>2. QED
        BY <2>1, <3>1
    <2>3. CASE Next /\ ~Finalize
      <3>0. PICK d \in NextDepth : \E log : Live /\ IsLog(log, d) /\ Process(log)
        BY <1>1, <2>3, StepIsIteration
      <3>1. PICK log : Live /\ IsLog(log, d) /\ Process(log)
        BY <3>0
      <3>2. depth' = d /\ d \in 1 .. depth + 1 /\ depth \in Nat
        BY <1>1, <3>1, NextDepthBounds DEF Process, IsLog, FramesOK
      <3> DEFINE ss == Resized(storage, d, Empty)
                 ms == Resized(mapped, d, {})
      <3>3. /\ \A k \in 1..d : ss[k] = IF k <= depth THEN storage[k] ELSE Empty
            /\ \A k \in 1..d : ms[k] = IF k <= depth THEN mapped[k] ELSE {}
        BY <1>1, FollowedData
      <3>4. /\ \A k \in 1 .. d - 1 : storage'[k] = ss[k] /\ mapped'[k] = ms[k]
            /\ \/ storage'[d] = ss[d]
               \/ storage'[d] = Stored(ss[d], out'.wrote, log.val)
        BY <1>1, <3>1, WrittenData
      <3> HIDE DEF ss, ms
      <3>5. below
        BY <3>2, <3>3, <3>4
      <3>6. back
        <4>1. DOMAIN ss[d] \subseteq DOMAIN Stored(ss[d], out'.wrote, log.val)
          BY DEF Stored
        <4>2. ASSUME d < depth PROVE ss[d] = storage[d]
          BY <3>2, <3>3, <4>2
        <4>3. QED
          BY <3>2, <3>4, <4>1, <4>2
      <3>7. QED
        BY <2>1, <3>5, <3>6
    <2>4. QED
      BY <1>1, <2>2, <2>3
  <1>2. QED
    BY <1>1, ContextsInvariant, PTL DEF Spec, FrameIsolation

\* A step after a change of frame is registered whatever the last location was,
\* for every source map and registry.
THEOREM SwitchesAlwaysStep == Spec => SwitchesStepAgain
  <1>1. ASSUME FramesOK, [Next]_vars, depth' # depth
        PROVE  prev_line' # None <=> out'.step # None
    <2>1. Next /\ ~Finalize
      BY <1>1 DEF Finalize, vars, frame_vars
    <2>2a. PICK d \in NextDepth : \E log : Live /\ IsLog(log, d) /\ Process(log)
      BY <1>1, <2>1, StepIsIteration
    <2>2. PICK log : Live /\ IsLog(log, d) /\ Process(log)
      BY <2>2a
    <2> DEFINE fs == FramesAt(d)
               view == ViewOf(fs[Len(fs)])
    <2>3. log.depth = d /\ depth' = d /\ log.loc \in LocsAt(d)
      BY <2>2 DEF Process, IsLog
    <2>4. PrevLineAt(d) = None
      BY <1>1, <2>3 DEF PrevLineAt
    <2>5. prev_line' = IF StepChanged(log) THEN log.loc ELSE None
      BY <2>2, <2>3, <2>4 DEF Process
    <2>6. out'.step = IF StepChanged(log) THEN view.code ELSE None
      BY <2>2, <2>3 DEF Process
    <2>7. view.code = None => log.loc = None
      BY <2>3 DEF LocsAt
    <2> HIDE DEF view
    <2>8. QED
      BY <2>5, <2>6, <2>7 DEF StepChanged
  <1>2. QED
    BY <1>1, FramesInvariant, PTL DEF Spec, SwitchesStepAgain

\* The call tree of a recording nests as the calls of the transaction did.
THEOREM RecordedCallsNest == Spec => [](Tree!RangesNest /\ Tree!SiblingsDisjoint)
  <1>1. FramesOK => Tree!RangesNest /\ Tree!SiblingsDisjoint
    BY DEF FramesOK, TreeProofs!IInv, TreeProofs!RangesNest, Tree!RangesNest,
           TreeProofs!SiblingsDisjoint, Tree!SiblingsDisjoint
  <1>2. QED
    BY <1>1, FramesInvariant, PTL

\* The ranges of the tree give back the depth of the entry: as many of them
\* hold the last entry as there are live frames.
THEOREM DepthReadFromRanges == Spec => []RangesCoverDepth
  <1>1. FramesOK => RangesCoverDepth
    <2> SUFFICES ASSUME FramesOK, i > 0
                 PROVE  Cardinality({n \in 1..Len(nodes) : Tree!Covers(n, i - 1)}) = depth
      BY DEF RangesCoverDepth
    <2> DEFINE live == {n \in 1..Len(nodes) : Tree!Covers(n, i - 1)}
               node == [k \in 1..depth |-> path[k]]
    <2>1. Entry \in AnyAddr /\ MaxSteps \in Nat
      BY AddrAssumption, BoundsAssumption DEF AnyAddr
    <2>2. TreeProofs!RangesCoverPath
      BY <2>1, TreeProofs!IInvCovers DEF FramesOK
    <2>3. /\ depth \in Nat /\ Len(path) = depth
          /\ \A k \in 1..depth : path[k] \in 1..Len(nodes)
          /\ \A j, k \in 1..depth : path[j] = path[k] => j = k
      BY <2>1, TreeProofs!Basics DEF FramesOK, TreeProofs!IInv
    <2>4. \A n : n \in live <=> n \in 1..Len(nodes) /\ \E k \in 1..depth : path[k] = n
      BY <2>2, <2>3 DEF TreeProofs!RangesCoverPath, TreeProofs!Covers, Tree!Covers,
                        TreeProofs!OnPath
    <2> HIDE DEF live
    <2>5. node \in Bijection(1..depth, live)
      BY <2>3, <2>4 DEF Bijection, Injection, Surjection, IsInjective
    <2>6. ExistsBijection(1..depth, live)
      BY <2>5 DEF ExistsBijection
    <2>7. Cardinality(live) = depth
      BY <2>3, <2>6, FS_CountingElements
    <2>8. QED
      BY <2>7 DEF live
  <1>2. QED
    BY <1>1, FramesInvariant, PTL

-----------------------------------------------------------------------------
(* The calls open in the trace. *)

\* Every contract of the transaction is registered and none is created by it: no
\* frame is decoded with the artifacts of another contract.
KnownContracts == Addr \subseteq Registered /\ Ops \cap CreateOp = {}

\* No live frame, nor one about to be entered, is a creation.
NoCreation ==
    /\ last.op \notin CreateOp
    /\ \A k \in 1..Len(evm) : evm[k].via \notin CreateOp

\* The user's functions the live frames are in, as pairs of a depth and a place.
UserCalls(rs) ==
    UNION {{<<d, k>> : k \in {n \in 1..Len(rs[d]) : rs[d][n] = "user"}} :
             d \in 1..Len(rs)}

\* NoCallClosedEarly counts a finite set.
CallsOK == IsFiniteSet(UserRoutines) /\ NoCallClosedEarly

\* The functions of the frame that executes the entry, as it is executed.
HereAt(d) == RoutinesAt(d)[d]

\* What the entry does to the internal functions of its frame.
Effect(d, log, jump, internal) ==
    /\ log.jump \in Jumps(d, jump)
    /\ log.op \in CallOp => log.op \in Ops
    /\ \/ jump = "-" /\ internal = HereAt(d)
       \/ jump = "i" /\ \E r \in RoutineType :
             /\ InGenerated(HereAt(d)) => r = "generated"
             /\ internal = Append(HereAt(d), r)
       \/ /\ jump = "o" /\ HereAt(d) # <<>>
          /\ internal = CutTo(HereAt(d), Len(HereAt(d)) - 1)

\* Every step but the last is one iteration, with its effect on the functions.
LEMMA StepHasEffect ==
    ASSUME FramesOK, Next, ~Finalize
    PROVE  \E d \in NextDepth, jump \in {"i", "o", "-"} : \E log, internal :
              /\ Live /\ IsLog(log, d) /\ Process(log)
              /\ evm' = EvmAt(d)
              /\ Effect(d, log, jump, internal)
              /\ routines' = [RoutinesAt(d) EXCEPT ![d] = internal]
  <1> DEFINE goal == \E d \in NextDepth, jump \in {"i", "o", "-"} : \E log, internal :
                        /\ Live /\ IsLog(log, d) /\ Process(log)
                        /\ evm' = EvmAt(d)
                        /\ Effect(d, log, jump, internal)
                        /\ routines' = [RoutinesAt(d) EXCEPT ![d] = internal]
  <1>1. ASSUME NEW d \in NextDepth, NEW jump \in {"i", "o", "-"}, NEW log, NEW internal,
               Live, IsLog(log, d), Process(log), evm' = EvmAt(d),
               Effect(d, log, jump, internal),
               routines' = [RoutinesAt(d) EXCEPT ![d] = internal]
        PROVE  goal
    BY <1>1
  <1> HIDE DEF goal
  <1>2. ASSUME NEW d \in NextDepth
        PROVE  RoutinesAt(d) = [RoutinesAt(d) EXCEPT ![d] = RoutinesAt(d)[d]]
    BY RoutinesShape
  <1>3. ASSUME NEW d \in NextDepth, Live, NEW log, IsLog(log, d), Process(log),
               log.jump \in Jumps(d, "-"), log.op \in CallOp => log.op \in Ops,
               evm' = EvmAt(d), routines' = RoutinesAt(d)
        PROVE  goal
    <2>1. Effect(d, log, "-", RoutinesAt(d)[d])
      BY <1>3 DEF Effect, HereAt
    <2>2. QED
      BY <1>1, <1>2, <1>3, <2>1
  <1>4. ASSUME NEW d \in NextDepth, NEW op \in {"OTHER", "RETURN", "JUMP"},
               NEW loc \in LocsAt(d), NEW jump
        PROVE  /\ IsLog(LogEntry(d, op, loc, jump), d)
               /\ LogEntry(d, op, loc, jump).jump = jump
               /\ LogEntry(d, op, loc, jump).op \notin CallOp
    BY DEF LogEntry, IsLog, AllOp, CallOp, HaltOp
  <1>5. ASSUME NEW d \in NextDepth, Live, Execute(d) \/ Halt(d) PROVE goal
    <2>1. PICK op \in {"OTHER", "RETURN"}, loc \in LocsAt(d), jump \in Jumps(d, "-") :
             /\ Process(LogEntry(d, op, loc, jump))
             /\ evm' = EvmAt(d) /\ routines' = RoutinesAt(d)
      BY <1>5 DEF Execute, Halt
    <2>2. QED
      BY <1>3, <1>4, <1>5, <2>1
  <1>6. ASSUME NEW d \in NextDepth, Live, EnterRoutine(d) PROVE goal
    <2>1. PICK loc \in LocsAt(d), jump \in Jumps(d, "i"), r \in RoutineType :
             /\ InGenerated(RoutinesAt(d)[d]) => r = "generated"
             /\ Process(LogEntry(d, "JUMP", loc, jump))
             /\ evm' = EvmAt(d)
             /\ routines' = [RoutinesAt(d) EXCEPT ![d] = Append(@, r)]
      BY <1>6 DEF EnterRoutine, RoutineType
    <2>2. routines' = [RoutinesAt(d) EXCEPT ![d] = Append(RoutinesAt(d)[d], r)]
      BY <2>1
    <2>3. Effect(d, LogEntry(d, "JUMP", loc, jump), "i", Append(RoutinesAt(d)[d], r))
      BY <1>4, <2>1 DEF Effect, HereAt
    <2>4. QED
      BY <1>1, <1>4, <1>6, <2>1, <2>2, <2>3
  <1>7. ASSUME NEW d \in NextDepth, Live, LeaveRoutine(d) PROVE goal
    <2> DEFINE rest == CutTo(RoutinesAt(d)[d], Len(RoutinesAt(d)[d]) - 1)
    <2>1. PICK loc \in LocsAt(d), jump \in Jumps(d, "o") :
             /\ RoutinesAt(d)[d] # <<>>
             /\ Process(LogEntry(d, "JUMP", loc, jump))
             /\ evm' = EvmAt(d)
             /\ routines' = [RoutinesAt(d) EXCEPT ![d] = CutTo(@, Len(@) - 1)]
      BY <1>7 DEF LeaveRoutine
    <2>2. routines' = [RoutinesAt(d) EXCEPT ![d] = rest]
      BY <2>1
    <2>3. Effect(d, LogEntry(d, "JUMP", loc, jump), "o", rest)
      BY <1>4, <2>1 DEF Effect, HereAt
    <2> HIDE DEF rest
    <2>4. QED
      BY <1>1, <1>4, <1>7, <2>1, <2>2, <2>3
  <1>8. ASSUME NEW d \in NextDepth, Live, CallInstruction(d) PROVE goal
    <2>1. PICK loc \in LocsAt(d), jump \in Jumps(d, "-"), op \in Ops, to \in Addr :
             /\ Process([LogEntry(d, op, loc, jump) EXCEPT !.to = to])
             /\ evm' = EvmAt(d) /\ routines' = RoutinesAt(d)
      BY <1>8 DEF CallInstruction
    <2> DEFINE log == [LogEntry(d, op, loc, jump) EXCEPT !.to = to]
    <2>2. IsLog(log, d) /\ log.jump = jump /\ log.op = op
      BY OpsAssumption DEF IsLog, AllOp, CallOp, LogEntry
    <2> HIDE DEF log
    <2>3. Process(log)
      BY <2>1 DEF log
    <2>4. QED
      BY <1>3, <1>8, <2>1, <2>2, <2>3
  <1>9. ASSUME NEW d \in NextDepth, Live, Derive(d) PROVE goal
    <2>1. PICK loc \in LocsAt(d), jump \in Jumps(d, "-"), slot \in Derived :
             /\ Process([LogEntry(d, "KECCAK256", loc, jump) EXCEPT !.slot = slot])
             /\ evm' = EvmAt(d) /\ routines' = RoutinesAt(d)
      BY <1>9 DEF Derive
    <2> DEFINE log == [LogEntry(d, "KECCAK256", loc, jump) EXCEPT !.slot = slot]
    <2>2. IsLog(log, d) /\ log.jump = jump /\ log.op \notin CallOp
      BY DEF IsLog, AllOp, CallOp, LogEntry
    <2> HIDE DEF log
    <2>3. Process(log)
      BY <2>1 DEF log
    <2>4. QED
      BY <1>3, <1>9, <2>1, <2>2, <2>3
  <1>10. ASSUME NEW d \in NextDepth, Live, Store(d) PROVE goal
    <2>1. PICK loc \in LocsAt(d), jump \in Jumps(d, "-"), slot \in Slots, val \in Vals :
             /\ Process([LogEntry(d, "SSTORE", loc, jump)
                           EXCEPT !.slot = slot, !.val = val])
             /\ evm' = EvmAt(d) /\ routines' = RoutinesAt(d)
      BY <1>10 DEF Store
    <2> DEFINE log == [LogEntry(d, "SSTORE", loc, jump) EXCEPT !.slot = slot, !.val = val]
    <2>2. IsLog(log, d) /\ log.jump = jump /\ log.op \notin CallOp
      BY DEF IsLog, AllOp, CallOp, LogEntry
    <2> HIDE DEF log
    <2>3. Process(log)
      BY <2>1 DEF log
    <2>4. QED
      BY <1>3, <1>10, <2>1, <2>2, <2>3
  <1>11. goal
    BY <1>5, <1>6, <1>7, <1>8, <1>9, <1>10 DEF Next
  <1>12. QED
    BY <1>11 DEF goal

\* One element of a sequence replaced.
LEMMA ReplacedShape ==
    ASSUME NEW S, NEW s \in Seq(S), NEW k, NEW e \in S
    PROVE  /\ [s EXCEPT ![k] = e] \in Seq(S)
           /\ Len([s EXCEPT ![k] = e]) = Len(s)
           /\ \A j \in 1..Len(s) : [s EXCEPT ![k] = e][j] = IF j = k THEN e ELSE s[j]
  <1> DEFINE t == [s EXCEPT ![k] = e]
  <1>1. t = [j \in 1..Len(s) |-> IF j = k THEN e ELSE s[j]]
    OBVIOUS
  <1> HIDE DEF t
  <1>2. t \in [1..Len(s) -> S]
    BY <1>1
  <1>3. t \in Seq(S) /\ Len(t) = Len(s)
    BY <1>2
  <1>4. \A j \in 1..Len(s) : t[j] = IF j = k THEN e ELSE s[j]
    BY <1>1
  <1>5. QED
    BY <1>3, <1>4 DEF t

\* The internal functions of the frames that stay, and none for a new frame.
LEMMA RoutinesFollow ==
    ASSUME FramesOK, NEW d \in NextDepth
    PROVE  \A k \in 1..d :
              RoutinesAt(d)[k] = IF k <= depth THEN routines[k] ELSE <<>>
  <1>1. d \in 1 .. depth + 1 /\ depth \in Nat
    BY NextDepthBounds DEF FramesOK
  <1>2. routines \in Seq(Seq(RoutineType)) /\ Len(routines) = depth
    BY DEF FramesOK
  <1> DEFINE S == Seq(RoutineType)
             none == <<>>
  <1>3. none \in S /\ routines \in Seq(S)
    BY <1>2
  <1>4. RoutinesAt(d) = Resized(routines, d, none)
    BY DEF RoutinesAt
  <1> HIDE DEF S, none
  <1>5. \A k \in 1..d :
           RoutinesAt(d)[k] = IF k <= depth THEN routines[k] ELSE none
    BY <1>1, <1>2, <1>3, <1>4, ResizedShape
  <1>6. QED
    BY <1>5 DEF none

\* The members of UserCalls.
LEMMA UserCallsAre ==
    ASSUME NEW rs
    PROVE  /\ \A d, k : <<d, k>> \in UserCalls(rs) <=>
                 d \in 1..Len(rs) /\ k \in 1..Len(rs[d]) /\ rs[d][k] = "user"
           /\ \A p \in UserCalls(rs) : \E d, k : p = <<d, k>>
  <1>1. ASSUME NEW d, NEW k
        PROVE  <<d, k>> \in UserCalls(rs) <=>
                  d \in 1..Len(rs) /\ k \in 1..Len(rs[d]) /\ rs[d][k] = "user"
    BY DEF UserCalls
  <1>2. \A p \in UserCalls(rs) : \E d, k : p = <<d, k>>
    BY DEF UserCalls
  <1>3. QED
    BY <1>1, <1>2

\* The functions an iteration leaves its frame in.
LEMMA InternalShape ==
    ASSUME FramesOK, NEW d \in NextDepth, NEW log, NEW jump, NEW internal,
           Effect(d, log, jump, internal)
    PROVE  internal \in Seq(RoutineType)
  <1>1. HereAt(d) \in Seq(RoutineType)
    BY RoutinesShape DEF HereAt
  <1>2. ASSUME HereAt(d) # <<>>
        PROVE  CutTo(HereAt(d), Len(HereAt(d)) - 1) \in Seq(RoutineType)
    <2>1. Len(HereAt(d)) - 1 \in Nat
      BY <1>1, <1>2
    <2>2. QED
      BY <1>1, <2>1, CutToShape
  <1>3. QED
    BY <1>1, <1>2 DEF Effect

\* An instruction opens at most the function it enters, and a frame that ends
\* takes its functions with it.
LEMMA UserCallsMove ==
    ASSUME FramesOK, NEW d \in NextDepth, NEW internal \in Seq(RoutineType), NEW rs,
           rs = [RoutinesAt(d) EXCEPT ![d] = internal]
    PROVE  /\ \A n, k : <<n, k>> \in UserCalls(rs) =>
                 /\ n \in 1..d /\ k \in Nat \ {0}
                 /\ n # d => <<n, k>> \in UserCalls(routines)
                 /\ n = d => k \in 1..Len(internal) /\ internal[k] = "user"
           /\ \A k \in 1..Len(HereAt(d)) :
                 HereAt(d)[k] = "user" => <<d, k>> \in UserCalls(routines)
  <1>1. /\ d \in 1 .. depth + 1 /\ d \in 1..d /\ depth \in Nat
    BY NextDepthBounds, RoutinesShape DEF FramesOK
  <1>2. /\ RoutinesAt(d) \in Seq(Seq(RoutineType))
        /\ Len(RoutinesAt(d)) = d
        /\ \A n \in 1..d :
              RoutinesAt(d)[n] = IF n <= depth THEN routines[n] ELSE <<>>
    BY RoutinesShape, RoutinesFollow
  <1>3. /\ Len(rs) = d
        /\ \A n \in 1..d :
              rs[n] = IF n = d THEN internal ELSE RoutinesAt(d)[n]
    BY <1>2, ReplacedShape
  <1>4. routines \in Seq(Seq(RoutineType)) /\ Len(routines) = depth
    BY DEF FramesOK
  <1>5. ASSUME NEW n, NEW k, <<n, k>> \in UserCalls(rs)
        PROVE  /\ n \in 1..d /\ k \in Nat \ {0}
               /\ n # d => <<n, k>> \in UserCalls(routines)
               /\ n = d => k \in 1..Len(internal) /\ internal[k] = "user"
    <2>1. n \in 1..d /\ k \in 1..Len(rs[n]) /\ rs[n][k] = "user"
      <3>1. n \in 1..Len(rs) /\ k \in 1..Len(rs[n]) /\ rs[n][k] = "user"
        BY <1>5, UserCallsAre, Zenon
      <3>2. QED
        BY <1>3, <3>1
    <2>2. CASE n = d
      <3>1. rs[n] = internal
        BY <1>3, <2>1, <2>2
      <3>2. QED
        BY <2>1, <2>2, <3>1
    <2>3. CASE n # d
      <3>1. n \in 1..depth /\ rs[n] = routines[n] /\ routines[n] \in Seq(RoutineType)
        BY <1>1, <1>2, <1>3, <1>4, <2>1, <2>3
      <3>2. <<n, k>> \in UserCalls(routines)
        BY <1>4, <2>1, <3>1, UserCallsAre
      <3>3. k \in Nat \ {0}
        BY <2>1, <3>1
      <3>4. QED
        BY <2>1, <2>3, <3>2, <3>3
    <2>4. QED
      BY <2>2, <2>3
  <1>6. ASSUME NEW k \in 1..Len(HereAt(d)), HereAt(d)[k] = "user"
        PROVE  <<d, k>> \in UserCalls(routines)
    <2>1. HereAt(d) = IF d <= depth THEN routines[d] ELSE <<>>
      BY <1>1, <1>2 DEF HereAt
    <2>2. d \in 1..depth /\ HereAt(d) = routines[d]
      BY <1>1, <1>6, <2>1
    <2>3. QED
      BY <1>4, <1>6, <2>2, UserCallsAre
  <1>7. QED
    BY <1>5, <1>6

\* So their number grows by one at most, on entering a function from code of the
\* user, and falls on leaving one of the user's.
LEMMA UserCallsCount ==
    ASSUME FramesOK, NEW d \in NextDepth, IsFiniteSet(UserCalls(routines)),
           NEW log, NEW jump, NEW internal,
           Effect(d, log, jump, internal),
           NEW rs, rs = [RoutinesAt(d) EXCEPT ![d] = internal]
    PROVE  /\ IsFiniteSet(UserCalls(rs))
           /\ Cardinality(UserCalls(rs)) \in Nat
           /\ Cardinality(UserCalls(routines)) \in Nat
           /\ Cardinality(UserCalls(rs)) <= Cardinality(UserCalls(routines)) + 1
           /\ \/ jump = "i" /\ ~InGenerated(HereAt(d))
              \/ Cardinality(UserCalls(rs)) <= Cardinality(UserCalls(routines))
           /\ jump = "o" /\ ~InGenerated(HereAt(d)) =>
                Cardinality(UserCalls(rs)) + 1 <= Cardinality(UserCalls(routines))
  <1> DEFINE A == UserCalls(routines)
             B == UserCalls(rs)
  <1>1. internal \in Seq(RoutineType) /\ HereAt(d) \in Seq(RoutineType) /\ Len(HereAt(d)) \in Nat
    BY InternalShape, RoutinesShape DEF HereAt
  <1>2. /\ \A n, k : <<n, k>> \in B =>
                 /\ n \in 1..d /\ k \in Nat \ {0}
                 /\ n # d => <<n, k>> \in A
                 /\ n = d => k \in 1..Len(internal) /\ internal[k] = "user"
        /\ \A k \in 1..Len(HereAt(d)) : HereAt(d)[k] = "user" => <<d, k>> \in A
    BY <1>1, UserCallsMove
  <1>3. \A p \in B : \E n, k : p = <<n, k>>
    BY UserCallsAre
  <1>4. IsFiniteSet(A) /\ Cardinality(A) \in Nat
    BY FS_CardinalityType
  <1> HIDE DEF A, B
  <1>5. ASSUME B \subseteq A
        PROVE  IsFiniteSet(B) /\ Cardinality(B) \in Nat /\ Cardinality(B) <= Cardinality(A)
    <2>1. IsFiniteSet(B) /\ Cardinality(B) <= Cardinality(A)
      BY <1>4, <1>5, FS_Subset
    <2>2. QED
      BY <2>1, FS_CardinalityType
  <1> DEFINE Goal ==
        /\ IsFiniteSet(B) /\ Cardinality(B) \in Nat
        /\ Cardinality(B) <= Cardinality(A) + 1
        /\ \/ jump = "i" /\ ~InGenerated(HereAt(d))
           \/ Cardinality(B) <= Cardinality(A)
        /\ jump = "o" /\ ~InGenerated(HereAt(d)) => Cardinality(B) + 1 <= Cardinality(A)
  <1>6. ASSUME internal = HereAt(d), jump = "-" PROVE Goal
    <2>1. \A n, k : <<n, k>> \in B => <<n, k>> \in A
      BY <1>2, <1>6
    <2>2. B \subseteq A
      BY <1>3, <2>1
    <2>3. QED
      BY <1>4, <1>5, <1>6, <2>2
  <1>7. ASSUME NEW r \in RoutineType, jump = "i", internal = Append(HereAt(d), r),
               InGenerated(HereAt(d)) => r = "generated"
        PROVE  Goal
    <2>1. /\ Len(internal) = Len(HereAt(d)) + 1 /\ internal[Len(HereAt(d)) + 1] = r
          /\ \A k \in 1..Len(HereAt(d)) : internal[k] = HereAt(d)[k]
      BY <1>1, <1>7
    <2>2. \A n, k : <<n, k>> \in B =>
             <<n, k>> \in A \/ (<<n, k>> = <<d, Len(HereAt(d)) + 1>> /\ r = "user")
      <3>1. ASSUME NEW n, NEW k, <<n, k>> \in B, <<n, k>> \notin A
            PROVE  n = d /\ k = Len(HereAt(d)) + 1 /\ r = "user"
        <4>1. n = d /\ k \in 1 .. Len(HereAt(d)) + 1 /\ internal[k] = "user"
          BY <1>2, <2>1, <3>1
        <4>2. k \notin 1..Len(HereAt(d))
          BY <1>2, <2>1, <3>1, <4>1
        <4>3. k = Len(HereAt(d)) + 1
          BY <1>1, <4>1, <4>2
        <4>4. QED
          BY <2>1, <4>1, <4>3
      <3>2. QED
        BY <3>1
    <2>3. CASE r = "generated"
      <3>1. B \subseteq A
        BY <1>3, <2>2, <2>3
      <3>2. QED
        BY <1>4, <1>5, <1>7, <3>1
    <2>4. CASE r # "generated"
      <3> DEFINE x == <<d, Len(HereAt(d)) + 1>>
      <3>1. B \subseteq A \cup {x}
        BY <1>3, <2>2
      <3> HIDE DEF x
      <3>2. /\ IsFiniteSet(A \cup {x})
            /\ Cardinality(A \cup {x}) = IF x \in A THEN Cardinality(A)
                                         ELSE Cardinality(A) + 1
        BY <1>4, FS_AddElement
      <3>3. IsFiniteSet(B) /\ Cardinality(B) <= Cardinality(A \cup {x})
        BY <3>1, <3>2, FS_Subset
      <3>4. Cardinality(B) \in Nat
        BY <3>3, FS_CardinalityType
      <3>5. QED
        BY <1>4, <1>7, <2>4, <3>2, <3>3, <3>4
    <2>5. QED
      BY <2>3, <2>4
  <1>8. ASSUME jump = "o", HereAt(d) # <<>>, internal = CutTo(HereAt(d), Len(HereAt(d)) - 1) PROVE Goal
    <2>1. Len(HereAt(d)) \in Nat \ {0} /\ Len(HereAt(d)) - 1 \in Nat
      BY <1>1, <1>8
    <2>2. /\ Len(internal) = Len(HereAt(d)) - 1
          /\ \A k \in 1..Len(internal) : internal[k] = HereAt(d)[k]
      BY <1>1, <1>8, <2>1, CutToShape
    <2>3. \A n, k : <<n, k>> \in B => <<n, k>> \in A /\ <<n, k>> # <<d, Len(HereAt(d))>>
      BY <1>2, <2>1, <2>2
    <2> DEFINE x == <<d, Len(HereAt(d))>>
    <2>4. B \subseteq A /\ B \subseteq A \ {x}
      BY <1>3, <2>3
    <2>5. ASSUME ~InGenerated(HereAt(d)) PROVE x \in A
      <3>1. HereAt(d)[Len(HereAt(d))] = "user"
        BY <1>1, <1>8, <2>1, <2>5 DEF InGenerated, RoutineType
      <3>2. QED
        BY <1>2, <2>1, <3>1
    <2> HIDE DEF x
    <2>6. ASSUME ~InGenerated(HereAt(d)) PROVE Cardinality(B) + 1 <= Cardinality(A)
      <3>1. IsFiniteSet(A \ {x}) /\ Cardinality(A \ {x}) = Cardinality(A) - 1
        BY <1>4, <2>5, <2>6, FS_RemoveElement
      <3>2. Cardinality(B) <= Cardinality(A \ {x})
        BY <2>4, <3>1, FS_Subset
      <3>3. QED
        BY <1>4, <1>5, <2>4, <3>1, <3>2
    <2>7. QED
      BY <1>4, <1>5, <1>8, <2>4, <2>6
  <1>9. Goal
    BY <1>6, <1>7, <1>8 DEF Effect
  <1>10. QED
    BY <1>4, <1>9 DEF A, B

\* The calls open in the trace once the depth has been followed: one more for a
\* new frame, one less for a frame that ended.
LEMMA CallsFollow ==
    ASSUME FramesOK, DataOK, NEW d \in NextDepth, Len(calls) >= depth
    PROVE  /\ CallsAt(d) \in Seq(CallRecord)
           /\ Len(CallsAt(d)) = Len(calls) + d - depth
           /\ \A k \in 1..Len(calls) :
                 k <= Len(CallsAt(d)) => CallsAt(d)[k] = calls[k]
  <1>1. /\ d \in Nat \ {0} /\ depth \in Nat /\ Len(nodes) \in Nat
        /\ d > depth => d = depth + 1
        /\ d < depth => d = depth - 1
    BY NextDepthBounds, SMTT(30) DEF FramesOK, TreeProofs!IInv, TreeProofs!TypeOK
  <1>2. calls \in Seq(CallRecord) /\ Len(calls) \in Nat
    BY DEF DataOK
  <1>3. CASE d > depth
    <2> DEFINE new == [kind |-> "frame", of |-> Len(nodes) + 1]
    <2>1. CallsAt(d) = Append(calls, new)
      BY <1>3 DEF CallsAt
    <2>2. new \in CallRecord
      BY <1>1 DEF CallRecord
    <2> HIDE DEF new
    <2>3. QED
      BY <1>1, <1>2, <1>3, <2>1, <2>2
  <1>4. CASE ~(d > depth)
    <2> DEFINE m == Len(calls) - (depth - d)
    <2>1. m \in Nat /\ m <= Len(calls) /\ m = Len(calls) + d - depth
      BY <1>1, <1>2, <1>4
    <2>2. CallsAt(d) = CutTo(calls, m)
      BY <1>1, <1>2, <1>4 DEF CallsAt, Closed
    <2> HIDE DEF m
    <2>3. /\ CutTo(calls, m) \in Seq(CallRecord)
          /\ Len(CutTo(calls, m)) = IF m < Len(calls) THEN m ELSE Len(calls)
          /\ \A k \in 1 .. Len(CutTo(calls, m)) : CutTo(calls, m)[k] = calls[k]
      BY <1>2, <2>1, CutToShape
    <2>4. Len(CutTo(calls, m)) = m
      BY <1>2, <2>1, <2>3
    <2>5. QED
      BY <2>1, <2>2, <2>3, <2>4
  <1>5. QED
    BY <1>3, <1>4

\* What a jump with a location then adds or takes off.
LEMMA CallsJump ==
    ASSUME NEW cs \in Seq(CallRecord), NEW log, NEW node \in Nat, Len(cs) > 0
    PROVE  LET after == CallsAfterJump(cs, log, node) IN
           /\ after \in Seq(CallRecord)
           /\ log.loc # None /\ log.jump = "i" => Len(after) = Len(cs) + 1
           /\ log.loc # None /\ log.jump = "o" => Len(after) = Len(cs) - 1
           /\ (log.loc # None /\ log.jump \in {"i", "o"}) \/ Len(after) = Len(cs)
           /\ \A k \in 1..Len(cs) : k <= Len(after) => after[k] = cs[k]
  <1> DEFINE after == CallsAfterJump(cs, log, node)
  <1>1. CASE log.loc # None /\ log.jump = "i"
    <2> DEFINE new == [kind |-> "routine", of |-> node]
    <2>1. after = Append(cs, new)
      BY <1>1 DEF CallsAfterJump
    <2>2. new \in CallRecord
      BY DEF CallRecord
    <2> HIDE DEF new, after
    <2>3. QED
      BY <1>1, <2>1, <2>2 DEF after
  <1>2. CASE log.loc # None /\ log.jump = "o"
    <2> DEFINE m == Len(cs) - 1
    <2>1. after = CutTo(cs, m) /\ m \in Nat /\ m < Len(cs)
      BY <1>2 DEF CallsAfterJump, Closed
    <2> HIDE DEF m
    <2>2. /\ CutTo(cs, m) \in Seq(CallRecord)
          /\ Len(CutTo(cs, m)) = IF m < Len(cs) THEN m ELSE Len(cs)
          /\ \A k \in 1 .. Len(CutTo(cs, m)) : CutTo(cs, m)[k] = cs[k]
      BY <2>1, CutToShape
    <2>3. Len(CutTo(cs, m)) = Len(cs) - 1
      BY <2>1, <2>2 DEF m
    <2> HIDE DEF after
    <2>4. QED
      BY <1>2, <2>1, <2>2, <2>3 DEF after
  <1>3. CASE ~(log.loc # None /\ log.jump \in {"i", "o"})
    <2>1. after = cs
      BY <1>3 DEF CallsAfterJump
    <2> HIDE DEF after
    <2>2. QED
      BY <1>3, <2>1 DEF after
  <1>4. QED
    BY <1>1, <1>2, <1>3

\* Frames of registered contracts stay so.
LEMMA NoCreationKept ==
    ASSUME KnownContracts, FramesOK, NoCreation, [Next]_vars
    PROVE  NoCreation'
  <1>1. CASE Finalize \/ UNCHANGED vars
    BY <1>1 DEF Finalize, vars, evm_vars, NoCreation
  <1>2. CASE Next /\ ~Finalize
    <2>1. PICK d \in NextDepth, jump \in {"i", "o", "-"} : \E log, internal :
             IsLog(log, d) /\ Process(log) /\ evm' = EvmAt(d) /\ Effect(d, log, jump, internal)
      BY <1>2, StepHasEffect
    <2>2. PICK log, internal :
             IsLog(log, d) /\ Process(log) /\ evm' = EvmAt(d) /\ Effect(d, log, jump, internal)
      BY <2>1
    <2>3. last'.op = log.op /\ log.op \notin CreateOp
      BY <2>2 DEF Process, Effect, KnownContracts, CallOp, CreateOp
    <2>4. /\ Len(evm') = d /\ d > depth => last.op \notin CreateOp
          /\ \A k \in 1..d : evm'[k] = IF k <= depth THEN evm[k]
                                       ELSE Callee(evm[depth], last.op, last.to)
      BY <2>2, FollowedFrames DEF NoCreation
    <2>5. ASSUME NEW k \in 1..d PROVE evm'[k].via \notin CreateOp
      <3>1. depth \in Nat /\ d \in Nat /\ Len(evm) = depth
        BY NextDepthBounds DEF FramesOK
      <3>2. CASE k <= depth
        BY <2>4, <3>1, <3>2 DEF NoCreation
      <3>3. CASE ~(k <= depth)
        BY <2>4, <3>1, <3>3 DEF NoCreation, Callee
      <3>4. QED
        BY <3>2, <3>3
    <2>6. Len(evm') = d
      BY <2>2, FollowedFrames
    <2>7. QED
      BY <2>3, <2>5, <2>6 DEF NoCreation
  <1>3. QED
    BY <1>1, <1>2

\* The source map in use is that of the code that runs: a jump has a location,
\* and the jump type of the jump that is executed, except in generated code.
LEMMA KnownJumps ==
    ASSUME KnownContracts, FramesOK, ContextsOK, NoCreation, NEW d \in NextDepth,
           depth' = d, evm' = EvmAt(d), frames' = FramesAt(d), NoCreation',
           NEW log, IsLog(log, d), NEW jump, NEW internal, Effect(d, log, jump, internal)
    PROVE  /\ log.jump = jump
           /\ log.loc # None <=> ~InGenerated(HereAt(d))
  <1>1. /\ EvmAt(d) \in Seq(EvmFrame) /\ Len(EvmAt(d)) = d
        /\ FramesAt(d) \in Seq(FrameType) /\ Len(FramesAt(d)) = d
        /\ d \in Nat \ {0} /\ d \in 1..d
    BY FollowedFrames, NextDepthBounds, RoutinesShape
  <1>2. ContextsOK'
    BY ContextsFollow
  <1>3. /\ EvmAt(d)[d] \in EvmFrame /\ FramesAt(d)[d] \in FrameType
        /\ EvmAt(d)[d].via \notin CreateOp
    BY <1>1 DEF NoCreation
  <1>4. FramesAt(d)[d].address = EvmAt(d)[d].code
    <2>1. CASE d = 1
      BY <1>2, <2>1 DEF ContextsOK
    <2>2. CASE d # 1
      <3>1. d \in 2..d
        BY <1>1, <2>2
      <3>2. QED
        BY <1>2, <1>3, <3>1 DEF ContextsOK
    <2>3. QED
      BY <2>1, <2>2
  <1>5. EvmAt(d)[d].code \in Addr
    BY <1>3 DEF EvmFrame
  <1>6. ViewOf(FramesAt(d)[d]).code = EvmAt(d)[d].code
    BY <1>3, <1>4, <1>5, ViewOfRegistered DEF KnownContracts
  <1>7. ~Foreign(d)
    BY <1>1, <1>3, <1>6 DEF Foreign
  <1>8. EvmAt(d)[d].code # None /\ None \notin Locs
    BY <1>5, AddrAssumption
  <1>9. log.loc \in IF InGenerated(HereAt(d)) THEN {None} ELSE Locs
    BY <1>1, <1>6, <1>7, <1>8 DEF IsLog, LocsAt, HereAt
  <1>10. log.jump = jump
    BY <1>7 DEF Effect, Jumps
  <1>11. QED
    BY <1>8, <1>9, <1>10

\* CallsOK holds as recording starts.
LEMMA InitCallsOK == Init => NoCreation /\ CallsOK
  <1> SUFFICES ASSUME Init PROVE NoCreation /\ CallsOK
    OBVIOUS
  <1>1. NoCreation
    BY DEF Init, NoCreation, NoLog, CreateOp
  <1>2. UserCalls(routines) = {}
    <2>1. Len(routines) = 1 /\ routines[1] = <<>>
      BY DEF Init
    <2>2. ASSUME NEW n, NEW k, <<n, k>> \in UserCalls(routines) PROVE FALSE
      <3>1. n \in 1..Len(routines) /\ k \in 1..Len(routines[n])
        BY <2>2, UserCallsAre, Zenon
      <3>2. n = 1 /\ Len(routines[n]) = 0
        BY <2>1, <3>1
      <3>3. QED
        BY <3>1, <3>2
    <2>3. QED
      BY <2>2, UserCallsAre
  <1>3. UserRoutines = {}
    BY <1>2 DEF UserRoutines, UserCalls
  <1>4. IsFiniteSet(UserRoutines) /\ Cardinality(UserRoutines) = 0
    BY <1>3, FS_EmptySet
  <1>5. depth = 1 /\ Len(calls) = 1 /\ calls[1].kind = "toplevel"
    BY DEF Init
  <1>6. QED
    BY <1>1, <1>4, <1>5 DEF CallsOK, NoCallClosedEarly

\* No iteration closes a call too many.
LEMMA CallsKept ==
    ASSUME KnownContracts, FramesOK, DataOK, ContextsOK, NoCreation, CallsOK, [Next]_vars
    PROVE  CallsOK'
  <1>1. CASE Finalize \/ UNCHANGED vars
    <2>1. UserRoutines' = UserRoutines
      BY <1>1 DEF Finalize, vars, evm_vars, UserRoutines
    <2>2. done' \/ UNCHANGED <<done, calls, depth>>
      BY <1>1 DEF Finalize, vars, frame_vars
    <2>3. QED
      BY <2>1, <2>2 DEF CallsOK, NoCallClosedEarly
  <1>2. CASE Next /\ ~Finalize
    <2>1. PICK d \in NextDepth, jump \in {"i", "o", "-"} : \E log, internal :
              /\ Live /\ IsLog(log, d) /\ Process(log)
              /\ evm' = EvmAt(d)
              /\ Effect(d, log, jump, internal)
              /\ routines' = [RoutinesAt(d) EXCEPT ![d] = internal]
      BY <1>2, StepHasEffect
    <2>2. PICK log, internal :
              /\ Live /\ IsLog(log, d) /\ Process(log)
              /\ evm' = EvmAt(d)
              /\ Effect(d, log, jump, internal)
              /\ routines' = [RoutinesAt(d) EXCEPT ![d] = internal]
      BY <2>1
    <2> DEFINE node == PathAt(d)[Len(PathAt(d))]
               cs == CallsAt(d)
               u == Cardinality(UserRoutines)
               v == Cardinality(UserRoutines')
    <2>3. /\ depth' = d /\ frames' = FramesAt(d) /\ done' = done
          /\ calls' = CallsAfterJump(cs, log, node)
      BY <2>2 DEF Process, IsLog
    <2>4. /\ d \in Nat \ {0} /\ depth \in Nat \ {0} /\ node \in Nat
          /\ Len(calls) \in Nat
      BY NextDepthBounds, FollowedPath DEF FramesOK, DataOK
    <2>5. /\ UserRoutines = UserCalls(routines)
          /\ UserRoutines' = UserCalls(routines')
      BY DEF UserRoutines, UserCalls
    <2>6. /\ IsFiniteSet(UserRoutines) /\ ~done
          /\ Len(calls) >= depth + u /\ calls[1].kind = "toplevel"
      BY <2>2 DEF CallsOK, NoCallClosedEarly, Live
    <2>7. /\ IsFiniteSet(UserRoutines') /\ u \in Nat /\ v \in Nat
          /\ v <= u + 1
          /\ (jump = "i" /\ ~InGenerated(HereAt(d))) \/ v <= u
          /\ jump = "o" /\ ~InGenerated(HereAt(d)) => v + 1 <= u
      BY <2>2, <2>5, <2>6, UserCallsCount
    <2>8. /\ log.jump = jump
          /\ log.loc # None <=> ~InGenerated(HereAt(d))
      BY <2>2, <2>3, NoCreationKept, KnownJumps
    <2> HIDE DEF node, cs, u, v
    <2>9. Len(calls) >= depth
      BY <2>4, <2>6, <2>7
    <2>10. /\ cs \in Seq(CallRecord) /\ Len(cs) = Len(calls) + d - depth
           /\ \A k \in 1..Len(calls) : k <= Len(cs) => cs[k] = calls[k]
      BY <2>9, CallsFollow DEF cs
    <2>11. Len(cs) \in Nat /\ Len(cs) >= d + u /\ Len(cs) > 0
      BY <2>4, <2>6, <2>7, <2>10
    <2>12. /\ calls' \in Seq(CallRecord)
           /\ log.loc # None /\ log.jump = "i" => Len(calls') = Len(cs) + 1
           /\ log.loc # None /\ log.jump = "o" => Len(calls') = Len(cs) - 1
           /\ (log.loc # None /\ log.jump \in {"i", "o"}) \/ Len(calls') = Len(cs)
           /\ \A k \in 1..Len(cs) : k <= Len(calls') => calls'[k] = cs[k]
      <3> DEFINE after == CallsAfterJump(cs, log, node)
      <3>1. /\ after \in Seq(CallRecord)
            /\ log.loc # None /\ log.jump = "i" => Len(after) = Len(cs) + 1
            /\ log.loc # None /\ log.jump = "o" => Len(after) = Len(cs) - 1
            /\ (log.loc # None /\ log.jump \in {"i", "o"}) \/ Len(after) = Len(cs)
            /\ \A k \in 1..Len(cs) : k <= Len(after) => after[k] = cs[k]
        BY <2>4, <2>10, <2>11, CallsJump, ZenonT(30)
      <3>2. calls' = after
        BY <2>3
      <3> HIDE DEF after
      <3>3. QED
        BY <3>1, <3>2
    <2> DEFINE c == Len(cs)
               w == Len(calls')
    <2>13. c \in Nat /\ w \in Nat /\ c >= d + u
      BY <2>11, <2>12
    <2>14. /\ jump = "i" /\ ~InGenerated(HereAt(d)) => w = c + 1
           /\ jump = "o" /\ ~InGenerated(HereAt(d)) => w = c - 1
           /\ (jump \in {"i", "o"} /\ ~InGenerated(HereAt(d))) \/ w = c
      BY <2>8, <2>12
    <2> HIDE DEF c, w
    <2>15. w >= d + v
      <3>1. CASE jump = "i" /\ ~InGenerated(HereAt(d))
        BY <2>4, <2>7, <2>13, <2>14, <3>1
      <3>2. CASE jump = "o" /\ ~InGenerated(HereAt(d))
        BY <2>4, <2>7, <2>13, <2>14, <3>2
      <3>3. CASE ~(jump \in {"i", "o"} /\ ~InGenerated(HereAt(d)))
        <4>1. w = c /\ v <= u
          BY <2>7, <2>14, <3>3
        <4>2. QED
          BY <2>4, <2>7, <2>13, <4>1
      <3>4. QED
        BY <3>1, <3>2, <3>3
    <2>16. calls'[1].kind = "toplevel"
      <3>1. 1 \in 1..Len(calls) /\ 1 <= Len(cs) /\ 1 \in 1..Len(cs)
        BY <2>4, <2>9, <2>11
      <3>2. 1 <= Len(calls')
        BY <2>4, <2>7, <2>13, <2>15 DEF w
      <3>3. calls'[1] = calls[1]
        BY <2>10, <2>12, <3>1, <3>2
      <3>4. QED
        BY <2>6, <3>3
    <2>17. QED
      BY <2>3, <2>7, <2>15, <2>16 DEF CallsOK, NoCallClosedEarly, v, w
  <1>3. QED
    BY <1>1, <1>2

\* With every contract of the transaction registered and none created by it,
\* every live frame and every open function of the sources has its call open in
\* the trace, for any nesting of the two: a return of a generated routine, which
\* has no location, closes nothing, and a frame takes away one call only.
THEOREM CallsStayOpen ==
    ASSUME KnownContracts PROVE Spec => []NoCallClosedEarly
  <1>1. FramesOK /\ DataOK /\ ContextsOK /\ NoCreation /\ CallsOK /\ [Next]_vars
        => NoCreation' /\ CallsOK'
    BY NoCreationKept, CallsKept
  <1>2. Init => NoCreation /\ CallsOK
    BY InitCallsOK
  <1>3. CallsOK => NoCallClosedEarly
    BY DEF CallsOK
  <1>4. Spec => [](FramesOK /\ DataOK /\ ContextsOK)
    BY ContextsInvariant, PTL
  <1>5. QED
    BY <1>1, <1>2, <1>3, <1>4, PTL DEF Spec

=============================================================================
