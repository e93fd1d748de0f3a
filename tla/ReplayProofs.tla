---------------------------- MODULE ReplayProofs ----------------------------
\* What a replay records, for every chain, every number of reorganisations while
\* it runs, and every execution: first what the depths of the inspector tell about
\* the frames of the EVM, for any number of frames and instructions.
EXTENDS Replay, FiniteSetTheorems, TLAPS

-----------------------------------------------------------------------------
(* The inspector. *)

Kind == {"call", "create"}
StepRecord == [depth : Nat \ {0}, frame : Nat \ {0}]
Frame == [number : Nat \ {0}, kind : Kind, code : BOOLEAN, doing : Ops \cup {"none"}]

Types ==
    /\ frames \in Seq(Frame)
    /\ current_depth = Len(frames)
    /\ steps \in Seq(StepRecord)
    /\ calls \in Seq(Kind)

\* Frames are numbered in the order in which they were entered.
Numbered ==
    /\ \A d \in 1..Len(frames) : frames[d].number \in 1..Len(calls)
    /\ \A d, e \in 1..Len(frames) : d < e => frames[d].number < frames[e].number
    /\ \A i \in 1..Len(steps) : steps[i].frame \in 1..Len(calls)

\* No step from i on has a depth lower than d.
Within(i, d) == \A k \in i..Len(steps) : steps[k].depth >= d

\* The steps of the open frame at depth d are those of depth d that no lower
\* step follows.
OpenFrames ==
    \A i \in 1..Len(steps), d \in 1..Len(frames) :
        steps[i].frame = frames[d].number <=> steps[i].depth = d /\ Within(i, d)

\* A frame is entered by the last step, which has the depth of its caller; below
\* the innermost frame none is about to enter another.
Calling ==
    /\ \A d \in 1..Len(frames) - 1 : frames[d].doing = "none"
    /\ frames # << >> /\ frames[Len(frames)].doing \in Kind =>
          steps # << >> /\ steps[Len(steps)].depth = Len(frames)

IInv == Types /\ Numbered /\ OpenFrames /\ Calling /\ FramesToldByDepth

\* The elements of the sequences one by one.
LEMMA Elements ==
    ASSUME Types
    PROVE  /\ Len(frames) \in Nat /\ Len(steps) \in Nat /\ Len(calls) \in Nat
           /\ \A d \in 1..Len(frames) :
                 /\ frames[d].number \in Nat \ {0} /\ frames[d].kind \in Kind
                 /\ frames[d].code \in BOOLEAN /\ frames[d].doing \in Ops \cup {"none"}
           /\ \A i \in 1..Len(steps) : steps[i].depth \in Nat \ {0} /\ steps[i].frame \in Nat \ {0}
  <1>1. Len(frames) \in Nat /\ Len(steps) \in Nat /\ Len(calls) \in Nat
    BY DEF Types
  <1>2. ASSUME NEW d \in 1..Len(frames) PROVE frames[d] \in Frame
    BY DEF Types
  <1>3. ASSUME NEW i \in 1..Len(steps) PROVE steps[i] \in StepRecord
    BY DEF Types
  <1>4. QED
    BY <1>1, <1>2, <1>3 DEF Frame, StepRecord

\* Setting what the innermost frame does changes nothing else of any frame.
LEMMA DoingShape ==
    ASSUME Types, frames # << >>, NEW op \in Ops \cup {"none"}
    PROVE  /\ Doing(op) \in Seq(Frame) /\ Len(Doing(op)) = Len(frames)
           /\ \A d \in 1..Len(frames) : Doing(op)[d].number = frames[d].number
           /\ \A d \in 1..Len(frames) - 1 : Doing(op)[d] = frames[d]
           /\ Doing(op)[Len(frames)].doing = op
  <1>1. Len(frames) \in Nat \ {0} /\ Len(frames) \in 1..Len(frames)
    BY DEF Types
  <1>2. \A d \in 1..Len(frames) : frames[d] \in Frame
    BY DEF Types
  <1>3. [frames[Len(frames)] EXCEPT !.doing = op] \in Frame
    BY <1>1, <1>2 DEF Frame
  <1>4. Doing(op) = [frames EXCEPT ![Len(frames)] = [frames[Len(frames)] EXCEPT !.doing = op]]
    BY DEF Doing
  <1>5. Doing(op) \in Seq(Frame) /\ Len(Doing(op)) = Len(frames)
    BY <1>1, <1>3, <1>4 DEF Types
  <1>6. \A d \in 1..Len(frames) :
           Doing(op)[d] = IF d = Len(frames) THEN [frames[d] EXCEPT !.doing = op] ELSE frames[d]
    BY <1>1, <1>4 DEF Types
  <1>7. ASSUME NEW d \in 1..Len(frames)
        PROVE  /\ [frames[d] EXCEPT !.doing = op].number = frames[d].number
               /\ [frames[d] EXCEPT !.doing = op].doing = op
    BY <1>2 DEF Frame
  <1>8. \A d \in 1..Len(frames) : Doing(op)[d].number = frames[d].number
    BY <1>6, <1>7
  <1>9. \A d \in 1..Len(frames) - 1 : d \in 1..Len(frames) /\ d # Len(frames)
    BY <1>1
  <1>10. \A d \in 1..Len(frames) - 1 : Doing(op)[d] = frames[d]
    BY <1>6, <1>9
  <1>11. Doing(op)[Len(frames)].doing = op
    BY <1>1, <1>6, <1>7
  <1>12. QED
    BY <1>5, <1>8, <1>10, <1>11

\* A change of what the innermost frame does, without a step, keeps the invariant
\* unless it announces a frame.
LEMMA DoingKeeps ==
    ASSUME IInv, frames # << >>, NEW op \in (Ops \cup {"none"}) \ Kind,
           frames' = Doing(op), UNCHANGED << current_depth, steps, calls >>
    PROVE  IInv'
  <1> USE DEF IInv
  <1>1. /\ frames' \in Seq(Frame) /\ Len(frames') = Len(frames)
        /\ \A d \in 1..Len(frames) : frames'[d].number = frames[d].number
        /\ \A d \in 1..Len(frames) - 1 : frames'[d] = frames[d]
        /\ frames'[Len(frames)].doing = op
    BY DoingShape
  <1>2. Types'
    BY <1>1 DEF Types
  <1>3. Numbered'
    BY <1>1, Elements DEF Numbered
  <1>4. OpenFrames'
    BY <1>1, Elements DEF OpenFrames, Within
  <1>5. Calling'
    BY <1>1, Elements DEF Calling
  <1>6. FramesToldByDepth'
    BY DEF FramesToldByDepth
  <1>7. QED
    BY <1>2, <1>3, <1>4, <1>5, <1>6

\* An instruction adds a step of the innermost frame, at its depth.
LEMMA StepKeeps == ASSUME IInv, NEW op \in Ops, Step(op) PROVE IInv'
  <1> USE DEF IInv
  <1> DEFINE n == Len(steps) + 1
             after(i, d) == \A k \in i..n : steps'[k].depth >= d
  <1>0. /\ Len(frames) \in Nat \ {0} /\ Len(steps) \in Nat
        /\ Len(frames) \in 1..Len(frames) /\ n \in Nat \ {0}
    BY Elements DEF Step
  <1>1. /\ Len(steps') = n
        /\ \A i \in 1..Len(steps) : steps'[i] = steps[i]
        /\ steps'[n].depth = Len(frames) /\ steps'[n].frame = frames[Len(frames)].number
        /\ steps' \in Seq(StepRecord)
    <2>1. [depth |-> current_depth, frame |-> Top.number] \in StepRecord
      BY <1>0, Elements DEF Types, StepRecord, Top
    <2>2. QED
      BY <1>0, <2>1 DEF Step, Types, Top
  <1>2. /\ frames' \in Seq(Frame) /\ Len(frames') = Len(frames)
        /\ \A d \in 1..Len(frames) : frames'[d].number = frames[d].number
        /\ \A d \in 1..Len(frames) - 1 : frames'[d] = frames[d]
    <2>1. CASE op = "other"
      BY <2>1 DEF Step, Types
    <2>2. CASE op # "other"
      BY <2>2, DoingShape DEF Step
    <2>3. QED
      BY <2>1, <2>2
  <1> HIDE DEF n
  <1>3. /\ calls' = calls /\ current_depth' = current_depth /\ n = Len(steps) + 1
        /\ \A i \in 1..n : i \in 1..Len(steps) \/ i = n
        /\ \A i \in 1..Len(steps) : i < n /\ i # n
    BY <1>0 DEF Step, n
  <1>4. Types'
    BY <1>1, <1>2, <1>3 DEF Types
  <1>5. Numbered'
    <2>1. steps'[n].frame \in 1..Len(calls)
      BY <1>0, <1>1 DEF Numbered
    <2>2. \A i \in 1..n : steps'[i].frame \in 1..Len(calls)
      BY <1>1, <1>3, <2>1 DEF Numbered
    <2>3. QED
      BY <1>1, <1>2, <1>3, <2>2, Elements DEF Numbered
  <1>6. \A i \in 1..Len(steps), d \in 1..Len(frames) : after(i, d) <=> Within(i, d)
    <2>1. ASSUME NEW i \in 1..Len(steps), NEW d \in 1..Len(frames), Within(i, d), NEW k \in i..n
          PROVE  steps'[k].depth >= d
      <3>1. CASE k = n
        BY <1>0, <1>1, <3>1
      <3>2. CASE k # n
        <4>1. k \in 1..Len(steps) /\ k \in i..Len(steps)
          BY <1>0, <1>3, <3>2
        <4>2. QED
          BY <1>1, <2>1, <4>1 DEF Within
      <3>3. QED
        BY <3>1, <3>2
    <2>2. ASSUME NEW i \in 1..Len(steps), NEW d \in 1..Len(frames), after(i, d), NEW k \in i..Len(steps)
          PROVE  steps[k].depth >= d
      <3>1. k \in 1..Len(steps) /\ k \in i..n
        BY <1>0, <1>3
      <3>2. QED
        BY <1>1, <2>2, <3>1 DEF Within
    <2>3. QED
      BY <1>1, <2>1, <2>2 DEF Within
  <1>7. after(n, Len(frames))
    <2>1. \A k \in n..n : k = n
      BY <1>0
    <2>2. QED
      BY <1>0, <1>1, <2>1
  <1>8. OpenFrames'
    <2> SUFFICES ASSUME NEW i \in 1..n, NEW d \in 1..Len(frames)
                 PROVE  steps'[i].frame = frames'[d].number
                            <=> steps'[i].depth = d /\ after(i, d)
      BY <1>1, <1>2 DEF OpenFrames, Within
    <2>1. CASE i \in 1..Len(steps)
      <3>1. steps'[i] = steps[i] /\ frames'[d].number = frames[d].number
        BY <1>1, <1>2, <2>1
      <3>2. QED
        BY <1>6, <2>1, <3>1 DEF OpenFrames
    <2>2. CASE i = n
      <3>1. d = Len(frames) \/ d < Len(frames)
        BY <1>0
      <3>2. frames[d].number = frames[Len(frames)].number <=> d = Len(frames)
        BY <1>0, <3>1, Elements DEF Numbered
      <3>3. steps'[i].frame = frames'[d].number <=> d = Len(frames)
        BY <1>1, <1>2, <2>2, <3>2
      <3>4. d = Len(frames) => after(i, d)
        BY <1>7, <1>2, <2>2
      <3>5. QED
        BY <1>1, <2>2, <3>3, <3>4
    <2>3. QED
      BY <1>3, <2>1, <2>2
  <1>9. Calling'
    <2>1. \A d \in 1..Len(frames') - 1 : frames'[d].doing = "none"
      BY <1>2 DEF Calling
    <2>2. steps' # << >> /\ steps'[Len(steps')].depth = Len(frames')
      BY <1>0, <1>1, <1>2, <1>3
    <2>3. QED
      BY <2>1, <2>2 DEF Calling
  <1>10. FramesToldByDepth'
    <2>0. DOMAIN steps' = 1..n /\ DOMAIN steps = 1..Len(steps)
      BY <1>1 DEF Types
    <2> SUFFICES ASSUME NEW i \in 1..n, NEW j \in 1..n, i < j
                 PROVE  steps'[i].frame = steps'[j].frame
                          <=> /\ steps'[i].depth = steps'[j].depth
                              /\ \A k \in i..j : steps'[k].depth >= steps'[i].depth
      BY <2>0 DEF FramesToldByDepth
    <2>1. i \in 1..Len(steps)
      BY <1>0, <1>3
    <2>2. CASE j \in 1..Len(steps)
      <3>1. steps'[i] = steps[i] /\ steps'[j] = steps[j] /\ \A k \in i..j : steps'[k] = steps[k]
        <4>1. \A k \in i..j : k \in 1..Len(steps)
          BY <1>0, <2>1, <2>2
        <4>2. QED
          BY <1>1, <2>1, <2>2, <4>1
      <3>2. i \in DOMAIN steps /\ j \in DOMAIN steps
        BY <2>0, <2>1, <2>2
      <3>3. QED
        BY <3>1, <3>2 DEF FramesToldByDepth
    <2>3. CASE j = n
      <3>1. steps[i].frame = frames[Len(frames)].number
               <=> steps[i].depth = Len(frames) /\ Within(i, Len(frames))
        BY <1>0, <2>1 DEF OpenFrames
      <3>2. after(i, Len(frames)) <=> Within(i, Len(frames))
        BY <1>0, <1>6, <2>1
      <3>4. steps'[i] = steps[i]
        BY <1>1, <2>1
      <3>5. QED
        BY <1>1, <2>3, <3>1, <3>2, <3>4
    <2>4. QED
      BY <1>3, <2>2, <2>3
  <1>11. QED
    BY <1>4, <1>5, <1>8, <1>9, <1>10

\* A new frame has no steps yet, and none of an earlier frame of its depth could
\* pass for its own: the last step is one of its caller.
LEMMA EnterKeeps == ASSUME IInv, NEW kind \in Kind, NEW code \in BOOLEAN, Enter(kind, code) PROVE IInv'
  <1> USE DEF IInv
  <1> DEFINE outer == IF frames = << >> THEN frames ELSE Doing("none")
             new == [number |-> Len(calls) + 1, kind |-> kind, code |-> code, doing |-> "none"]
             n == Len(frames) + 1
  <1>0. Len(frames) \in Nat /\ Len(steps) \in Nat /\ Len(calls) \in Nat /\ n \in Nat \ {0}
    BY Elements
  <1>1. /\ outer \in Seq(Frame) /\ Len(outer) = Len(frames)
        /\ \A d \in 1..Len(frames) : outer[d].number = frames[d].number
        /\ \A d \in 1..Len(frames) : outer[d].doing = "none"
    <2>1. CASE frames = << >>
      BY <2>1 DEF Types
    <2>2. CASE frames # << >>
      <3>1. /\ outer \in Seq(Frame) /\ Len(outer) = Len(frames)
            /\ \A d \in 1..Len(frames) : outer[d].number = frames[d].number
            /\ \A d \in 1..Len(frames) - 1 : outer[d] = frames[d]
            /\ outer[Len(frames)].doing = "none"
        BY <2>2, DoingShape
      <3>2. \A d \in 1..Len(frames) : d \in 1..Len(frames) - 1 \/ d = Len(frames)
        BY <1>0
      <3>3. QED
        BY <3>1, <3>2 DEF Calling
    <2>3. QED
      BY <2>1, <2>2
  <1>2. new \in Frame /\ new.number = Len(calls) + 1 /\ new.doing = "none"
    BY <1>0 DEF Frame
  <1> HIDE DEF outer, new
  <1>3. frames' = Append(outer, new) /\ calls' = Append(calls, kind) /\ steps' = steps
    BY DEF Enter, outer, new
  <1>4. /\ frames' \in Seq(Frame) /\ Len(frames') = n
        /\ \A d \in 1..Len(frames) : frames'[d] = outer[d]
        /\ frames'[n] = new
        /\ calls' \in Seq(Kind) /\ Len(calls') = Len(calls) + 1
    BY <1>0, <1>1, <1>2, <1>3 DEF Types
  <1> HIDE DEF n
  <1>5. /\ n = Len(frames) + 1
        /\ \A d \in 1..n : d \in 1..Len(frames) \/ d = n
        /\ \A d \in 1..Len(frames) : d < n
        /\ \A d, e \in 1..n : d < e => d \in 1..Len(frames)
    BY <1>0 DEF n
  <1>6. Types'
    BY <1>0, <1>3, <1>4, <1>5 DEF Types, Enter
  <1>7. Numbered'
    <2>1. \A d \in 1..n : frames'[d].number \in 1..Len(calls')
      BY <1>0, <1>1, <1>2, <1>4, <1>5 DEF Numbered
    <2>2. ASSUME NEW d \in 1..n, NEW e \in 1..n, d < e PROVE frames'[d].number < frames'[e].number
      <3>1. d \in 1..Len(frames) /\ frames[d].number \in 1..Len(calls)
        BY <1>5, <2>2 DEF Numbered
      <3>2. CASE e = n
        BY <1>0, <1>1, <1>2, <1>4, <3>1, <3>2
      <3>3. CASE e \in 1..Len(frames)
        BY <1>1, <1>4, <2>2, <3>1, <3>3 DEF Numbered
      <3>4. QED
        BY <1>5, <3>2, <3>3
    <2>3. \A i \in 1..Len(steps') : steps'[i].frame \in 1..Len(calls')
      BY <1>0, <1>3, <1>4 DEF Numbered
    <2>4. QED
      BY <1>4, <2>1, <2>2, <2>3 DEF Numbered
  <1>8. ASSUME NEW i \in 1..Len(steps) PROVE ~Within(i, n) /\ steps[i].frame # frames'[n].number
    <2>1. steps[i].frame # frames'[n].number
      BY <1>0, <1>2, <1>4 DEF Numbered
    <2>2. frames # << >>
      <3>1. CASE frames = << >>
        BY <1>0, <3>1 DEF Enter, Numbered
      <3>2. QED
        BY <3>1
    <2>3. frames[Len(frames)].doing \in Kind
      BY <2>2 DEF Enter, Top
    <2>4. steps[Len(steps)].depth = Len(frames) /\ Len(steps) \in i..Len(steps)
      BY <1>0, <2>2, <2>3 DEF Calling
    <2>5. QED
      BY <1>0, <1>5, <2>1, <2>4 DEF Within
  <1>9. OpenFrames'
    <2> SUFFICES ASSUME NEW i \in 1..Len(steps), NEW d \in 1..n
                 PROVE  steps[i].frame = frames'[d].number
                            <=> steps[i].depth = d /\ \A k \in i..Len(steps) : steps[k].depth >= d
      BY <1>3, <1>4, SMTT(30) DEF OpenFrames, Within
    <2>1. CASE d \in 1..Len(frames)
      <3>1. frames'[d].number = frames[d].number
        BY <1>1, <1>4, <2>1
      <3>2. steps[i].frame = frames[d].number <=> steps[i].depth = d /\ Within(i, d)
        BY <2>1 DEF OpenFrames
      <3>3. QED
        BY <3>1, <3>2 DEF Within
    <2>2. CASE d = n
      <3>1. ~Within(i, d) /\ steps[i].frame # frames'[d].number
        BY <1>8, <2>2
      <3>2. QED
        BY <3>1 DEF Within
    <2>3. QED
      BY <1>5, <2>1, <2>2
  <1>10. Calling'
    <2>1. \A d \in 1..Len(frames') - 1 : frames'[d].doing = "none"
      BY <1>0, <1>1, <1>4, <1>5, SMTT(30)
    <2>2. frames'[Len(frames')].doing \notin Kind
      BY <1>2, <1>4 DEF Kind
    <2>3. QED
      BY <2>1, <2>2 DEF Calling
  <1>11. FramesToldByDepth'
    BY <1>3 DEF FramesToldByDepth
  <1>12. QED
    BY <1>6, <1>7, <1>9, <1>10, <1>11

\* When the innermost frame ends, its caller is as it was.
LEMMA LeaveKeeps == ASSUME IInv, NEW kind \in Kind, Leave(kind) PROVE IInv'
  <1> USE DEF IInv
  <1> DEFINE n == Len(frames) - 1
  <1>1. /\ Len(frames) \in Nat \ {0} /\ n \in Nat
        /\ frames' = SubSeq(frames, 1, n) /\ steps' = steps /\ calls' = calls
    BY Elements DEF Leave, Front
  <1>2. /\ frames' \in Seq(Frame) /\ Len(frames') = n
        /\ \A d \in 1..n : frames'[d] = frames[d] /\ d \in 1..Len(frames)
    BY <1>1 DEF Types
  <1>3. current_depth' = n
    BY <1>1 DEF Leave, Types
  <1> HIDE DEF n
  <1>4. Types'
    BY <1>1, <1>2, <1>3 DEF Types
  <1>5. Numbered'
    BY <1>1, <1>2, Elements DEF Numbered
  <1>6. OpenFrames'
    BY <1>1, <1>2, SMTT(30) DEF OpenFrames, Within
  <1>7. Calling'
    <2>1. \A d \in 1..n : frames[d].doing = "none"
      BY DEF n, Calling
    <2>2. \A d \in 1..Len(frames') : frames'[d].doing = "none"
      BY <1>2, <2>1
    <2>3. \A d \in 1..n - 1 : d \in 1..n
      BY <1>1
    <2>4. CASE frames' = << >>
      BY <1>1, <1>2, <2>2, <2>3, <2>4 DEF Calling
    <2>5. CASE frames' # << >>
      <3>1. n \in 1..n
        BY <1>1, <1>2, <2>5
      <3>2. frames'[n].doing \notin Kind
        BY <1>2, <2>2, <3>1 DEF Kind
      <3>3. QED
        BY <1>2, <2>2, <2>3, <3>2 DEF Calling
    <2>6. QED
      BY <2>4, <2>5
  <1>8. FramesToldByDepth'
    BY <1>1 DEF FramesToldByDepth
  <1>9. QED
    BY <1>4, <1>5, <1>6, <1>7, <1>8

\* Every hook of the inspector keeps the invariant.
LEMMA HooksKeep == ASSUME IInv, [EvmNext]_execution PROVE IInv'
  <1>1. ASSUME NEW op \in Ops, Step(op) PROVE IInv'
    BY <1>1, StepKeeps
  <1>2. ASSUME NEW code \in BOOLEAN, Call(code) \/ Create(code) PROVE IInv'
    BY <1>2, EnterKeeps DEF Call, Create, Kind
  <1>3. ASSUME CallEnd \/ CreateEnd PROVE IInv'
    BY <1>3, LeaveKeeps DEF CallEnd, CreateEnd, Kind
  <1>4. ASSUME Log \/ Selfdestruct PROVE IInv'
    <2>1. {"none", "end"} \subseteq (Ops \cup {"none"}) \ Kind
      BY DEF Ops, Effects, Kind
    <2>2. QED
      BY <1>4, <2>1, DoingKeeps DEF Log, Selfdestruct
  <1>5. CASE UNCHANGED execution
    <2>1. UNCHANGED << frames, current_depth, steps, calls >>
      BY <1>5 DEF execution
    <2>2. (Types /\ Numbered /\ Calling)'
      BY <2>1 DEF IInv, Types, Numbered, Calling
    <2>3. (OpenFrames /\ FramesToldByDepth)'
      BY <2>1 DEF IInv, OpenFrames, Within, FramesToldByDepth
    <2>4. QED
      BY <2>2, <2>3 DEF IInv
  <1>6. QED
    BY <1>1, <1>2, <1>3, <1>4, <1>5 DEF EvmNext

\* Before the transaction there is no frame and no step.
LEMMA StartIInv == EvmInit => IInv
  <1> SUFFICES ASSUME EvmInit PROVE IInv
    OBVIOUS
  <1>1. Len(frames) = 0 /\ Len(steps) = 0 /\ frames = << >> /\ steps = << >>
    BY DEF EvmInit
  <1>2. Types
    BY DEF EvmInit, Types
  <1>3. Numbered /\ OpenFrames /\ Calling /\ FramesToldByDepth
    BY <1>1 DEF Numbered, OpenFrames, Calling, FramesToldByDepth
  <1>4. QED
    BY <1>2, <1>3 DEF IInv

\* The depth the inspector counts is the number of open frames at every hook, and
\* the depths alone tell the frames of the recorded steps apart, for a transaction
\* with any number of frames and instructions.
THEOREM InspectorTellsFrames == EvmSpec => []DepthsTellFrames
  <1>1. IInv => DepthsTellFrames
    BY DEF IInv, Types, DepthIsFrames, DepthsTellFrames
  <1>2. QED
    BY StartIInv, HooksKeep, <1>1, PTL DEF EvmSpec

-----------------------------------------------------------------------------
(* The requests. *)

Block == [fork : Nat, txs : Seq(Txs)]
Place == [number : Nat \ {0}, index : Nat \ {0}, fork : Nat, at : Nat]

\* Blocks of one number and fork are one block: a reorganisation brings blocks of
\* a fork not seen before.
ChainInv ==
    /\ chain \in Seq(Block) /\ reorgs \in Nat
    /\ \A n \in 1..Len(chain) : chain[n].fork <= reorgs

\* As long as the chain holds the block in which the transaction was found, it
\* has it at the index told.
FoundInv ==
    pc \in {"block", "chain id", "prior", "target", "done"} =>
        /\ found \in Place /\ found.fork <= reorgs
        /\ found.number \in 1..Len(chain) /\ chain[found.number].fork = found.fork
              => chain[found.number].txs[found.index] = asked

\* So does the block the node gave, if it is the same one.
BlockInv ==
    pc \in {"chain id", "prior", "target", "done"} =>
        /\ block.txs \in Seq(Txs)
        /\ block.fork = found.fork => block.txs[found.index] = asked

\* The last transaction executed is then the one asked for.
ExecutedInv ==
    /\ executed \in Seq({AlloyTxToRevmTx(tx) : tx \in Txs})
    /\ pc \in {"target", "done"} /\ block.fork = found.fork
          => Last(executed) = AlloyTxToRevmTx(asked)

RInv == ChainInv /\ FoundInv /\ BlockInv /\ ExecutedInv

\* A layout is a sequence of blocks, each a sequence of transactions.
LEMMA LayoutIsSeq == ASSUME NEW layout \in Layouts PROVE layout \in Seq(Seq(Txs))
  <1> DEFINE contents == UNION {[1..n -> Txs] : n \in 0..MaxInBlock}
  <1>1. contents \subseteq Seq(Txs)
    BY ReplayAssumption
  <1>2. PICK n \in 0..MaxBlocks : layout \in [1..n -> contents]
    BY DEF Layouts
  <1>3. layout \in [1..n -> Seq(Txs)] /\ n \in Nat
    BY <1>1, <1>2, ReplayAssumption
  <1>4. QED
    BY <1>3

\* The node starts on a chain of one fork.
LEMMA InitRInv == Init => RInv
  <1> SUFFICES ASSUME Init PROVE RInv
    OBVIOUS
  <1>1. PICK layout \in Layouts : chain = Chain(layout, 0)
    BY DEF Init
  <1>2. layout \in Seq(Seq(Txs))
    BY LayoutIsSeq
  <1>3. /\ chain = [i \in 1..Len(layout) |-> [fork |-> 0, txs |-> layout[i]]]
        /\ Len(layout) \in Nat /\ \A i \in 1..Len(layout) : layout[i] \in Seq(Txs)
    BY <1>1, <1>2 DEF Chain
  <1>4. chain \in Seq(Block) /\ \A i \in 1..Len(chain) : chain[i].fork = 0
    BY <1>3 DEF Block
  <1>5. QED
    BY <1>4 DEF Init, RInv, ChainInv, FoundInv, BlockInv, ExecutedInv

\* The elements of the chain one by one.
LEMMA Blocks ==
    ASSUME ChainInv
    PROVE  /\ Len(chain) \in Nat /\ DOMAIN chain = 1..Len(chain)
           /\ \A n \in 1..Len(chain) : chain[n].fork \in Nat /\ chain[n].txs \in Seq(Txs)
  <1>1. \A n \in 1..Len(chain) : chain[n] \in Block
    BY DEF ChainInv
  <1>2. QED
    BY <1>1 DEF ChainInv, Block

\* A reorganisation keeps blocks or replaces them by blocks of a new fork.
LEMMA ReorgKeeps == ASSUME RInv, Reorg PROVE RInv'
  <1> USE DEF RInv
  <1>1. PICK kept \in 0..(Len(chain) - 1), layout \in Layouts :
          /\ kept <= Len(layout)
          /\ chain' = [i \in DOMAIN layout |->
                         IF i <= kept THEN chain[i] ELSE [fork |-> reorgs', txs |-> layout[i]]]
    BY DEF Reorg
  <1>2. layout \in Seq(Seq(Txs))
    BY LayoutIsSeq
  <1>3. /\ reorgs \in Nat /\ reorgs' = reorgs + 1 /\ kept \in Nat /\ kept < Len(chain)
        /\ Len(layout) \in Nat /\ DOMAIN layout = 1..Len(layout)
        /\ \A i \in 1..Len(layout) : layout[i] \in Seq(Txs)
    BY <1>1, <1>2, Blocks DEF Reorg, ChainInv
  <1>4. ASSUME NEW i \in 1..Len(layout)
        PROVE  /\ chain'[i] \in Block /\ chain'[i].fork <= reorgs'
               /\ (chain'[i] = chain[i] /\ i \in 1..Len(chain)) \/ chain'[i].fork = reorgs'
    <2>1. CASE i <= kept
      <3>1. chain'[i] = chain[i] /\ i \in 1..Len(chain)
        BY <1>1, <1>3, <2>1, Blocks
      <3>2. QED
        BY <1>3, <3>1, Blocks DEF ChainInv
    <2>2. CASE ~(i <= kept)
      <3>1. chain'[i] = [fork |-> reorgs', txs |-> layout[i]]
        BY <1>1, <1>3, <2>2
      <3>2. QED
        BY <1>3, <3>1 DEF Block
    <2>3. QED
      BY <2>1, <2>2
  <1>5. chain' \in Seq(Block) /\ Len(chain') = Len(layout)
    <2>1. chain' \in [1..Len(layout) -> Block]
      BY <1>1, <1>3, <1>4
    <2>2. QED
      BY <1>3, <2>1
  <1>6. ChainInv'
    BY <1>3, <1>4, <1>5 DEF ChainInv
  <1>7. FoundInv'
    <2>1. UNCHANGED << pc, found, asked >>
      BY DEF Reorg
    <2>2. ASSUME found \in Place, found.fork <= reorgs
          PROVE  found.fork <= reorgs' /\ found.fork # reorgs'
      BY <1>3, <2>2 DEF Place
    <2>3. QED
      BY <1>4, <1>5, <2>1, <2>2 DEF FoundInv
  <1>8. BlockInv' /\ ExecutedInv'
    BY DEF Reorg, BlockInv, ExecutedInv
  <1>9. QED
    BY <1>6, <1>7, <1>8

\* A replay that fails has nothing to show.
LEMMA FailKeeps == ASSUME RInv, NEW reason, Fails(reason) PROVE RInv'
  BY DEF RInv, Fails, node, ChainInv, FoundInv, BlockInv, ExecutedInv

\* The transaction is found where the chain has it.
LEMMA GetTransactionKeeps == ASSUME RInv, GetTransaction PROVE RInv'
  <1> USE DEF RInv
  <1>1. CASE Places(asked) = {}
    BY <1>1, FailKeeps DEF GetTransaction
  <1>2. CASE Places(asked) # {}
    <2>1. PICK p \in Places(asked) :
            found' = [number |-> p.number, index |-> p.index, fork |-> chain[p.number].fork, at |-> reorgs]
      BY <1>2 DEF GetTransaction
    <2>2. /\ p.number \in 1..Len(chain) /\ p.index \in Nat \ {0}
          /\ chain[p.number].txs[p.index] = asked
      BY Blocks, ReplayAssumption DEF Places
    <2>3. UNCHANGED << chain, reorgs, asked, executed >> /\ pc' = "block"
      BY <1>2 DEF GetTransaction, Going, node
    <2>4. /\ found' \in Place /\ found'.fork <= reorgs
          /\ chain[found'.number].txs[found'.index] = asked
      BY <2>1, <2>2, Blocks DEF Place, ChainInv
    <2>5. QED
      BY <2>3, <2>4 DEF ChainInv, FoundInv, BlockInv, ExecutedInv
  <1>3. QED
    BY <1>1, <1>2

\* The block is the one of the number told, whatever chain the node is on.
LEMMA GetBlockKeeps == ASSUME RInv, GetBlock PROVE RInv'
  <1> USE DEF RInv
  <1>1. CASE found.number > Len(chain)
    BY <1>1, FailKeeps DEF GetBlock
  <1>2. CASE ~(found.number > Len(chain))
    <2>1. found \in Place /\ pc = "block"
      BY DEF GetBlock, FoundInv
    <2>2. found.number \in 1..Len(chain)
      BY <1>2, <2>1, Blocks DEF Place
    <2>3. /\ UNCHANGED << chain, reorgs, asked, found, executed >> /\ pc' = "chain id"
          /\ block'.fork = chain[found.number].fork /\ block'.txs = chain[found.number].txs
      <3>1. /\ block' = [fork |-> chain[found.number].fork, txs |-> chain[found.number].txs,
                           parent |-> SubSeq(chain, 1, found.number - 1)]
            /\ Going("chain id") /\ UNCHANGED << node, asked, found, executed >>
        BY <1>2 DEF GetBlock
      <3>2. QED
        BY <3>1 DEF Going, node
    <2>4. BlockInv'
      BY <2>1, <2>2, <2>3, Blocks DEF BlockInv, FoundInv
    <2>5. QED
      BY <2>1, <2>3, <2>4 DEF ChainInv, FoundInv, ExecutedInv
  <1>3. QED
    BY <1>1, <1>2

\* Executing a transaction of the block appends it.
LEMMA BeginsKeeps ==
    ASSUME RInv, pc = "prior", NEW tx \in Txs, NEW next \in {"prior", "target"}, Begins(tx, next),
           next = "target" => tx = block.txs[found.index]
    PROVE  RInv'
  <1> USE DEF RInv
  <1>1. CASE pc' = "failed"
    <2>1. UNCHANGED << chain, reorgs, asked, found, block >>
          /\ (executed' = executed \/ executed' = Append(executed, AlloyTxToRevmTx(tx)))
      BY DEF Begins, Fails, node
    <2>2. executed' \in Seq({AlloyTxToRevmTx(t) : t \in Txs})
      BY <2>1 DEF ExecutedInv
    <2>3. QED
      BY <1>1, <2>1, <2>2 DEF ChainInv, FoundInv, BlockInv, ExecutedInv
  <1>2. CASE pc' # "failed"
    <2>1. /\ UNCHANGED << chain, reorgs, asked, found, block >> /\ pc' = next
          /\ executed' = Append(executed, AlloyTxToRevmTx(tx))
      BY <1>2 DEF Begins, Fails, Going, node
    <2>2. /\ executed' \in Seq({AlloyTxToRevmTx(t) : t \in Txs})
          /\ Last(executed') = AlloyTxToRevmTx(tx)
      BY <2>1 DEF ExecutedInv, Last
    <2>3. block.fork = found.fork => block.txs[found.index] = asked
      BY DEF BlockInv
    <2>4. ExecutedInv'
      BY <2>1, <2>2, <2>3 DEF ExecutedInv
    <2>5. QED
      BY <2>1, <2>4 DEF ChainInv, FoundInv, BlockInv
  <1>3. QED
    BY <1>1, <1>2

\* Every step of the replay and of the node keeps the invariant.
LEMMA StepKeepsRInv == ASSUME RInv, [Next]_vars PROVE RInv'
  <1> USE DEF RInv
  <1>1. CASE Reorg
    BY <1>1, ReorgKeeps
  <1>2. CASE Fault
    BY <1>2, FailKeeps DEF Fault
  <1>3. CASE GetTransaction
    BY <1>3, GetTransactionKeeps
  <1>4. CASE GetBlock
    BY <1>4, GetBlockKeeps
  <1>5. CASE GetChainId
    BY <1>5 DEF GetChainId, Going, node, ChainInv, FoundInv, BlockInv, ExecutedInv
  <1>6. CASE Read
    BY <1>6 DEF Read, node, ChainInv, FoundInv, BlockInv, ExecutedInv
  <1>7. CASE ReplayPrior
    <2>1. Len(executed) \in Nat /\ block.txs \in Seq(Txs)
      BY <1>7 DEF ReplayPrior, BlockInv, ExecutedInv
    <2>2. Len(executed) + 1 \in 1..Len(block.txs)
      BY <1>7, <2>1 DEF ReplayPrior, Prior
    <2>3. block.txs[Len(executed) + 1] \in Txs
      BY <2>1, <2>2
    <2>4. QED
      BY <1>7, <2>3, BeginsKeeps DEF ReplayPrior
  <1>8. CASE StartTarget
    <2>1. CASE found.index > Len(block.txs)
      BY <1>8, <2>1, FailKeeps DEF StartTarget
    <2>2. CASE ~(found.index > Len(block.txs))
      <3>1. block.txs \in Seq(Txs) /\ found \in Place
        BY <1>8 DEF StartTarget, BlockInv, FoundInv
      <3>2. block.txs[found.index] \in Txs
        BY <2>2, <3>1 DEF Place
      <3>3. pc = "prior" /\ Begins(block.txs[found.index], "target")
        BY <1>8, <2>2 DEF StartTarget
      <3>4. QED
        BY <3>2, <3>3, BeginsKeeps
    <2>3. QED
      BY <2>1, <2>2
  <1>9. CASE InspectTarget
    BY <1>9 DEF InspectTarget, node, ChainInv, FoundInv, BlockInv, ExecutedInv
  <1>10. CASE Finish
    BY <1>10 DEF Finish, Going, node, ChainInv, FoundInv, BlockInv, ExecutedInv
  <1>11. CASE UNCHANGED vars
    BY <1>11 DEF vars, ChainInv, FoundInv, BlockInv, ExecutedInv
  <1>12. QED
    BY <1>1, <1>2, <1>3, <1>4, <1>5, <1>6, <1>7, <1>8, <1>9, <1>10, <1>11 DEF Next, Proceed

\* A replay that succeeds on the block in which the transaction was found traced
\* that transaction, however the node's chain changed meanwhile (replay.rs:141).
THEOREM AskedIsReplayed == Spec => []ReplayedIsAsked
  <1>1. RInv => ReplayedIsAsked
    BY DEF RInv, ExecutedInv, ReplayedIsAsked
  <1>2. QED
    BY InitRInv, StepKeepsRInv, <1>1, PTL DEF Spec

\* The hooks are only called while the target is executed: the steps a replay
\* returns are those of one execution, whose depths tell its frames apart.
THEOREM ReplaysTellFrames == Spec => []DepthsTellFrames
  <1>1. Init => EvmInit
    BY DEF Init
  <1>2. [Next]_vars => [EvmNext]_execution
    BY DEF Next, Proceed, vars, Reorg, Fault, Fails, GetTransaction, GetBlock, GetChainId, Read,
           ReplayPrior, StartTarget, Begins, InspectTarget, Finish
  <1>3. Spec => EvmSpec
    BY <1>1, <1>2, PTL DEF Spec, EvmSpec
  <1>4. QED
    BY <1>3, InspectorTellsFrames, PTL

-----------------------------------------------------------------------------
(* Nonces. *)

\* A sequence adds a natural number to a nonce, ...
LEMMA NonceAfterNat ==
    ASSUME NEW txs, DOMAIN txs = 1..Len(txs), Len(txs) \in Nat, NEW account
    PROVE  /\ IsFiniteSet({i \in DOMAIN txs : txs[i].sender = account})
           /\ IsFiniteSet({i \in DOMAIN txs : account \in Authority(txs[i])})
           /\ NonceAfter(txs, account) \in Nat
  <1> DEFINE S == {i \in DOMAIN txs : txs[i].sender = account}
             T == {i \in DOMAIN txs : account \in Authority(txs[i])}
  <1>1. IsFiniteSet(DOMAIN txs)
    BY FS_Interval
  <1>2. S \in SUBSET DOMAIN txs /\ T \in SUBSET DOMAIN txs
    OBVIOUS
  <1>3. IsFiniteSet(S) /\ IsFiniteSet(T)
    BY <1>1, <1>2, FS_Subset
  <1>4. Cardinality(S) \in Nat /\ Cardinality(T) \in Nat
    BY <1>3, FS_CardinalityType
  <1>5. NonceAfter(txs, account) = Cardinality(S) + Cardinality(T)
    BY DEF NonceAfter
  <1>6. QED
    BY <1>3, <1>4, <1>5

\* ... of which each transaction without authorization adds one for its sender.
LEMMA NonceAfterAppend ==
    ASSUME NEW txs, NEW more, Len(txs) \in Nat, DOMAIN txs = 1..Len(txs),
           DOMAIN more = 1..(Len(txs) + 1),
           \A i \in 1..Len(txs) : more[i] = txs[i],
           more[Len(txs) + 1].authority = None, NEW account
    PROVE  NonceAfter(more, account) = NonceAfter(txs, account)
              + (IF more[Len(txs) + 1].sender = account THEN 1 ELSE 0)
  <1> DEFINE n == Len(txs) + 1
             S == {i \in DOMAIN txs : txs[i].sender = account}
             T == {i \in DOMAIN txs : account \in Authority(txs[i])}
             U == {i \in DOMAIN more : more[i].sender = account}
             V == {i \in DOMAIN more : account \in Authority(more[i])}
  <1>1. IsFiniteSet(S) /\ n \notin S
    <2>1. IsFiniteSet(S)
      BY NonceAfterNat
    <2>2. n \notin S
      OBVIOUS
    <2>3. QED
      BY <2>1, <2>2
  <1>2. V = T
    BY DEF Authority
  <1>3. U = IF more[n].sender = account THEN S \cup {n} ELSE S
    <2>1. DOMAIN more = DOMAIN txs \cup {n} /\ n \notin DOMAIN txs
      OBVIOUS
    <2>2. \A i \in DOMAIN txs : more[i] = txs[i]
      OBVIOUS
    <2> HIDE DEF n
    <2>3. QED
      BY <2>1, <2>2
  <1>4. Cardinality(S) \in Nat
    BY <1>1, FS_CardinalityType
  <1>5. Cardinality(T) \in Nat
    BY NonceAfterNat, FS_CardinalityType
  <1>6. NonceAfter(more, account) = Cardinality(U) + Cardinality(V)
    BY DEF NonceAfter
  <1>7. NonceAfter(txs, account) = Cardinality(S) + Cardinality(T)
    BY DEF NonceAfter
  <1> HIDE DEF S, T, U, V, n
  <1>8. Cardinality(S \cup {n}) = Cardinality(S) + 1
    BY <1>1, FS_AddElement
  <1>9. Cardinality(U) = Cardinality(S) + (IF more[n].sender = account THEN 1 ELSE 0)
    BY <1>3, <1>4, <1>8
  <1>10. QED
    BY <1>2, <1>4, <1>5, <1>6, <1>7, <1>9 DEF n

\* An account that sends and signs nothing has the nonce it had.
LEMMA NonceAfterNothing ==
    ASSUME NEW txs, NEW account,
           \A i \in DOMAIN txs : txs[i].sender # account /\ txs[i].authority = None
    PROVE  NonceAfter(txs, account) = 0
  <1>1. /\ {i \in DOMAIN txs : txs[i].sender = account} = {}
        /\ {i \in DOMAIN txs : account \in Authority(txs[i])} = {}
    BY DEF Authority
  <1>2. QED
    BY <1>1, FS_EmptySet DEF NonceAfter

\* The nonce of an account on a chain is a natural number.
LEMMA NonceOnNat ==
    ASSUME NEW layout \in Seq(Seq(Txs)), NEW account
    PROVE  NonceOn(layout, account) \in Nat
  <1> DEFINE n == Len(layout)
             f == [i \in 1..n |-> {i} \X DOMAIN layout[i]]
             R == {{i} \X DOMAIN layout[i] : i \in DOMAIN layout}
             S == {p \in Positions(layout) : layout[p[1]][p[2]].sender = account}
             T == {p \in Positions(layout) : account \in Authority(layout[p[1]][p[2]])}
  <1>1. n \in Nat /\ DOMAIN layout = 1..n
    OBVIOUS
  <1>2. IsFiniteSet(1..n)
    BY <1>1, FS_Interval
  <1>3. f \in Surjection(1..n, R)
    BY <1>1 DEF Surjection
  <1>4. IsFiniteSet(R)
    BY <1>2, <1>3, FS_Surjection
  <1>5. ASSUME NEW P \in R PROVE IsFiniteSet(P)
    <2>1. PICK i \in 1..n : P = {i} \X DOMAIN layout[i]
      BY <1>1, <1>5
    <2>2. layout[i] \in Seq(Txs)
      BY <2>1
    <2>3. Len(layout[i]) \in Int /\ DOMAIN layout[i] = 1..Len(layout[i])
      BY <2>2
    <2>4. IsFiniteSet(DOMAIN layout[i])
      BY <2>3, FS_Interval
    <2>5. IsFiniteSet({i})
      BY FS_Singleton
    <2>6. QED
      BY <2>1, <2>4, <2>5, FS_Product
  <1>6. IsFiniteSet(Positions(layout))
    BY <1>4, <1>5, FS_UNION DEF Positions
  <1>7. S \in SUBSET Positions(layout) /\ T \in SUBSET Positions(layout)
    OBVIOUS
  <1>8. IsFiniteSet(S) /\ IsFiniteSet(T)
    BY <1>6, <1>7, FS_Subset
  <1>9. Cardinality(S) \in Nat /\ Cardinality(T) \in Nat
    BY <1>8, FS_CardinalityType
  <1>10. NonceOn(layout, account) = Cardinality(S) + Cardinality(T)
    BY DEF NonceOn
  <1>11. QED
    BY <1>9, <1>10

-----------------------------------------------------------------------------
(* The state before the target. *)

Settled == {"chain id", "prior", "target", "done"}
Got == block # None \/ pc \in Settled

\* The block the node gave comes with its parents, and what has been read came
\* from them if the node has them still: a node that left them never has the same
\* blocks again.
ParentInv ==
    /\ pc \in {"transaction", "block"} =>
          block = None /\ executed = << >> /\ parents = {} /\ DOMAIN nonces = {}
    /\ Got => /\ found \in Place
              /\ block.txs \in Seq(Txs) /\ block.parent \in Seq(Block)
              /\ Len(block.parent) = found.number - 1
              /\ \A i \in 1..Len(block.parent) : block.parent[i].fork <= reorgs
              /\ OnParent => parents \subseteq {block.parent}

\* The transactions executed are the first ones of the block, as converted, up to
\* the target, and the nonces known are those they and the parents made.
WorkInv ==
    Got => /\ pc \in {"chain id", "prior"} => Len(executed) < found.index
           /\ pc \in {"target", "done"} => Len(executed) = found.index
           /\ Len(executed) <= Len(block.txs)
           /\ \A i \in 1..Len(executed) :
                 executed[i] = AlloyTxToRevmTx(block.txs[i]) /\ executed[i].sender \in DOMAIN nonces
           /\ OnParent /\ Complete =>
                 \A s \in DOMAIN nonces :
                    nonces[s] = NonceOn(TxsOf(block.parent), s) + NonceAfter(executed, s)

\* On a chain that has not changed since the transaction was found there, block
\* and index are the ones of the transaction.
MinedInv ==
    /\ Legal(TxsOf(chain))
    /\ pc # "failed" => why = None
    /\ why \in {"invalid", "panic"} => found.at \in Nat /\ found.at <= reorgs /\ MinedReplays
    /\ pc \in {"block"} \cup Settled =>
          /\ found \in Place /\ found.at <= reorgs
          /\ reorgs = found.at =>
                /\ found.number \in 1..Len(chain)
                /\ found.index \in 1..Len(chain[found.number].txs)
                /\ pc # "block" => /\ block.txs = chain[found.number].txs
                                   /\ block.parent = SubSeq(chain, 1, found.number - 1)

NInv == ParentInv /\ WorkInv /\ MinedInv

\* What the conversion keeps.
LEMMA AlloyIs ==
    ASSUME NEW tx \in Txs
    PROVE  /\ AlloyTxToRevmTx(tx).sender = tx.sender
           /\ AlloyTxToRevmTx(tx).authority = None
           /\ tx.authority = None => AlloyTxToRevmTx(tx) = tx
           /\ AlloyTxToRevmTx(tx) = tx => tx.authority = None
  <1>1. tx = [sender |-> tx.sender, nonce |-> tx.nonce, authority |-> tx.authority]
    BY TxsAssumption
  <1>2. AlloyTxToRevmTx(tx) = [sender |-> tx.sender, nonce |-> tx.nonce, authority |-> None]
    BY <1>1 DEF AlloyTxToRevmTx
  <1>3. QED
    BY <1>1, <1>2

\* The contents of blocks.
LEMMA TxsOfBlocks ==
    ASSUME NEW blocks \in Seq(Block)
    PROVE  /\ TxsOf(blocks) \in Seq(Seq(Txs)) /\ Len(TxsOf(blocks)) = Len(blocks)
           /\ \A i \in 1..Len(blocks) : TxsOf(blocks)[i] = blocks[i].txs
  <1>1. DOMAIN blocks = 1..Len(blocks) /\ Len(blocks) \in Nat
    OBVIOUS
  <1>2. ASSUME NEW i \in 1..Len(blocks) PROVE blocks[i].txs \in Seq(Txs)
    <2>1. blocks[i] \in Block
      OBVIOUS
    <2>2. QED
      BY <2>1 DEF Block
  <1>3. TxsOf(blocks) = [i \in 1..Len(blocks) |-> blocks[i].txs]
    BY <1>1 DEF TxsOf
  <1>4. QED
    BY <1>1, <1>2, <1>3

\* The blocks before a block, and their contents.
LEMMA TxsOfBefore ==
    ASSUME NEW blocks \in Seq(Block), NEW n \in 1..Len(blocks)
    PROVE  SubSeq(TxsOf(blocks), 1, n - 1) = TxsOf(SubSeq(blocks, 1, n - 1))
  <1> DEFINE c == TxsOf(blocks)
             b == SubSeq(blocks, 1, n - 1)
             m == n - 1
  <1>1. c \in Seq(Seq(Txs)) /\ Len(c) = Len(blocks) /\ \A i \in 1..Len(blocks) : c[i] = blocks[i].txs
    BY TxsOfBlocks
  <1>2. /\ m \in Nat /\ m <= Len(blocks) /\ Len(blocks) \in Nat
    OBVIOUS
  <1>3. b \in Seq(Block) /\ Len(b) = m /\ \A i \in 1..m : b[i] = blocks[i]
    BY <1>2
  <1>4. TxsOf(b) \in Seq(Seq(Txs)) /\ Len(TxsOf(b)) = m /\ \A i \in 1..m : TxsOf(b)[i] = b[i].txs
    BY <1>3, TxsOfBlocks
  <1> DEFINE d == TxsOf(b)
             S == Seq(Txs)
  <1> HIDE DEF c, m, b, d, S
  <1>5. SubSeq(c, 1, m) \in Seq(S) /\ Len(SubSeq(c, 1, m)) = m /\ \A i \in 1..m : SubSeq(c, 1, m)[i] = c[i]
    BY <1>1, <1>2 DEF S
  <1>6. d \in Seq(S) /\ Len(d) = m /\ \A i \in 1..m : d[i] = b[i].txs
    BY <1>4 DEF d, S
  <1>7. SubSeq(c, 1, m) = d
    BY <1>1, <1>2, <1>3, <1>5, <1>6
  <1>8. QED
    BY <1>7 DEF c, m, d, b

\* No reorganisation brings the parents of the block back, because it brings blocks
\* of a fork that is later than all of theirs.
LEMMA ReorgLeavesParent ==
    ASSUME RInv, ParentInv, Got, Reorg, OnParent'
    PROVE  OnParent
  <1> DEFINE n == found.number - 1
             parent == block.parent
  <1>1. /\ n \in Nat /\ parent \in Seq(Block) /\ Len(parent) = n
        /\ \A i \in 1..n : parent[i].fork <= reorgs
    BY DEF ParentInv, Place
  <1>2. PICK kept \in 0..(Len(chain) - 1), layout \in Layouts :
          /\ kept <= Len(layout)
          /\ chain' = [i \in DOMAIN layout |->
                         IF i <= kept THEN chain[i] ELSE [fork |-> reorgs', txs |-> layout[i]]]
    BY DEF Reorg
  <1>3. /\ layout \in Seq(Seq(Txs)) /\ chain \in Seq(Block) /\ reorgs \in Nat /\ reorgs' = reorgs + 1
        /\ UNCHANGED << found, block >>
    BY LayoutIsSeq DEF RInv, ChainInv, Reorg
  <1> DEFINE new == [i \in DOMAIN layout |->
                        IF i <= kept THEN chain[i] ELSE [fork |-> reorgs', txs |-> layout[i]]]
             m == Len(layout)
  <1>4. m \in Nat /\ DOMAIN layout = 1..m /\ kept \in Nat /\ kept < Len(chain) /\ Len(chain) \in Nat
    BY <1>2, <1>3
  <1>5. Len(new) = m /\ \A i \in 1..m : new[i] = IF i <= kept THEN chain[i]
                                                 ELSE [fork |-> reorgs', txs |-> layout[i]]
    BY <1>4
  <1>6. new = chain' /\ n <= Len(new) /\ SubSeq(new, 1, n) = parent
    BY <1>2, <1>3 DEF OnParent
  <1> HIDE DEF new, parent, n, m
  <1>7. \A i \in 1..n : parent[i] = new[i]
    <2>1. new \in Seq(Block)
      BY <1>6, ReorgKeeps DEF RInv, ChainInv
    <2>2. QED
      BY <1>1, <1>6, <2>1
  <1>8. n <= kept
    <2> SUFFICES ASSUME ~(n <= kept) PROVE FALSE
      OBVIOUS
    <2>1. n \in 1..n /\ n \in 1..m
      BY <1>1, <1>4, <1>5, <1>6
    <2>2. parent[n].fork = reorgs'
      BY <1>5, <1>7, <2>1
    <2>3. QED
      BY <1>1, <1>3, <2>1, <2>2
  <1>9. \A i \in 1..n : parent[i] = chain[i]
    BY <1>1, <1>4, <1>5, <1>6, <1>7, <1>8
  <1>10. n <= Len(chain) /\ SubSeq(chain, 1, n) = parent
    <2>1. n <= Len(chain)
      BY <1>1, <1>4, <1>8
    <2>2. SubSeq(chain, 1, n) \in Seq(Block) /\ Len(SubSeq(chain, 1, n)) = n
          /\ \A i \in 1..n : SubSeq(chain, 1, n)[i] = chain[i]
      BY <1>1, <1>3, <2>1
    <2>3. QED
      BY <1>1, <1>9, <2>1, <2>2
  <1>11. QED
    BY <1>10 DEF OnParent, n, parent

\* The new chain is one whose transactions have the right nonces.
LEMMA ReorgLegal == ASSUME RInv, Reorg PROVE Legal(TxsOf(chain'))
  <1>1. PICK kept \in 0..(Len(chain) - 1), layout \in Layouts :
          /\ kept <= Len(layout) /\ \A i \in 1..kept : layout[i] = chain[i].txs
          /\ chain' = [i \in DOMAIN layout |->
                         IF i <= kept THEN chain[i] ELSE [fork |-> reorgs', txs |-> layout[i]]]
    BY DEF Reorg
  <1>2. layout \in Seq(Seq(Txs)) /\ kept \in Nat
    BY <1>1, LayoutIsSeq DEF RInv, ChainInv
  <1>3. ASSUME NEW i \in DOMAIN layout PROVE chain'[i].txs = layout[i]
    BY <1>1, <1>2, <1>3
  <1>4. TxsOf(chain') = layout
    <2> DEFINE new == chain'
    <2>1. DOMAIN new = DOMAIN layout /\ \A i \in DOMAIN layout : new[i].txs = layout[i]
      BY <1>1, <1>3
    <2> HIDE DEF new
    <2>2. TxsOf(new) = [i \in DOMAIN layout |-> layout[i]]
      BY <2>1 DEF TxsOf
    <2>3. TxsOf(new) = layout
      BY <1>2, <2>2
    <2>4. QED
      BY <2>3 DEF new
  <1>5. Legal(layout)
    BY DEF Layouts
  <1>6. QED
    BY <1>4, <1>5

LEMMA ReorgKeepsN == ASSUME RInv, NInv, Reorg PROVE NInv'
  <1> USE DEF NInv
  <1>1. /\ UNCHANGED << pc, asked, found, block, nonces, parents, executed, why >>
        /\ reorgs \in Nat /\ reorgs' = reorgs + 1
    BY DEF Reorg, RInv, ChainInv
  <1>2. Got' <=> Got
    BY <1>1 DEF Got
  <1>3. Got => (OnParent' => OnParent)
    BY ReorgLeavesParent
  <1>4. Complete' <=> Complete
    BY <1>1 DEF Complete
  <1>5. ParentInv'
    <2>1. ASSUME Got, NEW i \in 1..Len(block.parent) PROVE block.parent[i].fork <= reorgs'
      <3>1. block.parent[i] \in Block /\ block.parent[i].fork <= reorgs
        BY <2>1 DEF ParentInv
      <3>2. QED
        BY <1>1, <3>1 DEF Block
    <2>2. QED
      BY <1>1, <1>2, <1>3, <2>1 DEF ParentInv
  <1>6. WorkInv'
    BY <1>1, <1>2, <1>3, <1>4 DEF WorkInv
  <1>7. MinedInv'
    <2>1. ASSUME found.at \in Nat, found.at <= reorgs
          PROVE  found.at <= reorgs' /\ reorgs' # found.at
      BY <1>1, <2>1
    <2>2. found \in Place => found.at \in Nat
      BY DEF Place
    <2>3. Legal(TxsOf(chain))'
      BY ReorgLegal
    <2>4. QED
      BY <1>1, <2>1, <2>2, <2>3 DEF MinedInv, MinedReplays
  <1>8. QED
    BY <1>5, <1>6, <1>7

\* A failure leaves everything as it is, and what it says has to be justified.
LEMMA FailKeepsN ==
    ASSUME NInv, NEW reason, Fails(reason),
           \/ reason \in {"pending", "no block", "rpc"}
           \/ /\ found.at \in Nat /\ found.at <= reorgs
              /\ reorgs # found.at \/ \E i \in DOMAIN block.txs : block.txs[i].authority # None
    PROVE  NInv'
  <1>1. /\ UNCHANGED << chain, reorgs, asked, found, block, nonces, parents, executed >>
        /\ pc' = "failed" /\ why' = reason
    BY DEF Fails, node
  <1>2. /\ Got' => Got
        /\ OnParent' <=> OnParent
        /\ Complete' <=> Complete
    BY <1>1 DEF Got, Settled, OnParent, Complete
  <1>3. ParentInv' /\ WorkInv'
    BY <1>1, <1>2 DEF NInv, ParentInv, WorkInv
  <1>4. MinedInv'
    BY <1>1 DEF NInv, MinedInv, MinedReplays, Settled
  <1>5. QED
    BY <1>3, <1>4 DEF NInv

LEMMA GetTransactionKeepsN == ASSUME RInv, NInv, GetTransaction PROVE NInv'
  <1> USE DEF NInv
  <1>1. CASE Places(asked) = {}
    BY <1>1, FailKeepsN DEF GetTransaction
  <1>2. CASE Places(asked) # {}
    <2>1. PICK p \in Places(asked) :
            found' = [number |-> p.number, index |-> p.index, fork |-> chain[p.number].fork, at |-> reorgs]
      BY <1>2 DEF GetTransaction
    <2>2. /\ p.number \in 1..Len(chain) /\ p.index \in Nat \ {0}
          /\ p.index \in 1..Len(chain[p.number].txs)
      <3>1. /\ p.number \in 1..Len(chain) /\ p.index \in 1..MaxInBlock
            /\ p.index <= Len(chain[p.number].txs)
        BY Blocks DEF Places, RInv
      <3>2. chain[p.number].txs \in Seq(Txs)
        BY <3>1, Blocks DEF RInv
      <3>3. QED
        BY <3>1, <3>2, ReplayAssumption
    <2>3. /\ UNCHANGED << chain, reorgs, asked, block, nonces, parents, executed, why >>
          /\ pc = "transaction" /\ pc' = "block"
      BY <1>2 DEF GetTransaction, Going, node
    <2>4. /\ found' \in Place /\ found'.at = reorgs
          /\ found'.number = p.number /\ found'.index = p.index
      BY <2>1, <2>2, Blocks DEF Place, RInv, ChainInv
    <2>5. block = None
      BY <2>3 DEF ParentInv
    <2>6. ~Got'
      BY <2>3, <2>5 DEF Got, Settled
    <2>7. ParentInv' /\ WorkInv'
      BY <2>3, <2>6 DEF ParentInv, WorkInv
    <2>8. found'.at \in Nat /\ found'.at <= reorgs /\ reorgs \in Nat
      BY <2>4 DEF RInv, ChainInv
    <2>9. why \notin {"invalid", "panic"}
      BY <2>3, NoneAssumption DEF MinedInv
    <2>10. MinedInv'
      BY <2>2, <2>3, <2>4, <2>8, <2>9 DEF MinedInv
    <2>11. QED
      BY <2>7, <2>10
  <1>3. QED
    BY <1>1, <1>2

\* The block comes from the chain as it is now.
LEMMA GetBlockKeepsN == ASSUME RInv, NInv, GetBlock PROVE NInv'
  <1> USE DEF NInv
  <1>1. CASE found.number > Len(chain)
    BY <1>1, FailKeepsN DEF GetBlock
  <1>2. CASE ~(found.number > Len(chain))
    <2> DEFINE n == found.number
               parent == SubSeq(chain, 1, n - 1)
    <2>1. /\ UNCHANGED << chain, reorgs, asked, found, nonces, parents, executed, why >>
          /\ pc = "block" /\ pc' = "chain id"
          /\ block' = [fork |-> chain[n].fork, txs |-> chain[n].txs, parent |-> parent]
      BY <1>2 DEF GetBlock, Going, node
    <2>2. /\ found \in Place /\ n \in 1..Len(chain) /\ found.index \in Nat \ {0}
      <3>1. found \in Place
        BY <2>1 DEF MinedInv
      <3>2. n \in Nat \ {0} /\ found.index \in Nat \ {0}
        BY <3>1 DEF Place
      <3>3. Len(chain) \in Nat
        BY Blocks DEF RInv
      <3>4. QED
        BY <1>2, <3>1, <3>2, <3>3
    <2>3. chain[n].txs \in Seq(Txs) /\ Len(chain[n].txs) \in Nat
      BY <2>2, Blocks DEF RInv
    <2>4. block'.txs = chain[n].txs /\ block'.parent = parent
      BY <2>1
    <2>5. /\ parent \in Seq(Block) /\ Len(parent) = n - 1
          /\ \A i \in 1..Len(parent) : parent[i].fork <= reorgs
      <3>1. chain \in Seq(Block) /\ n - 1 \in Nat /\ n - 1 <= Len(chain) /\ Len(chain) \in Nat
        BY <2>2 DEF RInv, ChainInv
      <3>2. /\ parent \in Seq(Block) /\ Len(parent) = n - 1
            /\ \A i \in 1..(n - 1) : parent[i] = chain[i]
        BY <3>1
      <3>3. QED
        BY <3>1, <3>2 DEF RInv, ChainInv
    <2>6. executed = << >> /\ parents = {} /\ DOMAIN nonces = {}
      BY <2>1 DEF ParentInv
    <2> HIDE DEF parent, n
    <2>7. ParentInv'
      BY <2>1, <2>2, <2>3, <2>4, <2>5, <2>6 DEF ParentInv, n
    <2>8. WorkInv'
      <3>1. /\ Len(executed') = 0 /\ DOMAIN nonces' = {} /\ found' = found
            /\ Len(block'.txs) \in Nat
        BY <2>1, <2>3, <2>4, <2>6
      <3>2. /\ Len(executed') < found'.index /\ Len(executed') <= Len(block'.txs)
            /\ 1..Len(executed') = {}
        BY <2>2, <3>1
      <3>3. pc' = "chain id"
        BY <2>1
      <3>4. QED
        BY <3>1, <3>2, <3>3 DEF WorkInv
    <2>9. MinedInv'
      BY <2>1, <2>4, NoneAssumption DEF MinedInv, Settled, parent, n
    <2>10. QED
      BY <2>7, <2>8, <2>9
  <1>3. QED
    BY <1>1, <1>2

\* Steps that execute nothing: of what they read, the parents are read now.
LEMMA QuietKeepsN ==
    ASSUME NInv, Read \/ GetChainId \/ InspectTarget \/ Finish \/ UNCHANGED vars
    PROVE  NInv'
  <1> USE DEF NInv
  <1>1. /\ UNCHANGED << chain, reorgs, asked, found, block, nonces, executed, why >>
        /\ parents' \in {parents, parents \cup {Parent}}
        /\ \/ pc' = pc /\ (parents' = parents \/ pc \in Settled)
           \/ parents' = parents /\ << pc, pc' >> \in {<< "chain id", "prior" >>, << "target", "done" >>}
    BY DEF Read, GetChainId, InspectTarget, Finish, Going, node, vars, Settled
  <1>2. /\ Got' <=> Got
        /\ OnParent' <=> OnParent
        /\ Complete' <=> Complete
    BY <1>1 DEF Got, Settled, OnParent, Complete
  <1>3. OnParent => Parent = block.parent
    BY DEF OnParent, Parent, ParentNumber
  <1>4. ParentInv'
    BY <1>1, <1>2, <1>3 DEF ParentInv, Settled
  <1>5. WorkInv'
    BY <1>1, <1>2 DEF WorkInv
  <1>6. MinedInv'
    BY <1>1, NoneAssumption DEF MinedInv, MinedReplays, Settled
  <1>7. QED
    BY <1>4, <1>5, <1>6

\* The nonce an execution finds is the one of the account at this point of the
\* chain, whether it was changed by this replay or has to be read.
LEMMA NonceIs ==
    ASSUME RInv, NInv, pc = "prior", OnParent, Complete, NEW s
    PROVE  /\ NonceOn(TxsOf(block.parent), s) \in Nat
           /\ NonceAfter(executed, s) \in Nat
           /\ NonceOf(s) = NonceOn(TxsOf(block.parent), s) + NonceAfter(executed, s)
  <1>1. Got
    BY DEF Got, Settled
  <1>2. block.parent \in Seq(Block) /\ block.txs \in Seq(Txs)
    BY <1>1 DEF NInv, ParentInv
  <1>3. NonceOn(TxsOf(block.parent), s) \in Nat
    BY <1>2, TxsOfBlocks, NonceOnNat
  <1>4. /\ DOMAIN executed = 1..Len(executed) /\ Len(executed) \in Nat
    BY DEF RInv, ExecutedInv
  <1>5. NonceAfter(executed, s) \in Nat
    BY <1>4, NonceAfterNat
  <1>6. CASE Known(s)
    <2>1. nonces[s] = NonceOn(TxsOf(block.parent), s) + NonceAfter(executed, s)
      BY <1>1, <1>6 DEF NInv, WorkInv, Known
    <2>2. QED
      BY <1>3, <1>5, <1>6, <2>1 DEF NonceOf
  <1>7. CASE ~Known(s)
    <2>1. ASSUME NEW i \in DOMAIN executed
          PROVE  executed[i].sender # s /\ executed[i].authority = None
      <3>1. /\ executed[i] = AlloyTxToRevmTx(block.txs[i])
            /\ executed[i].sender \in DOMAIN nonces
            /\ i \in 1..Len(block.txs)
        BY <1>1, <1>2, <1>4 DEF NInv, WorkInv
      <3>2. block.txs[i] \in Txs
        BY <1>2, <3>1
      <3>3. QED
        BY <1>7, <3>1, <3>2, AlloyIs DEF Known
    <2>2. NonceAfter(executed, s) = 0
      BY <2>1, NonceAfterNothing
    <2>3. Parent = block.parent
      BY DEF OnParent, Parent, ParentNumber
    <2>4. NonceOf(s) = NonceOn(TxsOf(block.parent), s)
      BY <1>7, <2>3 DEF NonceOf
    <2>5. QED
      BY <1>3, <2>2, <2>4
  <1>8. QED
    BY <1>3, <1>5, <1>6, <1>7

\* On a chain that has not changed, and when no field is lost, the next transaction
\* has the nonce the execution finds.
LEMMA BeginsValid ==
    ASSUME RInv, NInv, pc = "prior", Len(executed) < Len(block.txs),
           reorgs = found.at, \A i \in DOMAIN block.txs : block.txs[i].authority = None
    PROVE  block.txs[Len(executed) + 1].nonce = NonceOf(block.txs[Len(executed) + 1].sender)
  <1> DEFINE n == found.number
             j == Len(executed) + 1
             tx == block.txs[j]
             s == tx.sender
             here == SubSeq(block.txs, 1, j - 1)
  <1>1. Got
    BY DEF Got, Settled
  <1>2. /\ n \in 1..Len(chain) /\ block.txs = chain[n].txs /\ block.parent = SubSeq(chain, 1, n - 1)
    BY DEF NInv, MinedInv, Settled
  <1>3. /\ block.txs \in Seq(Txs) /\ chain \in Seq(Block) /\ Len(chain) \in Nat
        /\ executed \in Seq({AlloyTxToRevmTx(t) : t \in Txs})
    BY <1>1 DEF NInv, ParentInv, RInv, ChainInv, ExecutedInv
  <1>4. j \in 1..Len(block.txs) /\ j - 1 = Len(executed) /\ Len(executed) \in Nat
    BY <1>3
  <1>5. OnParent
    BY <1>2, <1>3 DEF OnParent
  <1>6. ASSUME NEW i \in 1..Len(executed) PROVE executed[i] = block.txs[i]
    <2>1. i \in 1..Len(block.txs) /\ executed[i] = AlloyTxToRevmTx(block.txs[i])
      BY <1>1, <1>3 DEF NInv, WorkInv
    <2>2. block.txs[i] \in Txs /\ block.txs[i].authority = None
      BY <1>3, <2>1
    <2>3. QED
      BY <2>1, <2>2, AlloyIs
  <1>7. Complete
    BY <1>3, <1>6 DEF Complete
  <1>8. here = executed
    <2>1. here \in Seq(Txs) /\ Len(here) = Len(executed)
          /\ \A i \in 1..Len(executed) : here[i] = block.txs[i]
      BY <1>3, <1>4
    <2>2. QED
      BY <1>3, <1>6, <2>1
  <1>9. tx.nonce = NonceOn(TxsOf(block.parent), s) + NonceAfter(executed, s)
    <2> DEFINE c == TxsOf(chain)
    <2>1. c \in Seq(Seq(Txs)) /\ Len(c) = Len(chain) /\ c[n] = block.txs
      BY <1>2, <1>3, TxsOfBlocks
    <2>2. SubSeq(c, 1, n - 1) = TxsOf(block.parent)
      BY <1>2, <1>3, TxsOfBefore
    <2>3. Legal(c)
      BY DEF NInv, MinedInv
    <2> HIDE DEF c
    <2>4. n \in DOMAIN c /\ j \in DOMAIN c[n]
      BY <1>2, <1>3, <1>4, <2>1, SMTT(30)
    <2>5. c[n][j].nonce = NonceOn(SubSeq(c, 1, n - 1), c[n][j].sender)
                          + NonceAfter(SubSeq(c[n], 1, j - 1), c[n][j].sender)
      BY <2>3, <2>4 DEF Legal
    <2>6. QED
      BY <1>8, <2>1, <2>2, <2>5
  <1>10. NonceOf(s) = NonceOn(TxsOf(block.parent), s) + NonceAfter(executed, s)
    BY <1>5, <1>7, NonceIs
  <1>11. QED
    BY <1>9, <1>10

\* Executing the next transaction of the block adds one to the nonce of its sender,
\* on the chain and in what the replay knows.
LEMMA BeginsKeepsN ==
    ASSUME RInv, NInv, pc = "prior", NEW next \in {"prior", "target"},
           Len(executed) < Len(block.txs), Begins(block.txs[Len(executed) + 1], next),
           next = "prior" => Len(executed) + 1 < found.index,
           next = "target" => Len(executed) + 1 = found.index
    PROVE  NInv'
  <1> USE DEF NInv
  <1> DEFINE j == Len(executed) + 1
             tx == block.txs[j]
  <1>1. Got
    BY DEF Got, Settled
  <1>2. /\ block.txs \in Seq(Txs) /\ Len(block.txs) \in Nat /\ found \in Place
        /\ executed \in Seq({AlloyTxToRevmTx(t) : t \in Txs})
        /\ DOMAIN executed = 1..Len(executed) /\ Len(executed) \in Nat
    BY <1>1 DEF ParentInv, RInv, ExecutedInv
  <1>3. j \in 1..Len(block.txs) /\ tx \in Txs
    BY <1>2
  <1>4. /\ found.at \in Nat /\ found.at <= reorgs
    BY DEF MinedInv, Settled, Place
  <1>5. CASE Fails("rpc")
    BY <1>5, FailKeepsN
  <1>6. CASE tx.nonce # NonceOf(tx.sender) /\ Fails("invalid")
    <2>1. reorgs # found.at \/ \E i \in DOMAIN block.txs : block.txs[i].authority # None
      BY <1>6, BeginsValid
    <2>2. QED
      BY <1>4, <1>6, <2>1, FailKeepsN
  <1>7. CASE /\ tx.nonce = NonceOf(tx.sender)
             /\ parents' = IF Known(tx.sender) THEN parents ELSE parents \cup {Parent}
             /\ nonces' = [s \in DOMAIN nonces \cup {tx.sender} |->
                              IF s = tx.sender THEN NonceOf(s) + 1 ELSE nonces[s]]
             /\ executed' = Append(executed, AlloyTxToRevmTx(tx))
             /\ Going(next)
             /\ UNCHANGED << node, asked, found, block, execution >>
    <2> DEFINE new == executed'
               alloy == AlloyTxToRevmTx(tx)
    <2>1. UNCHANGED << chain, reorgs, asked, found, block, why >> /\ pc' = next
      BY <1>7 DEF Going, node
    <2>2. Got' /\ (OnParent' <=> OnParent)
      BY <2>1 DEF Got, Settled, OnParent
    <2>3. /\ Len(new) = j /\ DOMAIN new = 1..j /\ new[j] = alloy
          /\ \A i \in 1..Len(executed) : new[i] = executed[i]
      <3>1. alloy \in {AlloyTxToRevmTx(t) : t \in Txs}
        BY <1>3
      <3> HIDE DEF alloy
      <3>2. QED
        BY <1>2, <1>7, <3>1 DEF alloy
    <2>4. alloy.sender = tx.sender /\ alloy.authority = None
      BY <1>3, AlloyIs
    <2>5. DOMAIN nonces' = DOMAIN nonces \cup {tx.sender}
      BY <1>7
    <2>6. Complete' => Complete
      <3> SUFFICES ASSUME Complete' PROVE Complete
        OBVIOUS
      <3>1. \A i \in 1..j : new[i] = block.txs[i]
        BY <2>1, <2>3 DEF Complete
      <3> HIDE DEF new
      <3>2. \A i \in 1..Len(executed) : executed[i] = block.txs[i]
        BY <1>2, <2>3, <3>1
      <3>3. QED
        BY <1>2, <3>2 DEF Complete
    <2>7. ParentInv'
      <3>1. OnParent => Parent = block.parent
        BY DEF OnParent, Parent, ParentNumber
      <3>2. parents' \in {parents, parents \cup {Parent}}
        BY <1>7
      <3>3. QED
        BY <1>1, <2>1, <2>2, <3>1, <3>2 DEF ParentInv
    <2>8. ASSUME OnParent', Complete', NEW s \in DOMAIN nonces'
          PROVE  nonces'[s] = NonceOn(TxsOf(block.parent), s) + NonceAfter(new, s)
      <3> DEFINE before == NonceOn(TxsOf(block.parent), s)
                 after == NonceAfter(executed, s)
      <3>1. before \in Nat /\ after \in Nat /\ NonceOf(s) = before + after
        BY <2>2, <2>6, <2>8, NonceIs
      <3>2. NonceAfter(new, s) = after + (IF tx.sender = s THEN 1 ELSE 0)
        <4> HIDE DEF new, alloy, tx
        <4>1. /\ Len(executed) \in Nat /\ DOMAIN executed = 1..Len(executed)
              /\ DOMAIN new = 1..(Len(executed) + 1)
              /\ \A i \in 1..Len(executed) : new[i] = executed[i]
              /\ new[Len(executed) + 1] = alloy /\ new[Len(executed) + 1].authority = None
          BY <1>2, <2>3, <2>4
        <4>2. NonceAfter(new, s) = after + (IF new[Len(executed) + 1].sender = s THEN 1 ELSE 0)
          BY ONLY <4>1, NonceAfterAppend, SMTT(30)
        <4>3. QED
          BY <2>4, <4>1, <4>2
      <3>3. nonces'[s] = IF s = tx.sender THEN NonceOf(s) + 1 ELSE nonces[s]
        BY <1>7, <2>5, <2>8
      <3>4. s # tx.sender => nonces[s] = NonceOf(s)
        BY <2>5, <2>8 DEF NonceOf, Known
      <3> HIDE DEF before, after, new
      <3>5. CASE s = tx.sender
        BY <3>1, <3>2, <3>3, <3>5 DEF before
      <3>6. CASE s # tx.sender
        BY <3>1, <3>2, <3>3, <3>4, <3>6 DEF before
      <3>7. QED
        BY <3>5, <3>6
    <2>9. ASSUME NEW i \in 1..j
          PROVE  new[i] = AlloyTxToRevmTx(block.txs[i]) /\ new[i].sender \in DOMAIN nonces'
      <3>1. CASE i = j
        BY <2>3, <2>4, <2>5, <3>1
      <3>2. CASE i # j
        <4>1. i \in 1..Len(executed)
          BY <1>2, <3>2
        <4>2. executed[i] = AlloyTxToRevmTx(block.txs[i]) /\ executed[i].sender \in DOMAIN nonces
          BY <1>1, <4>1 DEF WorkInv
        <4>3. QED
          BY <2>3, <2>5, <4>1, <4>2
      <3>3. QED
        BY <3>1, <3>2
    <2>10. WorkInv'
      <3>1. /\ pc' \in {"chain id", "prior"} => j < found.index
            /\ pc' \in {"target", "done"} => j = found.index
            /\ j <= Len(block.txs)
        <4>1. CASE next = "prior"
          BY <1>3, <2>1, <4>1
        <4>2. CASE next = "target"
          BY <1>3, <2>1, <4>2
        <4>3. QED
          BY <4>1, <4>2
      <3> HIDE DEF j, tx
      <3>2. QED
        BY <2>1, <2>3, <2>8, <2>9, <3>1 DEF WorkInv
    <2>11. MinedInv'
      BY <2>1, NoneAssumption DEF MinedInv, MinedReplays, Settled
    <2>12. QED
      BY <2>7, <2>10, <2>11
  <1>8. QED
    BY <1>5, <1>6, <1>7 DEF Begins

\* The loop over the transactions before the target.
LEMMA ReplayPriorKeepsN == ASSUME RInv, NInv, ReplayPrior PROVE NInv'
  <1>1. pc = "prior" /\ Prior /\ Begins(block.txs[Len(executed) + 1], "prior")
    BY DEF ReplayPrior
  <1>2. found \in Place /\ Len(executed) \in Nat
    BY <1>1 DEF NInv, MinedInv, Settled, RInv, ExecutedInv
  <1>3. Len(executed) < Len(block.txs) /\ Len(executed) + 1 < found.index
    BY <1>1, <1>2 DEF Prior, Place
  <1>4. QED
    BY <1>1, <1>3, BeginsKeepsN

\* The target is the one after those, and is in the block if the chain is the same.
LEMMA StartTargetKeepsN == ASSUME RInv, NInv, StartTarget PROVE NInv'
  <1>1. pc = "prior" /\ ~Prior /\ Got
    BY DEF StartTarget, Got, Settled
  <1>2. /\ found \in Place /\ Len(executed) \in Nat /\ Len(block.txs) \in Nat
        /\ Len(executed) < found.index /\ found.index \in Nat
    BY <1>1 DEF NInv, MinedInv, ParentInv, WorkInv, Settled, RInv, ExecutedInv, Place
  <1>3. CASE found.index > Len(block.txs)
    <2>1. Fails("panic")
      BY <1>3 DEF StartTarget
    <2>2. reorgs # found.at
      <3>1. ASSUME reorgs = found.at
            PROVE  found.index \in 1..Len(block.txs)
        BY <1>1, <3>1 DEF NInv, MinedInv, Settled
      <3>2. QED
        BY <1>2, <1>3, <3>1
    <2>3. found.at \in Nat /\ found.at <= reorgs
      BY <1>1, <1>2 DEF NInv, MinedInv, Settled, Place
    <2>4. QED
      BY <2>1, <2>2, <2>3, FailKeepsN
  <1>4. CASE ~(found.index > Len(block.txs))
    <2>1. Len(executed) < Len(block.txs) /\ Len(executed) + 1 = found.index
      BY <1>1, <1>2, <1>4 DEF Prior
    <2>2. Begins(block.txs[Len(executed) + 1], "target")
      BY <1>4, <2>1 DEF StartTarget
    <2>3. QED
      BY <1>1, <2>1, <2>2, BeginsKeepsN
  <1>5. QED
    BY <1>3, <1>4

LEMMA StepKeepsN == ASSUME RInv, NInv, [Next]_vars PROVE NInv'
  <1>1. CASE Fault
    BY <1>1, FailKeepsN DEF Fault
  <1>2. CASE Proceed
    BY <1>2, GetTransactionKeepsN, GetBlockKeepsN, QuietKeepsN, ReplayPriorKeepsN, StartTargetKeepsN
    DEF Proceed
  <1>3. CASE Read \/ UNCHANGED vars
    BY <1>3, QuietKeepsN
  <1>4. CASE Reorg
    BY <1>4, ReorgKeepsN
  <1>5. QED
    BY <1>1, <1>2, <1>3, <1>4 DEF Next

LEMMA InitN == Init => NInv
  <1> SUFFICES ASSUME Init PROVE NInv
    OBVIOUS
  <1>1. PICK layout \in Layouts : chain = Chain(layout, 0)
    BY DEF Init
  <1>2. TxsOf(chain) = layout
    <2>1. layout \in Seq(Seq(Txs))
      BY LayoutIsSeq
    <2>2. TxsOf(chain) = [i \in DOMAIN layout |-> layout[i]]
      BY <1>1 DEF TxsOf, Chain
    <2>3. QED
      BY <2>1, <2>2
  <1>3. Legal(TxsOf(chain))
    BY <1>2 DEF Layouts
  <1>4. ~Got
    BY DEF Init, Got, Settled
  <1>5. QED
    BY <1>3, <1>4, NoneAssumption DEF Init, NInv, ParentInv, WorkInv, MinedInv, Settled

\* Every transaction is executed on the state in which the chain executed it: that
\* of the parent block and of exactly the transactions before it, once each, in
\* their order, as long as the node stays on the parent block and the conversion
\* loses nothing (replay.rs:5), on every chain and however often it is reorganised.
THEOREM PreStateIsExact == Spec => []PreStateExact
  <1>1. RInv /\ NInv => PreStateExact
    <2> SUFFICES ASSUME RInv, NInv, block # None, OnParent, Complete PROVE
                    /\ parents \subseteq {block.parent}
                    /\ \A s \in DOMAIN nonces :
                          nonces[s] = NonceOn(TxsOf(block.parent), s) + NonceAfter(executed, s)
                    /\ pc \in {"target", "done"} => executed = SubSeq(block.txs, 1, found.index)
      BY DEF PreStateExact
    <2>1. Got
      BY DEF Got
    <2>2. parents \subseteq {block.parent}
      BY <2>1 DEF NInv, ParentInv
    <2>3. \A s \in DOMAIN nonces :
             nonces[s] = NonceOn(TxsOf(block.parent), s) + NonceAfter(executed, s)
      BY <2>1 DEF NInv, WorkInv
    <2>4. ASSUME pc \in {"target", "done"} PROVE executed = SubSeq(block.txs, 1, found.index)
      <3>1. /\ block.txs \in Seq(Txs) /\ Len(executed) = found.index
            /\ Len(executed) <= Len(block.txs) /\ Len(executed) \in Nat /\ Len(block.txs) \in Nat
            /\ executed \in Seq({AlloyTxToRevmTx(t) : t \in Txs})
        <4>1. block.txs \in Seq(Txs)
          BY <2>1 DEF NInv, ParentInv
        <4>2. Len(executed) = found.index /\ Len(executed) <= Len(block.txs)
          BY <2>1, <2>4 DEF NInv, WorkInv
        <4>3. executed \in Seq({AlloyTxToRevmTx(t) : t \in Txs})
          BY DEF RInv, ExecutedInv
        <4>4. QED
          BY <4>1, <4>2, <4>3
      <3> DEFINE n == Len(executed)
                 txs == block.txs
                 prefix == SubSeq(txs, 1, n)
                 S == {AlloyTxToRevmTx(t) : t \in Txs}
      <3>2. \A i \in 1..n : executed[i] = txs[i]
        BY <3>1 DEF Complete
      <3> HIDE DEF S, txs
      <3>3. /\ prefix \in Seq(Txs) /\ Len(prefix) = n
            /\ \A i \in 1..n : prefix[i] = txs[i]
        BY <3>1 DEF txs
      <3> HIDE DEF prefix
      <3>4. executed = prefix
        BY <3>1, <3>2, <3>3 DEF S
      <3>5. QED
        BY <3>1, <3>4 DEF prefix, txs
    <2>5. QED
      BY <2>2, <2>3, <2>4
  <1>2. Init => RInv /\ NInv
    BY InitRInv, InitN
  <1>3. RInv /\ NInv /\ [Next]_vars => (RInv /\ NInv)'
    BY StepKeepsRInv, StepKeepsN
  <1>4. QED
    BY <1>1, <1>2, <1>3, PTL DEF Spec

\* On a node that stays on its chain every mined transaction can be executed again,
\* unless the block has one whose authorizations the conversion drops: nonces are
\* never wrong and the index told is that of a transaction of the block.
THEOREM MinedReplay == Spec => []MinedReplays
  <1>1. RInv /\ NInv => MinedReplays
    BY DEF NInv, MinedInv, MinedReplays
  <1>2. Init => RInv /\ NInv
    BY InitRInv, InitN
  <1>3. RInv /\ NInv /\ [Next]_vars => (RInv /\ NInv)'
    BY StepKeepsRInv, StepKeepsN
  <1>4. QED
    BY <1>1, <1>2, <1>3, PTL DEF Spec

=============================================================================
