----------------------------- MODULE Inspector -----------------------------
\* The inspector of a replayed transaction (inspector.rs) and the EVM that calls
\* its hooks: step before every instruction, call or create before a frame, call_end
\* or create_end after it, log and selfdestruct when the instruction took effect.
\* A frame without code (a precompile, a plain account, a call the EVM refuses)
\* has a call and an end but no step. Steps, calls and logs also hold the number
\* of the frame they happened in, which the code does not record.
EXTENDS Integers, Sequences, SequencesExt

CONSTANTS MaxSteps, MaxFrames   \* bounds: the gas of the transaction

ASSUME InspectorAssumption == MaxSteps \in Nat /\ MaxFrames \in Nat

VARIABLES
    frames,         \* the open frames, innermost last
    current_depth,
    steps, calls, logs, selfdestructs

inspector == << current_depth, steps, calls, logs, selfdestructs >>
execution == << frames, current_depth, steps, calls, logs, selfdestructs >>

Effects == {"call", "create", "log", "selfdestruct"}
Ops == Effects \cup {"end", "other"}
Top == frames[Len(frames)]

\* doing is the instruction stepped to and not yet done.
Doing(op) == [frames EXCEPT ![Len(frames)].doing = op]

EvmInit ==
    /\ frames = << >>
    /\ current_depth = 0
    /\ steps = << >> /\ calls = << >> /\ logs = << >> /\ selfdestructs = << >>

Step(op) ==
    /\ frames # << >> /\ Top.code /\ Top.doing = "none"
    /\ Len(steps) < MaxSteps
    /\ steps' = Append(steps, [depth |-> current_depth, frame |-> Top.number])
    /\ frames' = IF op = "other" THEN frames ELSE Doing(op)
    /\ UNCHANGED << current_depth, calls, logs, selfdestructs >>

\* A frame is entered by the transaction or by an instruction of a frame.
Enter(kind, code) ==
    /\ IF frames = << >> THEN calls = << >> ELSE Top.doing = kind
    /\ Len(calls) < MaxFrames
    /\ current_depth' = current_depth + 1
    /\ calls' = Append(calls, kind)
    /\ frames' = Append(IF frames = << >> THEN frames ELSE Doing("none"),
                        [number |-> Len(calls) + 1, kind |-> kind, code |-> code, doing |-> "none"])
    /\ UNCHANGED << steps, logs, selfdestructs >>

Call(code) == Enter("call", code)
Create(code) == Enter("create", code)

\* A frame ends at any instruction, because it says so or because it fails, and
\* out of gas (the bound) even before one.
MayEnd == Top.code /\ Len(steps) < MaxSteps => Top.doing # "none"

Leave(kind) ==
    /\ frames # << >> /\ Top.kind = kind /\ MayEnd
    /\ frames' = Front(frames)
    /\ current_depth' = IF current_depth > 0 THEN current_depth - 1 ELSE current_depth
    /\ UNCHANGED << steps, calls, logs, selfdestructs >>

CallEnd == Leave("call")

\* Mutant of CreateEnd: a created contract stays the current one.
MutCreateEnd ==
    /\ frames # << >> /\ Top.kind = "create" /\ MayEnd
    /\ frames' = Front(frames)
    /\ UNCHANGED inspector

CreateEnd == Leave("create")

\* Logs of frames that revert later are kept.
Log ==
    /\ frames # << >> /\ Top.doing = "log"
    /\ logs' = Append(logs, Top.number)
    /\ frames' = Doing("none")
    /\ UNCHANGED << current_depth, steps, calls, selfdestructs >>

Selfdestruct ==
    /\ frames # << >> /\ Top.doing = "selfdestruct"
    /\ selfdestructs' = Append(selfdestructs, Top.number)
    /\ frames' = Doing("end")
    /\ UNCHANGED << current_depth, steps, calls, logs >>

EvmNext ==
    \/ \E op \in Ops : Step(op)
    \/ \E code \in BOOLEAN : Call(code) \/ Create(code)
    \/ CallEnd \/ CreateEnd \/ Log \/ Selfdestruct

EvmSpec == EvmInit /\ [][EvmNext]_execution

Over == frames = << >> /\ calls # << >>
-----------------------------------------------------------------------------
\* The depth is that of the EVM, 1 in the outermost frame, at every hook: it is
\* never lowered twice for a frame nor forgotten for a frame that failed
\* (inspector.rs:19, 187, 213).
DepthIsFrames == current_depth = Len(frames)

\* The depths alone tell the frames of the steps apart, as the recorders assume
\* of structLogs: two steps are of one frame exactly when they have one depth and
\* no step between them a lower one.
FramesToldByDepth ==
    \A i, j \in DOMAIN steps : i < j =>
        (steps[i].frame = steps[j].frame
            <=> /\ steps[i].depth = steps[j].depth
                /\ \A k \in i..j : steps[k].depth >= steps[i].depth)

\* So whoever reads the steps knows the frame of each, and the depth of the next.
DepthsTellFrames == DepthIsFrames /\ FramesToldByDepth
=============================================================================
