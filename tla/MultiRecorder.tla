----------------------------- MODULE MultiRecorder -----------------------------
(***************************************************************************)
(* record_from_structlog_multi_contract of recorder.rs: one iteration of   *)
(* its loop per action, with the call tree, the artifact lookup and the    *)
(* stack of open calls the trace writer keeps.                             *)
(*                                                                         *)
(* An iteration first follows the depth of the entry (enter or leave a     *)
(* frame, using the instruction of the entry before), then resolves the    *)
(* artifacts of the current frame, registers a step, follows the jump type *)
(* of the source map, and handles KECCAK256 and SSTORE.  `evm', `routines' *)
(* and `last' are the transaction itself, which the recorder sees only     *)
(* through the entries; everything else is the recorder's.                 *)
(***************************************************************************)
EXTENDS Naturals, Sequences, FiniteSets, StructLogs

CONSTANTS
    Addr,             \* the contracts of the transaction
    Zero,             \* Address::ZERO
    None,             \* Option::None
    Entry,            \* contract_address, the target of the transaction
    Registered,       \* the addresses the registry knows
    DefaultAddress,   \* its default address, or None
    Ops,              \* the call instructions the transaction uses
    Locs,             \* source locations: records [line, column]
    Slots,            \* storage slots
    Derived,          \* those of them that are keccak256(key, base): mappings
    Vals,             \* stored values
    MaxDepth,         \* bound on the nesting of frames
    MaxRoutines,      \* bound on the open internal calls of a frame
    MaxSteps          \* bound on the number of entries

ASSUME AddrAssumption ==
    /\ Entry \in Addr
    /\ Registered \subseteq Addr
    /\ DefaultAddress \in Addr \cup {None}
    /\ Zero \notin Addr
    /\ None \notin Addr \cup {Zero} \cup Locs
ASSUME OpsAssumption == Ops \subseteq CallOp
ASSUME SlotsAssumption == Derived \subseteq Slots
ASSUME BoundsAssumption ==
    /\ MaxDepth \in Nat \ {0}
    /\ MaxRoutines \in Nat
    /\ MaxSteps \in Nat

VARIABLES
    evm,        \* the live frames: whose code runs, on whose storage
    routines,   \* per frame, the internal functions it is in
    last,       \* the entry processed last: its instruction and call target
    i,          \* index of the next entry
    depth,      \* prev_depth
    frames,     \* frame_stack
    nodes,      \* the nodes of call_tree ...
    path,       \* ... and its path
    trackers,   \* stack_trackers: the tree node each was created for
    storage,    \* storage_states: per depth, the variables carried forward
    mapped,     \* mapping_slot_names_per_frame: per depth, the named slots
    prev_line,  \* the location of the last step, or None
    calls,      \* calls the trace writer has open, outermost first
    out,        \* what the last iteration wrote to the trace
    done        \* finalize was called

evm_vars == <<evm, routines, last>>
frame_vars == <<depth, frames, nodes, path, trackers>>
data_vars == <<storage, mapped, prev_line>>
vars == <<evm_vars, i, frame_vars, data_vars, calls, out, done>>

AnyAddr == Addr \cup {Zero}
NoLog == [op |-> "NONE", to |-> None]

Tree == INSTANCE CallTree WITH Addr <- AnyAddr, Root <- Entry, now <- i
Artifacts == INSTANCE ContractRegistry

registry == Artifacts!NewRegistry(Registered, DefaultAddress)

-----------------------------------------------------------------------------
(* Frames *)

\* The frame pushed when the depth rises, from the instruction before.
FrameContext(op, to) ==
    [address |-> IF op \in CreateOp THEN Zero ELSE to,
     is_delegate |-> op = "DELEGATECALL",
     delegate_proxy |-> IF op = "DELEGATECALL"
                        THEN frames[Len(frames)].address ELSE None]

CallTypeOf(op) ==
    CASE op \in {"CALL", "CALLCODE"} -> "Call"
      [] op = "DELEGATECALL" -> "DelegateCall"
      [] op = "STATICCALL" -> "StaticCall"
      [] op = "CREATE" -> "Create"
      [] op = "CREATE2" -> "Create2"

\* Mutant of ViewOf: implementation and proxy swapped.
ViewOfSwapped(frame) ==
    IF frame.is_delegate
    THEN Artifacts!GetDelegatecall(registry, frame.delegate_proxy, frame.address)
    ELSE LET found == Artifacts!Get(registry, frame.address)
             used == IF found # None THEN found
                     ELSE Artifacts!Get(registry, Entry)
         IN  [code |-> used, layout |-> used]

\* What an entry of a frame is decoded with.  A frame of an unknown contract
\* uses the artifacts of the entry point.
ViewOf(frame) ==
    IF frame.is_delegate
    THEN Artifacts!GetDelegatecall(registry, frame.address, frame.delegate_proxy)
    ELSE LET found == Artifacts!Get(registry, frame.address)
             used == IF found # None THEN found
                     ELSE Artifacts!Get(registry, Entry)
         IN  [code |-> used, layout |-> used]

\* `while len < n push(e)', and `pop' as often as the depth dropped to n, the
\* first element being kept.
GrowTo(s, n, e) ==
    [k \in 1 .. (IF Len(s) < n THEN n ELSE Len(s)) |->
        IF k <= Len(s) THEN s[k] ELSE e]
CutTo(s, n) == [k \in 1 .. (IF n < Len(s) THEN n ELSE Len(s)) |-> s[k]]

\* Every vector with an element per frame is resized this way, in the same places
\* and under the same conditions: the memory trackers like the stack trackers, the
\* values by slot like the snapshots. Those two are no variables here, their lengths
\* would repeat the others'.
\*
\* Mutants of Resized: nothing is popped; everything is cleared on a return.
ResizedNoPop(s, d, e) == GrowTo(s, d, e)
ResizedClears(s, d, e) ==
    IF d < depth THEN [k \in 1..d |-> e] ELSE GrowTo(s, d, e)

Resized(s, d, e) == GrowTo(IF d < depth THEN CutTo(s, d) ELSE s, d, e)

Empty == [x \in {} |-> None]

-----------------------------------------------------------------------------
(* The state after the depth of the entry, d, has been followed. *)

FramesAt(d) ==
    IF d > depth THEN Append(frames, FrameContext(last.op, last.to))
    ELSE CutTo(frames, d)

\* Mutants of NodesAt: no exit_call; enter_call with the entry after.
NodesAtNoExit(d) ==
    IF d > depth
    THEN Tree!NodesEntered(nodes, path, FrameContext(last.op, last.to).address,
                           CallTypeOf(last.op), i)
    ELSE nodes
NodesAtLate(d) ==
    IF d > depth
    THEN Tree!NodesEntered(nodes, path, FrameContext(last.op, last.to).address,
                           CallTypeOf(last.op), i + 1)
    ELSE Tree!NodesExited(nodes, path, depth - d, i)

NodesAt(d) ==
    IF d > depth
    THEN Tree!NodesEntered(nodes, path, FrameContext(last.op, last.to).address,
                           CallTypeOf(last.op), i)
    ELSE Tree!NodesExited(nodes, path, depth - d, i)

PathAt(d) ==
    IF d > depth THEN Tree!PathEntered(nodes, path)
    ELSE Tree!PathExited(path, depth - d)

\* Mutant of PrevLineAt: only a call forgets the location.
PrevLineAtKept(d) == IF d <= depth THEN prev_line ELSE None

PrevLineAt(d) == IF d = depth THEN prev_line ELSE None

\* register_return with nothing open has nothing to close.
Closed(cs, n) == CutTo(cs, IF n < Len(cs) THEN Len(cs) - n ELSE 0)

\* register_call for a new frame, one register_return for each frame left.
CallsAt(d) ==
    IF d > depth
    THEN Append(calls, [kind |-> "frame", of |-> Len(nodes) + 1])
    ELSE Closed(calls, depth - d)

-----------------------------------------------------------------------------
(* One iteration for the entry `log': its depth, its instruction, the      *)
(* source location and the jump type its pc has in the source map in use   *)
(* (None and "-" without one), the slot and value of an SSTORE and the     *)
(* slot a KECCAK256 derives.                                               *)

StepChanged(log) == log.loc # None /\ log.loc # PrevLineAt(log.depth)
LineChanged(log) ==
    /\ StepChanged(log)
    /\ \/ PrevLineAt(log.depth) = None
       \/ PrevLineAt(log.depth).line # log.loc.line

\* Mutant of CallsAfterJump: a return is registered without a location too.
CallsAfterJumpAnywhere(cs, log, node) ==
    CASE log.loc # None /\ log.jump = "i" ->
              Append(cs, [kind |-> "routine", of |-> node])
      [] log.jump = "o" -> Closed(cs, 1)
      [] OTHER -> cs

\* register_call / register_return for an internal function.
CallsAfterJump(cs, log, node) ==
    CASE log.loc # None /\ log.jump = "i" ->
              Append(cs, [kind |-> "routine", of |-> node])
      [] log.loc # None /\ log.jump = "o" -> Closed(cs, 1)
      [] OTHER -> cs

\* The name of a slot: by the layout, or by the mapping cache of the frame
\* (which only fills under a layout), or storage[n].
NameOf(view, names, slot) ==
    [layout |-> IF slot \in Derived /\ slot \notin names THEN None
                ELSE view.layout,
     slot |-> slot]

\* Mutant of Stored: keyed by the slot.
StoredBySlot(carried, name, val) ==
    [x \in DOMAIN carried \cup {name.slot} |->
        IF x = name.slot THEN val ELSE carried[x]]

Stored(carried, name, val) ==
    [x \in DOMAIN carried \cup {name} |->
        IF x = name THEN val ELSE carried[x]]

Process(log) ==
    LET d == log.depth
        fs == FramesAt(d)
        p == PathAt(d)
        view == ViewOf(fs[Len(fs)])
        ss == Resized(storage, d, Empty)
        ms == Resized(mapped, d, {})
        wrote == IF log.op = "SSTORE" THEN NameOf(view, ms[d], log.slot) ELSE None
    IN
    /\ i' = i + 1
    /\ depth' = d
    /\ frames' = fs
    /\ nodes' = NodesAt(d)
    /\ path' = p
    /\ trackers' = Resized(trackers, d, p[Len(p)])
    /\ prev_line' = IF StepChanged(log) THEN log.loc ELSE PrevLineAt(d)
    /\ calls' = CallsAfterJump(CallsAt(d), log, p[Len(p)])
    /\ mapped' = IF log.op = "KECCAK256" /\ view.layout # None
                 THEN [ms EXCEPT ![d] = @ \cup {log.slot}] ELSE ms
    /\ storage' = IF log.op = "SSTORE"
                  THEN [ss EXCEPT ![d] = Stored(@, wrote, log.val)] ELSE ss
    /\ out' = [entered |-> d > depth,
               site |-> PrevLineAt(d),
               step |-> IF StepChanged(log) THEN view.code ELSE None,
               shown |-> IF LineChanged(log) THEN ss[d] ELSE Empty,
               wrote |-> wrote]
    /\ last' = [op |-> log.op, to |-> log.to]
    /\ UNCHANGED done

-----------------------------------------------------------------------------
(* The entries that can come next. *)

NextDepth ==
    IF i = 0 THEN {1}
    ELSE {d \in NextDepths(last.op, depth) : d <= MaxDepth}

\* The live frames, and the internal functions they are in, at the next entry.
EvmAt(d) ==
    IF d > depth THEN Append(evm, Callee(evm[depth], last.op, last.to))
    ELSE CutTo(evm, d)
RoutinesAt(d) == Resized(routines, d, <<>>)

\* The code that runs is not the code whose source map is read: what the map
\* says of a pc is then arbitrary.
Foreign(d) ==
    LET fs == FramesAt(d)  live == EvmAt(d)[d] IN
    \/ ViewOf(fs[Len(fs)]).code # live.code
    \/ live.via \in CreateOp

InGenerated(rs) == rs # <<>> /\ rs[Len(rs)] = "generated"

\* Entries of a contract have a source location, unless no source map is in
\* use or they belong to compiler-generated routines (ABI coding, checks),
\* whose source is not one of the contract's files.
LocsAt(d) ==
    LET fs == FramesAt(d) IN
    IF ViewOf(fs[Len(fs)]).code = None THEN {None}
    ELSE IF Foreign(d) THEN Locs \cup {None}
    ELSE IF InGenerated(RoutinesAt(d)[d]) THEN {None}
    ELSE Locs

Jumps(d, jump) == IF Foreign(d) THEN {"i", "o", "-"} ELSE {jump}

LogEntry(d, op, loc, jump) ==
    [depth |-> d, op |-> op, to |-> None, loc |-> loc, jump |-> jump,
     slot |-> None, val |-> None]

Live == ~done /\ i < MaxSteps

\* An instruction that is none of the ones below.
Execute(d) ==
    \E loc \in LocsAt(d), jump \in Jumps(d, "-") :
        /\ Process(LogEntry(d, "OTHER", loc, jump))
        /\ evm' = EvmAt(d)
        /\ routines' = RoutinesAt(d)

\* The end of a frame.  The loop makes no difference between RETURN and REVERT.
Halt(d) ==
    \E loc \in LocsAt(d), jump \in Jumps(d, "-") :
        /\ Process(LogEntry(d, "RETURN", loc, jump))
        /\ evm' = EvmAt(d)
        /\ routines' = RoutinesAt(d)

\* A call or create instruction.  Whether a frame is entered shows in the
\* depth of the next entry.
CallInstruction(d) ==
    \E loc \in LocsAt(d), jump \in Jumps(d, "-"), op \in Ops, to \in Addr :
        /\ Process([LogEntry(d, op, loc, jump) EXCEPT !.to = to])
        /\ evm' = EvmAt(d)
        /\ routines' = RoutinesAt(d)

\* The jump into an internal function, of the contract's sources or generated.
\* A generated routine calls only generated ones.
EnterRoutine(d) ==
    \E loc \in LocsAt(d), jump \in Jumps(d, "i"), r \in {"user", "generated"} :
        /\ Len(RoutinesAt(d)[d]) < MaxRoutines
        /\ InGenerated(RoutinesAt(d)[d]) => r = "generated"
        /\ Process(LogEntry(d, "JUMP", loc, jump))
        /\ evm' = EvmAt(d)
        /\ routines' = [RoutinesAt(d) EXCEPT ![d] = Append(@, r)]

\* The jump back out of it.
LeaveRoutine(d) ==
    \E loc \in LocsAt(d), jump \in Jumps(d, "o") :
        /\ RoutinesAt(d)[d] # <<>>
        /\ Process(LogEntry(d, "JUMP", loc, jump))
        /\ evm' = EvmAt(d)
        /\ routines' = [RoutinesAt(d) EXCEPT ![d] = CutTo(@, Len(@) - 1)]

\* keccak256(key, base slot): the slot of a mapping element.
Derive(d) ==
    \E loc \in LocsAt(d), jump \in Jumps(d, "-"), slot \in Derived :
        /\ Process([LogEntry(d, "KECCAK256", loc, jump) EXCEPT !.slot = slot])
        /\ evm' = EvmAt(d)
        /\ routines' = RoutinesAt(d)

\* Up to the value carried forward: the snapshot of the compound around it is in
\* StorageVariables.
Store(d) ==
    \E loc \in LocsAt(d), jump \in Jumps(d, "-"), slot \in Slots, val \in Vals :
        /\ Process([LogEntry(d, "SSTORE", loc, jump) EXCEPT !.slot = slot,
                                                          !.val = val])
        /\ evm' = EvmAt(d)
        /\ routines' = RoutinesAt(d)

\* finalize, when the transaction has ended: the outermost frame returned or
\* failed.
Finalize ==
    /\ ~done /\ i > 0 /\ depth = 1
    /\ calls' = Closed(calls, 1)
    /\ done' = TRUE
    /\ UNCHANGED <<evm_vars, i, frame_vars, data_vars, out>>

-----------------------------------------------------------------------------
\* Initialisation, with the toplevel call TraceWriter::start opens.
Init ==
    /\ evm = <<[code |-> Entry, owner |-> Entry, via |-> "NONE"]>>
    /\ routines = << <<>> >>
    /\ last = NoLog
    /\ i = 0
    /\ depth = 1
    /\ frames = <<[address |-> Entry, is_delegate |-> FALSE,
                   delegate_proxy |-> None]>>
    /\ nodes = Tree!NewNodes(Entry)
    /\ path = Tree!NewPath
    /\ trackers = <<>>
    /\ storage = <<Empty>>
    /\ mapped = << {} >>
    /\ prev_line = None
    /\ calls = <<[kind |-> "toplevel", of |-> 0]>>
    /\ out = [entered |-> FALSE, site |-> None, step |-> None,
              shown |-> Empty, wrote |-> None]
    /\ done = FALSE

Next ==
    \/ Live /\ \E d \in NextDepth :
          \/ Execute(d)
          \/ Halt(d)
          \/ CallInstruction(d)
          \/ EnterRoutine(d)
          \/ LeaveRoutine(d)
          \/ Derive(d)
          \/ Store(d)
    \/ Finalize

Spec == Init /\ [][Next]_vars

-----------------------------------------------------------------------------
(* Properties *)

Name == [layout : AnyAddr \cup {None}, slot : Slots]
IsCarried(f) == f \in [DOMAIN f -> Vals] /\ DOMAIN f \subseteq Name

\* Types of the state: what each frame carries forward maps names to values, the
\* named slots are mapping elements, and every open call is a call of some node.
TypeOK ==
    /\ evm \in Seq([code : Addr, owner : Addr, via : CallOp \cup {"NONE"}])
    /\ routines \in Seq(Seq({"user", "generated"}))
    /\ last \in [op : CallOp \cup HaltOp \cup {"NONE", "OTHER", "JUMP",
                                            "KECCAK256", "SSTORE"},
                 to : Addr \cup {None}]
    /\ i \in Nat
    /\ depth \in Nat \ {0}
    /\ frames \in Seq([address : AnyAddr, is_delegate : BOOLEAN,
                       delegate_proxy : AnyAddr \cup {None}])
    /\ trackers \in Seq(Nat)
    /\ storage = [d \in 1..Len(storage) |-> storage[d]]
    /\ \A d \in 1..Len(storage) : IsCarried(storage[d])
    /\ mapped \in Seq(SUBSET Derived)
    /\ prev_line \in Locs \cup {None}
    /\ calls \in Seq([kind : {"toplevel", "frame", "routine"}, of : Nat])
    /\ done \in BOOLEAN

\* The vectors the loop indexes by depth - 1, the frame stack and the path of
\* the call tree all describe the live frames of the transaction, one element
\* per frame, and each tracker was created for the frame it serves (none is
\* inherited from an earlier frame of the same depth).
VectorsAligned ==
    /\ Len(evm) = depth /\ Len(routines) = depth
    /\ Len(frames) = depth /\ Len(path) = depth
    /\ Len(storage) = depth /\ Len(mapped) = depth
    /\ i > 0 => trackers = path
    /\ i = 0 => trackers = <<>>

\* The source map behind a step belongs to the contract whose code executed,
\* when that contract is registered and its frame is no creation.
StepsUseExecutedCode ==
    LET live == evm[Len(evm)] IN
    (out.step # None /\ live.code \in Registered /\ live.via \notin CreateOp)
        => out.step = live.code

\* A storage write is named by the layout of the account that is written,
\* when that account is registered: through CALL and STATICCALL frames, and
\* through a DELEGATECALL from a frame that is none itself.
Plain ==
    \A k \in 2..Len(evm) :
        /\ evm[k].via \in {"CALL", "STATICCALL", "DELEGATECALL"}
        /\ evm[k].via = "DELEGATECALL" => evm[k-1].via # "DELEGATECALL"
WritesNamedByOwner ==
    LET live == evm[Len(evm)] IN
    (/\ out.wrote # None
     /\ Plain
     /\ live.code \in Registered /\ live.owner \in Registered
     /\ out.wrote.slot \in Derived => out.wrote.layout # None)
        => out.wrote.layout = live.owner

\* The depth of an entry can be read off the tree: as many ranges hold the
\* entry processed last as its depth says.
RangesCoverDepth ==
    i > 0 => Cardinality({n \in 1..Len(nodes) : Tree!Covers(n, i - 1)}) = depth

\* No call is closed in the trace while it still runs: the toplevel call, the
\* live frames and the open internal functions of the contracts' sources all
\* have a call open.  (The trace may have more open, those of frames that ended
\* inside functions.)
UserRoutines ==
    UNION {{<<d, k>> : k \in {k \in 1..Len(routines[d]) : routines[d][k] = "user"}} :
           d \in 1..Len(routines)}
NoCallClosedEarly ==
    ~done => /\ Len(calls) >= depth + Cardinality(UserRoutines)
             /\ calls[1].kind = "toplevel"

\* What a frame carries forward is its own: an entry of one frame leaves the
\* values of the frames below alone, a return finds the values the frame had
\* when it called, and a new frame starts with nothing, whatever earlier
\* frames of its depth wrote.
FrameIsolation ==
    [][/\ \A d \in 1..depth' - 1 :
             d <= depth => storage'[d] = storage[d] /\ mapped'[d] = mapped[d]
       /\ depth' < depth =>
             DOMAIN storage[depth'] \subseteq DOMAIN storage'[depth']
       /\ out'.entered =>
             /\ out'.shown = Empty
             /\ DOMAIN storage'[depth'] \subseteq {out'.wrote}]_vars

\* A location is compared with the last step only if that step was in the same
\* visit of the same frame: file indices of two contracts may coincide.
SwitchesStepAgain ==
    [][depth' # depth => (prev_line' # None <=> out'.step # None)]_vars

\* The recorder builds the call tree as call_tree.rs promises it: every
\* iteration enters a frame, leaves some, or stays.
ImplementsCallTree == Tree!Spec

-----------------------------------------------------------------------------
(* What the comments of the code say, and it does not do. *)

\* The call of a new frame is registered at the caller's location: "Use the
\* source paths from the *caller* frame (still at prev_depth)."
CallSiteIsCallers ==
    [][(out'.entered /\ prev_line # None) => out'.site = prev_line]_vars

\* DelegateCallView: "Storage layout comes from the *proxy* contract (the
\* storage context)."
DelegateLayoutIsStorageContext ==
    LET live == evm[Len(evm)] IN
    (/\ out.wrote # None
     /\ live.via = "DELEGATECALL"
     /\ live.owner \in Registered
     /\ out.wrote.slot \notin Derived)
        => out.wrote.layout = live.owner

=============================================================================
