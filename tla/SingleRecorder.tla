---------------------------- MODULE SingleRecorder ----------------------------
(***************************************************************************)
(* record_from_structlog of recorder.rs, the path every CLI recording      *)
(* takes: one contract, "self", whose source map and storage layout are    *)
(* used for every entry, whatever contract executes it.  Each action is    *)
(* one iteration of the loop.                                              *)
(*                                                                         *)
(* The recorder looks one entry ahead (it reads the values of locals from  *)
(* the stack of the next entry), so the depth of the entry about to be     *)
(* processed, `upcoming', is already decided; 0 says the trace has ended.  *)
(***************************************************************************)
EXTENDS Naturals, Sequences, FiniteSets, StructLogs

CONSTANTS
    None,          \* Option::None
    Callees,       \* whom the transaction calls: of {"self", "other"}
    Ops,           \* with which call instructions
    Routines,      \* internal functions it runs: of {"user", "generated"}
    CalleesFail,   \* whether called frames may revert or run out of gas
    Locs,          \* source locations of self: records [line, column]
    Slots,         \* storage slots the layout of self names
    Vals,          \* stored values, 0 among them
    MaxDepth,      \* bound on the nesting of frames
    MaxRoutines,   \* bound on the open internal calls of a frame
    MaxSteps       \* bound on the number of entries

Contract == {"self", "other"}

ASSUME TransactionAssumption ==
    /\ Callees \subseteq Contract
    /\ Ops \subseteq CallOp
    /\ Routines \subseteq {"user", "generated"}
    /\ CalleesFail \in BOOLEAN
ASSUME DataAssumption ==
    /\ None \notin Locs
    /\ Vals \subseteq Nat /\ 0 \in Vals
ASSUME BoundsAssumption ==
    /\ MaxDepth \in Nat \ {0}
    /\ MaxRoutines \in Nat
    /\ MaxSteps \in Nat

VARIABLES
    evm,        \* the live frames: whose code runs, on whose storage
    routines,   \* per frame, the internal functions it is in
    world,      \* the storage of the contracts ...
    saved,      \* ... and what it was when each live frame was entered
    writer,     \* who wrote each slot number last (see Wrote)
    last,       \* the instruction processed last
    upcoming,   \* depth of the next entry, 0 when there is none
    i,          \* index of the next entry
    depth,      \* prev_depth
    trackers,   \* stack_trackers: the entry at which each was created
    absorbed,   \* first_internal_call_absorbed
    nesting,    \* absorbed_call_nesting
    prev_line,  \* the location of the last step, or None
    storage,    \* storage_state: slot -> value, by the names of self's layout
    calls,      \* calls the trace writer has open, outermost first
    out,        \* what the last iteration wrote to the trace
    done        \* finalize was called

evm_vars == <<evm, routines, world, saved, writer, last, upcoming>>
rec_vars == <<i, depth, trackers, absorbed, nesting, prev_line, storage>>
vars == <<evm_vars, rec_vars, calls, out, done>>

Empty == [x \in {} |-> 0]

\* Vec::pop / push, as in MultiRecorder, to the depth of the entry.
GrowTo(s, n, e) ==
    [k \in 1 .. (IF Len(s) < n THEN n ELSE Len(s)) |->
        IF k <= Len(s) THEN s[k] ELSE e]
CutTo(s, n) == [k \in 1 .. (IF n < Len(s) THEN n ELSE Len(s)) |-> s[k]]

\* Mutant of Resized: nothing is popped.
ResizedNoPop(s, d, e) == GrowTo(s, d, e)

Resized(s, d, e) == GrowTo(IF d < depth THEN CutTo(s, d) ELSE s, d, e)

-----------------------------------------------------------------------------
(* The trace writer: register_call and register_return. *)

Opened(cs, kind) == Append(cs, kind)
Closed(cs, n) == CutTo(cs, IF n < Len(cs) THEN Len(cs) - n ELSE 0)

CallsAt(d) ==
    IF d > depth THEN Opened(calls, "frame") ELSE Closed(calls, depth - d)

-----------------------------------------------------------------------------
(* One iteration.  `log.loc' and `log.jump' are what self's source map says *)
(* of the pc, None when it has no location in self's files.                 *)

StepChanged(log) == log.loc # None /\ log.loc # prev_line
LineChanged(log) ==
    StepChanged(log) /\ (prev_line = None \/ prev_line.line # log.loc.line)

Into(log) == log.loc # None /\ log.jump = "i"
OutOf(log) == log.loc # None /\ log.jump = "o"

\* Mutant of NestingAfter: nested calls are not counted.
NestingAfterFlat(log) ==
    CASE Into(log) /\ ~absorbed -> 1
      [] OutOf(log) /\ nesting > 0 -> nesting - 1
      [] OTHER -> nesting

\* The first internal call is taken as the toplevel call itself; the calls
\* nested in it are counted to find the return that matches it.
NestingAfter(log) ==
    CASE Into(log) /\ ~absorbed -> 1
      [] Into(log) /\ absorbed /\ nesting > 0 -> nesting + 1
      [] OutOf(log) /\ nesting > 0 -> nesting - 1
      [] OTHER -> nesting

CallsAfterJump(cs, log) ==
    CASE Into(log) /\ absorbed -> Opened(cs, "routine")
      [] OutOf(log) /\ nesting # 1 -> Closed(cs, 1)
      [] OTHER -> cs

\* A frame that ended in REVERT leaves a RevertCaught event.
Caught(d) == d < depth /\ last = "REVERT"

\* Mutant of Stored: entry(slot).or_insert(val), the first value is kept.
StoredOnce(slot, val) ==
    [s \in DOMAIN storage \cup {slot} |->
        IF s \in DOMAIN storage THEN storage[s] ELSE val]

Stored(slot, val) ==
    [s \in DOMAIN storage \cup {slot} |->
        IF s = slot THEN val ELSE storage[s]]

Process(log) ==
    LET d == log.depth IN
    /\ i' = i + 1
    /\ depth' = d
    /\ trackers' = Resized(trackers, d, i)
    /\ absorbed' = (absorbed \/ Into(log))
    /\ nesting' = NestingAfter(log)
    /\ prev_line' = IF StepChanged(log) THEN log.loc ELSE prev_line
    /\ storage' = IF log.op = "SSTORE" THEN Stored(log.slot, log.val)
                  ELSE storage
    /\ calls' = CallsAfterJump(CallsAt(d), log)
    /\ out' = [caught |-> Caught(d),
               shown |-> IF LineChanged(log) THEN storage ELSE Empty,
               locals_of |-> IF log.loc # None THEN upcoming' ELSE 0]
    /\ last' = log.op
    /\ UNCHANGED done

-----------------------------------------------------------------------------
(* The transaction. *)

\* The depth of the entry after `op' at depth d.
Follows(op, d) ==
    {n \in NextDepths(op, d) :
        /\ n <= MaxDepth
        /\ ~CalleesFail /\ n < d => op = "RETURN"}
    \cup (IF d = 1 THEN {0} ELSE {})

EvmAt(d, to) ==
    IF d > depth THEN Append(evm, Callee(evm[depth], last, to))
    ELSE CutTo(evm, d)
RoutinesAt(d) == Resized(routines, d, <<>>)

\* A frame that failed takes its writes back, and those of the frames it
\* called.
WorldAt(d) ==
    IF d < depth /\ last # "RETURN" THEN saved[d + 1] ELSE world
SavedAt(d) == IF d > depth THEN Append(saved, world) ELSE CutTo(saved, d)

\* Of the last write of each slot number: the account, and the depth of the
\* outermost live frame whose failure takes it back, 0 once that happened.  A
\* frame that returns leaves its writes to its caller.
Wrote(owner, at) == [owner |-> owner, at |-> at]
WriterAt(d) ==
    [s \in DOMAIN writer |->
        IF writer[s].at <= d THEN writer[s]
        ELSE Wrote(writer[s].owner, IF last = "RETURN" THEN d ELSE 0)]
WriterAfter(d, op, owner, slot) ==
    [s \in DOMAIN writer \cup (IF op = "SSTORE" THEN {slot} ELSE {}) |->
        IF op = "SSTORE" /\ s = slot THEN Wrote(owner, d) ELSE WriterAt(d)[s]]

InGenerated(rs) == rs # <<>> /\ rs[Len(rs)] = "generated"

\* The pcs of another contract's code have whatever location and jump type
\* self's source map gives to that number.
LocsAt(live, rs) ==
    IF live.code # "self" THEN Locs \cup {None}
    ELSE IF InGenerated(rs) THEN {None}
    ELSE Locs
Jumps(live, jump) == IF live.code # "self" THEN {"i", "o", "-"} ELSE {jump}

LogEntry(d, op, loc, jump) ==
    [depth |-> d, op |-> op, loc |-> loc, jump |-> jump, slot |-> None,
     val |-> None]

\* Whom a new frame belongs to, decided as it is entered.
Target == IF upcoming > depth
          THEN {to \in Callees : last \in CreateOp => to = "other"}
          ELSE {"self"}

Live == ~done /\ upcoming > 0 /\ i < MaxSteps

\* An instruction `op' with its effect on the internal functions and on the
\* storage of the frame it runs in.
Instruction(op, to, jump, slot, val, internal) ==
    LET d == upcoming
        live == EvmAt(d, to)[d]
        rs == RoutinesAt(d)
    IN
    /\ upcoming' \in Follows(op, d)
    /\ evm' = EvmAt(d, to)
    /\ saved' = SavedAt(d)
    /\ routines' = [rs EXCEPT ![d] = internal]
    /\ world' = IF op = "SSTORE"
                THEN [WorldAt(d) EXCEPT ![live.owner][slot] = val]
                ELSE WorldAt(d)
    /\ writer' = WriterAfter(d, op, live.owner, slot)
    /\ \E loc \in LocsAt(live, rs[d]), j \in Jumps(live, jump) :
          Process([LogEntry(d, op, loc, j) EXCEPT !.slot = slot, !.val = val])

Here == RoutinesAt(upcoming)[upcoming]

Execute == \E to \in Target : Instruction("OTHER", to, "-", None, None, Here)

Halt ==
    \E to \in Target, op \in HaltOp :
        /\ op = "REVERT" /\ upcoming > 1 => CalleesFail
        /\ Instruction(op, to, "-", None, None, Here)

CallInstruction ==
    \E to \in Target, op \in Ops : Instruction(op, to, "-", None, None, Here)

EnterRoutine ==
    \E to \in Target, r \in Routines :
        /\ Len(Here) < MaxRoutines
        /\ InGenerated(Here) => r = "generated"
        /\ Instruction("JUMP", to, "i", None, None, Append(Here, r))

LeaveRoutine ==
    \E to \in Target :
        /\ Here # <<>>
        /\ Instruction("JUMP", to, "o", None, None, CutTo(Here, Len(Here) - 1))

\* The names of slots and the snapshots of compounds are in StorageVariables.
Store ==
    \E to \in Target, slot \in Slots, val \in Vals :
        Instruction("SSTORE", to, "-", slot, val, Here)

\* finalize, after the loop has seen the last entry.
Finalize ==
    /\ ~done /\ i > 0 /\ upcoming = 0
    /\ calls' = Closed(calls, 1)
    /\ done' = TRUE
    /\ UNCHANGED <<evm_vars, rec_vars, out>>

-----------------------------------------------------------------------------
Init ==
    /\ evm = <<[code |-> "self", owner |-> "self", via |-> "NONE"]>>
    /\ routines = << <<>> >>
    /\ world = [c \in Contract |-> [s \in Slots |-> 0]]
    /\ saved = <<world>>
    /\ writer = Empty
    /\ last = "NONE"
    /\ upcoming = 1
    /\ i = 0
    /\ depth = 1
    /\ trackers = <<>>
    /\ absorbed = FALSE
    /\ nesting = 0
    /\ prev_line = None
    /\ storage = Empty
    /\ calls = <<"toplevel">>
    /\ out = [caught |-> FALSE, shown |-> Empty, locals_of |-> 0]
    /\ done = FALSE

Next ==
    \/ Live /\ \/ Execute
               \/ Halt
               \/ CallInstruction
               \/ EnterRoutine
               \/ LeaveRoutine
               \/ Store
    \/ Finalize

Spec == Init /\ [][Next]_vars

-----------------------------------------------------------------------------
(* Properties *)

Storage == [Contract -> [Slots -> Vals]]

\* Types of the state: absorbed_call_nesting never falls below 0, and what is
\* carried forward maps slots to values.
TypeOK ==
    /\ evm \in Seq([code : Contract, owner : Contract,
                    via : CallOp \cup {"NONE"}])
    /\ routines \in Seq(Seq({"user", "generated"}))
    /\ world \in Storage /\ saved \in Seq(Storage)
    /\ DOMAIN writer = DOMAIN storage
    /\ \A s \in DOMAIN writer : writer[s] \in [owner : Contract, at : 0..MaxDepth]
    /\ last \in CallOp \cup HaltOp \cup {"NONE", "OTHER", "JUMP", "SSTORE"}
    /\ upcoming \in 0..MaxDepth
    /\ i \in Nat
    /\ depth \in 1..MaxDepth
    /\ trackers \in Seq(Nat)
    /\ absorbed \in BOOLEAN
    /\ nesting \in Nat
    /\ prev_line \in Locs \cup {None}
    /\ storage \in [DOMAIN storage -> Vals] /\ DOMAIN storage \subseteq Slots
    /\ calls \in Seq({"toplevel", "frame", "routine"})
    /\ out.caught \in BOOLEAN /\ out.locals_of \in 0..MaxDepth
    /\ done \in BOOLEAN

\* While the absorbed call is open, absorbed_call_nesting is the number of calls
\* the trace has open beside those of the live frames, so the return that takes
\* it to 0 is the one for which no call was registered; and then, as before,
\* every live frame still has its call open, the toplevel one included.  Frames
\* that end inside internal functions, and generated routines whose return has
\* no location, leave the two equal.
NestingCountsCalls ==
    ~done =>
        /\ nesting > 0 => absorbed /\ Len(calls) = depth + nesting - 1
        /\ nesting = 0 => Len(calls) >= depth
        /\ calls[1] = "toplevel"

\* A new frame gets a new tracker: none is taken over from an earlier frame of
\* the same depth, and those of the frames below are kept.
FreshTrackerPerFrame ==
    [][/\ Len(trackers') = depth' \/ done'
       /\ depth' > depth => trackers'[depth'] = i
       /\ \A d \in 1..Len(trackers) : d <= depth' => trackers'[d] = trackers[d]]_vars

\* A value carried forward for a slot of the contract is the one its storage
\* holds, through calls, delegate calls, frames that fail and calls of other
\* contracts, unless the last write of the slot's number was taken back with its
\* frame or a caller's, or went to another account: nothing else, and no write
\* but the last one of that very number, moves the two apart, and the next write
\* that stands brings them together again (see CarriedIsVariable).
CarriedStands ==
    \A s \in DOMAIN storage :
        writer[s].owner = "self" /\ writer[s].at > 0
        => storage[s] = world["self"][s]

-----------------------------------------------------------------------------
(* What the comments of the code say, and it does not do. *)

\* "To make storage variables visible in the debugger at every subsequent
\* step, we cache the last written value per variable name": what is shown for
\* a variable is the value it has, also when a callee failed.
CarriedIsVariable ==
    upcoming = depth => \A s \in DOMAIN storage : storage[s] = world["self"][s]

=============================================================================
