# TLA+ verification of the EVM recorder

Models of the Rust program under `src/src` that turns an EVM transaction into a
CodeTracer trace, TLC configurations that check them on small instances, and
proofs checked by TLAPS. Paths below are relative to the repository (`src/...`).

Run TLC with `tlc -config X.cfg M.tla`, the proofs with `tlapm M.tla`.

## 1. The system

The recorder takes the *structLogs* of a transaction (one entry per executed
instruction: depth, pc, opcode, stack, memory) and the artifacts of the
contracts (source maps, storage layouts, ASTs, from `solc`) and writes steps,
variables, calls and returns through an external trace writer. Two things are
hard. The first is *correspondence*: about ten pieces of state (frame stack, call
tree, per-depth vectors, symbolic stack, caches, open calls) must stay in step
with EVM frames which the recorder never sees, only guesses from the depth and
the opcode of consecutive entries, along any sequence of calls, delegate calls,
creations, reverts and failures. The second is what goes on *around* the
recorder: other processes (solc, a node, a file system, a user who edits) that
fail or change between any two steps of the command.

| component | source | state it keeps | operations | what makes it correct |
|---|---|---|---|---|
| call tree | `call_tree.rs` | tree of nodes with ranges, path to the current one | `enter_call`, `exit_call` | ranges nest, siblings are disjoint, closed ranges are final, open means live |
| contract registry | `contract_registry.rs` | artifacts by address, default | `register`, `get`, `get_delegatecall` | code from the implementation, layout from the storage context |
| multi-contract recorder | `recorder.rs` 1223-1961 | frame stack, call tree, trackers, storage and mapping caches per depth, `prev_line`, `prev_depth` | one loop iteration per entry, `finalize` | state of a frame is the frame's own; steps and writes are decoded by the right contract; calls are not closed early |
| single-contract recorder | `recorder.rs` 474-1204 | trackers, `storage_state`, absorbed first call and its nesting | one loop iteration per entry, `finalize` | nesting counts calls, carried values are those in storage |
| stack tracker | `stack_tracker.rs` | label per stack slot | `process_step`, `reset`, `seed_top_labels`, `get_variable_value` | a label stands at the slot of its variable |
| memory tracker | `memory_tracker.rs` | cached free memory pointer, regions | `process_step`, `region`, `reset` | a region is the object of its variable |
| storage names | `storage_layout.rs`, `recorder.rs` 42-107, 964-1132 | names of computed slots, written slots, carried values | lookups, KECCAK256, SSTORE | one name, the right one, per slot; snapshots are what was written |
| source map | `source_map.rs`, `recorder.rs` 294-424 | parsed entries, pc index; line tables given to the writer | `parse`, `resolve_pc`, `get_entry_for_pc`, `ensure_path_with_line_lengths` | a pc is shown where solc says; a path has its table before its first step |
| AST | `solidity_ast.rs` | functions and variables (immutable) | `from_combined_json`, `function_at`, `vars_in_scope_at`, `qualified_function_name` | every variable in scope is listed; names tell contracts apart |
| inspector | `inspector.rs` | logs of hooks, `current_depth` | a hook per instruction, call, creation, end, log | the depth is the EVM's |
| replay | `replay.rs` | transaction, block, forked database | three requests, earlier transactions, the target | the transaction asked for, on the state it was executed on |
| record command | `main.rs`, `trace_fetcher.rs` | output directory, spawned node, child processes | the steps of `record` and `record_yul` | no half-written result passes for a recording; a copy belongs to its trace |
| source fetcher | `source_fetcher.rs` | none | parse an answer, compile, pick a contract | what can be recorded is |
| Yul, revert decoding | `yul_compile.rs`, `revert_decode.rs` | none | map of an assembly; reason of a revert | bounds, labels |

How they interact: `main.rs` gets the entries from the node (`trace_fetcher.rs`)
or from revm (`inspector.rs` under `replay.rs`), builds the artifacts and calls a
recorder. A recorder, for each entry, follows the depth (call tree, frame stack,
vectors, trace calls), asks the registry or its one source map for the location
and jump type of the pc, registers a step and the values carried forward, drives
the stack and memory trackers and reads locals through them, registers internal
calls from jump types, and names storage writes. The trackers, the call tree and
the registry are only ever called from the loop.

Hard behaviours: frames that end in the middle of internal functions; several
frames of the same depth one after the other; delegate frames, whose code and
storage belong to different contracts; creations, whose address is unknown;
calls to contracts nobody registered; writes of frames that revert;
compiler-generated routines, which have no source location; values read one
entry ahead, across the boundary of a frame; a chain that is reorganised between
two requests; a command that fails, is killed or meets an edited file at any
step, and is run again in the same directory.

## 2. Modules

`PROJECT.json` maps each definition to the lines it stands for.

The recorder and what it drives:

* **CallTree** - `call_tree.rs`. The tree is a sequence of nodes naming their
  parent, in creation order (the code nests vectors of children and keeps child
  indices in `path`; the children of a node in creation order are recovered from
  the parent field). `Enter`, `Exit(drop)`, `Stay` are the three things an
  iteration of a recorder does with it. It serves as the abstract specification
  the recorder is shown to implement.
* **ContractRegistry** - the two lookups, over artifacts named by the address
  they were registered under.
* **StructLogs** (external) - which depth may follow which opcode, and whose code
  and storage a new frame has. This is the EVM, not the repository.
* **MultiRecorder** - `record_from_structlog_multi_contract`. `Process(log)` is a
  whole iteration in the order of the code: frame change (`FramesAt`, `NodesAt`,
  `PathAt`, `CallsAt`, `Resized` vectors, `PrevLineAt`), artifact lookup
  (`ViewOf`), step, jump (`CallsAfterJump`), KECCAK256 and SSTORE. The actions
  `Execute`, `Halt`, `CallInstruction`, `EnterRoutine`, `LeaveRoutine`, `Derive`,
  `Store` choose the entry; `Finalize` is `finalize`. `evm`, `routines` and `last`
  are the transaction; of these the recorder's own definitions read only `last`,
  the instruction of the previous entry and its call target. Where the source map
  in use is not that of the running code (`Foreign`), location and jump type are
  arbitrary. The memory trackers and the values by slot are resized where the stack
  trackers and the snapshots are (`recorder.rs` 1443-1480), and have no variables of
  their own. `Store` ends where the value is carried forward: the snapshot of the
  compound it is part of (1883-1909) is the one of StorageVariables.
* **SingleRecorder** - `record_from_structlog`, the path of the CLI. One contract
  `self` whose source map and layout decode every entry. It adds what the other
  path lacks: the absorbed first internal call, caught reverts and one entry of
  look-ahead (`upcoming`), and models the storage itself with its rollback when a
  frame fails (`world`, `saved`), and who wrote each carried value, in which frame
  (`writer`). A slot is its own name; names and compounds are in StorageVariables.
* **StackTracker** - `process_step` as an operator over label sequences, with the
  table of stack effects of all opcodes, `reset`, `seed_top_labels`,
  `get_variable_value`. A statement declares one variable; the loop over those of a
  tuple (`stack_tracker.rs` 385-396, 501-507) does the same once for each.
* **TrackedFunction** - a stack tracker at work: the EVM stack discipline of
  unoptimised solc code for functions with parameters, locals, assignments and
  calls (external), and the tracker fed with every instruction, seeded or reset
  at jumps as the recorders do.
* **MemoryTracker** - `memory_tracker.rs` with the allocations of a function that
  may run again and of generated routines, which the recorders do not show to it.
  Words, not bytes.
* **StorageVariables** - names of written slots and compound snapshots. A slot
  is a path of keys, as keccak256 is taken to be injective, or a slot in which a
  value goes on elsewhere: every slot of every kind of variable may be written.
  The layout tells the code some of them (`IsKnown`): the first slot of a variable,
  those in which a member of a struct or an element of a fixed-size array starts,
  and elements of mappings whose keys are words. The others end as `storage[n]`
  (`recorder.rs:1078`): the data of dynamic arrays and long strings, the later slots
  of members and of values of mappings, elements of mappings inside other values
  and of mappings by strings, whose hash is not one of 64 bytes. (A string of 32
  bytes hashes 64 and is named like a word; no key here has that length.)

Where a step of the trace comes from:

* **SourceMap** - `SourceMap::parse` on compressed maps, the instruction index of
  a pc, offsets to line and column, line lengths, and the map synthesised for
  Yul. A text is a sequence of characters of one or two bytes (`Ascii`, `Wide`,
  `Newline`): offsets count bytes, columns bytes too, as in the code. Bytecode is
  a function from byte positions to the data bytes of the instruction there.
* **SolidityAst** - extraction of functions and variables from the tree solc
  writes. A node is a record with its parts by key; `VisitNode` and
  `CollectLocalVars`, the two walks of the code, are functions on the nodes and
  go through the same keys in its order. What is known of the trees is stated
  beside them: solc numbers a node after those under it (`TreeAssumption`), the
  fields each kind of node has (`FieldsAssumption`), and the grammar
  (`GrammarAssumption`: functions are members, declarations are statements).
* **Sourcify** - from an answer of Sourcify to artifacts: HTTP code, status, files,
  settings, contract picked, with metadata that cannot be read and bytecode that is
  not linked among the failures. Errors of writing the files for solc and of reading
  its output are part of a compilation that does not succeed. **Options** has what the
  three share, the absent value and filtering.
* **Locations** - composes the three. A source file, a Yul object or a verified
  contract becomes `given`, the artifacts the recorder sees; `Start` and
  `Process(at)` are the parts of the recorder's loop that resolve a pc, register
  paths and line tables with the writer, and look for variables in scope. `Uses` is
  the order of the two calls to the writer: the table of a path is offered before
  the start of the trace, or a step, interns the path without one, after which a
  table would be dropped.

Around the recorder:

* **Inspector** - the hooks of the inspector, called by an EVM with frames with
  and without code (external). Steps, calls and logs also hold the number of
  their frame, which only properties read.
* **Replay** - EXTENDS Inspector with `replay_transaction`: one action per request
  or execution, `Reorg` of the node between any two of them. A state is what it
  makes of nonces: this is enough to tell states before and after each
  transaction apart, and it is what makes a replay fail in practice. Access lists,
  blobs, fees and the type of a transaction, which the replay drops
  (`replay.rs` 170-187), change gas and are left out; authorization lists change
  nonces and are in.
* **Record** - `record` and `record_yul`, one action per step that can fail by
  itself, with `Fault` and `Kill` at every step, `Edit` of the source, and
  `Start` again in the same directory. A text is a version number. It instantiates
  **CallData** (the function called and its arguments) and **RevertDecode** (the
  reason of a revert). Reasons are decoded word by word as the code does it: a type
  that starts with `uint` or `int` is a number even if it is an array, other arrays,
  strings and bytes are a placeholder, each parameter takes one word, so what
  follows an array of fixed length is read from the wrong words, and negative
  numbers are shown unsigned. A selector is the hash of the signature it
  stands for; the registry spells structs `tuple`, which is the signature of no
  error, so their errors are shown raw. Bytes that are no text (`Invalid`) become
  replacement characters; a byte stands for a character or for one maximal part
  that is none.

**CallTreeProofs**, **MultiRecorderProofs**, **SingleRecorderProofs**,
**TrackedFunctionProofs** (the memory tracker too), **StorageVariablesProofs**,
**ReplayProofs** (the inspector too), **RecordProofs** and **LocationsProofs** hold
theorems, **MC...** values for TLC. Definitions commented *Mutant of X* are small plausible
bugs of X. Nothing in a specification uses them; substituted for X they show that
a property can fail.

## 3. Runs

| run | cfg | bounds | shows |
|---|---|---|---|
| `call_tree` | MCCallTree | 6 entries | ranges nest, siblings disjoint, open exactly on the path, final once closed, and they tell the live frames |
| `multi_frames` | MCMultiFrames | depth 4, 2 open functions per frame, 8 entries | all per-frame vectors follow the frames; the recorder implements `CallTree`; no call is closed early; a switch of frame steps again |
| `multi_storage` | MCMultiStorage | 2 registered contracts and an unknown one, depth 3, a plain slot and a mapping element, 4 entries | steps use the executed code, writes the owner's layout, frames are isolated |
| `single` | MCSingleCalls | depth 3, 2 open functions, 8 entries | the nesting counter equals the calls open; a tracker per frame; a carried value is the stored one after frames that fail and return, unless its last write was taken back |
| `tracker_calls` | MCTrackerCalls | a parameter, 2 locals, 1 nested call, bounded stack; every opcode | the tracker moves as many labels as the EVM values, for each opcode and between seeds; each variable given its value once is shown with it until a reset |
| `memory_regions` | MCMemoryRegions | 3 variables, objects of 1 or 2 words, 7 words | regions are disjoint allocated memory; a declaration's region is its object |
| `storage_layout` | MCStorageLayout | packed struct, array, mapping, nested mapping; a dynamic array; a mapping by strings to structs with a mapping and a later slot; 2 keys, 3 hashes, 2 slots written | a slot is named by its variable if the layout tells it, and by its number otherwise; no name is shared, snapshots hold what was written |
| `locations` | MCLocations | texts of 4 characters, 1 or 2 files, maps of 3 entries, 4 bytes of code; programs with statements nested two deep and with two contracts; 2 entries | pcs are shown where solc says, inside the table of their path; variables in scope are found in every kind of statement; names tell contracts; what Sourcify has is recorded |
| `record` | MCRecord | 2 runs, 1 edit, 5 contracts, payloads of up to 6 bytes in words of 2 | what a trace and a copy left by failed, killed or finished runs can be trusted for; the reason shown; the function called |
| `replay` | MCReplay | 2 blocks of 2 transactions, 1 reorganisation, 4 instructions, 3 frames | the transaction asked for is traced, on its state; mined transactions replay; depths tell frames; every replay ends |

Every module states its types as `TypeOK` (`MemoryTypeOK` in MemoryTracker), the first
thing to add as an INVARIANT when one is changed. It is listed in `multi_storage`
only, where a wrong name of a write shows in it (what a frame carries forward is named
by slot and layout); it holds under the other cfgs, and is proved for CallTree,
MemoryTracker, MultiRecorder and SingleRecorder.

Two runs expect a violation, each of a sentence of the code's comments:

* `multi_call_site`: `recorder.rs:1414` clears `prev_line` before it is used at
  1420 "from the *caller* frame", so external calls are registered at line 0.
* `record_beside`: with the source's own directory as output directory the source
  is copied onto itself, which empties it (`main.rs:571`; 127 promises "a copy of
  the source file").

`MCSingleStorage.cfg` (MCSingleRecorder) is the carried storage of `single` once more,
without internal functions and with calls and delegate calls of another contract,
whose writes go to slots of the same numbers; it passes.

Why the bounds are enough. The per-frame vectors compare consecutive depths only:
depth 3 holds a frame, its caller and the root, and 4 adds a return of a frame
that itself has been returned to. Eight entries allow a frame, a sibling of it at
the same depth and a return through two levels. A tracker needs two locals to
confuse, and a callee, its arguments and return address above one of them.
Three hashes give two elements of one inner mapping, or elements of two mappings.
Names of neighbours in the layout are decided by one slot and one boundary.
A location depends on one entry of the map and what it inherits: three entries
inherit from one that inherits, code of four bytes has data before, between and
after instructions, four characters a wide one on either side of a newline. Scopes
repeat at each level of nesting, so two levels and a declaration after them show
each combination. Two runs of the command show what the second does to the first;
a third would meet a directory a second has met. Two blocks have a parent and a
place in it; more than one reorganisation gives the replay nothing it can tell
from one, as it reads each thing once (the theorems of section 4 cover any number).
`MaxSteps`, `MaxDepth`, `MaxRoutines`, `MaxHeight`, `MaxCalls`, `MaxFmp`,
`MaxHashes`, `MaxFrames`, `MaxBlocks`, `MaxInBlock`, `MaxReorgs`, `MaxEdits`,
`MaxRuns` cap the state space only; no property depends on them, apart from types.

Two runs have a CONSTRAINT that keeps products of independent choices small.
`DataOnce` (MCRecord): contracts and payloads vary in the first run of the command,
later runs have one of them, because what survives of a first run is the trace and
the copy, and no step of a later run reads either. `LongAlone` (MCReplay): long
executions only for a block with one transaction on a node that stays; the hooks
read nothing of the node. States outside are not expanded; every behaviour of the
outer part runs to its end with a short execution, every execution of full length
with the small chain.

Deadlock is not checked: a trace may end at any entry of the outermost frame, a
command may not be started again, and the models stop at their bounds. Symmetry is
not used.

**Fairness and liveness.** `Replay` has `WF_vars(Proceed)`: the process is one thread
that goes on with its next step whenever it can, a node answers or refuses, and gas
bounds every execution. Nothing is assumed of reorganisations. With it `Ends` says
that each replay comes to an end: no step waits for something that an earlier
one, or another process, has made impossible. `Record` has no fairness: what its
steps wait for are other processes (solc, the node it spawned), without a timeout,
and nothing in the code makes those answer. The other specifications have none
either: their loops walk a finite vector and wait for nothing, and what happens
in them is a choice of the transaction, for which no fairness is justified.

## 4. Proofs

Every invariant and action property of the passing runs is a theorem, for every
value of the constants. Each rests on an inductive invariant, which TLC checked on
the bounds of the run first. Three kinds of
hypotheses occur. *Assumptions on constants* are the `ASSUME`s of the modules, which
TLC evaluates in every run: bounds are naturals, `None` is none of the values it
stands beside, opcodes are opcodes, artifacts and trees are as solc makes them.
*Hypotheses of a theorem* are definitions named
in its statement, because the property does not hold without them and the code
does not provide them; the runs have constants that satisfy them. The rest is proved.

**CallTreeProofs.** `CallTreeInvariant`: `Spec => []IInv`, for every set of addresses
and length of trace. `IInv` joins `TypeOK`, `PathIsBranch`, `OpenIffOnPath`,
`RangesNest`, `SiblingsDisjoint`, `RangesInTrace`. None of the middle ones is
inductive alone: that an exit leaves no open child below a closed node follows
only because open nodes are exactly those on the path and the path is a branch
that increases, so what is below a node that exits is behind it on the path.
From it follow `OpenRangesAreOnPath`, `CallsNest`, `RangesTellLiveFrames` and
`ClosedRangesAreFinal`.

**MultiRecorderProofs.** `StepIsIteration` reduces every action but `Finalize` to one
`Process(log)`, so that each later lemma has one case.

* `FramesOK` (live frames, frame stack, path, tree) is inductive, using
  `TreeProofs!IInv`, which each iteration keeps because it is a step of the tree
  (`IterationIsTreeStep`). From that: `RecorderImplementsCallTree`, `RecordedCallsNest`,
  `DepthReadFromRanges`, `SwitchesAlwaysStep`.
* `DataOK` adds carried values, named slots, trackers: `VectorsStayAligned`,
  `StateIsTyped`.
* `ContextsOK` relates each element of `frame_stack` to the contract that runs and
  the account whose storage it has; `OutOK` says the last step and write came from
  the current element: `StepsDecodedByExecutedCode`, `WritesNamedByTheirOwner`,
  `FramesAreIsolated`.
* `CallsOK` counts open user functions as a set of pairs (depth, place): an entry
  adds or removes one pair, a change of frame removes those of one depth. Hence
  `CallsStayOpen`, under `KnownContracts` (every contract is registered, none is
  created): the source map of another contract has jumps of its own, which open
  and close calls at random, as section 5 says.

**SingleRecorderProofs.** `FramesOK` and `DataOK` give `StateIsTyped`; with the length of
the vector of trackers, `TrackersFresh`. For the absorbed call, `CounterOK` says how
many calls are above it and that the functions which may still return with a
location are never more than the calls there are to close, before, while and after
the absorbed call is open: the counter alone is not inductive, as a frame that
fails inside functions leaves calls that no return matches. It gives
`CounterCountsCalls` under `OwnCallsOnly` (the transaction calls no other contract),
which `OwnFrames` carries through the frames. For the carried values, `StandsOK` adds
to "the value is the one stored" that every open frame begun after the write would
roll back to it as well, so that frames which fail may end in any order; the depth
of a write moves to the caller when its frame returns. It gives `CarriedValuesStand`,
without hypotheses: for every trace, calls of other contracts included.

**TrackedFunctionProofs.** `OpcodesMirror` compares the table of `process_step` with the
EVM opcode by opcode, on stacks of any contents. The invariant for functions has
four parts. `PlacesOK`: variables lie in places of their own, above the return
address. `RunningOK`: what is being computed lies above them. `CallersOK` keeps both
for each function that called, so that a return finds its caller as it was.
`LabelsOK`: a label for each slot; at the place of each variable settled once its own
label; wherever else that label is, a copy of its value; and no label of a variable
that has no place, nor one below a variable being declared (`FreeBelow`), without
which the recovery of lost labels at the end of a declaration would take the label
from, or leave it at, another slot. There is one lemma per action. `LabelsMirror` and
`SettledAreShown` follow, for any parameters, locals, operators, depth of expressions
and nesting of calls.

The same module has the memory tracker, the other of the two a function is
recorded with (`MemoryInvariant`). Regions end at or below the free memory pointer, and the
pointer cached by a pending allocation is that one, whatever allocates in between.
That makes `RegionsStayDisjoint` inductive and gives `DeclaredRegionsAreObjects`.

**StorageVariablesProofs.** `NamesOK`: a cached name is that of the keys its slot was
hashed from. `WrittenOK`: what was written is carried forward under the name of its
slot with the value stored. `SnapshotsOK`: a snapshot is what its slots held when one
of them was written last. They give `NamesAreOwners` (what the layout tells is named by
its variable, everything else by its number), `ShownIsStored`, `SnapshotsAreStored`,
for slots of all kinds, under `WellFormedLayout` (variables have names of their own
and share slots only when packed) and `KeysDiffer` (keys differ in the bits that are
shown). solc's layouts satisfy the first; MCStorageVariables assumes both of its layout.

**ReplayProofs**, the inspector. `FramesToldByDepth` is about pairs of past steps and says
nothing of open frames. The invariant adds `OpenFrames` (the steps of the open frame
at a depth are those of that depth which no lower step follows) and `Calling`
(whenever a frame is about to be entered the last step is one of its caller):
together they keep a new frame from inheriting the steps of an earlier one of its
depth. `InspectorTellsFrames` states it; `ReplaysTellFrames` transfers it to a replay,
all of whose steps are steps of the inspector or leave it alone.

**ReplayProofs**, the replay. `AskedIsReplayed` needs that a block is determined by its
number and fork (`ChainInv`, `FoundInv`): reorganisations bring forks not seen before,
so if the block given has the fork found, it is the block in which the index was
told. `PreStateIsExact` adds `ParentInv` (what was read came from the parents of the
block, if the node has them still) and `WorkInv` (executed are the first transactions
of the block, and each nonce known is the count of transactions of its sender on
the parents and among those executed). `MinedReplay` needs `MinedInv` too: the chain is
legal (each nonce is the count before it), and the block given is the one of the
chain as long as that has not changed.

**RecordProofs.** `Progress` says at which steps the trace in the directory is this
run's and open, `Reasons` when it holds a reason: `CompleteOnlyWhenDone`. `Texts` (what
was compiled, read and copied is the file while nobody edits it) and `Kept` (a complete
trace keeps its copy until another run copies over it) give `CopiesBelongToTraces` and
`RecordingsSurvive`. `Facts` says the trace got the one call made from the ABI and the
reason decoded from the one output: `DeclaredIsCalled` and, with what the words of a
payload decode to, `ReasonIsShown`. Hypotheses: `NoneIsNoReason` and `NoneIsNoData`
(`None` is no reason, number or text), `OnlyApart` (the output directory is another one;
`record_beside` shows that this is needed), `ErrorsAreOwn` (no contract declares the
errors `Error(string)` and `Panic(uint256)` of the language, which solc refuses). The
arguments `ReasonShown` speaks of are those the code can show: of an elementary type,
with no array of fixed length before them; the rest is in section 5.

**LocationsProofs.** Here little is in the steps and nearly everything in the data:
the invariants say that scans of a map, a bytecode and a text and walks of a tree
find what definitions say that neither scan nor walk. `InputIs` (a behaviour is about
one of the inputs) and `GivenIs` (the artifacts are those its origin hands over) are
inductive, and the rest is lemmas about the operators, in this order.

* Recursion. A function is defined by `CHOOSE`, so that it exists is to be proved
  before anything else can be: `ScanExists` for scans of a sequence, `TreeExists` for
  walks of trees of which a rank decreases (the ids of solc). Induction is over the
  least number, or node, for which a set lacks an element: `UpTo`, `TreeInduction`.
  The library's theorems of induction take an operator; these take a set.
* Scans. `ParseIs` and `SynthesizeIs`: the k-th entry is the one solc means.
  `IndexIs`: the index of a pc counts the instructions that start up to it, from
  `ReadStarts` (the bytes read as opcodes are the one set that goes on after each
  instruction). `LineColIs`: the place of an offset is the one counted from the
  newlines before it. Together `SamePlace`, and `LocationsTrue`.
* Tables. `PlaceInTable`: while two scans read one text, the place of an offset stays
  in the lines the other has measured, and never on an empty last line, which has no
  length in the table. `UsesKeeps`: a path has been offered its table when a call
  interns it. `TablesAre` (each path has the table of its text) and `StepIs` (the last step
  is the place of its pc, in a registered path) give `StepsInTables`.
* Walks. `VisitFinds`: the functions extracted are those below the units, all of them.
  `CollectFinds`: so are the variables of a body. `VisibleSeen` compares them with the
  scopes of the source, `FunctionAtIs` says the smallest function around an offset is
  the only one, and `ScopeHolds` that the variables of the last entry are those of its
  function: `LocalsSeen`. `NamesDiffer` needs no tree.
* `FetchFails`: every way a fetch can fail is one the property names;
  `VerifiedIsRecorded`.

What the assumptions leave open is what the properties leave open: the order of the
files (`InSolcOrder`; `MCFileOrder` shows what happens without it), a contract
name that two contracts share, and trees no compiler makes.

Model-checked only, as out of the prover's reach: liveness (`Ends` of Replay), which
rests on fairness.

## 5. Disagreements seen in the code that no run shows

With a configuration that has the counterexample (each refutes its one invariant):

* `MCMultiDelegate.cfg` (module MCMultiRecorder): the proxy of a delegate frame is
  the address of the frame below (`recorder.rs:1382`). If that is a delegate frame
  too, it is an implementation and not the storage context `contract_registry.rs:48`
  speaks of.
* `MCSingleReverted.cfg` (MCSingleRecorder): carried values of a reverted frame stay
  (`recorder.rs:1097`).
* `MCTrackerReset.cfg` (MCTrackedFunction): `reset` empties the labels while the
  caller's values stay on the stack (`stack_tracker.rs:53`), so later labels stand
  below their values.
* `MCReplayFields.cfg` (MCReplay): `alloy_tx_to_revm_tx` (`replay.rs:157`) drops
  authorization lists (EIP-7702), so that a later transaction of the account that
  signed one is refused for its nonce.
* `MCRecordDynamic.cfg` (MCRecord): an argument of type `uint256[]` is shown as the
  number its offset is (`revert_decode.rs:265` comes before 279), where 232 says
  dynamic types are shown as `<dynamic>`.
* `MCFileOrder.cfg` (MCLocations): `compile_sourcify_bundle` hands over the files in
  the order of the answer (`source_fetcher.rs:526`), which the recorder indexes by
  the numbers of solc, that sorts them by path.

Others:

* After a frame that ended inside an internal function, `finalize` closes that
  function's call instead of the toplevel one (`recorder.rs:1986`).
* `get_delegatecall` answers with the default contract for an unregistered
  implementation (`contract_registry.rs:124`; 118 says `None`).
* Frames of CREATE have `Address::ZERO` and are decoded as the entry point
  (`recorder.rs:1399`).
* The range of the root is never closed (`call_tree.rs:106` expects the caller to).
* The single-contract path reads pcs of every contract in its one source map: a
  called contract can close the toplevel call, and its SSTOREs are recorded and
  carried forward as variables of this contract.
* Locals are read from the stack of the next entry (`recorder.rs:755`), which at a
  call or at the end of a frame belongs to another frame; the multi-contract path
  reads them from the stack before the instruction (1654).
* An assignment moves the label of a copied variable: after `y = x; x = 0;` the
  value found for `x` is that of `y` (`stack_tracker.rs:408`).
* A memory local keeps its first region when its function runs again, as no
  recorder calls `reset`, and an allocation outside a declaration is given to the
  variable declared last (`memory_tracker.rs:328-341`).
* Keys of inner mappings are formatted as addresses, so keys that differ above 160
  bits share a name (`recorder.rs:1026`); array indices count slots, not elements
  (`storage_layout.rs:148`); a snapshot shows 0 for what this recording has not
  seen written (`recorder.rs:73`).
* `resolve_function_name` returns the name asked for when the contract has no
  function (`main.rs:973` says "Panics if no callable function exists"), and the
  default argument of an array of numbers is the word 7, which the callee reads as
  an offset (`main.rs:945`).
* Arguments of a declared error: an array of fixed length takes several words, so
  those after it are read from its words; negative numbers are shown as large ones;
  errors with structs never match, as the registry hashes `tuple` for the type
  (`revert_decode.rs` 111, 148-290).
* The slots of section 2 that the layout does not tell are shown as `storage[n]`,
  the elements of every dynamic array among them.
* Variables of a block stay listed after its end, until the function's
  (`solidity_ast.rs:183`): `LocalsInScope` asks for those in scope and allows others.
* The replay takes the index from one answer and the block from another: when the
  chain changed in between, it traces another transaction or panics
  (`replay.rs:141`).
* The source is read by solc, read again and copied in three steps (`main.rs` 385,
  571): an edit in between gives a trace whose lines are of another text than the
  copy. `CopyHoldsSource` is about edits between two recordings.
* A second run destroys the copy of the first one's source before it has a trace
  of its own (`main.rs:571`): if it ends between the two, the older trace lies next
  to another text.

## 6. What is not modelled

* Formatting of values and names, event payloads, type strings, HTTP and JSON,
  compiler invocations, packaging and fixtures.
* The block environment and the hardfork of a replay (`replay.rs` 76-91, 208-220),
  amounts of wei, `classify_type_name`: pure functions of one value.
* The single-contract path's events for LOG, SELFDESTRUCT and precompiles, which
  depend on one entry only.
* Optimised code, inline assembly and Yul functions, in TrackedFunction and
  MemoryTracker, which model the unoptimised code the recorder compiles for itself.
* Whether the bytecode compiled from Sourcify's files is the deployed one: the code
  does not compare them, and passes neither `viaIR` nor remappings on.

What could follow: the stack tracker inside MultiRecorder, for the locals of the
multi-contract path, and Locations inside SingleRecorder, whose steps have abstract
locations.
