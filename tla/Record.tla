------------------------------- MODULE Record -------------------------------
\* The record command: one process that compiles a source file, deploys the
\* contract on a node of its own, calls it, fetches what the node traced, copies
\* the source next to the trace and writes the trace. Any step may fail or be
\* the last one of the process; the file may be edited between any two steps;
\* and the command may be run again with the same output directory.
\*
\* A text is a version of the source file. 0 is the empty file: what is left of
\* a file that is copied onto itself, because copying truncates the target.
EXTENDS Integers, Sequences, FiniteSets

CONSTANTS
    None,
    Modes,              \* kinds of source files: "sol" and "yul"
    Places,             \* where the output goes: "apart", or "beside" the source
    Abis,               \* what the contract may declare
    Outputs,            \* what a reverted call may return
    WordSize, Byte, Invalid,    \* of RevertDecode
    MaxEdits, MaxRuns

Calls == INSTANCE CallData
Reverts == INSTANCE RevertDecode

ASSUME RecordAssumption ==
    /\ MaxEdits \in Nat /\ MaxRuns \in Nat \ {0}
    /\ WordSize \in Nat \ {0, 1} /\ Byte \subseteq Nat /\ 0 \in Byte /\ Invalid \subseteq Byte

\* What solc and the node give. The ABI spells the types of parameters; a struct
\* is a tuple there, and its members are not in the spelling of the type.
Types == {"uint", "int", "uint[]", "uint[2]", "address", "bool", "bytesN", "string", "bytes",
          "address[]", "address[2]", "tuple"}
Entry == [kind : STRING, name : STRING, inputs : Seq(Types)]
ASSUME DataAssumption ==
    /\ Abis \subseteq Seq(Entry)
    /\ \A output \in Outputs : output.payload \in Seq(Nat)

VARIABLES
    source,     \* the text in the source file
    copy,       \* the text in the copy, when it is a file of its own
    trace,      \* the container in the output directory
    pc,         \* the step the process is at, or how it ended
    run,        \* what the process has in memory
    runs,       \* how often the command was started
    edited,     \* whether the source changed since the process compiled it
    ended       \* the steps at which processes ended since the trace was begun

vars == << source, copy, trace, pc, run, runs, edited, ended >>

Resting == {"idle", "done", "failed", "killed"}
Steps == {"prepare", "compile", "read", "abi", "spawn", "deploy", "code", "call",
          "fetch", "copy", "begin", "steps", "revert", "finish", "meta", "close"}
NewRun == [mode |-> "sol", place |-> "apart", compiled |-> None, text |-> None,
           abi |-> << >>, call |-> None, hasCode |-> FALSE,
           failed |-> FALSE, output |-> Reverts!NoOutput, logs |-> FALSE]
NewTrace == [state |-> "begun", compiled |-> None, text |-> None, failed |-> FALSE,
             error |-> None, call |-> None, edited |-> FALSE, run |-> 0]

\* The text a debugger finds next to the trace.
Copied == IF run.place = "beside" THEN source ELSE copy

Init ==
    /\ source = 1 /\ copy = None /\ trace = None
    /\ pc = "idle" /\ run = NewRun
    /\ runs = 0 /\ edited = FALSE /\ ended = {}

-----------------------------------------------------------------------------
\* The steps of the process. A step that returns an error is a step to Fail.

At(step) == pc = step
To(step) == pc' = step /\ ended' = ended
Keep == UNCHANGED << source, copy, trace, runs, edited >>

Start ==
    /\ pc \in Resting /\ runs < MaxRuns
    /\ \E mode \in Modes, place \in Places :
           run' = [NewRun EXCEPT !.mode = mode, !.place = place]
    /\ runs' = runs + 1 /\ edited' = FALSE
    /\ To("prepare")
    /\ UNCHANGED << source, copy, trace >>

\* Recording is disabled: a success that does nothing.
Disabled == At("prepare") /\ To("done") /\ Keep /\ UNCHANGED run

Prepare == At("prepare") /\ To("compile") /\ Keep /\ UNCHANGED run

\* An empty file has no contract.
Compiled(abi) ==
    /\ At("compile") /\ source # 0
    /\ run' = [run EXCEPT !.compiled = source, !.abi = abi]
    /\ edited' = FALSE
    /\ To("read")
    /\ UNCHANGED << source, copy, trace, runs >>

CompileSol == run.mode = "sol" /\ \E abi \in Abis : Compiled(abi)
CompileYul == run.mode = "yul" /\ Compiled(<< >>)

\* Mutant of ReadSource: the file is copied as soon as it is read.
MutReadSource ==
    /\ At("read")
    /\ run' = [run EXCEPT !.text = source] /\ copy' = source
    /\ To(IF run.mode = "sol" THEN "abi" ELSE "spawn")
    /\ UNCHANGED << source, trace, runs, edited >>

ReadSource ==
    /\ At("read")
    /\ run' = [run EXCEPT !.text = source]
    /\ To(IF run.mode = "sol" THEN "abi" ELSE "spawn") /\ Keep

\* run is the default of --function.
ResolveCall ==
    /\ At("abi")
    /\ LET call == Calls!CallSignatureAndArgs(run.abi, Calls!ResolveFunctionName(run.abi, "run"))
       IN  /\ call # None /\ Calls!ConstructorArgs(run.abi) # None
           /\ run' = [run EXCEPT !.call = call]
    /\ To("spawn") /\ Keep

SpawnNode ==
    /\ At("spawn")
    /\ To("deploy") /\ Keep /\ UNCHANGED run

\* A constructor that reverts already fails the estimation of its gas; an
\* interface deploys, without code.
Deploy ==
    /\ At("deploy")
    /\ \E code \in BOOLEAN : run' = [run EXCEPT !.hasCode = code]
    /\ To(IF run.mode = "sol" THEN "call" ELSE "code") /\ Keep

GetCode == At("code") /\ run.hasCode /\ To("call") /\ Keep /\ UNCHANGED run

\* With its gas given, the call is mined whether it succeeds or not. A contract
\* without code succeeds and executes nothing.
Call ==
    /\ At("call")
    /\ \E failed \in (IF run.hasCode THEN BOOLEAN ELSE {FALSE}) :
       \E output \in (IF failed THEN Outputs ELSE {Reverts!NoOutput}) :
           run' = [run EXCEPT !.failed = failed, !.output = output, !.logs = run.hasCode]
    /\ To("fetch") /\ Keep

Fetch == At("fetch") /\ run.logs /\ To("copy") /\ Keep /\ UNCHANGED run

\* Mutant of CopySource: a copy that is already there is not written again.
MutCopySource ==
    /\ At("copy")
    /\ source' = source /\ copy' = (IF copy = None THEN source ELSE copy)
    /\ To("begin")
    /\ UNCHANGED << trace, run, runs, edited >>

CopySource ==
    /\ At("copy")
    /\ IF run.place = "beside" THEN source' = 0 /\ copy' = copy
                               ELSE copy' = source /\ source' = source
    /\ To("begin")
    /\ UNCHANGED << trace, run, runs, edited >>

Begin ==
    /\ At("begin")
    /\ trace' = [NewTrace EXCEPT !.run = runs]
    /\ pc' = "steps" /\ ended' = {}
    /\ UNCHANGED << source, copy, run, runs, edited >>

\* Offsets of what was compiled, looked up in what was read.
RecordSteps ==
    /\ At("steps")
    /\ trace' = [trace EXCEPT !.compiled = run.compiled, !.text = run.text, !.call = run.call,
                              !.failed = run.failed]
    /\ To(IF run.failed THEN "revert" ELSE "finish")
    /\ UNCHANGED << source, copy, run, runs, edited >>

\* The errors the contract declares, each with the signature that the spelling of
\* its types makes; a Yul object declares none.
Errors(abi) == {i \in DOMAIN abi : abi[i].kind = "error"}
Registry(abi) == {Reverts!Signature(abi[i].name, abi[i].inputs) : i \in Errors(abi)}

\* The signature whose selector the contract returns. Solidity spells the members
\* of a struct out, between parentheses.
Selector(entry) ==
    Reverts!Signature(entry.name,
        [i \in DOMAIN entry.inputs |-> IF entry.inputs[i] = "tuple" THEN "(...)" ELSE entry.inputs[i]])

RegisterRevert ==
    /\ At("revert")
    /\ trace' = [trace EXCEPT !.error = Reverts!DecodeRevert(run.output, Registry(run.abi))]
    /\ To("finish")
    /\ UNCHANGED << source, copy, run, runs, edited >>

Finalize(step, state, next) ==
    /\ At(step)
    /\ trace' = [trace EXCEPT !.state = state, !.edited = edited]
    /\ To(next)
    /\ UNCHANGED << source, copy, run, runs, edited >>

\* Mutant of Finish: the container is closed before its metadata is in it.
MutFinish == Finalize("finish", "closed", "meta")

Finish == Finalize("finish", "flushed", "meta")
WriteMeta == Finalize("meta", "described", "close")
Close == Finalize("close", "closed", "done")

\* How the process ends before its time: what it was doing stays undone, but a
\* copy it was writing may already be emptied.
End(how) ==
    /\ pc' = how /\ ended' = ended \cup {pc}
    /\ copy' \in (IF At("copy") /\ run.place = "apart" THEN {copy, 0} ELSE {copy})
    /\ UNCHANGED << source, trace, run, runs, edited >>

\* What the command refuses by itself: nothing to compile, no call it can make
\* up, no code to map, nothing traced.
Refuse ==
    /\ \/ At("compile") /\ source = 0
       \/ At("abi") /\ None \in {Calls!ConstructorArgs(run.abi),
                                 Calls!CallSignatureAndArgs(run.abi, Calls!ResolveFunctionName(run.abi, "run"))}
       \/ At("code") /\ ~run.hasCode
       \/ At("fetch") /\ ~run.logs
    /\ End("failed")

\* What may go wrong outside: files, solc, the node, the writer. Only the reason
\* of a revert is registered by code that returns no error.
Fault == pc \in Steps \ {"revert"} /\ End("failed")

Kill == pc \in Steps /\ End("killed")

Edit ==
    /\ source <= MaxEdits
    /\ \E text \in 1..(MaxEdits + 1) : text > source /\ source' = text
    /\ edited' = TRUE
    /\ UNCHANGED << copy, trace, pc, run, runs, ended >>

Proceed ==
    \/ Disabled \/ Prepare \/ CompileSol \/ CompileYul \/ ReadSource \/ ResolveCall \/ SpawnNode
    \/ Deploy \/ GetCode \/ Call \/ Fetch \/ CopySource \/ Begin \/ RecordSteps
    \/ RegisterRevert \/ Finish \/ WriteMeta \/ Close \/ Refuse

Next == Start \/ Proceed \/ Fault \/ Kill \/ Edit

Spec == Init /\ [][Next]_vars

-----------------------------------------------------------------------------
Closed == trace # None /\ trace.state = "closed"
OfThisRun == trace # None /\ trace.run = runs

TypeOK ==
    /\ source \in 0..(MaxEdits + 1) /\ copy \in {None} \cup (0..(MaxEdits + 1))
    /\ pc \in Steps \cup Resting /\ runs \in 0..MaxRuns
    /\ edited \in BOOLEAN /\ ended \subseteq Steps
    /\ trace # None => trace.state \in {"begun", "flushed", "described", "closed"} /\ trace.run \in 1..runs

\* A command that fails, or is killed, leaves no trace that looks complete
\* (main.rs:632); one that succeeds leaves a complete one, with the reason of
\* the revert if and only if the transaction reverted.
ClosedIffDone ==
    /\ Closed /\ OfThisRun => pc = "done"
    /\ pc = "done" /\ OfThisRun => Closed
    /\ Closed => (trace.error # None <=> trace.failed)

\* Next to a complete trace lies the text its offsets and its lines were read
\* from, unless somebody edited the file while it was recorded (main.rs:571).
CopyHoldsSource ==
    Closed /\ OfThisRun /\ ~trace.edited /\ ~edited
        => Copied = trace.text /\ trace.compiled = trace.text

\* An older recording in the same directory survives all runs that fail, but
\* for those that end between copying the source and beginning the trace.
RecordingSurvives ==
    Closed /\ ~trace.edited /\ pc \in Resting /\ ended \cap {"copy", "begin"} = {}
        => copy = trace.text

\* A string at an offset of a payload, encoded as Solidity does: the first word
\* is the offset, the word there the length, and the bytes follow.
Zeros(n) == [i \in 1..n |-> 0]
WordOf(n) == Append(Zeros(WordSize - 1), n)
StringAt(payload, offset, length) ==
    /\ 2 * WordSize <= Len(payload) /\ offset + WordSize + length <= Len(payload)
    /\ SubSeq(payload, 1, WordSize) = WordOf(offset)
    /\ SubSeq(payload, offset + 1, offset + WordSize) = WordOf(length)
StringOf(payload, offset, length) == SubSeq(payload, offset + WordSize + 1, offset + WordSize + length)

Raw(output) == Reverts!Decoded("RevertRaw", << output.selector, output.payload >>)

\* The text of a string that is encoded in the payload, wherever, and the bytes
\* themselves of a payload that encodes none.
StringShown(output, error) ==
    LET Sizes == 0..Len(output.payload)
        Found == \E offset, length \in Sizes : StringAt(output.payload, offset, length)
    IN  IF Found
        THEN \E offset, length \in Sizes :
                /\ StringAt(output.payload, offset, length)
                /\ error = Reverts!Decoded("Revert", Reverts!Lossy(StringOf(output.payload, offset, length)))
        ELSE error = Raw(output)

\* The types whose values take one word, and the words that hold a value.
Elementary == {"uint", "int", "address", "bool", "bytesN"}
IsValue(word, type) == /\ type = "address" => word[1] = 0
                       /\ type = "bool" => word \in {WordOf(0), WordOf(1)}
Restored(of) == Zeros(WordSize - Len(of)) \o of

\* The word of the payload that Solidity puts a parameter's value into: an array
\* of two numbers before it takes two words, everything else one.
FixedBefore(inputs, i) == {j \in 1..(i - 1) : inputs[j] \in {"uint[2]", "address[2]"}}
HeadWord(payload, inputs, i) ==
    LET before == i - 1 + Cardinality(FixedBefore(inputs, i))
    IN  SubSeq(payload, before * WordSize + 1, before * WordSize + WordSize)

\* The arguments of a declared error: as many as the payload has words for, and
\* from what is shown of one that takes a word, the word can be told, as long as
\* no array of a fixed length precedes it. An error with a struct is shown raw.
ErrorShown(entry, output, error) ==
    IF \E i \in DOMAIN entry.inputs : entry.inputs[i] = "tuple"
    THEN error = Raw(output)
    ELSE LET args == error.message[2] IN
         /\ error.kind = "CustomError" /\ error.message[1] = Selector(entry)
         /\ DOMAIN args = {i \in DOMAIN entry.inputs : i * WordSize <= Len(output.payload)}
         /\ \A i \in DOMAIN args :
               LET word == HeadWord(output.payload, entry.inputs, i) IN
               /\ entry.inputs[i] \in Elementary /\ FixedBefore(entry.inputs, i) = {}
               /\ IsValue(word, entry.inputs[i])
               => Restored(args[i].of) = word

\* What the contract reverted with is what the trace shows: strings, wherever the
\* offset leads, panic codes, and the arguments of the errors of the contract
\* (revert_decode.rs:148).
ReasonShown ==
    Closed /\ OfThisRun /\ run.failed =>
        /\ run.output.selector = Reverts!ErrorString => StringShown(run.output, trace.error)
        /\ \A code \in Byte :
              run.output = [selector |-> Reverts!PanicUint256, payload |-> WordOf(code)]
                 => trace.error = Reverts!Decoded("Panic", code)
        /\ \A i \in Errors(run.abi) :
              run.output.selector = Selector(run.abi[i])
                 => ErrorShown(run.abi[i], run.output, trace.error)

\* The placeholder stands for the arguments whose types have no size of their own
\* (revert_decode.rs:232).
DynamicSurfaced ==
    Closed /\ OfThisRun /\ run.failed /\ trace.error.kind = "CustomError" =>
        \A i \in DOMAIN trace.error.message[2] :
           trace.error.message[1].types[i] \in {"string", "bytes", "uint[]", "address[]"}
              => trace.error.message[2][i].as = "dynamic"

\* The trace is of a function the contract declares, whenever it declares one,
\* called with a word for each parameter (main.rs:975).
CallsDeclared ==
    Closed /\ OfThisRun /\ run.mode = "sol" =>
        LET declared == {i \in DOMAIN run.abi : run.abi[i].kind = "function"} IN
        /\ declared # {} => \E i \in declared :
              /\ run.abi[i].name = trace.call.name /\ run.abi[i].inputs = trace.call.types
              /\ \A j \in declared : run.abi[j].name = "run" => trace.call.name = "run"
        /\ Len(trace.call.args) = Len(trace.call.types)
=============================================================================
