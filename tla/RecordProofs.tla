---------------------------- MODULE RecordProofs ----------------------------
\* What a reader of the output directory can rely on, for any number of runs and
\* edits, any contract and any revert, wherever the process ends. None stands for
\* "no reason" in a trace, so it is assumed to be none.
EXTENDS Record, FiniteSetTheorems, WellFoundedInduction, TLAPS

NoneIsNoReason == \A kind, message : Reverts!Decoded(kind, message) # None
OnlyApart == Places = {"apart"}

IsRun(r) == r = [mode |-> r.mode, place |-> r.place, compiled |-> r.compiled, text |-> r.text,
                 abi |-> r.abi, call |-> r.call, hasCode |-> r.hasCode,
                 failed |-> r.failed, output |-> r.output, logs |-> r.logs]
IsTrace(t) == t = [state |-> t.state, compiled |-> t.compiled, text |-> t.text, failed |-> t.failed,
                   error |-> t.error, call |-> t.call, edited |-> t.edited, run |-> t.run]

BeforeTrace == {"prepare", "compile", "read", "abi", "spawn", "deploy", "code", "call",
                "fetch", "copy", "begin"}
Writing == {"steps", "revert", "finish", "meta", "close"}

\* A run has its own trace from "begin" on, and it is open until the last step.
Progress ==
    /\ runs \in Nat /\ IsRun(run)
    /\ trace = None \/ (trace.run \in Nat /\ trace.run <= runs)
    /\ pc \in BeforeTrace => trace = None \/ trace.run < runs
    /\ pc \in Writing => /\ IsTrace(trace) /\ trace.run = runs
                         /\ trace.state # "closed"
    /\ Closed /\ OfThisRun => pc = "done"
    /\ pc = "done" /\ OfThisRun => Closed

\* The reason is in the trace before it is closed, if there is one.
Reasons ==
    /\ pc \in {"steps", "revert"} => trace.error = None
    /\ pc = "revert" => trace.failed
    /\ pc \in {"finish", "meta", "close"} => (trace.error # None <=> trace.failed)
    /\ Closed => (trace.error # None <=> trace.failed)

PInv == Progress /\ Reasons

\* Each step of the process to the next one keeps the parts of the invariant
\* about the trace, unless it writes the trace.
LEMMA QuietKeeps ==
    ASSUME PInv, UNCHANGED << trace, runs >>, IsRun(run'),
           \/ pc \in BeforeTrace /\ pc' \in BeforeTrace \cup {"failed", "killed", "done"}
           \/ pc \in Writing /\ pc' \in {"failed", "killed"}
           \/ pc' = pc
    PROVE  PInv'
  BY DEF PInv, Progress, Reasons, Closed, OfThisRun, BeforeTrace, Writing

\* A step that changes one or two fields leaves a run a run.
LEMMA RunShape ==
    ASSUME NEW r, IsRun(r), NEW s, NEW x, NEW y, NEW z,
           \/ s = [r EXCEPT !.text = x] \/ s = [r EXCEPT !.call = x]
           \/ s = [r EXCEPT !.hasCode = x] \/ s = [r EXCEPT !.compiled = x, !.abi = y]
           \/ s = [r EXCEPT !.mode = x, !.place = y]
           \/ s = [r EXCEPT !.failed = x, !.output = y, !.logs = z]
    PROVE  IsRun(s)
  BY DEF IsRun

\* The first step of the command: whatever trace there is, is an older one's.
LEMMA StartKeeps == ASSUME PInv, Start PROVE PInv'
  <1>1. /\ runs' = runs + 1 /\ trace' = trace /\ pc' = "prepare"
        /\ \E mode \in Modes, place \in Places : run' = [NewRun EXCEPT !.mode = mode, !.place = place]
    BY DEF Start, To
  <1>2. IsRun(NewRun)
    BY DEF NewRun, IsRun
  <1>3. IsRun(run')
    BY <1>1, <1>2, RunShape
  <1>4. Progress'
    <2>1. runs' \in Nat /\ (trace' = None \/ (trace'.run \in Nat /\ trace'.run < runs'))
      BY <1>1 DEF PInv, Progress
    <2>2. pc' \in BeforeTrace /\ pc' \notin Writing /\ pc' # "done"
      BY <1>1 DEF BeforeTrace, Writing
    <2>3. ~OfThisRun'
      BY <2>1 DEF OfThisRun
    <2>4. QED
      BY <1>3, <2>1, <2>2, <2>3 DEF Progress
  <1>5. Reasons'
    BY <1>1 DEF PInv, Reasons, Closed
  <1>6. QED
    BY <1>4, <1>5 DEF PInv

\* The steps before the trace change what the process knows.
LEMMA ReadingKeeps ==
    ASSUME PInv,
           \/ Disabled \/ Prepare \/ CompileSol \/ CompileYul \/ ReadSource \/ ResolveCall
           \/ SpawnNode \/ Deploy \/ GetCode \/ Call \/ Fetch \/ CopySource
    PROVE  PInv'
  <1>1. pc \in BeforeTrace /\ pc' \in BeforeTrace \cup {"done"} /\ UNCHANGED << trace, runs >>
    BY DEF Disabled, Prepare, CompileSol, CompileYul, Compiled, ReadSource, ResolveCall, SpawnNode,
           Deploy, GetCode, Call, Fetch, CopySource, At, To, Keep, BeforeTrace
  <1>2. IsRun(run)
    BY DEF PInv, Progress
  <1>3. IsRun(run')
    <2>1. CASE Disabled \/ Prepare \/ SpawnNode \/ GetCode \/ Fetch \/ CopySource
      BY <1>2, <2>1 DEF Disabled, Prepare, SpawnNode, GetCode, Fetch, CopySource
    <2>2. CASE CompileSol \/ CompileYul
      BY <1>2, <2>2, RunShape DEF CompileSol, CompileYul, Compiled
    <2>3. CASE ReadSource \/ Deploy
      BY <1>2, <2>3, RunShape DEF ReadSource, Deploy
    <2>4. CASE ResolveCall
      BY <1>2, <2>4, RunShape DEF ResolveCall
    <2>5. CASE Call
      <3>1. PICK failed \in BOOLEAN, output \in Outputs \cup {Reverts!NoOutput} :
              run' = [run EXCEPT !.failed = failed, !.output = output, !.logs = run.hasCode]
        BY <2>5 DEF Call
      <3>2. QED
        BY <1>2, <3>1 DEF IsRun
    <2>6. QED
      BY <2>1, <2>2, <2>3, <2>4, <2>5
  <1>4. QED
    BY <1>1, <1>3, QuietKeeps

\* The writer begins the trace of this run in place of an older one.
LEMMA BeginKeeps == ASSUME PInv, Begin PROVE PInv'
  <1>1. /\ trace' = [NewTrace EXCEPT !.run = runs] /\ pc' = "steps" /\ UNCHANGED << run, runs >>
    BY DEF Begin
  <1>2. IsTrace(trace') /\ trace'.run = runs /\ trace'.state = "begun" /\ trace'.error = None
    BY <1>1 DEF NewTrace, IsTrace
  <1>3. QED
    BY <1>1, <1>2 DEF PInv, Progress, Reasons, Closed, OfThisRun, BeforeTrace, Writing

\* A reason is never "no reason".
LEMMA ReasonIsReason ==
    ASSUME NoneIsNoReason, NEW output, NEW registry
    PROVE  Reverts!DecodeRevert(output, registry) # None
  <1>1. \E kind, message : Reverts!DecodeRevert(output, registry) = Reverts!Decoded(kind, message)
    BY DEF Reverts!DecodeRevert
  <1>2. QED
    BY <1>1 DEF NoneIsNoReason

\* The steps that write the trace, and the last one, which closes it.
LEMMA WritingKeeps ==
    ASSUME PInv, NoneIsNoReason,
           RecordSteps \/ RegisterRevert \/ Finish \/ WriteMeta \/ Close
    PROVE  PInv'
  <1> USE DEF PInv
  <1>1. /\ pc \in Writing /\ IsTrace(trace) /\ trace.run = runs /\ trace.state # "closed"
        /\ runs \in Nat /\ UNCHANGED << run, runs >>
    BY DEF RecordSteps, RegisterRevert, Finish, WriteMeta, Close, Finalize, At, Writing, Progress
  <1>2. CASE RecordSteps
    <2>1. /\ IsTrace(trace') /\ trace'.run = runs /\ trace'.state # "closed"
          /\ trace'.error = None /\ trace'.failed = run.failed
      <3>1. /\ trace' = [trace EXCEPT !.compiled = run.compiled, !.text = run.text,
                                      !.call = run.call, !.failed = run.failed]
            /\ pc = "steps"
        BY <1>2 DEF RecordSteps, At
      <3>2. QED
        BY <1>1, <3>1 DEF Reasons, IsTrace
    <2>2. pc' = IF run.failed THEN "revert" ELSE "finish"
      BY <1>2 DEF RecordSteps, To
    <2>3. QED
      BY <1>1, <2>1, <2>2 DEF Progress, Reasons, Closed, OfThisRun, BeforeTrace, Writing
  <1>3. CASE RegisterRevert
    <2>1. /\ IsTrace(trace') /\ trace'.run = runs /\ trace'.state # "closed"
          /\ trace'.error # None /\ trace'.failed /\ pc' = "finish"
      BY <1>1, <1>3, ReasonIsReason DEF IsTrace, RegisterRevert, At, To, Reasons
    <2>2. QED
      BY <1>1, <2>1 DEF Progress, Reasons, Closed, OfThisRun, BeforeTrace, Writing
  <1>4. CASE Finish \/ WriteMeta
    <2>1. /\ IsTrace(trace') /\ trace'.run = runs /\ trace'.state # "closed"
          /\ trace'.error = trace.error /\ trace'.failed = trace.failed
          /\ pc \in {"finish", "meta"} /\ pc' \in {"meta", "close"}
      <3>1. PICK state \in {"flushed", "described"} :
              /\ trace' = [trace EXCEPT !.state = state, !.edited = edited]
              /\ pc \in {"finish", "meta"} /\ pc' \in {"meta", "close"}
        BY <1>4 DEF Finish, WriteMeta, Finalize, At, To
      <3>2. QED
        BY <1>1, <3>1 DEF IsTrace
    <2>2. QED
      BY <1>1, <2>1 DEF Progress, Reasons, Closed, OfThisRun, BeforeTrace, Writing
  <1>5. CASE Close
    <2>1. /\ trace'.run = runs /\ trace'.state = "closed" /\ pc = "close" /\ pc' = "done"
          /\ trace'.error = trace.error /\ trace'.failed = trace.failed
      <3>1. /\ trace' = [trace EXCEPT !.state = "closed", !.edited = edited]
            /\ pc = "close" /\ pc' = "done"
        BY <1>5 DEF Close, Finalize, At, To
      <3>2. QED
        BY <1>1, <3>1 DEF IsTrace
    <2>2. QED
      BY <1>1, <2>1 DEF Progress, Reasons, Closed, OfThisRun, BeforeTrace, Writing
  <1>6. QED
    BY <1>2, <1>3, <1>4, <1>5

\* A process that ends before its time, and an edit of the source.
LEMMA EndKeeps == ASSUME PInv, Refuse \/ Fault \/ Kill \/ Edit \/ UNCHANGED vars PROVE PInv'
  <1>1. IsRun(run)
    BY DEF PInv, Progress
  <1>2. UNCHANGED << trace, runs, run >>
    BY DEF Refuse, Fault, Kill, Edit, End, vars
  <1>3. pc' = pc \/ (pc \in BeforeTrace \cup Writing /\ pc' \in {"failed", "killed"})
    BY DEF Refuse, Fault, Kill, Edit, End, vars, At, Steps, BeforeTrace, Writing
  <1>4. QED
    BY <1>1, <1>2, <1>3, QuietKeeps

LEMMA ProgressKept == ASSUME NoneIsNoReason, PInv, [Next]_vars PROVE PInv'
  BY StartKeeps, ReadingKeeps, BeginKeeps, WritingKeeps, EndKeeps DEF Next, Proceed

LEMMA InitPInv == Init => PInv
  BY DEF Init, PInv, Progress, Reasons, IsRun, NewRun, Closed, OfThisRun, BeforeTrace, Writing

\* A trace that looks complete is the trace of a run that succeeded, and holds the
\* reason of the revert if and only if the transaction reverted, wherever any of
\* the runs failed or was killed (main.rs:632, recorder.rs:1984).
THEOREM CompleteOnlyWhenDone == ASSUME NoneIsNoReason PROVE Spec => []ClosedIffDone
  <1>1. PInv => ClosedIffDone
    BY DEF PInv, Progress, Reasons, ClosedIffDone
  <1>2. ASSUME PInv, [Next]_vars PROVE PInv'
    BY <1>2, ProgressKept
  <1>3. QED
    BY InitPInv, <1>1, <1>2, PTL DEF Spec

-----------------------------------------------------------------------------
\* The text compiled, the text read and the text copied are the one in the file
\* as long as nobody edits it.
Texts ==
    /\ run.place = "apart"
    /\ ~edited => /\ pc \in (BeforeTrace \ {"prepare", "compile"}) \cup Writing => run.compiled = source
                  /\ pc \in (BeforeTrace \ {"prepare", "compile", "read"}) \cup Writing => run.text = source
                  /\ pc \in {"begin"} \cup Writing => copy = source
    /\ pc \in Writing \ {"steps"} => trace.text = run.text /\ trace.compiled = run.compiled

\* A complete trace keeps its copy until a later run copies over it.
Kept ==
    /\ pc = "done" /\ OfThisRun /\ ~trace.edited /\ ~edited
          => copy = trace.text /\ trace.compiled = trace.text
    /\ Closed /\ ~trace.edited /\ pc # "begin" /\ ended \cap {"copy", "begin"} = {}
          => copy = trace.text

CInv == PInv /\ Texts /\ Kept

\* A new run touches nothing.
LEMMA StartCopy == ASSUME OnlyApart, CInv, Start, PInv' PROVE Texts' /\ Kept'
  <1>1. run'.place = "apart"
    BY DEF Start, NewRun, OnlyApart
  <1>2. /\ UNCHANGED << trace, copy, ended >> /\ pc' = "prepare"
    BY DEF Start, To
  <1>3. pc # "begin"
    BY DEF Start, Resting
  <1>4. QED
    BY <1>1, <1>2, <1>3 DEF CInv, Texts, Kept, Closed, BeforeTrace, Writing

\* The steps before the copy read the file.
LEMMA ReadingCopy ==
    ASSUME CInv, PInv',
           \/ Disabled \/ Prepare \/ CompileSol \/ CompileYul \/ ReadSource \/ ResolveCall
           \/ SpawnNode \/ Deploy \/ GetCode \/ Call \/ Fetch
    PROVE  Texts' /\ Kept'
  <1>1. IsRun(run)
    BY DEF CInv, PInv, Progress
  <1>2. UNCHANGED << source, copy, trace, runs, ended >>
    BY DEF Disabled, Prepare, CompileSol, CompileYul, Compiled, ReadSource, ResolveCall, SpawnNode,
           Deploy, GetCode, Call, Fetch, At, To, Keep
  <1>3. pc \in BeforeTrace \ {"copy", "begin"} /\ pc' \in (BeforeTrace \ {"begin"}) \cup {"done"}
    BY DEF Disabled, Prepare, CompileSol, CompileYul, Compiled, ReadSource, ResolveCall, SpawnNode,
           Deploy, GetCode, Call, Fetch, At, To, Keep, BeforeTrace
  <1>4. Kept'
    <2>1. ~OfThisRun
      BY <1>3 DEF CInv, PInv, Progress, OfThisRun, BeforeTrace
    <2>2. ~OfThisRun'
      BY <1>2, <2>1 DEF OfThisRun
    <2>3. QED
      BY <1>2, <1>3, <2>2 DEF CInv, Kept, Closed
  <1>5. Texts'
    <2>1. CASE CompileSol \/ CompileYul
      <3>1. PICK abi : run' = [run EXCEPT !.compiled = source, !.abi = abi]
        BY <2>1 DEF CompileSol, CompileYul, Compiled
      <3>2. run'.compiled = source /\ run'.place = run.place
        BY <1>1, <3>1 DEF IsRun
      <3>3. pc' = "read"
        BY <2>1 DEF CompileSol, CompileYul, Compiled, To
      <3>4. QED
        BY <1>2, <3>2, <3>3 DEF CInv, Texts, BeforeTrace, Writing
    <2>2. CASE ReadSource
      <3>1. /\ run'.text = source /\ run'.compiled = run.compiled /\ run'.place = run.place
            /\ pc = "read" /\ edited' = edited /\ pc' \in {"abi", "spawn"}
        BY <1>1, <2>2 DEF ReadSource, IsRun, At, To, Keep
      <3>2. QED
        BY <1>2, <3>1 DEF CInv, Texts, BeforeTrace, Writing
    <2>3. CASE Disabled \/ Prepare
      <3>1. pc' \in {"done", "compile"} /\ UNCHANGED << run, edited >>
        BY <2>3 DEF Disabled, Prepare, To, Keep
      <3>2. QED
        BY <1>2, <3>1 DEF CInv, Texts, BeforeTrace, Writing
    <2>4. CASE ResolveCall \/ SpawnNode \/ Deploy \/ GetCode \/ Call \/ Fetch
      <3>1. /\ run'.text = run.text /\ run'.compiled = run.compiled /\ run'.place = run.place
        <4>1. CASE SpawnNode \/ GetCode \/ Fetch
          BY <4>1 DEF SpawnNode, GetCode, Fetch
        <4>2. CASE ResolveCall
          BY <1>1, <4>2 DEF ResolveCall, IsRun
        <4>3. CASE Deploy
          BY <1>1, <4>3 DEF Deploy, IsRun
        <4>4. CASE Call
          <5>1. PICK failed \in BOOLEAN, output \in Outputs \cup {Reverts!NoOutput} :
                  run' = [run EXCEPT !.failed = failed, !.output = output, !.logs = run.hasCode]
            BY <4>4 DEF Call
          <5>2. QED
            BY <1>1, <5>1 DEF IsRun
        <4>5. QED
          BY <2>4, <4>1, <4>2, <4>3, <4>4
      <3>2. /\ pc \in BeforeTrace \ {"prepare", "compile", "read"} /\ edited' = edited
            /\ pc' \in BeforeTrace \ {"begin"}
        BY <2>4 DEF ResolveCall, SpawnNode, Deploy, GetCode, Call, Fetch, At, To, Keep, BeforeTrace
      <3>3. QED
        BY <1>2, <3>1, <3>2 DEF CInv, Texts, BeforeTrace, Writing
    <2>5. QED
      BY <2>1, <2>2, <2>3, <2>4
  <1>6. QED
    BY <1>4, <1>5

\* The copy is of the file as it is, and the trace of an older run is replaced.
LEMMA CopyCopy == ASSUME CInv, PInv', CopySource \/ Begin PROVE Texts' /\ Kept'
  <1>1. CASE CopySource
    <2>1. /\ source' = source /\ copy' = source /\ UNCHANGED << trace, run, runs, edited >>
          /\ pc = "copy" /\ pc' = "begin"
      BY <1>1 DEF CInv, Texts, CopySource, At, To
    <2>2. QED
      BY <2>1 DEF CInv, Texts, Kept, BeforeTrace, Writing
  <1>2. CASE Begin
    <2>1. trace'.state # "closed"
      BY <1>2 DEF Begin, NewTrace
    <2>2. UNCHANGED << source, copy, run, runs, edited >> /\ pc = "begin" /\ pc' = "steps"
      BY <1>2 DEF Begin, At
    <2>3. QED
      BY <2>1, <2>2 DEF CInv, Texts, Kept, Closed, BeforeTrace, Writing
  <1>3. QED
    BY <1>1, <1>2

\* The steps that write the trace leave the copy alone.
LEMMA WritingCopy ==
    ASSUME CInv, PInv', RecordSteps \/ RegisterRevert \/ Finish \/ WriteMeta \/ Close
    PROVE  Texts' /\ Kept'
  <1>1. /\ UNCHANGED << source, copy, run, runs, edited, ended >>
        /\ pc \in Writing /\ IsTrace(trace) /\ trace.state # "closed"
    BY DEF CInv, PInv, Progress, RecordSteps, RegisterRevert, Finish, WriteMeta, Close, Finalize,
           At, To, Writing
  <1>2. CASE RecordSteps
    <2>1. /\ trace'.text = run.text /\ trace'.compiled = run.compiled /\ trace'.state # "closed"
          /\ pc' \in {"revert", "finish"}
      BY <1>1, <1>2 DEF RecordSteps, To, IsTrace
    <2>2. QED
      BY <1>1, <2>1 DEF CInv, Texts, Kept, Closed, BeforeTrace, Writing
  <1>3. CASE RegisterRevert
    <2>1. /\ trace'.text = trace.text /\ trace'.compiled = trace.compiled /\ trace'.state # "closed"
          /\ pc = "revert" /\ pc' = "finish"
      BY <1>1, <1>3 DEF RegisterRevert, At, To, IsTrace
    <2>2. QED
      BY <1>1, <2>1 DEF CInv, Texts, Kept, Closed, BeforeTrace, Writing
  <1>4. CASE Finish \/ WriteMeta
    <2>1. PICK state \in {"flushed", "described"} :
            /\ trace' = [trace EXCEPT !.state = state, !.edited = edited]
            /\ pc \in {"finish", "meta"} /\ pc' \in {"meta", "close"}
      BY <1>4 DEF Finish, WriteMeta, Finalize, At, To
    <2>2. trace'.text = trace.text /\ trace'.compiled = trace.compiled /\ trace'.state # "closed"
      BY <1>1, <2>1 DEF IsTrace
    <2>3. QED
      BY <1>1, <2>1, <2>2 DEF CInv, Texts, Kept, Closed, BeforeTrace, Writing
  <1>5. CASE Close
    <2>1. /\ trace' = [trace EXCEPT !.state = "closed", !.edited = edited]
          /\ pc = "close" /\ pc' = "done"
      BY <1>5 DEF Close, Finalize, At, To
    <2>2. trace'.text = trace.text /\ trace'.compiled = trace.compiled /\ trace'.edited = edited
      BY <1>1, <2>1 DEF IsTrace
    <2>3. ~edited => copy = trace'.text /\ trace'.compiled = trace'.text
      BY <1>1, <2>1, <2>2 DEF CInv, Texts, Writing
    <2>4. QED
      BY <1>1, <2>1, <2>2, <2>3 DEF CInv, Texts, Kept, BeforeTrace, Writing
  <1>6. QED
    BY <1>2, <1>3, <1>4, <1>5

\* A process that ends while it copies, or between the copy and the trace, is
\* among those that ended; an edit marks what it makes stale.
LEMMA EndCopy ==
    ASSUME CInv, PInv', Refuse \/ Fault \/ Kill \/ Edit \/ UNCHANGED vars
    PROVE  Texts' /\ Kept'
  <1>1. CASE Refuse \/ Fault \/ Kill
    <2>1. /\ UNCHANGED << source, trace, run, runs, edited >> /\ pc \in Steps
          /\ pc' \in {"failed", "killed"} /\ ended' = ended \cup {pc}
          /\ pc # "copy" => copy' = copy
      BY <1>1 DEF Refuse, Fault, Kill, End, At, Steps
    <2>2. Texts'
      BY <2>1 DEF CInv, Texts, BeforeTrace, Writing
    <2>3. ended' \cap {"copy", "begin"} = {} =>
            pc \notin {"copy", "begin"} /\ ended \cap {"copy", "begin"} = {}
      BY <2>1
    <2>4. Kept'
      BY <2>1, <2>3 DEF CInv, Kept, Closed
    <2>5. QED
      BY <2>2, <2>4
  <1>2. CASE Edit
    BY <1>2 DEF Edit, CInv, Texts, Kept, Closed
  <1>3. CASE UNCHANGED vars
    BY <1>3 DEF vars, CInv, Texts, Kept, Closed, OfThisRun
  <1>4. QED
    BY <1>1, <1>2, <1>3

LEMMA CopiesKept == ASSUME NoneIsNoReason, OnlyApart, CInv, [Next]_vars PROVE CInv'
  <1>1. PInv'
    BY ProgressKept DEF CInv
  <1>2. QED
    BY <1>1, StartCopy, ReadingCopy, CopyCopy, WritingCopy, EndCopy DEF CInv, Next, Proceed

\* The invariant about the texts, which both theorems on them follow from.
LEMMA CopiesInvariant == ASSUME NoneIsNoReason, OnlyApart PROVE Spec => []CInv
  <1>1. Init => CInv
    BY InitPInv DEF Init, CInv, Texts, Kept, NewRun, Closed, OfThisRun, BeforeTrace, Writing
  <1>2. ASSUME CInv, [Next]_vars PROVE CInv'
    BY <1>2, CopiesKept
  <1>3. QED
    BY <1>1, <1>2, PTL DEF Spec

\* When the output directory is not the one of the source, a complete trace lies
\* next to the text it was made from (main.rs:571).
THEOREM CopiesBelongToTraces ==
    ASSUME NoneIsNoReason, OnlyApart
    PROVE  Spec => []CopyHoldsSource
  <1>1. CInv => CopyHoldsSource
    BY DEF CInv, PInv, Progress, Texts, Kept, CopyHoldsSource, Copied
  <1>2. QED
    BY <1>1, CopiesInvariant, PTL

\* A complete trace keeps its text however many later runs fail or are killed, but
\* for those that end between copying the source and beginning their own trace.
THEOREM RecordingsSurvive ==
    ASSUME NoneIsNoReason, OnlyApart
    PROVE  Spec => []RecordingSurvives
  <1>1. CInv => RecordingSurvives
    BY DEF CInv, Kept, RecordingSurvives, Resting
  <1>2. QED
    BY <1>1, CopiesInvariant, PTL

-----------------------------------------------------------------------------
(* What the process has in memory, and what of it the trace gets. *)

\* Of several entries of an ABI there is a first one.
LEMMA FirstExists ==
    ASSUME NEW S \in SUBSET Nat, S # {}
    PROVE  Calls!First(S) \in S /\ \A j \in S : Calls!First(S) <= j
  <1>1. PICK x \in S : \A y \in S : ~(<<y, x>> \in OpToRel(<, Nat))
    BY NatLessThanWellFounded, WFMin
  <1>2. ASSUME NEW y \in S PROVE x <= y
    <2>1. x \in Nat /\ y \in Nat
      OBVIOUS
    <2>2. <<y, x>> \in Nat \X Nat /\ <<y, x>>[1] = y /\ <<y, x>>[2] = x
      BY <2>1
    <2>3. <<y, x>> \notin OpToRel(<, Nat)
      BY <1>1
    <2>4. ~(y < x)
      BY <2>2, <2>3 DEF OpToRel
    <2>5. QED
      BY <2>1, <2>4
  <1>3. QED
    BY <1>2 DEF Calls!First

Abi == Abis \cup {<< >>}
Output == Outputs \cup {Reverts!NoOutput}
AfterAbi == {"spawn", "deploy", "code", "call", "fetch", "copy", "begin"} \cup Writing
Done == pc = "done" /\ OfThisRun

\* The call of a run that can make one up.
CallMade(r) == /\ r.call = Calls!CallSignatureAndArgs(r.abi, Calls!ResolveFunctionName(r.abi, "run"))
               /\ r.call # None

\* The process has one ABI, one call made from it, and one output; the trace gets
\* them, and the reason decoded from them.
Facts ==
    /\ run.abi \in Abi /\ run.output \in Output
    /\ run.mode = "sol" /\ (pc \in AfterAbi \/ Done) => CallMade(run)
    /\ pc \in {"revert", "finish", "meta", "close"} \/ Done
          => trace.call = run.call /\ trace.failed = run.failed
    /\ (pc \in {"finish", "meta", "close"} \/ Done) /\ run.failed
          => trace.error = Reverts!DecodeRevert(run.output, Registry(run.abi))

FInv == PInv /\ Facts

\* Up to the trace, the process learns the ABI, the call and the output.
LEMMA ReadingFacts ==
    ASSUME FInv,
           \/ Start \/ Disabled \/ Prepare \/ CompileSol \/ CompileYul \/ ReadSource \/ ResolveCall
           \/ SpawnNode \/ Deploy \/ GetCode \/ Call \/ Fetch \/ CopySource
    PROVE  Facts'
  <1>1. IsRun(run)
    BY DEF FInv, PInv, Progress
  <1>2. ~Done' /\ pc' \notin {"revert", "finish", "meta", "close"}
    <2>1. CASE Start
      BY <2>1 DEF Start, To, Done
    <2>2. CASE Disabled
      <3>1. pc = "prepare" /\ UNCHANGED << trace, runs >> /\ pc' = "done"
        BY <2>2 DEF Disabled, At, To, Keep
      <3>2. trace = None \/ (trace.run < runs /\ trace.run \in Nat)
        BY <3>1 DEF FInv, PInv, Progress, BeforeTrace
      <3>3. runs \in Nat
        BY DEF FInv, PInv, Progress
      <3>4. QED
        BY <3>1, <3>2, <3>3 DEF Done, OfThisRun
    <2>3. CASE \/ Prepare \/ CompileSol \/ CompileYul \/ ReadSource \/ ResolveCall
               \/ SpawnNode \/ Deploy \/ GetCode \/ Call \/ Fetch \/ CopySource
      BY <2>3 DEF Prepare, CompileSol, CompileYul, Compiled, ReadSource, ResolveCall, SpawnNode,
                  Deploy, GetCode, Call, Fetch, CopySource, At, To, Done
    <2>4. QED
      BY <2>1, <2>2, <2>3
  <1>3. SUFFICES /\ run'.abi \in Abi /\ run'.output \in Output
                 /\ run'.mode = "sol" /\ pc' \in AfterAbi => CallMade(run')
    BY <1>2 DEF Facts
  <1>4. CASE Start
    <2>1. PICK mode \in Modes, place \in Places : run' = [NewRun EXCEPT !.mode = mode, !.place = place]
      BY <1>4 DEF Start
    <2>2. run'.abi = << >> /\ run'.output = Reverts!NoOutput
      BY <2>1 DEF NewRun
    <2>3. pc' = "prepare"
      BY <1>4 DEF Start, To
    <2>4. QED
      BY <2>2, <2>3 DEF Abi, Output, AfterAbi, Writing
  <1>5. CASE Disabled \/ Prepare
    <2>1. run' = run /\ pc' \in {"done", "compile"}
      BY <1>5 DEF Disabled, Prepare, To
    <2>2. QED
      BY <2>1 DEF FInv, Facts, AfterAbi, Writing
  <1>6. CASE CompileSol \/ CompileYul
    <2>1. PICK abi \in Abi : run' = [run EXCEPT !.compiled = source, !.abi = abi]
      BY <1>6 DEF CompileSol, CompileYul, Compiled, Abi
    <2>2. run'.abi = abi /\ run'.output = run.output
      BY <1>1, <2>1 DEF IsRun
    <2>3. pc' = "read"
      BY <1>6 DEF CompileSol, CompileYul, Compiled, To
    <2>4. QED
      BY <2>2, <2>3 DEF FInv, Facts, AfterAbi, Writing
  <1>7. CASE ReadSource
    <2>1. /\ run'.abi = run.abi /\ run'.output = run.output /\ run'.mode = run.mode
      BY <1>1, <1>7 DEF ReadSource, IsRun
    <2>2. pc' = IF run.mode = "sol" THEN "abi" ELSE "spawn"
      BY <1>7 DEF ReadSource, To
    <2>3. QED
      BY <2>1, <2>2 DEF FInv, Facts, AfterAbi, Writing
  <1>8. CASE ResolveCall
    <2> DEFINE call == Calls!CallSignatureAndArgs(run.abi, Calls!ResolveFunctionName(run.abi, "run"))
    <2>1. call # None /\ run' = [run EXCEPT !.call = call]
      BY <1>8 DEF ResolveCall
    <2> HIDE DEF call
    <2>2. run'.abi = run.abi /\ run'.output = run.output /\ run'.call = call
      BY <1>1, <2>1 DEF IsRun
    <2>3. CallMade(run')
      BY <2>1, <2>2 DEF CallMade, call
    <2>4. QED
      BY <2>2, <2>3 DEF FInv, Facts
  <1>9. CASE SpawnNode \/ Deploy \/ GetCode \/ Call \/ Fetch \/ CopySource
    <2>1. pc \in AfterAbi
      BY <1>9 DEF SpawnNode, Deploy, GetCode, Call, Fetch, CopySource, At, AfterAbi
    <2>2. /\ run'.abi = run.abi /\ run'.call = run.call /\ run'.mode = run.mode
          /\ run'.output \in Output
      <3>1. CASE SpawnNode \/ GetCode \/ Fetch \/ CopySource
        BY <3>1 DEF SpawnNode, GetCode, Fetch, CopySource, FInv, Facts
      <3>2. CASE Deploy
        BY <1>1, <3>2 DEF Deploy, IsRun, FInv, Facts
      <3>3. CASE Call
        <4>1. PICK failed \in BOOLEAN, output \in Output :
                run' = [run EXCEPT !.failed = failed, !.output = output, !.logs = run.hasCode]
          BY <3>3 DEF Call, Output
        <4>2. QED
          BY <1>1, <4>1 DEF IsRun
      <3>4. QED
        BY <1>9, <3>1, <3>2, <3>3
    <2>3. QED
      BY <2>1, <2>2 DEF FInv, Facts, CallMade
  <1>10. QED
    BY <1>4, <1>5, <1>6, <1>7, <1>8, <1>9

\* The trace gets what the process has.
LEMMA WritingFacts ==
    ASSUME FInv, PInv', Begin \/ RecordSteps \/ RegisterRevert \/ Finish \/ WriteMeta \/ Close
    PROVE  Facts'
  <1>1. UNCHANGED << run, runs >> /\ pc \in AfterAbi
    BY DEF Begin, RecordSteps, RegisterRevert, Finish, WriteMeta, Close, Finalize, At, AfterAbi, Writing
  <1>2. /\ run'.abi \in Abi /\ run'.output \in Output
        /\ run'.mode = "sol" => CallMade(run')
    BY <1>1 DEF FInv, Facts, CallMade
  <1>3. CASE Begin
    <2>1. pc' = "steps"
      BY <1>3 DEF Begin
    <2>2. QED
      BY <1>2, <2>1 DEF Facts, Done
  <1>4. CASE RecordSteps
    <2>1. IsTrace(trace)
      BY <1>4 DEF FInv, PInv, Progress, RecordSteps, At, Writing
    <2>2. trace'.call = run.call /\ trace'.failed = run.failed
      BY <1>4, <2>1 DEF RecordSteps, IsTrace
    <2>3. pc' = IF run.failed THEN "revert" ELSE "finish"
      BY <1>4 DEF RecordSteps, To
    <2>4. QED
      BY <1>1, <1>2, <2>2, <2>3 DEF Facts, Done
  <1>5. CASE RegisterRevert
    <2>1. IsTrace(trace) /\ pc = "revert"
      BY <1>5 DEF FInv, PInv, Progress, RegisterRevert, At, Writing
    <2>2. /\ trace'.call = trace.call /\ trace'.failed = trace.failed
          /\ trace'.error = Reverts!DecodeRevert(run.output, Registry(run.abi))
      BY <1>5, <2>1 DEF RegisterRevert, IsTrace
    <2>3. QED
      BY <1>1, <1>2, <2>1, <2>2 DEF FInv, Facts
  <1>6. CASE Finish \/ WriteMeta \/ Close
    <2>1. IsTrace(trace) /\ pc \in {"finish", "meta", "close"}
      BY <1>6 DEF FInv, PInv, Progress, Finish, WriteMeta, Close, Finalize, At, Writing
    <2>2. PICK state : trace' = [trace EXCEPT !.state = state, !.edited = edited]
      BY <1>6 DEF Finish, WriteMeta, Close, Finalize
    <2>3. /\ trace'.call = trace.call /\ trace'.failed = trace.failed
          /\ trace'.error = trace.error
      BY <2>1, <2>2 DEF IsTrace
    <2>4. QED
      BY <1>1, <1>2, <2>1, <2>3 DEF FInv, Facts
  <1>7. QED
    BY <1>3, <1>4, <1>5, <1>6

\* A process that ends, or an edit, adds nothing.
LEMMA EndFacts ==
    ASSUME FInv, Refuse \/ Fault \/ Kill \/ Edit \/ UNCHANGED vars
    PROVE  Facts'
  <1>1. UNCHANGED << trace, runs, run >> /\ (pc' = pc \/ pc' \in {"failed", "killed"})
    BY DEF Refuse, Fault, Kill, Edit, End, vars
  <1>2. (Done' => Done) /\ (pc' \in AfterAbi => pc' = pc)
    BY <1>1 DEF Done, OfThisRun, AfterAbi, Writing
  <1>3. QED
    BY <1>1, <1>2 DEF FInv, Facts, CallMade

\* So everything a complete trace says is about one run.
LEMMA FactsInvariant == ASSUME NoneIsNoReason PROVE Spec => []FInv
  <1>1. Init => FInv
    BY InitPInv DEF Init, FInv, Facts, NewRun, Abi, Output, AfterAbi, Writing, Done
  <1>2. ASSUME FInv, [Next]_vars PROVE FInv'
    <2>1. PInv'
      BY <1>2, ProgressKept DEF FInv
    <2>2. QED
      BY <1>2, <2>1, ReadingFacts, WritingFacts, EndFacts DEF FInv, Next, Proceed
  <1>3. QED
    BY <1>1, <1>2, PTL DEF Spec

-----------------------------------------------------------------------------
(* The call. *)

\* What the command calls is declared, if anything is.
LEMMA CallIsDeclared ==
    ASSUME NEW abi \in Abi, NEW call,
           call = Calls!CallSignatureAndArgs(abi, Calls!ResolveFunctionName(abi, "run")), call # None
    PROVE  LET declared == {i \in DOMAIN abi : abi[i].kind = "function"} IN
           /\ declared # {} => \E i \in declared :
                 /\ abi[i].name = call.name /\ abi[i].inputs = call.types
                 /\ \A j \in declared : abi[j].name = "run" => call.name = "run"
           /\ Len(call.args) = Len(call.types)
  <1> DEFINE declared == {i \in DOMAIN abi : abi[i].kind = "function"}
             name == Calls!ResolveFunctionName(abi, "run")
             named == {i \in declared : abi[i].name = name}
             types == IF named = {} THEN << >> ELSE abi[Calls!First(named)].inputs
  <1>1. abi \in Seq(Entry) /\ DOMAIN abi \subseteq Nat
    <2>1. abi \in Abis \/ abi = << >>
      BY DEF Abi
    <2> DEFINE E == Entry
    <2>2. Abis \subseteq Seq(E)
      BY DataAssumption
    <2> HIDE DEF E
    <2>3. abi \in Seq(E)
      <3>1. << >> \in Seq(E)
        OBVIOUS
      <3>2. CASE abi \in Abis
        BY <2>2, <3>2, Zenon
      <3>3. CASE abi = << >>
        BY <3>1, <3>3, Zenon
      <3>4. QED
        BY <2>1, <3>2, <3>3
    <2>4. DOMAIN abi = 1..Len(abi) /\ Len(abi) \in Nat
      BY <2>3
    <2>5. abi \in Seq(Entry)
      BY <2>3 DEF E
    <2>6. QED
      BY <2>4, <2>5
  <1>2. Calls!Functions(abi) = declared
    BY DEF Calls!Functions
  <1>3. declared \in SUBSET Nat /\ named \in SUBSET Nat
    BY <1>1
  <1>4. name = IF declared = {} \/ \E i \in declared : abi[i].name = "run"
               THEN "run" ELSE abi[Calls!First(declared)].name
    BY <1>2 DEF Calls!ResolveFunctionName
  <1>5. call = [name |-> name, types |-> types,
                args |-> [i \in DOMAIN types |-> Calls!DefaultArg(types[i])]]
    BY <1>2 DEF Calls!CallSignatureAndArgs
  <1> HIDE DEF name, types
  <1>6. call.name = name /\ call.types = types
        /\ call.args = [i \in DOMAIN types |-> Calls!DefaultArg(types[i])]
    BY <1>5
  <1>7. ASSUME named # {} PROVE Calls!First(named) \in named
    BY <1>3, <1>7, FirstExists
  <1>8. types \in Seq(Types)
    <2>1. CASE named = {}
      BY <2>1 DEF types
    <2>2. CASE named # {}
      <3> DEFINE k == Calls!First(named)
      <3>1. k \in DOMAIN abi /\ types = abi[k].inputs
        BY <1>7, <2>2 DEF types
      <3> HIDE DEF k
      <3>2. abi[k] \in Entry
        BY <1>1, <3>1
      <3>3. QED
        BY <3>1, <3>2 DEF Entry
    <2>3. QED
      BY <2>1, <2>2
  <1>9. Len(call.args) = Len(call.types)
    BY <1>6, <1>8
  <1>10. ASSUME declared # {} PROVE named # {}
    <2>1. CASE \E i \in declared : abi[i].name = "run"
      BY <1>4, <2>1
    <2>2. CASE ~\E i \in declared : abi[i].name = "run"
      <3>1. Calls!First(declared) \in declared
        BY <1>3, <1>10, FirstExists
      <3>2. name = abi[Calls!First(declared)].name
        BY <1>4, <1>10, <2>2
      <3>3. QED
        BY <3>1, <3>2
    <2>3. QED
      BY <2>1, <2>2
  <1>11. ASSUME declared # {}
         PROVE  \E i \in declared :
                   /\ abi[i].name = call.name /\ abi[i].inputs = call.types
                   /\ \A j \in declared : abi[j].name = "run" => call.name = "run"
    <2> DEFINE k == Calls!First(named)
    <2>1. k \in named /\ types = abi[k].inputs
      BY <1>7, <1>10, <1>11 DEF types
    <2>2. \A j \in declared : abi[j].name = "run" => name = "run"
      BY <1>4
    <2> HIDE DEF k
    <2>3. QED
      BY <1>6, <2>1, <2>2
  <1>12. QED
    BY <1>9, <1>11

\* A complete trace of a Solidity contract is of a function that the contract
\* declares, of the one asked for when it does, called with one argument for each
\* parameter (main.rs:975), for every ABI, overloads and errors among its entries.
THEOREM DeclaredIsCalled == ASSUME NoneIsNoReason PROVE Spec => []CallsDeclared
  <1>1. FInv => CallsDeclared
    <2> SUFFICES ASSUME FInv, Closed, OfThisRun, run.mode = "sol"
                 PROVE  LET declared == {i \in DOMAIN run.abi : run.abi[i].kind = "function"} IN
                        /\ declared # {} => \E i \in declared :
                              /\ run.abi[i].name = trace.call.name
                              /\ run.abi[i].inputs = trace.call.types
                              /\ \A j \in declared : run.abi[j].name = "run" => trace.call.name = "run"
                        /\ Len(trace.call.args) = Len(trace.call.types)
      BY DEF CallsDeclared
    <2>1. Done
      BY DEF FInv, PInv, Progress, Done
    <2>2. trace.call = run.call /\ CallMade(run) /\ run.abi \in Abi
      BY <2>1 DEF FInv, Facts
    <2>3. QED
      BY <2>2, CallIsDeclared DEF CallMade
  <1>2. QED
    BY <1>1, FactsInvariant, PTL

-----------------------------------------------------------------------------
(* The reason. *)

\* None is no number, no text and no selector, and no contract declares the errors
\* of the language itself, which solc refuses to redefine.
NoneIsNoData ==
    None \notin Int /\ None \notin Seq(Int) /\ \A name, types : Reverts!Signature(name, types) # None
ErrorsAreOwn ==
    \A abi \in Abis : \A i \in DOMAIN abi : abi[i].kind = "error" => abi[i].name \notin {"Error", "Panic"}

\* Sequences with the same elements are the same.
LEMMA SameElements ==
    ASSUME NEW s \in Seq(Nat), NEW t \in Seq(Nat), Len(s) = Len(t),
           \A i \in 1..Len(t) : s[i] = t[i]
    PROVE  s = t
  BY SMTT(30)

\* The elements of a piece of a payload.
LEMMA PieceElements ==
    ASSUME NEW s \in Seq(Nat), NEW m \in Nat, NEW n \in Nat, m <= n, n <= Len(s)
    PROVE  /\ SubSeq(s, m + 1, n) \in Seq(Nat) /\ Len(SubSeq(s, m + 1, n)) = n - m
           /\ \A i \in 1..(n - m) : SubSeq(s, m + 1, n)[i] = s[m + i]
  OBVIOUS

\* The same, by the first and the last place of the piece.
LEMMA PieceFrom ==
    ASSUME NEW s \in Seq(Nat), NEW first \in Nat \ {0}, NEW last \in Nat,
           first <= last + 1, last <= Len(s)
    PROVE  /\ SubSeq(s, first, last) \in Seq(Nat) /\ Len(SubSeq(s, first, last)) = last + 1 - first
           /\ \A i \in 1..(last + 1 - first) : SubSeq(s, first, last)[i] = s[first - 1 + i]
  OBVIOUS

\* The elements of two pieces put together.
LEMMA JoinElements ==
    ASSUME NEW s \in Seq(Nat), NEW t \in Seq(Nat)
    PROVE  /\ s \o t \in Seq(Nat) /\ Len(s \o t) = Len(s) + Len(t)
           /\ \A i \in 1..Len(s) : (s \o t)[i] = s[i]
           /\ \A i \in 1..Len(t) : (s \o t)[Len(s) + i] = t[i]
  OBVIOUS

\* What comes after a place in a payload.
LEMMA RestElements ==
    ASSUME NEW s \in Seq(Nat), NEW at \in Nat, at <= Len(s)
    PROVE  /\ Reverts!From(s, at) \in Seq(Nat) /\ Len(Reverts!From(s, at)) = Len(s) - at
           /\ \A i \in 1..(Len(s) - at) : Reverts!From(s, at)[i] = s[at + i]
  <1>1. Len(s) \in Nat
    OBVIOUS
  <1>2. QED
    BY <1>1, PieceElements DEF Reverts!From

\* A piece of what comes after a place is a piece of the whole.
LEMMA PieceAt ==
    ASSUME NEW s \in Seq(Nat), NEW at \in Nat, NEW first \in Nat \ {0}, NEW last \in Nat,
           first <= last + 1, at + last <= Len(s)
    PROVE  SubSeq(Reverts!From(s, at), first, last) = SubSeq(s, at + first, at + last)
  <1> DEFINE rest == Reverts!From(s, at)
             left == SubSeq(rest, first, last)
             from == at + first
             to == at + last
             right == SubSeq(s, from, to)
             size == Len(s)
             length == last + 1 - first
  <1>1. /\ size \in Nat /\ at <= size /\ to <= size /\ length \in Nat
        /\ from \in Nat \ {0} /\ to \in Nat /\ from <= to + 1 /\ to + 1 - from = length
    <2>1. size \in Nat
      OBVIOUS
    <2> HIDE DEF size
    <2>2. at + last <= size
      BY DEF size
    <2>3. QED
      BY <2>1, <2>2
  <1>2. /\ rest \in Seq(Nat) /\ Len(rest) = size - at
        /\ \A i \in 1..(size - at) : rest[i] = s[at + i]
    BY <1>1, RestElements
  <1> HIDE DEF rest, from, to
  <1>3. last <= Len(rest)
    <2> HIDE DEF size
    <2>1. QED
      BY <1>1, <1>2 DEF to
  <1>4. /\ left \in Seq(Nat) /\ Len(left) = length
        /\ \A i \in 1..length : left[i] = rest[first - 1 + i]
    BY <1>2, <1>3, PieceFrom
  <1>5. /\ right \in Seq(Nat) /\ Len(right) = to + 1 - from
        /\ \A i \in 1..(to + 1 - from) : right[i] = s[from - 1 + i]
    BY <1>1, PieceFrom
  <1> HIDE DEF left, right, size, length
  <1>6. ASSUME NEW i \in 1..length PROVE left[i] = right[i]
    <2>1. first - 1 + i \in 1..(size - at) /\ at + (first - 1 + i) = from - 1 + i
      BY <1>1 DEF from, to, length
    <2>2. left[i] = s[at + (first - 1 + i)]
      BY <1>2, <1>4, <2>1
    <2>3. right[i] = s[from - 1 + i]
      BY <1>1, <1>5
    <2>4. QED
      BY <2>1, <2>2, <2>3
  <1>7. left = right
    <2>1. Len(left) = Len(right) /\ Len(right) = length
      BY <1>1, <1>4, <1>5
    <2>2. QED
      BY <1>4, <1>5, <1>6, <2>1, SameElements
  <1>8. QED
    BY <1>7 DEF left, right, rest, from, to

\* The word of a number has its value in the last byte.
LEMMA WordElements ==
    ASSUME NEW n \in Nat
    PROVE  /\ WordOf(n) \in Seq(Nat) /\ Len(WordOf(n)) = WordSize
           /\ \A i \in 1..(WordSize - 1) : WordOf(n)[i] = 0
           /\ WordOf(n)[WordSize] = n
  <1> DEFINE zeros == Zeros(WordSize - 1)
  <1>1. WordSize \in Nat /\ WordSize - 1 \in Nat
    BY RecordAssumption
  <1>2. zeros \in Seq(Nat) /\ Len(zeros) = WordSize - 1 /\ \A i \in 1..(WordSize - 1) : zeros[i] = 0
    BY <1>1 DEF Zeros
  <1> HIDE DEF zeros
  <1>3. /\ Append(zeros, n) \in Seq(Nat) /\ Len(Append(zeros, n)) = WordSize
        /\ \A i \in 1..(WordSize - 1) : Append(zeros, n)[i] = zeros[i]
        /\ Append(zeros, n)[WordSize] = n
    BY <1>1, <1>2
  <1>4. WordOf(n) = Append(zeros, n)
    BY DEF WordOf, zeros
  <1>5. QED
    BY <1>2, <1>3, <1>4

\* The code reads a word as the number it is the word of,
LEMMA WordIsRead == ASSUME NEW n \in Nat PROVE Reverts!ToUsize(WordOf(n)) = n
  BY WordElements DEF Reverts!ToUsize

\* and no other word as a number.
LEMMA ReadIsWord ==
    ASSUME NEW word \in Seq(Nat), Len(word) = WordSize, Reverts!ToUsize(word) # None
    PROVE  Reverts!ToUsize(word) \in Nat /\ word = WordOf(Reverts!ToUsize(word))
  <1> DEFINE n == word[WordSize]
  <1>1. WordSize \in Nat /\ WordSize > 1 /\ WordSize \in 1..WordSize
    BY RecordAssumption
  <1>2. Reverts!ToUsize(word) = n /\ \A i \in 1..(WordSize - 1) : word[i] = 0
    BY DEF Reverts!ToUsize
  <1>3. n \in Nat
    BY <1>1
  <1> HIDE DEF n
  <1>4. /\ WordOf(n) \in Seq(Nat) /\ Len(WordOf(n)) = WordSize /\ WordOf(n)[WordSize] = n
        /\ \A i \in 1..(WordSize - 1) : WordOf(n)[i] = 0
    BY <1>3, WordElements
  <1>5. ASSUME NEW i \in 1..WordSize PROVE word[i] = WordOf(n)[i]
    <2>1. CASE i = WordSize
      BY <1>4, <2>1 DEF n
    <2>2. CASE i # WordSize
      <3>1. i \in 1..(WordSize - 1)
        BY <1>1, <2>2
      <3>2. QED
        BY <1>2, <1>4, <3>1
    <2>3. QED
      BY <2>1, <2>2
  <1>6. word = WordOf(n)
    BY <1>4, <1>5, SameElements
  <1>7. QED
    BY <1>2, <1>3, <1>6

\* The text of a string is never None.
LEMMA TextIsText ==
    ASSUME NEW bytes \in Seq(Nat), NoneIsNoData
    PROVE  Reverts!Lossy(bytes) # None
  <1>1. Reverts!Lossy(bytes) \in Seq(Int)
    <2> DEFINE n == Len(bytes)
               text == [i \in 1..n |-> IF bytes[i] \in Invalid THEN Reverts!Replacement ELSE bytes[i]]
    <2>1. n \in Nat /\ DOMAIN bytes = 1..n /\ \A i \in 1..n : bytes[i] \in Int
      OBVIOUS
    <2>2. Reverts!Lossy(bytes) = text
      BY <2>1 DEF Reverts!Lossy
    <2> HIDE DEF n
    <2>3. Reverts!Replacement \in Int
      BY DEF Reverts!Replacement
    <2>4. text \in [1..n -> Int]
      BY <2>1, <2>3
    <2> HIDE DEF text
    <2>5. QED
      BY <2>1, <2>2, <2>4
  <1>2. QED
    BY <1>1 DEF NoneIsNoData

\* A piece of a sequence, and that it is the one of a length after a place.
Slice(s, first, last) == SubSeq(s, first, last)
Spans(s, at, length, first, last) == first = at + 1 /\ last = at + length /\ last <= Len(s)

\* What comes after a place begins with the piece at that place.
LEMMA Beginning ==
    ASSUME NEW s \in Seq(Nat), NEW at \in Nat, NEW length \in Nat,
           NEW first, NEW last, Spans(s, at, length, first, last)
    PROVE  Slice(Reverts!From(s, at), 1, length) = Slice(s, first, last)
  <1>1. 1 \in Nat \ {0} /\ 1 <= length + 1 /\ at + length <= Len(s)
    BY DEF Spans
  <1>2. SubSeq(Reverts!From(s, at), 1, length) = SubSeq(s, at + 1, at + length)
    BY <1>1, PieceAt
  <1>3. QED
    BY ONLY <1>2, Spans(s, at, length, first, last) DEF Spans, Slice

\* A string that is encoded in a payload is found at the offset it says.
LEMMA StringIsRead ==
    ASSUME NEW payload \in Seq(Nat), NEW offset \in Nat, NEW length \in Nat, NoneIsNoData,
           StringAt(payload, offset, length)
    PROVE  Reverts!ErrorStringPayload(payload) = Reverts!Lossy(StringOf(payload, offset, length))
  <1> DEFINE size == Len(payload)
             after == Reverts!From(payload, offset)
             body == Reverts!From(after, WordSize)
  <1>1. WordSize \in Nat /\ WordSize > 1 /\ size \in Nat
    BY RecordAssumption
  <1>2. 2 * WordSize <= size /\ offset + WordSize + length <= size
    BY DEF StringAt
  <1> HIDE DEF size
  <1>3. /\ offset <= size /\ offset + WordSize <= size /\ WordSize + length \in Nat
        /\ WordSize <= size - offset /\ length <= size - offset - WordSize
        /\ offset + (WordSize + length) <= size /\ WordSize <= WordSize + length
        /\ 1 \in Nat \ {0} /\ 1 <= WordSize + 1
    BY <1>1, <1>2
  <1>4. Reverts!ToUsize(Reverts!Word(payload, 0)) = offset
    <2>1. Reverts!Word(payload, 0) = WordOf(offset)
      BY <1>1 DEF Reverts!Word, StringAt
    <2>2. QED
      BY <2>1, WordIsRead
  <1>5. after \in Seq(Nat) /\ Len(after) = size - offset
    BY <1>3, RestElements DEF size
  <1>6. Reverts!ToUsize(Reverts!Word(after, 0)) = length
    <2>1. SubSeq(after, 1, WordSize) = SubSeq(payload, offset + 1, offset + WordSize)
      <3> DEFINE first == offset + 1
                 last == offset + WordSize
      <3>1. WordSize \in Nat /\ Spans(payload, offset, WordSize, first, last)
        BY <1>1, <1>3 DEF size, Spans
      <3>2. first = offset + 1 /\ last = offset + WordSize
        OBVIOUS
      <3> HIDE DEF first, last
      <3>3. Slice(after, 1, WordSize) = Slice(payload, first, last)
        BY <3>1, Beginning
      <3>4. QED
        BY ONLY <3>2, <3>3 DEF Slice
    <2> HIDE DEF after
    <2>2. 0 + 1 = 1 /\ 0 + WordSize = WordSize
      BY <1>1
    <2>3. Reverts!Word(after, 0) = WordOf(length)
      BY <2>1, <2>2 DEF Reverts!Word, StringAt
    <2>4. QED
      BY <2>3, WordIsRead
  <1>7. /\ body \in Seq(Nat) /\ Len(body) = size - offset - WordSize
        /\ SubSeq(body, 1, length) = StringOf(payload, offset, length)
    <2> DEFINE first == WordSize + 1
               last == WordSize + length
    <2>0. first \in Nat \ {0} /\ last \in Nat /\ first <= last + 1 /\ offset + last <= size
      BY <1>1, <1>3
    <2> HIDE DEF first, last
    <2>1. SubSeq(after, first, last) = SubSeq(payload, offset + first, offset + last)
      BY <2>0, PieceAt DEF size
    <2> HIDE DEF after
    <2>2. body \in Seq(Nat) /\ Len(body) = Len(after) - WordSize
      BY <1>1, <1>3, <1>5, RestElements
    <2>3. after \in Seq(Nat) /\ WordSize \in Nat /\ Spans(after, WordSize, length, first, last)
      BY <1>1, <1>3, <1>5 DEF first, last, Spans
    <2>4. Slice(body, 1, length) = Slice(after, first, last)
      BY <2>3, Beginning
    <2>5. SubSeq(body, 1, length) = SubSeq(after, first, last)
      BY ONLY <2>4 DEF Slice
    <2> HIDE DEF body
    <2>6. SubSeq(body, 1, length) = StringOf(payload, offset, length)
      <3>1. offset + first = offset + WordSize + 1 /\ offset + last = offset + WordSize + length
        BY <1>1 DEF first, last
      <3>2. QED
        BY <2>1, <2>5, <3>1 DEF StringOf
    <2>7. Len(body) = size - offset - WordSize
      BY <1>5, <2>2
    <2>8. QED
      BY <2>2, <2>6, <2>7
  <1> HIDE DEF after, body
  <1>8. offset # None /\ length # None
    BY DEF NoneIsNoData
  <1>9. /\ ~(size < 2 * WordSize) /\ ~(offset > size)
        /\ ~(Len(after) < WordSize) /\ ~(Len(body) < length)
    BY <1>1, <1>2, <1>3, <1>5, <1>7
  <1>10. Reverts!ErrorStringPayload(payload) = Reverts!Lossy(SubSeq(body, 1, length))
    BY <1>4, <1>6, <1>8, <1>9 DEF Reverts!ErrorStringPayload, after, body, size
  <1>11. QED
    BY <1>7, <1>10

\* A string is found in no other payload.
LEMMA ReadIsString ==
    ASSUME NEW payload \in Seq(Nat), Reverts!ErrorStringPayload(payload) # None
    PROVE  \E offset, length \in 0..Len(payload) : StringAt(payload, offset, length)
  <1> DEFINE size == Len(payload)
             offset == Reverts!ToUsize(Reverts!Word(payload, 0))
             after == Reverts!From(payload, offset)
             length == Reverts!ToUsize(Reverts!Word(after, 0))
             body == Reverts!From(after, WordSize)
  <1>1. WordSize \in Nat /\ WordSize > 1 /\ size \in Nat
    BY RecordAssumption
  <1>2. /\ ~(size < 2 * WordSize) /\ offset # None /\ ~(offset > size)
        /\ ~(Len(after) < WordSize) /\ length # None /\ ~(Len(body) < length)
    BY Zenon DEF Reverts!ErrorStringPayload
  <1> HIDE DEF size
  <1>3. WordSize <= size /\ 2 * WordSize <= size
    BY <1>1, <1>2
  <1>4. offset \in Nat /\ Reverts!Word(payload, 0) = WordOf(offset)
    <2> DEFINE word == Reverts!Word(payload, 0)
    <2>1. word \in Seq(Nat) /\ Len(word) = 0 + WordSize - 0
      BY <1>1, <1>3, PieceElements DEF Reverts!Word, size
    <2> HIDE DEF word
    <2>2. Len(word) = WordSize /\ Reverts!ToUsize(word) # None
      BY <1>1, <1>2, <2>1 DEF word
    <2>3. Reverts!ToUsize(word) \in Nat /\ word = WordOf(Reverts!ToUsize(word))
      BY <2>1, <2>2, ReadIsWord
    <2>4. QED
      BY <2>3 DEF word
  <1> HIDE DEF offset
  <1>5. offset <= size
    BY <1>1, <1>2, <1>4
  <1>6. after \in Seq(Nat) /\ Len(after) = size - offset
    BY <1>4, <1>5, RestElements DEF size
  <1>7. /\ WordSize <= Len(after) /\ offset + WordSize <= size
        /\ 1 \in Nat \ {0} /\ 1 <= WordSize + 1
    BY <1>1, <1>2, <1>4, <1>6
  <1>8. length \in Nat /\ Reverts!Word(after, 0) = WordOf(length)
    <2> DEFINE word == Reverts!Word(after, 0)
    <2> HIDE DEF after
    <2>1. word \in Seq(Nat) /\ Len(word) = 0 + WordSize - 0
      BY <1>1, <1>6, <1>7, PieceElements DEF Reverts!Word
    <2> HIDE DEF word
    <2>2. Len(word) = WordSize /\ Reverts!ToUsize(word) # None
      BY <1>1, <1>2, <2>1 DEF word
    <2>3. Reverts!ToUsize(word) \in Nat /\ word = WordOf(Reverts!ToUsize(word))
      BY <2>1, <2>2, ReadIsWord
    <2>4. QED
      BY <2>3 DEF word
  <1>9. SubSeq(payload, offset + 1, offset + WordSize) = WordOf(length)
    <2>1. SubSeq(after, 1, WordSize) = SubSeq(payload, offset + 1, offset + WordSize)
      BY <1>1, <1>4, <1>7, PieceAt DEF size
    <2> HIDE DEF after, length
    <2>2. 0 + 1 = 1 /\ 0 + WordSize = WordSize
      BY <1>1
    <2>3. QED
      BY <1>8, <2>1, <2>2 DEF Reverts!Word
  <1>10. Len(body) = Len(after) - WordSize
    <2> HIDE DEF after
    <2>1. QED
      BY <1>1, <1>6, <1>7, RestElements
  <1> HIDE DEF after, length, body
  <1>11. offset + WordSize + length <= size /\ length <= size
    BY <1>1, <1>2, <1>4, <1>6, <1>8, <1>10
  <1>12. StringAt(payload, offset, length)
    <2>1. SubSeq(payload, 1, WordSize) = WordOf(offset)
      BY <1>1, <1>4 DEF Reverts!Word
    <2>2. QED
      BY <1>3, <1>9, <1>11, <2>1 DEF StringAt, size
  <1>13. offset \in 0..Len(payload) /\ length \in 0..Len(payload)
    BY <1>1, <1>4, <1>5, <1>8, <1>11 DEF size
  <1>14. QED
    BY <1>12, <1>13

\* From what is shown of a value of one word, its word can be told: only the zeros
\* an address or a truth value begins with are left out.
LEMMA ShownTells ==
    ASSUME NEW word \in Seq(Nat), Len(word) = WordSize, NEW type \in Elementary, IsValue(word, type)
    PROVE  Restored(Reverts!Rendered(word, type).of) = word
  <1> DEFINE of == Reverts!Rendered(word, type).of
  <1>1. WordSize \in Nat /\ WordSize > 1
    BY RecordAssumption
  <1>2. ASSUME of = word PROVE Restored(of) = word
    <2> DEFINE zeros == Zeros(WordSize - Len(of))
    <2>1. zeros \in Seq(Nat) /\ Len(zeros) = 0
      BY <1>1, <1>2 DEF Zeros
    <2>2. zeros \o word = word
      <3> HIDE DEF zeros, of
      <3>1. /\ zeros \o word \in Seq(Nat) /\ Len(zeros \o word) = Len(zeros) + Len(word)
            /\ \A i \in 1..Len(word) : (zeros \o word)[Len(zeros) + i] = word[i]
        BY <2>1, JoinElements
      <3>2. Len(zeros \o word) = Len(word) /\ \A i \in 1..Len(word) : (zeros \o word)[i] = word[i]
        BY <2>1, <3>1
      <3>3. QED
        BY <3>1, <3>2, SameElements
    <2>3. QED
      BY <1>2, <2>2 DEF Restored
  <1>3. CASE type \in {"uint", "int", "bytesN"}
    <2>1. of = word
      BY <1>3 DEF Reverts!Rendered, Reverts!Numbers, Reverts!Dynamic, Reverts!Shown
    <2>2. QED
      BY <1>2, <2>1
  <1>4. CASE type = "address"
    <2> DEFINE zeros == Zeros(1)
    <2>1. of = SubSeq(word, 2, WordSize)
      BY <1>4 DEF Reverts!Rendered, Reverts!Numbers, Reverts!Dynamic, Reverts!Shown
    <2>2. word[1] = 0
      BY <1>4 DEF IsValue
    <2> HIDE DEF of
    <2>3. /\ of \in Seq(Nat) /\ Len(of) = WordSize - 1
          /\ \A i \in 1..(WordSize - 1) : of[i] = word[1 + i]
      <3>1. 2 \in Nat \ {0} /\ 2 <= WordSize + 1 /\ WordSize <= Len(word)
        BY <1>1
      <3>2. /\ of \in Seq(Nat) /\ Len(of) = WordSize + 1 - 2
            /\ \A i \in 1..(WordSize + 1 - 2) : of[i] = word[2 - 1 + i]
        BY <1>1, <2>1, <3>1, PieceFrom, SMTT(30)
      <3>3. WordSize + 1 - 2 = WordSize - 1 /\ \A i \in Int : 2 - 1 + i = 1 + i
        BY <1>1
      <3>4. QED
        BY <1>1, <3>2, <3>3
    <2>4. zeros \in Seq(Nat) /\ Len(zeros) = 1 /\ zeros[1] = 0 /\ 1 \in 1..1
      BY DEF Zeros
    <2>5. Restored(of) = zeros \o of
      <3>1. WordSize - Len(of) = 1
        BY <1>1, <2>3
      <3>2. QED
        BY <3>1 DEF Restored
    <2> HIDE DEF zeros
    <2>6. /\ zeros \o of \in Seq(Nat) /\ Len(zeros \o of) = Len(zeros) + Len(of)
          /\ \A i \in 1..Len(zeros) : (zeros \o of)[i] = zeros[i]
          /\ \A i \in 1..Len(of) : (zeros \o of)[Len(zeros) + i] = of[i]
      BY <2>3, <2>4, JoinElements
    <2>7. Len(zeros \o of) = Len(word)
      BY <1>1, <2>3, <2>4, <2>6
    <2>8. ASSUME NEW i \in 1..Len(word) PROVE (zeros \o of)[i] = word[i]
      <3>1. CASE i = 1
        BY <2>2, <2>4, <2>6, <3>1
      <3>2. CASE i # 1
        <4>1. i - 1 \in 1..(WordSize - 1) /\ i - 1 \in 1..Len(of) /\ 1 + (i - 1) = i
          BY <1>1, <2>3, <3>2
        <4>2. QED
          BY <2>3, <2>4, <2>6, <4>1
      <3>3. QED
        BY <3>1, <3>2
    <2>9. zeros \o of = word
      BY <2>6, <2>7, <2>8, SameElements
    <2>10. QED
      BY <2>5, <2>9 DEF of
  <1>5. CASE type = "bool"
    <2>1. PICK n \in {0, 1} : word = WordOf(n)
      BY <1>5 DEF IsValue
    <2> DEFINE some == \E i \in 1..WordSize : word[i] # 0
    <2>2. of = IF some THEN << 1 >> ELSE << 0 >>
      BY <1>5 DEF Reverts!Rendered, Reverts!Numbers, Reverts!Dynamic, Reverts!Shown
    <2>3. some <=> n = 1
      <3>1. word[WordSize] = n /\ \A i \in 1..(WordSize - 1) : word[i] = 0
        <4>1. n \in Nat
          OBVIOUS
        <4>2. WordOf(n)[WordSize] = n /\ \A i \in 1..(WordSize - 1) : WordOf(n)[i] = 0
          BY <4>1, WordElements
        <4>3. QED
          BY <2>1, <4>2
      <3>2. WordSize \in 1..WordSize /\ \A i \in 1..WordSize : i = WordSize \/ i \in 1..(WordSize - 1)
        BY <1>1
      <3>3. QED
        BY <3>1, <3>2
    <2> HIDE DEF some, of
    <2>4. of = << n >>
      BY <2>2, <2>3
    <2>5. WordOf(n) = Zeros(WordSize - 1) \o << n >>
      <3>1. Zeros(WordSize - 1) \in Seq(Nat)
        BY <1>1 DEF Zeros
      <3> DEFINE zeros == Zeros(WordSize - 1)
      <3> HIDE DEF zeros
      <3>2. Append(zeros, n) = zeros \o << n >>
        BY <3>1 DEF zeros
      <3>3. QED
        BY <3>2 DEF WordOf, zeros
    <2>6. Restored(of) = word
      BY <2>1, <2>4, <2>5 DEF Restored
    <2>7. QED
      BY <2>6 DEF of
  <1>6. QED
    BY <1>3, <1>4, <1>5 DEF Elementary

\* Without arrays of a fixed length before them, parameters and words of the
\* payload go together.
LEMMA HeadIsWord ==
    ASSUME NEW payload \in Seq(Nat), NEW inputs, NEW i \in Nat \ {0}, FixedBefore(inputs, i) = {},
           i * WordSize <= Len(payload)
    PROVE  /\ HeadWord(payload, inputs, i) = Reverts!Word(payload, (i - 1) * WordSize)
           /\ Reverts!Word(payload, (i - 1) * WordSize) \in Seq(Nat)
           /\ Len(Reverts!Word(payload, (i - 1) * WordSize)) = WordSize
  <1> DEFINE size == Len(payload)
             at == (i - 1) * WordSize
  <1>1. WordSize \in Nat /\ size \in Nat
    BY RecordAssumption
  <1>2. i - 1 + Cardinality(FixedBefore(inputs, i)) = i - 1
    <2>1. Cardinality(FixedBefore(inputs, i)) = 0
      BY FS_EmptySet
    <2>2. QED
      BY <2>1
  <1>3. HeadWord(payload, inputs, i) = Reverts!Word(payload, at)
    BY <1>2 DEF HeadWord, Reverts!Word
  <1>4. at \in Nat /\ at + WordSize <= size
    <2>1. i - 1 \in Nat /\ i = (i - 1) + 1
      OBVIOUS
    <2>2. at \in Nat
      BY <1>1, <2>1
    <2>3. i * WordSize = (i - 1) * WordSize + WordSize
      BY <1>1
    <2>4. QED
      BY <2>2, <2>3
  <1> DEFINE first == at + 1
             last == at + WordSize
  <1> HIDE DEF at, size
  <1>5. /\ first \in Nat \ {0} /\ last \in Nat /\ first <= last + 1 /\ last <= size
        /\ last + 1 - first = WordSize
    BY <1>1, <1>4
  <1> HIDE DEF first, last
  <1>6. SubSeq(payload, first, last) \in Seq(Nat) /\ Len(SubSeq(payload, first, last)) = last + 1 - first
    BY <1>5, PieceFrom DEF size
  <1>7. Reverts!Word(payload, at) \in Seq(Nat) /\ Len(Reverts!Word(payload, at)) = WordSize
    BY <1>5, <1>6 DEF Reverts!Word, first, last
  <1>8. QED
    BY <1>3, <1>7 DEF at

\* There is one argument for each word and parameter, shown as its type says.
LEMMA ArgsAreWords ==
    ASSUME NEW payload \in Seq(Nat), NEW types \in Seq(Types), NEW args,
           args = Reverts!CustomErrorArgs(payload, types)
    PROVE  /\ DOMAIN args = {i \in DOMAIN types : i * WordSize <= Len(payload)}
           /\ \A i \in DOMAIN args :
                 args[i] = Reverts!Rendered(Reverts!Word(payload, (i - 1) * WordSize), types[i])
  <1>1. DOMAIN types = 1..Len(types)
    OBVIOUS
  <1>2. QED
    BY <1>1 DEF Reverts!CustomErrorArgs

\* What a contract declares is no error of the language, and its entry is typed.
LEMMA DeclaredErrors ==
    ASSUME NEW abi \in Abi, NEW i \in Errors(abi), ErrorsAreOwn
    PROVE  abi[i].name \notin {"Error", "Panic"} /\ abi[i].inputs \in Seq(Types)
  <1>1. abi \in Abis
    <2>1. abi # << >>
      BY DEF Errors
    <2>2. QED
      BY <2>1 DEF Abi
  <1>2. i \in DOMAIN abi /\ abi[i].kind = "error"
    BY DEF Errors
  <1>3. abi[i] \in Entry
    <2> DEFINE E == Entry
    <2>1. Abis \subseteq Seq(E)
      BY DataAssumption
    <2> HIDE DEF E
    <2>2. abi \in Seq(E)
      BY <1>1, <2>1, Zenon
    <2>3. abi[i] \in E
      BY <1>2, <2>2
    <2>4. QED
      BY <2>3 DEF E
  <1>4. QED
    BY <1>1, <1>2, <1>3 DEF Entry, ErrorsAreOwn

\* The registry has no entry for the errors of the language.
LEMMA RegistryIsOwn ==
    ASSUME NEW abi \in Abi, ErrorsAreOwn, NoneIsNoData
    PROVE  Registry(abi) \cap {Reverts!ErrorString, Reverts!PanicUint256, None} = {}
  <1> SUFFICES ASSUME NEW i \in Errors(abi)
               PROVE  Reverts!Signature(abi[i].name, abi[i].inputs)
                          \notin {Reverts!ErrorString, Reverts!PanicUint256, None}
    BY DEF Registry
  <1>1. abi[i].name \notin {"Error", "Panic"}
    BY DeclaredErrors
  <1>2. Reverts!Signature(abi[i].name, abi[i].inputs) # None
    BY DEF NoneIsNoData
  <1>3. QED
    BY <1>1, <1>2 DEF Reverts!Signature, Reverts!ErrorString, Reverts!PanicUint256

\* What a declared error reverts with is no error of the language, and in the
\* registry unless the error has a struct.
LEMMA SelectorOfError ==
    ASSUME NEW abi \in Abi, NEW i \in Errors(abi), ErrorsAreOwn, NoneIsNoData
    PROVE  /\ Selector(abi[i]) \notin {Reverts!ErrorString, Reverts!PanicUint256, None}
           /\ (\E j \in DOMAIN abi[i].inputs : abi[i].inputs[j] = "tuple") => Selector(abi[i]) \notin Registry(abi)
           /\ ~(\E j \in DOMAIN abi[i].inputs : abi[i].inputs[j] = "tuple") =>
                 Selector(abi[i]) \in Registry(abi) /\ Selector(abi[i]).types = abi[i].inputs
  <1> DEFINE inputs == abi[i].inputs
             spelled == [j \in DOMAIN inputs |-> IF inputs[j] = "tuple" THEN "(...)" ELSE inputs[j]]
  <1>1. abi[i].name \notin {"Error", "Panic"} /\ inputs \in Seq(Types)
    BY DeclaredErrors
  <1>2. Selector(abi[i]) = Reverts!Signature(abi[i].name, spelled)
    BY DEF Selector
  <1>3. Selector(abi[i]) \notin {Reverts!ErrorString, Reverts!PanicUint256, None}
    BY <1>1, <1>2 DEF Reverts!Signature, Reverts!ErrorString, Reverts!PanicUint256, NoneIsNoData
  <1>4. ASSUME NEW j \in DOMAIN inputs, inputs[j] = "tuple" PROVE Selector(abi[i]) \notin Registry(abi)
    <2>1. SUFFICES ASSUME NEW k \in Errors(abi),
                          Reverts!Signature(abi[k].name, abi[k].inputs) = Reverts!Signature(abi[i].name, spelled)
                   PROVE  FALSE
      BY <1>2 DEF Registry
    <2>2. abi[k].inputs = spelled
      BY <2>1 DEF Reverts!Signature
    <2>3. abi[k].inputs \in Seq(Types)
      BY DeclaredErrors
    <2>4. spelled[j] = "(...)" /\ j \in DOMAIN spelled
      BY <1>4
    <2> HIDE DEF spelled, inputs
    <2>5. "(...)" \in Types
      BY <2>2, <2>3, <2>4
    <2>6. QED
      BY <2>5 DEF Types
  <1>5. ASSUME ~\E j \in DOMAIN inputs : inputs[j] = "tuple"
        PROVE  Selector(abi[i]) \in Registry(abi) /\ Selector(abi[i]).types = inputs
    <2>1. spelled = inputs
      <3>1. inputs = [j \in DOMAIN inputs |-> inputs[j]]
        BY <1>1
      <3>2. spelled = [j \in DOMAIN inputs |-> inputs[j]]
        BY <1>5
      <3>3. QED
        BY <3>1, <3>2
    <2> HIDE DEF spelled
    <2>2. Selector(abi[i]) = Reverts!Signature(abi[i].name, inputs)
      BY <1>2, <2>1
    <2>3. Selector(abi[i]) \in Registry(abi)
      BY <2>2 DEF Registry
    <2>4. QED
      BY <2>2, <2>3 DEF Reverts!Signature
  <1>6. QED
    BY <1>3, <1>4, <1>5

\* The payload of an output is one of bytes.
LEMMA OutputIsBytes == ASSUME NEW output \in Output PROVE output.payload \in Seq(Nat)
  <1> DEFINE P == Seq(Nat)
  <1>1. \A o \in Outputs : o.payload \in P
    BY DataAssumption
  <1>2. Reverts!NoOutput.payload \in P
    BY DEF Reverts!NoOutput
  <1> HIDE DEF P
  <1>3. output.payload \in P
    BY <1>1, <1>2 DEF Output
  <1>4. QED
    BY <1>3 DEF P

\* The kinds of reasons are told apart. The text of a string is shown if there is
\* a string in the payload.
LEMMA StringReason ==
    ASSUME NEW output, NEW registry, NoneIsNoData, output.payload \in Seq(Nat),
           Reverts!ErrorString \notin registry, output.selector = Reverts!ErrorString
    PROVE  StringShown(output, Reverts!DecodeRevert(output, registry))
  <1> DEFINE payload == output.payload
             Sizes == 0..Len(payload)
             string == Reverts!ErrorStringPayload(payload)
             error == Reverts!DecodeRevert(output, registry)
  <1>1. output.selector # None /\ output.selector # Reverts!PanicUint256
    BY DEF Reverts!ErrorString, Reverts!PanicUint256, Reverts!Signature, NoneIsNoData
  <1>2. output # Reverts!NoOutput
    BY <1>1 DEF Reverts!NoOutput
  <1>3. error = IF string = None THEN Raw(output) ELSE Reverts!Decoded("Revert", string)
    BY <1>1, <1>2 DEF Reverts!DecodeRevert, Raw
  <1> HIDE DEF error, string
  <1>4. ASSUME NEW offset \in Sizes, NEW length \in Sizes, StringAt(payload, offset, length)
        PROVE  error = Reverts!Decoded("Revert", Reverts!Lossy(StringOf(payload, offset, length)))
    <2>1. offset \in Nat /\ length \in Nat
      OBVIOUS
    <2>2. string = Reverts!Lossy(StringOf(payload, offset, length))
      BY <1>4, <2>1, StringIsRead DEF string
    <2>3. StringOf(payload, offset, length) \in Seq(Nat)
      <3> DEFINE first == offset + WordSize + 1
                 last == offset + WordSize + length
                 size == Len(payload)
      <3>1. WordSize \in Nat /\ last <= size /\ size \in Nat
        BY <1>4, RecordAssumption DEF StringAt
      <3> HIDE DEF size
      <3>2. first \in Nat \ {0} /\ last \in Nat /\ first <= last + 1
        BY <2>1, <3>1
      <3> HIDE DEF first, last
      <3>3. SubSeq(payload, first, last) \in Seq(Nat)
        BY <3>1, <3>2, PieceFrom DEF size
      <3>4. QED
        BY <3>3 DEF StringOf, first, last
    <2>4. string # None
      BY <2>2, <2>3, TextIsText
    <2>5. QED
      BY <1>3, <2>2, <2>4
  <1>5. ASSUME ~\E offset, length \in Sizes : StringAt(payload, offset, length)
        PROVE  error = Raw(output)
    BY <1>3, <1>5, ReadIsString DEF string
  <1>6. StringShown(output, error)
    BY <1>4, <1>5, Zenon DEF StringShown
  <1>7. QED
    BY <1>6 DEF error

\* A panic code is the last byte of its word.
LEMMA PanicReason ==
    ASSUME NEW registry, NEW code \in Byte, NEW output, Reverts!PanicUint256 \notin registry,
           output = [selector |-> Reverts!PanicUint256, payload |-> WordOf(code)]
    PROVE  Reverts!DecodeRevert(output, registry) = Reverts!Decoded("Panic", code)
  <1>1. code \in Nat /\ WordSize \in Nat /\ WordSize > 1
    BY RecordAssumption
  <1>2. /\ output.payload \in Seq(Nat) /\ Len(output.payload) = WordSize
        /\ output.payload[WordSize] = code
    BY <1>1, WordElements
  <1>3. output.payload # << >> /\ Len(output.payload) >= WordSize
    BY <1>1, <1>2
  <1>4. output # Reverts!NoOutput
    BY <1>3 DEF Reverts!NoOutput
  <1>5. output.selector = Reverts!PanicUint256 /\ output.selector # Reverts!ErrorString
    BY DEF Reverts!ErrorString, Reverts!PanicUint256, Reverts!Signature
  <1>6. QED
    BY <1>2, <1>3, <1>4, <1>5 DEF Reverts!DecodeRevert

\* A declared error is shown with its arguments, or raw when it has a struct.
LEMMA ErrorReason ==
    ASSUME NEW abi \in Abi, NEW i \in Errors(abi), NEW output, ErrorsAreOwn, NoneIsNoData,
           output.payload \in Seq(Nat), output.selector = Selector(abi[i])
    PROVE  ErrorShown(abi[i], output, Reverts!DecodeRevert(output, Registry(abi)))
  <1> DEFINE entry == abi[i]
             inputs == entry.inputs
             payload == output.payload
             registry == Registry(abi)
             error == Reverts!DecodeRevert(output, registry)
             args == Reverts!CustomErrorArgs(payload, inputs)
             struct == \E j \in DOMAIN inputs : inputs[j] = "tuple"
  <1>1. /\ output.selector \notin {Reverts!ErrorString, Reverts!PanicUint256, None}
        /\ struct => output.selector \notin registry
        /\ ~struct => output.selector \in registry /\ output.selector.types = inputs
    BY SelectorOfError
  <1>2. inputs \in Seq(Types)
    BY DeclaredErrors
  <1>3. output # Reverts!NoOutput
    BY <1>1 DEF Reverts!NoOutput
  <1> HIDE DEF registry, entry, struct
  <1>4. ASSUME struct PROVE error = Raw(output)
    BY <1>1, <1>3, <1>4 DEF Reverts!DecodeRevert, Raw
  <1>5. ASSUME ~struct PROVE error = Reverts!Decoded("CustomError", << output.selector, args >>)
    BY <1>1, <1>3, <1>5 DEF Reverts!DecodeRevert
  <1>6. /\ DOMAIN args = {j \in DOMAIN inputs : j * WordSize <= Len(payload)}
        /\ \A j \in DOMAIN args :
              args[j] = Reverts!Rendered(Reverts!Word(payload, (j - 1) * WordSize), inputs[j])
    BY <1>2, ArgsAreWords
  <1> HIDE DEF args, error
  <1>7. ASSUME NEW j \in DOMAIN args, inputs[j] \in Elementary, FixedBefore(inputs, j) = {},
               IsValue(HeadWord(payload, inputs, j), inputs[j])
        PROVE  Restored(args[j].of) = HeadWord(payload, inputs, j)
    <2> DEFINE word == Reverts!Word(payload, (j - 1) * WordSize)
    <2>1. j \in Nat \ {0} /\ j * WordSize <= Len(payload)
      BY <1>2, <1>6
    <2>2. HeadWord(payload, inputs, j) = word /\ word \in Seq(Nat) /\ Len(word) = WordSize
      BY <1>7, <2>1, HeadIsWord
    <2>3. args[j] = Reverts!Rendered(word, inputs[j])
      BY <1>6
    <2> HIDE DEF word
    <2>4. Restored(Reverts!Rendered(word, inputs[j]).of) = word
      BY <1>7, <2>2, ShownTells
    <2>5. QED
      BY <2>2, <2>3, <2>4
  <1>8. ASSUME ~struct
        PROVE  /\ error.kind = "CustomError" /\ error.message[1] = Selector(entry)
               /\ error.message[2] = args
    BY <1>5, <1>8 DEF Reverts!Decoded, entry
  <1>9. ErrorShown(entry, output, error)
    BY <1>4, <1>6, <1>7, <1>8 DEF ErrorShown, struct
  <1>10. QED
    BY <1>9 DEF entry, error, registry

\* Whatever a transaction reverts with, a complete trace shows it as the reason:
\* the text of a string of any length at any offset, and the bytes of what holds
\* no string; panic codes; and of each error the contract declares the values of
\* its elementary arguments up to the first array of a fixed length, but an error
\* with a struct as its bytes (revert_decode.rs:148).
THEOREM ReasonIsShown ==
    ASSUME NoneIsNoReason, NoneIsNoData, ErrorsAreOwn
    PROVE  Spec => []ReasonShown
  <1>1. ASSUME FInv PROVE ReasonShown
    <2> SUFFICES ASSUME Closed, OfThisRun, run.failed
                 PROVE  /\ run.output.selector = Reverts!ErrorString => StringShown(run.output, trace.error)
                        /\ \A code \in Byte :
                              run.output = [selector |-> Reverts!PanicUint256, payload |-> WordOf(code)]
                                 => trace.error = Reverts!Decoded("Panic", code)
                        /\ \A i \in Errors(run.abi) :
                              run.output.selector = Selector(run.abi[i])
                                 => ErrorShown(run.abi[i], run.output, trace.error)
      BY DEF ReasonShown
    <2>1. Done
      BY <1>1 DEF FInv, PInv, Progress, Done
    <2>2. /\ trace.error = Reverts!DecodeRevert(run.output, Registry(run.abi))
          /\ run.abi \in Abi /\ run.output \in Output
      BY <1>1, <2>1 DEF FInv, Facts
    <2>3. Reverts!ErrorString \notin Registry(run.abi) /\ Reverts!PanicUint256 \notin Registry(run.abi)
      BY <2>2, RegistryIsOwn
    <2>4. run.output.payload \in Seq(Nat)
      BY <2>2, OutputIsBytes
    <2>5. ASSUME run.output.selector = Reverts!ErrorString PROVE StringShown(run.output, trace.error)
      BY <2>2, <2>3, <2>4, <2>5, StringReason
    <2>6. ASSUME NEW code \in Byte,
                 run.output = [selector |-> Reverts!PanicUint256, payload |-> WordOf(code)]
          PROVE  trace.error = Reverts!Decoded("Panic", code)
      BY <2>2, <2>3, <2>6, PanicReason
    <2>7. ASSUME NEW i \in Errors(run.abi), run.output.selector = Selector(run.abi[i])
          PROVE  ErrorShown(run.abi[i], run.output, trace.error)
      BY <2>2, <2>4, <2>7, ErrorReason
    <2>8. QED
      BY <2>5, <2>6, <2>7
  <1>2. QED
    BY <1>1, FactsInvariant, PTL

=============================================================================
