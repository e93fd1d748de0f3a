------------------------------ MODULE Sourcify ------------------------------
\* The artifacts of a verified contract (source_fetcher.rs): what Sourcify answers,
\* how solc is called again, and which of the contracts solc reports is kept. A
\* result says what it is: "none" (not verified), "failed", or "start" with what
\* was asked for.
\*
\* A response has a file per source, [kind, path, text], where paths are numbers
\* in the order solc sorts them, and a body that is no JSON has none of the known
\* statuses. solc is the outcome of the recompilation, of writing the sources for
\* it and of reading what it prints. A contract that is not `linked' has the names
\* of libraries in its bytecode, which is then no hex.
EXTENDS Options

Missing == [is |-> "none"]
Failed == [is |-> "failed"]

ParseSourcifyResponse(response) ==
    LET OfKinds(kinds) == Only(response.files, {f \in Range(response.files) : f.kind \in kinds})
    IN  IF response.status \notin {"full", "partial"} THEN Failed
        ELSE [is |-> "start", metadata |-> OfKinds({"metadata"}), sources |-> OfKinds({"sol", "vy"})]

\* The code of the answer, NoAnswer if the request failed.
NoAnswer == 0
IsSuccess(http) == http \in 200..299

FetchSourcifyFiles(response) ==
    IF response.http = 404 THEN Missing
    ELSE IF IsSuccess(response.http) THEN ParseSourcifyResponse(response)
    ELSE Failed

\* Metadata that is no JSON, or has no version of a compiler, has no text here.
IsMetadata(text) == text # None

\* solc's own defaults where the metadata says nothing.
ParseMetadataSettings(metadata) ==
    LET Or(value, default) == IF value = None THEN default ELSE value
    IN  [optimizer_enabled |-> Or(metadata.enabled, FALSE),
         optimizer_runs |-> Or(metadata.runs, 200),
         evm_version |-> metadata.evm]

\* The flags of the call: the number of runs goes with the optimizer.
Flags(settings) ==
    [optimize |-> IF settings.optimizer_enabled THEN settings.optimizer_runs ELSE None,
     evm |-> settings.evm_version]

\* Mutant of PickContract: the first contract, with code or without.
MutPickContract(contracts, preferred) ==
    LET named == {i \in DOMAIN contracts : contracts[i].name = preferred}
    IN  IF preferred # None THEN named
        ELSE IF contracts # << >> THEN {1} ELSE {}

\* Where to look: the contracts of the name asked for; or else those with code,
\* or else all of them. The first one is taken.
PickContract(contracts, preferred) ==
    LET named == {i \in DOMAIN contracts : contracts[i].name = preferred}
        runnable == {i \in DOMAIN contracts : DOMAIN contracts[i].code # {}}
    IN  IF preferred # None THEN named
        ELSE IF runnable # {} THEN runnable ELSE DOMAIN contracts

\* The last metadata is the one kept. Paths and texts are those of the bundle, in
\* its order.
CompileSourcifyBundle(bundle, solc, preferred) ==
    LET hits == PickContract(solc.contracts, preferred)
        picked == solc.contracts[Min(hits)]
    IN
    CASE bundle.metadata = << >> \/ bundle.sources = << >> -> Failed
      [] bundle.metadata # << >> /\ ~IsMetadata(Last(bundle.metadata).text) -> Failed
      [] ~solc.success \/ \E i \in DOMAIN bundle.sources : bundle.sources[i].kind = "vy" -> Failed
      [] hits = {} -> Failed
      [] hits # {} /\ (~picked.linked \/ DOMAIN picked.code = {} \/ picked.srcmap = << >>) -> Failed
      [] OTHER -> [is |-> "start", code |-> picked.code, srcmap |-> picked.srcmap,
                   flags |-> Flags(ParseMetadataSettings(Last(bundle.metadata).text)),
                   paths |-> [i \in DOMAIN bundle.sources |-> bundle.sources[i].path],
                   texts |-> [i \in DOMAIN bundle.sources |-> bundle.sources[i].text]]

FetchContractSource(response, solc, preferred) ==
    LET bundle == FetchSourcifyFiles(response)
    IN  IF bundle.is # "start" THEN bundle ELSE CompileSourcifyBundle(bundle, solc, preferred)
=============================================================================
