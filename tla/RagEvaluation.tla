--------------------------- MODULE RagEvaluation ---------------------------
(***************************************************************************)
(* The offline evaluation of retrieval (evaluation/, tools/rag_evaluation, *)
(* observability/artifacts).  A live run asks every golden case of the     *)
(* system and scores the answers against the chunks of one release; a      *)
(* semantic run judges the rows of such a run; a registration copies the   *)
(* outcome of a semantic run to the database.  Each is a command of its    *)
(* own that leaves files behind, one atomic write after the other, and can *)
(* die between any two of them; a run id may be used again.                *)
(*                                                                         *)
(* A file is its content, a hash the content itself.  An answer is the set *)
(* of terms that occur in it.                                              *)
(***************************************************************************)
EXTENDS Naturals, Sequences, SequencesExt, FiniteSets, Functions, Common

CONSTANTS
  Goldens,     \* versions of the golden set: sequences of cases
  Responses,   \* bound: what a search or the knowledge agent may return
  Outputs,     \* bound: what the judge may say of a sample
  IndexBuilds,
  Published,   \* builds whose chunk manifest is published ...
  ChunksOf,    \* ... and the chunks of each
  RunIds,
  MaxCommands  \* bound: runs started

ASSUME RagAssumption == \A g \in Goldens : g \in Seq(Range(g))

RagScopes == {"rag_e2e", "rag_retrieval"}
FailureStatuses == {"configuration_error", "dependency_unavailable",
                    "remote_execution_error", "evaluation_error"}

VARIABLES
  goldenFiles, \* eval_inputs/rag/<suite>/<run>/golden.jsonl
  artifact,    \* evals/rag/<suite>/<run>/: manifest, cases, summary
  evalRuns,    \* eval_runs and eval_case_results
  command,     \* the running command
  commands,    \* runs started
  writers      \* history: whether no, one or more commands wrote to an artifact

ragVars == <<goldenFiles, artifact, evalRuns, command, commands, writers>>

NoCommand == [stage |-> "idle"]
NoArtifact == [manifest |-> None, cases |-> None, summary |-> None]

RagInit ==
  /\ goldenFiles = [r \in RunIds |-> None]
  /\ artifact = [r \in RunIds |-> NoArtifact]
  /\ evalRuns = [r \in RunIds |-> None]
  /\ command = NoCommand
  /\ commands = 0
  /\ writers = [r \in RunIds |-> "none"]

(* The elements of a sequence at the places K, in their order.             *)
Selection(s, K) ==
  LET kept[n \in 0..Len(s)] ==
        IF n = 0 THEN <<>> ELSE IF n \in K THEN Append(kept[n - 1], s[n]) ELSE kept[n - 1]
  IN  kept
Select(s, K) == Selection(s, K)[Len(s)]

Started(c) == /\ command = NoCommand
              /\ commands < MaxCommands
              /\ commands' = commands + 1
              /\ command' = c

AtStage(stage) == command.stage = stage
Goto(stage) == command' = [command EXCEPT !.stage = stage]

(* An exception and a crash leave the same: the files written so far.      *)
Dies == /\ command # NoCommand
        /\ command' = NoCommand
        /\ UNCHANGED <<goldenFiles, artifact, evalRuns, commands, writers>>

(* _atomic_write of one file of the command's artifact.                    *)
Write(file, content) ==
  /\ artifact' = [artifact EXCEPT ![command.run][file] = content]
  /\ UNCHANGED <<goldenFiles, evalRuns, commands>>

FirstWrite ==
  writers' = [writers EXCEPT ![command.run] = IF @ = "none" THEN "one" ELSE "more"]

-----------------------------------------------------------------------------
(* run_live_rag_suite                                                      *)

Selected(g) == Select(g, {i \in DOMAIN g : g[i].scope \in RagScopes})

BeginLive(r, g, build) ==
  /\ Selected(g) # <<>>
  /\ Started([stage |-> "asking", kind |-> "live", run |-> r, golden |-> Selected(g),
              build |-> build, results |-> <<>>])
  /\ goldenFiles' = [goldenFiles EXCEPT ![r] = Selected(g)]
  /\ UNCHANGED <<artifact, evalRuns, writers>>

Answered(case, response) ==
  [id |-> case.id, docs |-> response.docs, answer |-> response.answer,
   chunks |-> response.chunks, build |-> response.build]

(* A search that raised is a row like any other; rows of two releases end  *)
(* the run.                                                                *)
AskSystem(response) ==
  /\ AtStage("asking")
  /\ LET i == Len(command.results) + 1
         build == IF command.build = None THEN response.build ELSE command.build
     IN  /\ i <= Len(command.golden)
         /\ response.build \in {build, None}
         /\ command' = [command EXCEPT !.build = build,
              !.results = Append(@, Answered(command.golden[i], response))]
  /\ UNCHANGED <<goldenFiles, artifact, evalRuns, commands, writers>>

(* validate_rows: every id once, as far as it is not so by construction.   *)
ValidRows(g) == IsInjective([i \in DOMAIN g |-> g[i].id])

Capture ==
  /\ AtStage("asking")
  /\ Len(command.results) = Len(command.golden)
  /\ ValidRows(command.golden)
  /\ command.build \in Published
  /\ Goto("scored")
  /\ UNCHANGED <<goldenFiles, artifact, evalRuns, commands, writers>>

EvidencePasses(answer, expected) == expected \subseteq answer
IsRefusal(answer) == "refusal" \in answer
DocumentRank(docs, expected) == {i \in DOMAIN docs : docs[i] \in expected}

(* evaluate_rows of one case                                               *)
RowPassed(case, result) ==
  IF case.unanswerable
  THEN result.docs = <<>> /\ IsRefusal(result.answer)
  ELSE /\ DocumentRank(result.docs, case.docs) # {}
       /\ EvidencePasses(result.answer, case.evidence)

Scored(case, result) ==
  [id |-> result.id, docs |-> result.docs, answer |-> result.answer, chunks |-> result.chunks,
   build |-> result.build, passed |-> RowPassed(case, result)]
(* Rows are tagged with the kind of run that wrote them.                   *)
CaseResults ==
  <<"live", [i \in DOMAIN command.results |-> Scored(command.golden[i], command.results[i])]>>

WriteLiveCases ==
  /\ AtStage("scored") /\ command.kind = "live"
  /\ Write("cases", CaseResults)
  /\ FirstWrite
  /\ Goto("manifest")

(* The manifest names the rows and the golden set by their hashes.         *)
WriteLiveManifest ==
  /\ AtStage("manifest") /\ command.kind = "live"
  /\ Write("manifest", [kind |-> "live", golden |-> goldenFiles[command.run], goldenRun |-> command.run,
                        build |-> command.build, casesRun |-> command.run, cases |-> CaseResults])
  /\ Goto("summary") /\ UNCHANGED writers

WriteLiveSummary ==
  /\ AtStage("summary") /\ command.kind = "live"
  /\ Write("summary", CaseResults)
  /\ command' = NoCommand /\ UNCHANGED writers

-----------------------------------------------------------------------------
(* run_ragas_suite                                                         *)

SuiteInputError == [suite_input |-> <<[status |-> "input_error"]>>]

(* Mutant of VerifyCaseResults: the rows are there, whatever their hash.   *)
VerifyExistence(manifest) ==
  manifest.kind = "live" /\ artifact[manifest.casesRun].cases # None

(* _verify_case_results_hash: a manifest that names rows, and these rows.  *)
VerifyCaseResults(manifest) ==
  manifest.kind = "live" /\ artifact[manifest.casesRun].cases = manifest.cases

(* The rows are then read from the file, the golden set only if it is      *)
(* still what the manifest names.                                          *)
BeginSemantic(source, r) ==
  LET manifest == artifact[source].manifest
  IN  /\ manifest # None
      /\ IF VerifyCaseResults(manifest)
         THEN /\ manifest.build \in Published
              /\ goldenFiles[manifest.goldenRun] = manifest.golden
              /\ Started([stage |-> "judging", kind |-> "semantic", run |-> r, source |-> source,
                          input |-> manifest, rows |-> artifact[manifest.casesRun].cases[2],
                          verified |-> TRUE, judged |-> None])
         ELSE Started([stage |-> "scored", kind |-> "semantic", run |-> r, source |-> source,
                       input |-> manifest, rows |-> <<>>, verified |-> FALSE,
                       judged |-> SuiteInputError])
      /\ UNCHANGED <<goldenFiles, artifact, evalRuns, writers>>

(* _ragas_skip_reason                                                      *)
Skipped(case) == case.unanswerable \/ case.docs = {} \/ case.evidence = {}

(* _to_ragas_sample: the chunks retrieved, each known and named once.      *)
SampleFails(row) ==
  \/ row.chunks = <<>>
  \/ ~IsInjective(row.chunks)
  \/ ~(Range(row.chunks) \subseteq ChunksOf[command.input.build])

CaseOf(id) == CHOOSE case \in Range(command.input.golden) : case.id = id
Scorable == {i \in DOMAIN command.rows :
               ~Skipped(CaseOf(command.rows[i].id)) /\ ~SampleFails(command.rows[i])}
Prepared == Select(command.rows, Scorable)

SemanticRow(row, status, output) ==
  [id |-> row.id, status |-> status, answer |-> row.answer, output |-> output]
FailureRows(rows, status) == [i \in DOMAIN rows |-> SemanticRow(rows[i], status, None)]

(* _completed_row: an output without a numeric metric is a failure.        *)
CompletedRow(row, output) ==
  IF output = "none" THEN SemanticRow(row, "remote_execution_error", None)
                     ELSE SemanticRow(row, "completed", output)
CompletedRows(rows, outputs, n) == [i \in 1..n |-> CompletedRow(rows[i], outputs[i])]

(* Mutant of Judged: the outputs are paired strictly, but not counted      *)
(* before the first pair.                                                  *)
JudgedUncounted(outputs) ==
  CompletedRows(Prepared, outputs, IF Len(outputs) < Len(Prepared) THEN Len(outputs) ELSE Len(Prepared))
  \o IF Len(outputs) = Len(Prepared) THEN <<>> ELSE FailureRows(Prepared, "evaluation_error")

(* Outputs are paired with samples only if there are as many.              *)
Judged(outputs) ==
  IF Len(outputs) = Len(Prepared) THEN CompletedRows(Prepared, outputs, Len(Prepared))
                                  ELSE FailureRows(Prepared, "remote_execution_error")

(* The rows of each case: sorted by their id, at the end.                  *)
ByCase(rows) == [id \in {rows[i].id : i \in DOMAIN rows} |->
                   Select(rows, {i \in DOMAIN rows : rows[i].id = id})]

SetAside(row) ==
  SemanticRow(row, IF Skipped(CaseOf(row.id)) THEN "skipped_not_applicable" ELSE "input_error", None)

Judge(rows) ==
  LET early == Select(command.rows, DOMAIN command.rows \ Scorable)
  IN  /\ AtStage("judging")
      /\ command' = [command EXCEPT !.stage = "scored",
                       !.judged = ByCase([i \in DOMAIN early |-> SetAside(early[i])] \o rows)]
      /\ UNCHANGED <<goldenFiles, artifact, evalRuns, commands, writers>>

(* The backend returns as many outputs as it likes, or raises.             *)
BackendReturns(outputs) == Prepared # <<>> /\ Judge(Judged(outputs))
BackendRaises(status) == Prepared # <<>> /\ Judge(FailureRows(Prepared, status))
NothingToJudge == Prepared = <<>> /\ Judge(<<>>)

(* The manifest of the source is hashed once more, as it is by now.        *)
WriteSemanticManifest ==
  /\ AtStage("scored") /\ command.kind = "semantic"
  /\ Write("manifest", [kind |-> "semantic", source |-> command.source, verified |-> command.verified,
                        sourceManifest |-> artifact[command.source].manifest])
  /\ FirstWrite
  /\ Goto("cases")

WriteSemanticCases ==
  /\ AtStage("cases")
  /\ Write("cases", <<"semantic", command.judged>>)
  /\ Goto("summary") /\ UNCHANGED writers

WriteSemanticSummary ==
  /\ AtStage("summary") /\ command.kind = "semantic"
  /\ Write("summary", <<"semantic", command.judged>>)
  /\ command' = NoCommand /\ UNCHANGED writers

-----------------------------------------------------------------------------
(* persist_ragas_artifact                                                  *)

(* _case_for_persistence: the verdict needs both metrics; a row that is    *)
(* not of a semantic run has no status.                                    *)
Verdict(row) ==
  CASE row.status = "completed" -> CASE row.output = "good" -> "passed"
                                     [] row.output = "poor" -> "failed"
                                     [] OTHER -> "unknown"
    [] row.status = "skipped_not_applicable" -> "skipped"
    [] OTHER -> "error"
Verdicts(cases) ==
  IF cases[1] = "live" THEN [id \in {row.id : row \in Range(cases[2])} |-> "error"]
                       ELSE [id \in DOMAIN cases[2] |-> Verdict(cases[2][id][1])]

Readable(a) ==
  /\ a.manifest # None /\ a.manifest.kind = "semantic" /\ a.manifest.verified
  /\ a.summary # None
  /\ a.cases # None

(* _dataset_version: the golden set of the source's manifest, as it is by  *)
(* now.                                                                    *)
DatasetVersion(manifest) ==
  LET source == artifact[manifest.source].manifest
  IN  IF source.kind = "live" THEN source.golden ELSE None

(* record_existing_run: the run of an id is recorded once.                 *)
RegisterRun(r) ==
  /\ command = NoCommand
  /\ Readable(artifact[r])
  /\ LET a == artifact[r]
     IN  evalRuns' = IF evalRuns[r] # None THEN evalRuns
                     ELSE [evalRuns EXCEPT ![r] =
                            [manifest |-> a.manifest, rows |-> a.cases, summary |-> a.summary,
                             verdicts |-> Verdicts(a.cases), dataset |-> DatasetVersion(a.manifest),
                             writers |-> writers[r]]]
  /\ UNCHANGED <<goldenFiles, artifact, command, commands, writers>>

-----------------------------------------------------------------------------
RagNext ==
  \/ \E r \in RunIds, g \in Goldens, build \in IndexBuilds \cup {None} : BeginLive(r, g, build)
  \/ \E response \in Responses : AskSystem(response)
  \/ Capture \/ WriteLiveCases \/ WriteLiveManifest \/ WriteLiveSummary
  \/ \E source, r \in RunIds : BeginSemantic(source, r)
  \/ AtStage("judging") /\ \E outputs \in BoundedSeq(Outputs, Len(Prepared) + 1) : BackendReturns(outputs)
  \/ AtStage("judging") /\ \E status \in FailureStatuses : BackendRaises(status)
  \/ AtStage("judging") /\ NothingToJudge
  \/ WriteSemanticManifest \/ WriteSemanticCases \/ WriteSemanticSummary
  \/ \E r \in RunIds : RegisterRun(r)
  \/ Dies

RagSpec == RagInit /\ [][RagNext]_ragVars

-----------------------------------------------------------------------------
(* Properties.                                                             *)

(* A semantic run has one row for each row of the live run, whatever the   *)
(* judge returned, and the row of a case is about the answer of that case  *)
(* and scored only if the case can be.                                     *)
EveryCaseHasOneVerdict ==
  command # NoCommand /\ command.kind = "semantic" /\ command.verified /\ ~AtStage("judging") =>
    /\ DOMAIN command.judged = {command.input.cases[2][i].id : i \in DOMAIN command.input.cases[2]}
    /\ \A i \in DOMAIN command.input.cases[2] :
         LET row == command.input.cases[2][i]
             verdicts == command.judged[row.id]
         IN  /\ Len(verdicts) = 1
             /\ verdicts[1].answer = row.answer
             /\ verdicts[1].status = "completed" =>
                  ~CaseOf(row.id).unanswerable /\ row.chunks # <<>>

(* What is registered of an artifact that only one command wrote to is of  *)
(* one run that came to its end: the rows summed up in the summary, about  *)
(* answers that one and the same published release gave to the golden      *)
(* cases the manifest names, and no verdict where the golden set cannot    *)
(* give one, though commands died between any two writes and the live      *)
(* run's id was used again.                                                *)
RegisteredRunsAreWhole ==
  \A r \in RunIds :
    evalRuns[r] # None /\ evalRuns[r].writers = "one" =>
      LET source == evalRuns[r].manifest.sourceManifest
          rows   == evalRuns[r].rows[2]
      IN  /\ evalRuns[r].summary = evalRuns[r].rows
          /\ source.kind = "live" /\ source.build \in Published
          /\ DOMAIN rows = {case.id : case \in Range(source.golden)}
          /\ \A case \in Range(source.golden) :
               evalRuns[r].verdicts[case.id] = "skipped" <=> Skipped(case)
          /\ \A i \in DOMAIN source.cases[2] :
               LET row == source.cases[2][i]
               IN  row.build \in {source.build, None} /\ rows[row.id][1].answer = row.answer
=============================================================================
